----------------------------- MODULE PollingProofs -----------------------------
(* What the proofs about the listener over either store share: the types of  *)
(* what does not depend on the store, the handlers' first steps, and that    *)
(* what a listing says of a status stays true.                               *)
EXTENDS Polling, TLAPS

-----------------------------------------------------------------------------
(* The table of the handlers. *)
LEMMA LookupTypes ==
  ASSUME NEW t \in Txs
  PROVE  /\ Info[t] \in InfoType
         /\ ByAddress(t) \in Users \cup {Nobody}
         /\ Info[t].keyUser \in Users \cup {Nobody}
BY InfoAssumption DEF ByAddress, InfoType

(* A handler starts with a job of its transaction, at a stage that fits. *)
LEMMA FirstType ==
  ASSUME NEW t \in Txs, NEW s \in Statuses,
         NEW byAddress \in {ByAddress(t), Nobody},
         NEW byKey \in {Info[t].keyUser, Nobody},
         NEW job, job = First(t, s, byAddress, byKey)
  PROVE  job \in JobType /\ job.tx = t /\ job.status = s /\ job.seen = 0
<1> DEFINE A == Users \cup {Nobody, Platform, PortfolioPlatform}
           Made(j) == \E stage \in Stages, acct \in A : j = Job(t, s, stage, acct)
<1>1. /\ ByAddress(t) \in A
      /\ byKey \in A
      /\ Match(t, byAddress, byKey) \in A
  BY LookupTypes DEF Match
<1>2. FirstDeposit(t, s) \in Stages
  BY DEF FirstDeposit, Stages
<1>3. Made(FirstWithdrawal(t, s, byAddress, byKey))
  BY <1>1 DEF FirstWithdrawal, Stages
<1>4. Made(job)
  BY <1>1, <1>2, <1>3 DEF First, Stages
<1> QED BY <1>4 DEF Job, JobType

-----------------------------------------------------------------------------
(* Types. *)
LEMMA IdleTypes ==
  /\ Idle \in WorkType
  /\ ToFetch \in WorkType
  /\ NotMarked.as = "absent" /\ NotMarked.at = -1
  /\ NotMarked \in EntryType
BY BoundsAssumption DEF Idle, ToFetch, WorkType, NotMarked, EntryType, Statuses

(* The types but for the goroutines and the ledger. *)
Scalars ==
  /\ now \in 0..MaxTime /\ since \in -Lookback..MaxTime /\ faults \in 0..MaxFaults
  /\ status \in [Txs -> Statuses] /\ created \in [Txs -> 0..MaxTime]
  /\ phase \in {"down", "recovering", "running"}
  /\ cache \in [Txs -> EntryType]

PollInv == Scalars /\ work \in [Wallets -> WorkType]

LEMMA PollParts ==
  /\ PollInv <=> PollTypeOK /\ work \in [Wallets -> WorkType]
  /\ PollInv' <=> PollTypeOK' /\ work' \in [Wallets -> WorkType]
BY DEF PollInv, Scalars, PollTypeOK, WorkType

LEMMA PollStart == PollInit => PollInv /\ \A w \in Wallets : work[w] = Idle
<1> USE BoundsAssumption
<1> SUFFICES ASSUME PollInit PROVE PollInv
  BY DEF PollInit
<1>1. work \in [Wallets -> WorkType] /\ cache \in [Txs -> EntryType]
  BY IdleTypes DEF PollInit
<1> QED BY <1>1 DEF PollInit, Statuses, PollInv, Scalars

LEMMA RoundPoll ==
  ASSUME PollInv, Rounds
  PROVE  PollInv' /\ ledger' = ledger
<1> USE BoundsAssumption, IdleTypes
<1>0. Scalars /\ work \in [Wallets -> WorkType]
  BY DEF PollInv
<1>1. CASE Crash
  BY <1>0, <1>1 DEF PollInv, Crash, Fault, Forget, Scalars, prime
<1>2. CASE Restart
  BY <1>0, <1>2 DEF PollInv, Restart, OpenWindow, Scalars, prime
<1>3. CASE EndRecovery
  BY <1>0, <1>3 DEF PollInv, EndRecovery, Forget, Scalars, prime
<1>4. CASE BeginPoll
  BY <1>0, <1>4 DEF PollInv, BeginPoll, OpenWindow, Scalars, prime
<1>5. CASE Cleanup
  BY <1>0, <1>5 DEF PollInv, Cleanup, Scalars, prime
<1>6. CASE Tick
  BY <1>0, <1>6 DEF PollInv, Tick, Scalars, prime
<1> QED BY <1>1, <1>2, <1>3, <1>4, <1>5, <1>6 DEF Rounds

LEMMA PrimePoll ==
  ASSUME PollInv, PrimeActs
  PROVE  PollInv' /\ ledger' = ledger
<1>0. Scalars /\ work \in [Wallets -> WorkType]
  BY DEF PollInv
<1>1. ASSUME NEW t \in Txs, PrimeAppears(t) PROVE PollInv' /\ ledger' = ledger
  <2>1. PICK s \in Statuses : Appear(t, s)
    BY <1>1 DEF PrimeAppears
  <2> QED BY <1>0, <1>1, <2>1 DEF PollInv, PrimeAppears, Appear, Scalars
<1>2. ASSUME NEW t \in Txs, PrimeMoves(t) PROVE PollInv' /\ ledger' = ledger
  BY <1>0, <1>2 DEF PollInv, PrimeMoves, Scalars
<1> QED BY <1>1, <1>2 DEF PrimeActs

(* A wallet's listing is read, or the next transaction of it is taken. *)
LEMMA ReadPoll ==
  ASSUME PollInv, NEW w \in Wallets,
         Fetch(w) \/ FetchFails(w) \/ TakeNext(w) \/ TakeUnmatched(w)
  PROVE  PollInv' /\ ledger' = ledger
<1>0. /\ Scalars /\ work \in [Wallets -> WorkType]
      /\ work[w] \in WorkType
  BY DEF PollInv
<1>1. CASE Fetch(w)
  <2>1. Listing(w) \subseteq Txs \X Statuses
    BY <1>0 DEF Listing, Scalars
  <2>2. [Idle EXCEPT !.todo = Listing(w)] \in WorkType
    BY <2>1 DEF Idle, WorkType
  <2> QED BY <1>0, <1>1, <2>2 DEF PollInv, Fetch, Scalars, prime
<1>2. CASE FetchFails(w)
  <2>1. [work[w] EXCEPT !.at = "failed"] \in WorkType
    BY <1>0 DEF WorkType
  <2> QED BY <1>0, <1>2, <2>1, BoundsAssumption DEF PollInv, FetchFails, Fault, Scalars, prime
<1>3. ASSUME NEW x \in work[w].todo,
             NEW byAddress \in {ByAddress(x[1]), Nobody},
             NEW byKey \in {Info[x[1]].keyUser, Nobody},
             Take(w, x, byAddress, byKey)
      PROVE  /\ work' \in [Wallets -> WorkType]
             /\ UNCHANGED <<now, prime, ledger, phase, since, cache>>
  <2>1. x[1] \in Txs /\ x[2] \in Statuses
    BY <1>0 DEF WorkType
  <2>2. First(x[1], x[2], byAddress, byKey) \in JobType
    BY <2>1, FirstType
  <2> DEFINE job == IF Processed(x[1]) THEN NoJob ELSE First(x[1], x[2], byAddress, byKey)
             next == [work[w] EXCEPT !.todo = @ \ {x}, !.job = job]
  <2>3. job \in JobType \cup {NoJob}
    BY <2>2
  <2> HIDE DEF job
  <2>4. next \in WorkType
    BY <1>0, <2>3 DEF WorkType
  <2>5. work' = [work EXCEPT ![w] = next]
    BY <1>0, <1>3 DEF Take, job, WorkType
  <2> HIDE DEF next
  <2> QED BY <1>0, <1>3, <2>4, <2>5 DEF Take
<1>4. CASE TakeNext(w)
  <2>1. /\ work' \in [Wallets -> WorkType]
        /\ UNCHANGED <<now, prime, ledger, phase, since, cache>>
    BY <1>3, <1>4 DEF TakeNext
  <2> QED BY <1>0, <1>4, <2>1 DEF PollInv, TakeNext, Scalars, prime
<1>5. CASE TakeUnmatched(w)
  <2>1. /\ work' \in [Wallets -> WorkType]
        /\ UNCHANGED <<now, prime, ledger, phase, since, cache>>
    BY <1>3, <1>5 DEF TakeUnmatched
  <2> QED BY <1>0, <1>5, <2>1, BoundsAssumption DEF PollInv, TakeUnmatched, Fault, Scalars, prime
<1> QED BY <1>1, <1>2, <1>4, <1>5

(* A goroutine that is at a stage has a transaction in hand. *)
LEMMA InHand ==
  ASSUME work \in [Wallets -> WorkType], NEW w \in Wallets, work[w].job.stage # "none"
  PROVE  work[w].job \in JobType /\ work[w].job # NoJob
<1>1. work[w].job \in JobType \cup {NoJob}
  BY DEF WorkType
<1>2. work[w].job # NoJob
  BY DEF NoJob
<1> QED BY <1>1, <1>2

(* A goroutine that goes to another stage. *)
LEMMA GoToJob ==
  ASSUME work \in [Wallets -> WorkType], NEW w \in Wallets, work[w].job \in JobType,
         NEW stage \in Stages, GoTo(w, stage)
  PROVE  /\ work' \in [Wallets -> WorkType]
         /\ \A v \in Wallets : v # w => work'[v] = work[v]
         /\ work'[w].at = work[w].at
         /\ work'[w].todo = work[w].todo
         /\ work'[w].job = [work[w].job EXCEPT !.stage = stage, !.seen = 0]
         /\ work'[w].job \in JobType
<1>1. work[w] \in WorkType
  OBVIOUS
<1>2. [work[w].job EXCEPT !.stage = stage, !.seen = 0] \in JobType
  BY DEF JobType
<1>3. work' = [work EXCEPT ![w] = [work[w] EXCEPT
                 !.job = [work[w].job EXCEPT !.stage = stage, !.seen = 0]]]
  BY <1>1, <1>2 DEF GoTo, WorkType, JobType
<1> QED BY <1>1, <1>2, <1>3 DEF WorkType

LEMMA EndPoll ==
  ASSUME PollInv, NEW w \in Wallets, EndJob(w)
  PROVE  PollInv' /\ ledger' = ledger
<1>0. Scalars /\ work \in [Wallets -> WorkType] /\ work[w] \in WorkType
  BY DEF PollInv
<1>1. work[w].job \in JobType
  <2>1. work[w].job.stage # "none"
    BY DEF EndJob, At
  <2> QED BY <1>0, <2>1, InHand
<1>2. [at |-> now, as |-> work[w].job.status] \in EntryType
  BY <1>0, <1>1, BoundsAssumption DEF EntryType, JobType, Scalars
<1>3. cache' \in [Txs -> EntryType]
  BY <1>0, <1>1, <1>2 DEF EndJob, Scalars, JobType
<1>4. [work[w] EXCEPT !.job = NoJob] \in WorkType
  BY <1>0 DEF WorkType
<1>5. work' \in [Wallets -> WorkType]
  BY <1>0, <1>4 DEF EndJob
<1> QED BY <1>0, <1>3, <1>5 DEF PollInv, EndJob, Scalars, prime

-----------------------------------------------------------------------------
(* What a listing says of a status stays true. *)
ReachedKept == \A t \in Txs, s \in Statuses : Reached(t, s) => Reached(t, s)'

(* Prime moves on, and never away from a final status. *)
LEMMA PrimeKeepsReached ==
  ASSUME PollInv, PrimeActs
  PROVE  ReachedKept
<1> SUFFICES ASSUME NEW t \in Txs, NEW s \in Statuses, Reached(t, s)
             PROVE  Reached(t, s)'
  BY DEF ReachedKept
<1>1. status \in [Txs -> Statuses]
  BY DEF PollInv, Scalars
<1>2. ASSUME NEW u \in Txs, PrimeAppears(u) PROVE Reached(t, s)'
  BY <1>1, <1>2 DEF PrimeAppears, Appear, Reached
<1>3. ASSUME NEW u \in Txs, PrimeMoves(u) PROVE Reached(t, s)'
  <2>1. PICK m \in Statuses : /\ <<status[u], m>> \in Moves(Info[u].type)
                              /\ status' = [status EXCEPT ![u] = m]
    BY <1>3 DEF PrimeMoves
  <2>2. /\ m # "absent" /\ status[u] \notin Final
        /\ status[u] = "IMPORT_PENDING" => m = "IMPORTED"
        /\ status[u] = "OTHER" => m \in {"DONE", "FAILED"}
    BY <2>1 DEF Moves, Final
  <2> QED BY <1>1, <2>1, <2>2 DEF Reached, Final
<1> QED BY <1>2, <1>3 DEF PrimeActs

LEMMA SameReached ==
  ASSUME status' = status
  PROVE  ReachedKept
BY DEF ReachedKept, Reached

LEMMA TodoStays ==
  ASSUME work \in [Wallets -> WorkType], NEW v \in Wallets, TodoCurrent(v),
         work'[v].todo \subseteq work[v].todo, ReachedKept
  PROVE  TodoCurrent(v)'
<1>1. \A x \in work[v].todo : x[1] \in Txs /\ x[2] \in Statuses
  BY DEF WorkType
<1> QED BY <1>1 DEF TodoCurrent, ReachedKept

ReadStep(w) == Fetch(w) \/ FetchFails(w) \/ TakeNext(w) \/ TakeUnmatched(w)

LEMMA ReadFrame ==
  ASSUME NEW w \in Wallets, ReadStep(w)
  PROVE  UNCHANGED <<status, ledger, cache>>
BY DEF ReadStep, Fetch, FetchFails, TakeNext, TakeUnmatched, Take, prime

LEMMA ReadWork ==
  ASSUME PollInv, NEW w \in Wallets, TodoCurrent(w), ReadStep(w)
  PROVE  /\ \A v \in Wallets : v # w => work'[v] = work[v]
         /\ TodoCurrent(w)'
         /\ \/ work'[w].job \in {NoJob, work[w].job}
            \/ \E t \in Txs, s \in Statuses :
                 /\ w \in Info[t].wallets /\ Reached(t, s)
                 /\ \E byAddress \in {ByAddress(t), Nobody},
                       byKey \in {Info[t].keyUser, Nobody} :
                      work'[w].job = First(t, s, byAddress, byKey)
<1>0. /\ ReachedKept /\ work[w] \in WorkType /\ status' = status
      /\ work \in [Wallets -> WorkType]
  BY SameReached, ReadFrame DEF PollInv
<1>1. \A v \in Wallets : v # w => work'[v] = work[v]
  BY <1>0 DEF ReadStep, Fetch, FetchFails, TakeNext, TakeUnmatched, Take
<1> DEFINE Taken(job) ==
     \E t \in Txs, s \in Statuses :
       /\ w \in Info[t].wallets /\ Reached(t, s)
       /\ \E byAddress \in {ByAddress(t), Nobody}, byKey \in {Info[t].keyUser, Nobody} :
            job = First(t, s, byAddress, byKey)
<1>2. SUFFICES TodoCurrent(w)' /\ (work'[w].job \in {NoJob, work[w].job} \/ Taken(work'[w].job))
  BY <1>1
<1>3. CASE Fetch(w)
  <2>1. work'[w].todo = Listing(w) /\ work'[w].job = NoJob
    BY <1>0, <1>3 DEF Fetch, Idle
  <2>2. ASSUME NEW x \in Listing(w)
        PROVE  w \in Info[x[1]].wallets /\ Reached(x[1], x[2])'
    BY <1>0 DEF Listing, Reached
  <2> QED BY <2>1, <2>2 DEF TodoCurrent
<1>4. CASE FetchFails(w)
  <2>1. work'[w].todo = work[w].todo /\ work'[w].job = work[w].job
    BY <1>0, <1>4 DEF FetchFails, WorkType
  <2> QED BY <1>0, <2>1, TodoStays
<1>5. ASSUME NEW x \in work[w].todo,
             NEW byAddress \in {ByAddress(x[1]), Nobody},
             NEW byKey \in {Info[x[1]].keyUser, Nobody},
             Take(w, x, byAddress, byKey)
      PROVE  TodoCurrent(w)' /\ (work'[w].job = NoJob \/ Taken(work'[w].job))
  <2>1. /\ x[1] \in Txs /\ x[2] \in Statuses
        /\ w \in Info[x[1]].wallets /\ Reached(x[1], x[2])
    BY <1>0 DEF WorkType, TodoCurrent
  <2>2. PICK job : job = First(x[1], x[2], byAddress, byKey)
    OBVIOUS
  <2>3. work'[w].todo = work[w].todo \ {x} /\ work'[w].job \in {NoJob, job}
    BY <1>0, <1>5, <2>2 DEF Take, WorkType
  <2>4. TodoCurrent(w)'
    BY <1>0, <2>3, TodoStays
  <2>5. Taken(job)
    BY <2>1, <2>2
  <2> QED BY <2>3, <2>4, <2>5
<1>6. CASE TakeNext(w)
  BY <1>5, <1>6 DEF TakeNext
<1>7. CASE TakeUnmatched(w)
  BY <1>5, <1>7 DEF TakeUnmatched
<1> QED BY <1>3, <1>4, <1>6, <1>7 DEF ReadStep
=============================================================================
