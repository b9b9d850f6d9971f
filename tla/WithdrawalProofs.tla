--------------------------- MODULE WithdrawalProofs ---------------------------
(* Theorems about WithdrawalFlow, for any number of runs of the CLI beside   *)
(* any number of wallets, transactions, crashes and lost answers.            *)
EXTENDS WithdrawalFlow, ListenerProofs

-----------------------------------------------------------------------------
(* The inductive invariant. *)

(* What a run of the CLI may rely on, and what its state says of Prime. *)
Reserved(r) == HasPending(Info[r].key)
GivenBack(r) == Known(Refund(r).ext)

RunFits(r) ==
  /\ cli[r] \in {"reserved", "created", "rollback", "refunding", "refunded"} => Reserved(r)
  /\ cli[r] \in {"start", "refused", "verified", "checked", "reserved"} =>
       status[r] = "absent"
  /\ status[r] # "absent" \/ GivenBack(r) => Reserved(r)
  /\ cli[r] \in {"rollback", "refunding", "refunded"} /\ r \notin lost =>
       status[r] = "absent"
  /\ GivenBack(r) => \/ status[r] = "FAILED" \/ r \in lost
                     \/ status[r] = "absent" /\ cli[r] \in {"refunded", "dead"}

(* No goroutine is about to debit a withdrawal of the CLI at DONE. *)
NoneDirect ==
  \A w \in Wallets :
    work[w].job # NoJob /\ work[w].job.tx \in Runs => work[w].job.stage # "debitDirect"

FlowInv ==
  /\ TypeInv /\ WorkCurrent /\ CliTypeOK
  /\ \A r \in Runs : RunFits(r)
  /\ NoneDirect /\ NoSecondDebitAtDone

-----------------------------------------------------------------------------
(* The rows of the CLI. *)
LEMMA OtherSuffix ==
  ASSUME NEW a, NEW b
  PROVE  <<a, "">> # <<b, "-reversal">>
OBVIOUS

LEMMA CliRows ==
  ASSUME NEW r \in Runs, NEW q \in Runs
  PROVE  /\ Reservation(r).ext = <<Info[r].key, "">> /\ Reservation(r).via = "reserve"
         /\ Refund(r).ext = <<Info[r].key, "-reversal">> /\ Refund(r).via = "rollback"
         /\ Reservation(q).ext # Refund(r).ext
         /\ Refund(q).ext = Refund(r).ext => q = r
<1>1. /\ Reservation(r).ext = <<Info[r].key, "">> /\ Reservation(r).via = "reserve"
      /\ Refund(r).ext = <<Info[r].key, "-reversal">> /\ Refund(r).via = "rollback"
      /\ Reservation(q).ext = <<Info[q].key, "">>
      /\ Refund(q).ext = <<Info[q].key, "-reversal">>
  BY DEF Reservation, Refund, Row
<1>2. Refund(q).ext = Refund(r).ext => Info[q].key = Info[r].key
  <2> PICK suffix : suffix = "-reversal"
    OBVIOUS
  <2>1. /\ Refund(r).ext = <<Info[r].key, suffix>>
        /\ Refund(q).ext = <<Info[q].key, suffix>>
    BY <1>1
  <2> QED BY <2>1, SamePair
<1> QED BY <1>1, <1>2, OtherSuffix, RunsAssumption

(* What a step of the CLI does to the listener's variables. *)
CliPosts(r) == Post(Reservation(r)) \/ Post(Refund(r))

CliActs(r) == CliStep(r) \/ CreateUnanswered(r) \/ Die(r)

LEMMA CliFrame ==
  ASSUME FlowInv, NEW r \in Runs, CliActs(r)
  PROVE  /\ UNCHANGED <<now, phase, since, work, cache>>
         /\ prime' = prime \/ Appear(r, "CREATED")
         /\ ledger' = ledger \/ CliPosts(r)
         /\ faults' \in {faults, faults + 1} /\ (faults' # faults => faults < MaxFaults)
         /\ CliTypeOK'
         /\ \A q \in Runs : q # r => cli'[q] = cli[q]
         /\ lost \subseteq lost' /\ lost' \subseteq lost \cup {r}
<1>0. /\ CliTypeOK /\ r \in Txs
      /\ faults \in Nat /\ MaxFaults \in Nat
  BY RunsAssumption, BoundsAssumption DEF FlowInv, TypeInv, TypeOK, PollTypeOK
<1>1. CASE Verify(r) \/ CheckReservation(r) \/ CreateRefused(r) \/ CheckRefund(r)
  BY <1>0, <1>1 DEF Verify, CheckReservation, CreateRefused, CheckRefund, Moved,
                    NotListener, CliTypeOK
<1>2. CASE Reserve(r) \/ GiveBack(r)
  BY <1>0, <1>2 DEF Reserve, GiveBack, Moved, NotListener, CliTypeOK, CliPosts
<1>3. CASE Create(r)
  BY <1>0, <1>3 DEF Create, Moved, NotListener, CliTypeOK
<1>4. CASE CreateUnanswered(r)
  BY <1>0, <1>4 DEF CreateUnanswered, Fault, Moved, NotListener, CliTypeOK
<1>5. CASE Die(r)
  BY <1>0, <1>5 DEF Die, Fault, NotListener, CliTypeOK
<1> QED BY <1>1, <1>2, <1>3, <1>4, <1>5 DEF CliActs, CliStep

LEMMA CliLedger ==
  ASSUME TypeInv, NEW r \in Runs, CliPosts(r)
  PROVE  /\ IsABag(ledger')
         /\ \A e : Known(e) => Known(e)'
         /\ \A x \in BagToSet(ledger') : x \in BagToSet(ledger) \/ x.via # "debitDirect"
<1>1. IsABag(ledger)
  BY DEF TypeInv, TypeOK
<1>2. Reservation(r).via # "debitDirect" /\ Refund(r).via # "debitDirect"
  BY CliRows
<1>3. ASSUME NEW row, Post(row), row.via # "debitDirect"
      PROVE  /\ IsABag(ledger')
             /\ \A e : Known(e) => Known(e)'
             /\ \A x \in BagToSet(ledger') :
                  x \in BagToSet(ledger) \/ x.via # "debitDirect"
  BY <1>1, <1>3, PostRow, PostKnown
<1> QED BY <1>2, <1>3 DEF CliPosts

(* The listener's invariant under the steps of the CLI. *)
LEMMA ListenerUnmoved ==
  ASSUME FlowInv, UNCHANGED <<now, phase, since, work, cache>>,
         IsABag(ledger'), \A e : Known(e) => Known(e)',
         faults' \in {faults, faults + 1}, faults' # faults => faults < MaxFaults,
         prime' = prime \/ \E r \in Runs : Appear(r, "CREATED")
  PROVE  TypeInv' /\ WorkCurrent' /\ NoneDirect' /\ ReachedKept
<1>0. TypeInv /\ Scalars /\ work \in [Wallets -> WorkType] /\ WorkCurrent
  BY TypeParts DEF FlowInv
<1>1. /\ status' \in [Txs -> Statuses] /\ created' \in [Txs -> 0..MaxTime]
      /\ ReachedKept
  <2>1. CASE prime' = prime
    BY <1>0, <2>1, SameReached DEF prime, Scalars
  <2>2. ASSUME NEW r \in Runs, Appear(r, "CREATED")
        PROVE  /\ status' \in [Txs -> Statuses] /\ created' \in [Txs -> 0..MaxTime]
               /\ ReachedKept
    BY <1>0, <2>2, RunsAssumption DEF Appear, Scalars, Statuses, ReachedKept, Reached
  <2> QED BY <2>1, <2>2
<1>2. faults' \in 0..MaxFaults
  BY <1>0, BoundsAssumption DEF Scalars
<1>3. TypeInv'
  BY <1>0, <1>1, <1>2, TypeParts DEF Scalars
<1>4. WorkCurrent'
  BY <1>0, <1>1, UntouchedStays DEF WorkCurrent
<1> QED BY <1>1, <1>3, <1>4 DEF NoneDirect, FlowInv

LEMMA CliBase ==
  ASSUME FlowInv, NEW r \in Runs, CliActs(r)
  PROVE  TypeInv' /\ WorkCurrent' /\ NoneDirect' /\ ReachedKept /\ NoSecondDebitAtDone'
<1>0. TypeInv /\ IsABag(ledger)
  BY DEF FlowInv, TypeInv, TypeOK
<1>1. /\ IsABag(ledger') /\ \A e : Known(e) => Known(e)'
      /\ \A x \in BagToSet(ledger') : x \in BagToSet(ledger) \/ x.via # "debitDirect"
  <2>1. CASE ledger' = ledger
    BY <1>0, <2>1, SameKnown
  <2> QED BY <1>0, <2>1, CliFrame, CliLedger
<1>2. NoSecondDebitAtDone'
  BY <1>1 DEF NoSecondDebitAtDone, FlowInv
<1> QED BY <1>1, <1>2, CliFrame, ListenerUnmoved

(* What the other runs know is not touched. *)
LEMMA OtherRuns ==
  ASSUME FlowInv, NEW r \in Runs, CliActs(r), NEW q \in Runs, q # r
  PROVE  RunFits(q)'
<1>0. RunFits(q) /\ IsABag(ledger) /\ status \in [Txs -> Statuses]
  BY DEF FlowInv, TypeInv, TypeOK, PollTypeOK
<1>1. /\ cli'[q] = cli[q] /\ (q \in lost' <=> q \in lost)
      /\ status'[q] = status[q]
      /\ ledger' = ledger \/ CliPosts(r)
  BY <1>0, CliFrame, RunsAssumption DEF Appear, prime
<1>2. /\ Reserved(q) => Reserved(q)'
      /\ GivenBack(q)' <=> GivenBack(q)
  <2>1. CASE ledger' = ledger
    BY <2>1, SameKnown DEF Reserved, GivenBack, HasPending, Refund, Row, User
  <2>2. ASSUME NEW row, Post(row), row.ext # Refund(q).ext
        PROVE  /\ Reserved(q) => Reserved(q)'
               /\ GivenBack(q)' <=> GivenBack(q)
    BY <1>0, <2>2, PostKnown DEF Reserved, GivenBack, HasPending, Refund, Row, User
  <2> QED BY <1>1, <2>1, <2>2, CliRows DEF CliPosts
<1> QED BY <1>0, <1>1, <1>2 DEF RunFits

LEMMA OwnRun ==
  ASSUME FlowInv, NEW r \in Runs, CliActs(r)
  PROVE  RunFits(r)'
<1>0. /\ RunFits(r) /\ IsABag(ledger) /\ CliTypeOK
      /\ status \in [Txs -> Statuses] /\ r \in Txs
  BY RunsAssumption DEF FlowInv, TypeInv, TypeOK, PollTypeOK
<1>1. ledger' = ledger =>
        (Reserved(r)' <=> Reserved(r)) /\ (GivenBack(r)' <=> GivenBack(r))
  BY SameKnown DEF Reserved, GivenBack, HasPending, Refund, Row, User
<1>2. Post(Reservation(r)) => Reserved(r)' /\ (GivenBack(r)' <=> GivenBack(r))
  BY <1>0, PostKnown, CliRows DEF Reserved, GivenBack, HasPending, Refund, Reservation, Row, User
<1>3. Post(Refund(r)) => (Reserved(r) => Reserved(r)') /\ GivenBack(r)'
  BY <1>0, PostKnown, CliRows DEF Reserved, GivenBack, HasPending, Refund, Row, User
<1>4. CASE Verify(r) \/ CheckReservation(r) \/ CreateRefused(r) \/ CheckRefund(r)
  <2>1. UNCHANGED <<status, ledger, lost>>
    BY <1>4 DEF Verify, CheckReservation, CreateRefused, CheckRefund, prime
  <2>2. \/ cli[r] = "start" /\ cli'[r] \in {"refused", "verified"}
        \/ cli[r] = "verified" /\ cli'[r] \in {"refused", "checked"}
        \/ cli[r] = "reserved" /\ cli'[r] = "rollback"
        \/ cli[r] = "rollback" /\ cli'[r] \in {"dead", "refunding"}
    BY <1>0, <1>4 DEF Verify, CheckReservation, CreateRefused, CheckRefund, Moved, CliTypeOK
  <2> QED BY <1>0, <1>1, <2>1, <2>2 DEF RunFits
<1>5. CASE Reserve(r)
  <2>1. /\ cli[r] = "checked" /\ cli'[r] = "reserved" /\ Post(Reservation(r))
        /\ UNCHANGED <<status, lost>>
    BY <1>0, <1>5 DEF Reserve, Moved, CliTypeOK, prime
  <2> QED BY <1>0, <1>2, <2>1 DEF RunFits
<1>6. CASE GiveBack(r)
  <2>1. /\ cli[r] = "refunding" /\ cli'[r] = "refunded" /\ Post(Refund(r))
        /\ UNCHANGED <<status, lost>>
    BY <1>0, <1>6 DEF GiveBack, Moved, CliTypeOK, prime
  <2> QED BY <1>0, <1>3, <2>1 DEF RunFits
<1>7. CASE Create(r) \/ CreateUnanswered(r)
  <2>1. /\ cli[r] = "reserved" /\ status[r] = "absent" /\ status'[r] = "CREATED"
        /\ \/ cli'[r] = "created" /\ lost' = lost
           \/ cli'[r] = "rollback" /\ r \in lost'
        /\ ledger' = ledger
    BY <1>0, <1>7 DEF Create, CreateUnanswered, Moved, Appear, CliTypeOK
  <2> QED BY <1>0, <1>1, <2>1 DEF RunFits
<1>8. CASE Die(r)
  <2>1. /\ cli'[r] = "dead" /\ cli[r] # "refused" /\ UNCHANGED <<status, ledger, lost>>
    BY <1>0, <1>8 DEF Die, CliTypeOK, prime
  <2> QED BY <1>0, <1>1, <2>1 DEF RunFits
<1> QED BY <1>4, <1>5, <1>6, <1>7, <1>8 DEF CliActs, CliStep

LEMMA CliSteps ==
  ASSUME FlowInv, NEW r \in Runs, CliActs(r)
  PROVE  FlowInv'
<1>1. \A q \in Runs : RunFits(q)'
  BY OtherRuns, OwnRun
<1> QED BY <1>1, CliBase, CliFrame DEF FlowInv

(* The deposit that opens the accounts. *)
LEMMA OpenStep ==
  ASSUME FlowInv, Open
  PROVE  FlowInv'
<1>0. /\ \A r \in Runs : RunFits(r)
      /\ IsABag(ledger) /\ BagToSet(ledger) = {}
  BY DEF FlowInv, TypeInv, TypeOK, Open, EmptyBag, SetToBag, BagToSet
<1>1. PICK opening : /\ opening = {Row(u, "", u, Opening, "confirm") : u \in Users}
                     /\ ledger' = SetToBag(opening)
  BY DEF Open
<1>2. IsABag(ledger') /\ BagToSet(ledger') = opening
  <2>1. ledger' = [x \in opening |-> 1]
    BY <1>1 DEF SetToBag
  <2>2. ledger' \in [DOMAIN ledger' -> {n \in Nat : n > 0}] /\ DOMAIN ledger' = opening
    BY <2>1
  <2> QED BY <2>2 DEF IsABag, BagToSet
<1>3. ASSUME NEW x \in opening
      PROVE  x.via = "confirm" /\ \E u \in Users : x.ext = <<u, "">>
  <2>1. PICK u \in Users : x = Row(u, "", u, Opening, "confirm")
    BY <1>1
  <2>2. x.via = "confirm" /\ x.ext = <<u, "">>
    BY <2>1 DEF Row
  <2> QED BY <2>2
<1>4. /\ \A e : ~Known(e)
      /\ \A e : Known(e)' => \E x \in opening : x.ext = e
  BY <1>0, <1>2 DEF Known
<1>5. UNCHANGED <<now, prime, phase, since, work, cache, faults, cli, lost, status>>
  BY DEF Open, prime
<1>6. TypeInv' /\ WorkCurrent' /\ NoneDirect'
  BY <1>2, <1>4, <1>5, ListenerUnmoved
<1>7. NoSecondDebitAtDone'
  BY <1>2, <1>3 DEF NoSecondDebitAtDone
<1>8. ASSUME NEW r \in Runs PROVE RunFits(r)'
  <2>1. ~Reserved(r) /\ ~GivenBack(r)
    BY <1>4 DEF Reserved, HasPending, GivenBack
  <2>2. ASSUME NEW u PROVE <<u, "">> # Refund(r).ext
    <3>1. Refund(r).ext = <<Info[r].key, "-reversal">>
      BY CliRows
    <3> QED BY <3>1, OtherSuffix
  <2>3. ~GivenBack(r)'
    <3>1. ~Known(Refund(r).ext)'
      BY ZenonT(40), <1>3, <1>4, <2>2
    <3> QED BY <3>1 DEF GivenBack, Refund, Row, User
  <2> QED BY <1>0, <1>5, <2>1, <2>3 DEF RunFits
<1> QED BY <1>5, <1>6, <1>7, <1>8 DEF FlowInv, CliTypeOK

-----------------------------------------------------------------------------
(* The steps of the listener and of Prime. *)

(* The listener debits at DONE only what it did not find in the ledger. *)
LEMMA DirectIfUnknown ==
  ASSUME TypeInv, WorkCurrent, NEW w \in Wallets, HandlerStep(w),
         work'[w].job.stage = "debitDirect", work[w].job.stage # "debitDirect"
  PROVE  ~InLedger(work[w].job.tx)
<1>0. work[w].job \in JobType
  BY HandlerSteps
<1>1. PICK job \in JobType : job = work[w].job
  BY <1>0
<1>2. ASSUME NEW stage \in Stages, GoTo(w, stage) PROVE stage = "debitDirect"
  <2>1. work'[w].job = [work[w].job EXCEPT !.stage = stage, !.seen = 0]
    BY <1>0, <1>2, GoToJob DEF TypeInv
  <2> QED BY <1>0, <2>1 DEF JobType
<1>3. \A outcome \in {"ok", "dup", "error"} :
        job.stage \in CallStages => /\ AfterLeg(job.stage, outcome) \in Stages
                                    /\ AfterLeg(job.stage, outcome) # "debitDirect"
  BY AfterType DEF AfterLeg, After, AfterDeposit, AfterPending, AfterOther, CallStages
<1>4. {"mark", "debitBlind", "drop"} \subseteq Stages
  BY DEF Stages
<1>5. CASE Look(w)
  BY <1>2, <1>4, <1>5 DEF Look
<1>6. ~LookFails(w) /\ ~PostUnreported(w)
  BY <1>2, <1>4 DEF LookFails, PostUnreported
<1>7. ~PostCall(w) /\ ~CallFails(w)
  BY <1>1, <1>2, <1>3 DEF PostCall, CallFails, At
<1>8. ~CheckCall(w)
  <2>1. work' # [work EXCEPT ![w].job.seen = 1]
    BY <1>0 DEF TypeInv, WorkType, JobType
  <2> QED BY <1>1, <1>2, <1>3, <2>1 DEF CheckCall, At
<1> QED BY <1>5, <1>6, <1>7, <1>8 DEF HandlerStep

(* It finds what the CLI reserved. *)
LEMMA DirectStays ==
  ASSUME FlowInv, StepCases, NEW v \in Wallets,
         work'[v].job # NoJob, work'[v].job.tx \in Runs
  PROVE  work'[v].job.stage # "debitDirect"
<1>0. /\ TypeInv /\ WorkCurrent /\ NoneDirect
      /\ work \in [Wallets -> WorkType]
  BY DEF FlowInv, TypeInv
<1>1. CASE work'[v].job \in {work[v].job, NoJob}
  BY <1>0, <1>1 DEF NoneDirect
<1>2. CASE Rounds
  <2>1. Idle.job = NoJob /\ ToFetch.job = NoJob
    BY DEF Idle, ToFetch
  <2>2. work'[v].job \in {work[v].job, NoJob}
    BY <1>2, <2>1 DEF Rounds, Crash, Forget, Restart, OpenWindow, EndRecovery, BeginPoll,
                      Cleanup, Tick
  <2> QED BY <1>1, <2>2
<1>3. CASE PrimeActs \/ UNCHANGED vars
  <2>1. work' = work
    BY <1>3 DEF PrimeActs, PrimeAppears, PrimeMoves, vars
  <2> QED BY <1>1, <2>1
<1>4. ASSUME NEW w \in Wallets, EndJob(w)
      PROVE  work'[v].job \in {work[v].job, NoJob}
  BY <1>0, <1>4 DEF EndJob, WorkType
<1>5. ASSUME NEW w \in Wallets, Fetch(w) \/ FetchFails(w)
      PROVE  work'[v].job \in {work[v].job, NoJob}
  BY <1>0, <1>5 DEF Fetch, FetchFails, Idle, WorkType
<1>6. ASSUME NEW w \in Wallets, TakeNext(w) \/ TakeUnmatched(w)
      PROVE  work'[v].job.stage # "debitDirect"
  <2>0. PICK x \in work[w].todo :
          \E byAddress \in {ByAddress(x[1]), Nobody}, byKey \in {Info[x[1]].keyUser, Nobody} :
            Take(w, x, byAddress, byKey)
    BY <1>6 DEF TakeNext, TakeUnmatched
  <2>1. PICK byAddress \in {ByAddress(x[1]), Nobody}, byKey \in {Info[x[1]].keyUser, Nobody} :
          Take(w, x, byAddress, byKey)
    BY <2>0
  <2>2. work'[v].job \in {work[v].job, NoJob, First(x[1], x[2], byAddress, byKey)}
    BY <1>0, <2>1 DEF Take, WorkType
  <2>3. First(x[1], x[2], byAddress, byKey).stage # "debitDirect"
    <3>1. x[1] \in Txs /\ Info[x[1]].type \in {"DEPOSIT", "WITHDRAWAL", "CONVERSION", "TRANSFER"}
      BY <1>0, InfoAssumption DEF WorkType, InfoType
    <3>2. FirstDeposit(x[1], x[2]) # "debitDirect"
      BY DEF FirstDeposit
    <3>3. FirstWithdrawal(x[1], x[2], byAddress, byKey).stage # "debitDirect"
      BY DEF FirstWithdrawal, Job
    <3> QED BY <3>1, <3>2, <3>3 DEF First, Job
  <2> QED BY <1>1, <2>2, <2>3
<1>7. ASSUME NEW w \in Wallets, HandlerStep(w)
      PROVE  work'[v].job.stage # "debitDirect"
  <2>1. work[w].job \in JobType /\ work[w].job # NoJob
    BY <1>0, <1>7, HandlerSteps
  <2>2. /\ v # w => work'[v] = work[v]
        /\ work'[w].job.tx = work[w].job.tx
    <3>1. CASE CheckPassed(w)
      BY <1>0, <2>1, <3>1 DEF CheckPassed, WorkType, JobType
    <3>2. CASE GoesOn(w)
      <4>1. PICK stage \in Stages : GoTo(w, stage)
        BY <3>2 DEF GoesOn
      <4>2. /\ work'[w].job = [work[w].job EXCEPT !.stage = stage, !.seen = 0]
            /\ v # w => work'[v] = work[v]
        BY <1>0, <2>1, <4>1, GoToJob DEF TypeInv
      <4> QED BY <2>1, <4>2 DEF JobType
    <3> QED BY <1>0, <1>7, <3>1, <3>2, HandlerSteps
  <2>3. CASE v # w
    BY <1>1, <2>2, <2>3
  <2>4. CASE v = w
    <3>1. PICK r \in Runs : r = work[w].job.tx
      BY <2>2, <2>4
    <3>2. work[w].job.stage # "debitDirect"
      BY <1>0, <2>1, <3>1 DEF NoneDirect
    <3>3. status[r] # "absent"
      BY <1>0, <2>1, <3>1 DEF WorkCurrent, JobCurrent, Reached
    <3>4. InLedger(r)
      BY <3>3 DEF FlowInv, RunFits, Reserved, InLedger
    <3> QED BY <1>0, <1>7, <2>4, <3>1, <3>2, <3>4, DirectIfUnknown
  <2> QED BY <2>3, <2>4
<1> QED BY <1>1, <1>2, <1>3, <1>4, <1>5, <1>6, <1>7 DEF StepCases, ReadStep

(* What is posted for a withdrawal of the CLI: a refund only once it has    *)
(* failed.                                                                  *)
LEMMA ListenerPosts ==
  ASSUME FlowInv, NEW job \in JobType, PostsFor(job)
  PROVE  /\ NoSecondDebitAtDone'
         /\ \A r \in Runs : /\ (Reserved(r) => Reserved(r)')
                             /\ (GivenBack(r)' => GivenBack(r) \/ status[r] = "FAILED")
<1>0. /\ IsABag(ledger) /\ NoSecondDebitAtDone /\ NoneDirect
      /\ job.stage \in CallStages /\ StageFits(job) /\ job.tx \in Txs
      /\ Reached(job.tx, job.status)
  BY DEF FlowInv, TypeInv, TypeOK, PostsFor, JobType
<1>1. /\ \A e : Known(e)' <=> Known(e) \/ RowOf(job).ext = e
      /\ BagToSet(ledger') = BagToSet(ledger) \cup {RowOf(job)}
  BY <1>0, PostRow, PostKnown DEF PostsFor
<1>2. ASSUME NEW r \in Runs, RowOf(job).ext = <<r, "">>
      PROVE  RowOf(job).via # "debitDirect"
  <2>0. PICK suffix : RowOf(job).ext = <<r, suffix>>
    BY <1>2
  <2>1. r \in Txs /\ RowOf(job).ext[1] \in {r, Info[r].key}
    BY <2>0, RunsAssumption
  <2>2. job.tx = r
    BY <2>1, PostsForOwner
  <2>3. job.stage # "debitDirect"
    BY <1>0, <2>2 DEF PostsFor, NoneDirect
  <2>4. RowOf(job).via = job.stage
    BY <1>0 DEF RowOf, Row, CallStages
  <2> QED BY <2>3, <2>4
<1>3. NoSecondDebitAtDone'
  BY <1>0, <1>1, <1>2 DEF NoSecondDebitAtDone
<1>4. ASSUME NEW r \in Runs
      PROVE  /\ Reserved(r) => Reserved(r)'
             /\ GivenBack(r)' => GivenBack(r) \/ status[r] = "FAILED"
  <2>1. PICK suffix : suffix = "-reversal"
    OBVIOUS
  <2>2. Refund(r).ext = <<Info[r].key, suffix>>
    BY <2>1, CliRows
  <2>3. ASSUME RowOf(job).ext = Refund(r).ext PROVE status[r] = "FAILED"
    <3>1. RowOf(job).ext = <<Info[r].key, suffix>>
      BY <2>2, <2>3
    <3>2. suffix = SuffixOf(job.stage)
      BY <1>0, <3>1, StageOfRow
    <3>3. job.stage = "creditBack"
      BY <2>1, <3>2 DEF SuffixOf
    <3>4. job.tx = r
      <4>1. r \in Txs /\ RowOf(job).ext[1] \in {r, Info[r].key}
        BY <3>1, RunsAssumption
      <4> QED BY <4>1, PostsForOwner
    <3>5. job.status = "FAILED"
      BY <1>0, <3>3 DEF StageFits
    <3> QED BY <1>0, <3>4, <3>5 DEF Reached, Final
  <2> QED BY <1>1, <2>3 DEF Reserved, HasPending, GivenBack, Refund, Row, User
<1> QED BY <1>3, <1>4

LEMMA ListenerSteps ==
  ASSUME FlowInv, Next, UNCHANGED <<cli, lost>>
  PROVE  FlowInv'
<1>0. /\ TypeInv /\ WorkCurrent /\ StepCases /\ NoSecondDebitAtDone
      /\ \A r \in Runs : RunFits(r)
  BY Steps DEF FlowInv
<1>1. TypeInv' /\ WorkCurrent' /\ CliTypeOK' /\ ReachedKept
  BY <1>0, CoreStep, ReachedStays DEF FlowInv, CliTypeOK
<1>2. NoneDirect'
  BY DirectStays, <1>0 DEF NoneDirect
<1>3. /\ NoSecondDebitAtDone'
      /\ \A r \in Runs : /\ (Reserved(r) => Reserved(r)')
                          /\ (GivenBack(r)' => GivenBack(r) \/ status[r] = "FAILED")
  <2>1. CASE ledger' = ledger
    <3>1. NoSecondDebitAtDone'
      BY <1>0, <2>1 DEF NoSecondDebitAtDone, BagToSet
    <3>2. \A e : Known(e)' <=> Known(e)
      BY <2>1, SameKnown
    <3> QED BY <3>1, <3>2 DEF Reserved, HasPending, GivenBack, Refund, Row, User
  <2> QED BY <1>0, <2>1, LedgerSteps, ListenerPosts
<1>4. ASSUME NEW r \in Runs
      PROVE  /\ (status[r] = "absent" <=> status'[r] = "absent")
             /\ (status[r] = "FAILED" => status'[r] = "FAILED")
  <2>1. r \in Txs /\ r \notin Spontaneous
    BY RunsAssumption
  <2>2. status[r] # "absent" => status'[r] # "absent"
    BY <1>1, <2>1 DEF ReachedKept, Reached, Statuses, Final
  <2>3. status[r] = "FAILED" => status'[r] = "FAILED"
    BY <1>1, <2>1 DEF ReachedKept, Reached, Statuses, Final
  <2>4. status[r] = "absent" => status'[r] = "absent"
    <3>1. status \in [Txs -> Statuses]
      BY <1>0 DEF TypeInv, TypeOK, PollTypeOK
    <3>2. ASSUME NEW t \in Txs, PrimeAppears(t) PROVE status'[r] = status[r]
      <4>1. t # r
        BY <2>1, <3>2 DEF PrimeAppears, Spontaneous
      <4> QED BY <2>1, <3>1, <3>2, <4>1 DEF PrimeAppears, Appear
    <3>3. ASSUME NEW t \in Txs, PrimeMoves(t), status[r] = "absent"
          PROVE  status'[r] = status[r]
      <4>1. t # r
        BY <3>3 DEF PrimeMoves
      <4> QED BY <2>1, <3>1, <3>3, <4>1 DEF PrimeMoves
    <3>4. ~PrimeActs => status' = status
      <4>1. CASE Rounds
        BY <4>1 DEF Rounds, Crash, Restart, EndRecovery, BeginPoll, Cleanup, Tick, prime
      <4>2. ASSUME NEW w \in Wallets, ReadStep(w) \/ HandlerStep(w) \/ EndJob(w)
            PROVE  status' = status
        BY <1>0, <4>2, ReadFrame, HandlerSteps DEF EndJob, prime
      <4>3. CASE UNCHANGED vars
        BY <4>3 DEF vars, prime
      <4> QED BY <1>0, <4>1, <4>2, <4>3 DEF StepCases
    <3> QED BY <3>2, <3>3, <3>4 DEF PrimeActs
  <2> QED BY <2>2, <2>3, <2>4
<1>5. ASSUME NEW r \in Runs PROVE RunFits(r)'
  BY <1>0, <1>3, <1>4 DEF RunFits
<1> QED BY <1>1, <1>2, <1>3, <1>5 DEF FlowInv

-----------------------------------------------------------------------------
LEMMA FlowInvInit == FlowInit => FlowInv
<1> SUFFICES ASSUME FlowInit PROVE FlowInv
  OBVIOUS
<1>1. TypeInv /\ WorkCurrent /\ CliTypeOK
  BY CoreInit DEF FlowInit, CliInit, CliTypeOK
<1>2. BagToSet(ledger) = {} /\ \A e : ~Known(e)
  BY DEF FlowInit, Init, EmptyBag, SetToBag, BagToSet, Known
<1>3. \A w \in Wallets : work[w].job = NoJob
  BY DEF FlowInit, Init, PollInit, Idle
<1>4. ASSUME NEW r \in Runs PROVE RunFits(r)
  <2>1. ~Reserved(r) /\ ~GivenBack(r)
    BY <1>2 DEF Reserved, HasPending, GivenBack
  <2>2. status[r] = "absent" /\ cli[r] = "start"
    BY RunsAssumption DEF FlowInit, Init, PollInit, CliInit
  <2> QED BY <2>1, <2>2 DEF RunFits
<1> QED BY <1>1, <1>2, <1>3, <1>4 DEF FlowInv, NoneDirect, NoSecondDebitAtDone

LEMMA FlowInvStep == FlowInv /\ [FlowNext]_flowVars => FlowInv'
<1> SUFFICES ASSUME FlowInv, [FlowNext]_flowVars PROVE FlowInv'
  OBVIOUS
<1>1. CASE Open
  BY <1>1, OpenStep
<1>2. ASSUME NEW r \in Runs, CliActs(r) PROVE FlowInv'
  BY <1>2, CliSteps
<1>3. CASE Next /\ UNCHANGED <<cli, lost>>
  BY <1>3, ListenerSteps
<1>4. CASE UNCHANGED flowVars
  <2>1. /\ UNCHANGED <<now, phase, since, work, cache, faults, prime, ledger, cli, lost, status>>
        /\ \A e : Known(e)' <=> Known(e)
    BY <1>4, SameKnown DEF flowVars, vars, prime
  <2>2. IsABag(ledger') /\ NoSecondDebitAtDone'
    BY <2>1 DEF FlowInv, TypeInv, TypeOK, NoSecondDebitAtDone, BagToSet
  <2>3. TypeInv' /\ WorkCurrent' /\ NoneDirect'
    BY <2>1, <2>2, ListenerUnmoved
  <2>4. \A r \in Runs : RunFits(r)'
    BY <2>1 DEF FlowInv, RunFits, Reserved, HasPending, GivenBack, Refund, Row, User
  <2> QED BY <2>1, <2>2, <2>3, <2>4 DEF FlowInv, CliTypeOK
<1> QED BY <1>1, <1>2, <1>3, <1>4 DEF FlowNext, CliActs

LEMMA FlowInvariance == FlowSpec => []FlowInv
BY FlowInvInit, FlowInvStep, PTL DEF FlowSpec

(* Every variable of the listener, of Prime and of the CLI keeps its type.  *)
THEOREM FlowTypes == FlowSpec => []FlowTypeOK
<1>1. FlowInv => FlowTypeOK
  BY DEF FlowInv, FlowTypeOK, TypeInv
<1> QED BY <1>1, FlowInvariance, PTL

(* Prime is never asked for a withdrawal that was not reserved, and nothing *)
(* is given back that was not reserved.                                     *)
THEOREM ReservationsComeFirst == FlowSpec => []ReservedFirst
<1>1. FlowInv => ReservedFirst
  BY DEF FlowInv, ReservedFirst, RunFits, Reserved, GivenBack
<1> QED BY <1>1, FlowInvariance, PTL

(* What the CLI reserved is not debited again when the listener sees the    *)
(* withdrawal done.                                                         *)
THEOREM DoneIsNotDebitedAgain == FlowSpec => []NoSecondDebitAtDone
<1>1. FlowInv => NoSecondDebitAtDone
  BY DEF FlowInv
<1> QED BY <1>1, FlowInvariance, PTL

(* A withdrawal is paid and given back only when Prime's answer was lost.   *)
THEOREM RefundedOrPaid == FlowSpec => []PaidAndRefundedOnlyIfLost
<1>1. FlowInv => PaidAndRefundedOnlyIfLost
  BY DEF FlowInv, PaidAndRefundedOnlyIfLost, RunFits, GivenBack
<1> QED BY <1>1, FlowInvariance, PTL

-----------------------------------------------------------------------------
(* Refunds.  A row that gives back what a run reserved is the CLI's, via    *)
(* "rollback", or the listener's.  Each is there once, the first only when  *)
(* the run has ended, the second only when the withdrawal has failed; and   *)
(* when a goroutine has looked for the listener's, it is not there yet,     *)
(* though the CLI's may have appeared meanwhile.                            *)
RefundFits(r, x) ==
  /\ ledger[x] = 1
  /\ x.via = "rollback" => x = Refund(r) /\ cli[r] = "refunded"
  /\ x.via # "rollback" =>
       /\ status[r] = "FAILED"
       /\ \A y \in BagToSet(ledger) : y.ext = x.ext => y = x \/ y.via = "rollback"

RefundRows ==
  \A r \in Runs : \A x \in BagToSet(ledger) : x.ext = Refund(r).ext => RefundFits(r, x)

RefundIsNext(job) ==
  job # NoJob /\ job.seen = 1 /\ job.stage = "creditBack" /\ job.tx \in Runs

RefundChecked(w) ==
  RefundIsNext(work[w].job) =>
    \A x \in BagToSet(ledger) : x.ext = Refund(work[w].job.tx).ext => x.via = "rollback"

RefundInv == RefundRows /\ \A w \in Wallets : RefundChecked(w)

(* The call that gives back a run's reservation. *)
LEMMA RefundCall ==
  ASSUME NEW r \in Runs, NEW job \in JobType, job.stage = "creditBack", job.tx = r
  PROVE  RowOf(job).ext = Refund(r).ext /\ RowOf(job).via = "creditBack"
BY DEF RowOf, Row, Refund

LEMMA OnlyRefundCall ==
  ASSUME NEW r \in Runs, NEW job \in JobType, PostsFor(job), RowOf(job).ext = Refund(r).ext
  PROVE  job.stage = "creditBack" /\ job.tx = r /\ status[r] = "FAILED"
<1>1. PICK suffix : suffix = "-reversal"
  OBVIOUS
<1>2. RowOf(job).ext = <<Info[r].key, suffix>>
  BY <1>1, CliRows
<1>3. job.stage \in CallStages /\ StageFits(job) /\ Reached(job.tx, job.status)
  BY DEF PostsFor
<1>4. suffix = SuffixOf(job.stage)
  BY <1>2, <1>3, StageOfRow
<1>5. job.stage = "creditBack"
  BY <1>1, <1>4 DEF SuffixOf
<1>6. job.tx = r
  <2>1. r \in Txs /\ RowOf(job).ext[1] \in {r, Info[r].key}
    BY <1>2, RunsAssumption
  <2> QED BY <2>1, PostsForOwner
<1>7. job.status = "FAILED"
  BY <1>3, <1>5 DEF StageFits
<1> QED BY <1>3, <1>5, <1>6, <1>7 DEF Reached, Final

(* A row joins the refunds of r as the CLI's or as the listener's. *)
JoinsRefunds(row, r) ==
  IF row.via = "rollback"
  THEN row = Refund(r) /\ cli[r] # "refunded" /\ cli'[r] = "refunded"
  ELSE /\ status'[r] = "FAILED"
       /\ \A x \in BagToSet(ledger) : x.ext = row.ext => x.via = "rollback"

EndsKept ==
  \A r \in Runs : /\ cli[r] = "refunded" => cli'[r] = "refunded"
                  /\ status[r] = "FAILED" => status'[r] = "FAILED"

LEMMA RefundAdded ==
  ASSUME IsABag(ledger), RefundRows, EndsKept, NEW row, Post(row),
         \A r \in Runs : row.ext = Refund(r).ext => JoinsRefunds(row, r)
  PROVE  RefundRows'
<1> SUFFICES ASSUME NEW r \in Runs, NEW x \in BagToSet(ledger'), x.ext = Refund(r).ext
             PROVE  /\ ledger'[x] = 1
                    /\ x.via = "rollback" => x = Refund(r) /\ cli'[r] = "refunded"
                    /\ x.via # "rollback" =>
                         /\ status'[r] = "FAILED"
                         /\ \A y \in BagToSet(ledger') :
                              y.ext = x.ext => y = x \/ y.via = "rollback"
  BY DEF RefundRows, RefundFits, Refund, Row, User
<1> PICK e : e = Refund(r)
  OBVIOUS
<1>1. /\ BagToSet(ledger') = BagToSet(ledger) \cup {row}
      /\ \A y \in BagToSet(ledger) : y # row => ledger'[y] = ledger[y]
      /\ row \notin BagToSet(ledger) => ledger'[row] = 1
  BY PostRow
<1>2. \A y \in BagToSet(ledger) : y.ext = e.ext => RefundFits(r, y)
  BY DEF RefundRows
<1>3. row.ext = e.ext => JoinsRefunds(row, r)
  OBVIOUS
<1>4. CASE x = row
  <2>1. JoinsRefunds(row, r)
    BY <1>3, <1>4
  <2>2. row \notin BagToSet(ledger)
    BY <1>2, <1>4, <2>1 DEF JoinsRefunds, RefundFits
  <2>3. \A y \in BagToSet(ledger') : y.ext = row.ext =>
          y = row \/ y.via = "rollback" \/ row.via = "rollback"
    BY <1>1, <2>1 DEF JoinsRefunds
  <2> QED BY <1>1, <1>4, <2>1, <2>2, <2>3 DEF JoinsRefunds
<1>5. CASE x # row
  <2>1. x \in BagToSet(ledger) /\ RefundFits(r, x)
    BY <1>1, <1>2, <1>5
  <2>2. ledger'[x] = 1
    BY <1>1, <1>5, <2>1 DEF RefundFits
  <2>3. ASSUME x.via # "rollback", NEW y \in BagToSet(ledger'), y.ext = x.ext
        PROVE  y = x \/ y.via = "rollback"
    <3>1. CASE y = row
      BY <1>3, <2>1, <2>3, <3>1 DEF JoinsRefunds
    <3>2. CASE y # row
      BY <1>1, <2>1, <2>3, <3>2 DEF RefundFits
    <3> QED BY <3>1, <3>2
  <2> QED BY <2>1, <2>2, <2>3 DEF RefundFits, EndsKept
<1> QED BY <1>4, <1>5

LEMMA RefundsSame ==
  ASSUME RefundRows, EndsKept, ledger' = ledger
  PROVE  RefundRows'
BY DEF RefundRows, RefundFits, EndsKept, Refund, Row, User, BagToSet

(* The steps of the CLI. *)
LEMMA CliRefunds ==
  ASSUME FlowInv, RefundInv, NEW r \in Runs, CliActs(r)
  PROVE  RefundInv'
<1>0. /\ IsABag(ledger) /\ CliTypeOK /\ status \in [Txs -> Statuses] /\ Runs \subseteq Txs
      /\ RefundRows
  BY RunsAssumption DEF FlowInv, TypeInv, TypeOK, PollTypeOK, RefundInv
<1>1. /\ cli[r] # "refunded"
      /\ \/ ledger' = ledger
         \/ Post(Reservation(r))
         \/ Post(Refund(r)) /\ cli'[r] = "refunded"
  BY <1>0 DEF CliActs, CliStep, Verify, CheckReservation, Reserve, Create, CreateRefused,
              CheckRefund, GiveBack, CreateUnanswered, Die, Moved, CliTypeOK
<1>2. EndsKept
  BY <1>0, <1>1, CliFrame DEF EndsKept, Appear, prime
<1>3. RefundRows'
  <2>1. CASE ledger' = ledger
    BY <1>0, <1>2, <2>1, RefundsSame
  <2>2. CASE Post(Reservation(r))
    BY <1>0, <1>2, <2>2, CliRows, RefundAdded
  <2>3. CASE Post(Refund(r)) /\ cli'[r] = "refunded"
    <3>1. ASSUME NEW q \in Runs, Refund(r).ext = Refund(q).ext
          PROVE  JoinsRefunds(Refund(r), q)
      BY <1>1, <2>3, <3>1, CliRows DEF JoinsRefunds
    <3> QED BY <1>0, <1>2, <2>3, <3>1, RefundAdded
  <2> QED BY <1>1, <2>1, <2>2, <2>3
<1>4. ASSUME NEW w \in Wallets PROVE RefundChecked(w)'
  <2>1. PICK job : job = work[w].job /\ job = work'[w].job
    BY CliFrame
  <2> SUFFICES ASSUME RefundIsNext(job), NEW e, e = Refund(job.tx),
                      NEW x \in BagToSet(ledger'), x.ext = e.ext
               PROVE  x.via = "rollback"
    BY <2>1 DEF RefundChecked, RefundIsNext, Refund, Row, User
  <2>2. x \in BagToSet(ledger) => x.via = "rollback"
    BY <2>1 DEF RefundInv, RefundChecked
  <2>3. job.tx \in Runs
    BY DEF RefundIsNext
  <2>4. CASE ledger' = ledger
    BY <2>2, <2>4
  <2>5. CASE Post(Reservation(r))
    <3>1. BagToSet(ledger') = BagToSet(ledger) \cup {Reservation(r)}
      BY <1>0, <2>5, PostRow
    <3>2. Reservation(r).ext # Refund(job.tx).ext
      BY <2>3, CliRows
    <3> QED BY <2>2, <3>1, <3>2
  <2>6. CASE Post(Refund(r))
    <3>1. BagToSet(ledger') = BagToSet(ledger) \cup {Refund(r)}
      BY <1>0, <2>6, PostRow
    <3>2. Refund(r).via = "rollback"
      BY CliRows
    <3> QED BY <2>2, <3>1, <3>2
  <2> QED BY <1>1, <2>4, <2>5, <2>6
<1> QED BY <1>3, <1>4 DEF RefundInv

(* The deposit that opens the accounts gives nothing back. *)
LEMMA OpenRefunds ==
  ASSUME FlowInv, RefundInv, Open
  PROVE  RefundInv'
<1>1. PICK opening : /\ opening = {Row(u, "", u, Opening, "confirm") : u \in Users}
                     /\ ledger' = SetToBag(opening)
  BY DEF Open
<1>2. BagToSet(ledger') = opening
  BY <1>1 DEF SetToBag, BagToSet
<1>3. ASSUME NEW x \in opening, NEW r \in Runs PROVE x.ext # Refund(r).ext
  <2>1. PICK u \in Users : x = Row(u, "", u, Opening, "confirm")
    BY <1>1
  <2>2. x.ext = <<u, "">>
    BY <2>1 DEF Row
  <2>3. Refund(r).ext = <<Info[r].key, "-reversal">>
    BY CliRows
  <2> QED BY <2>2, <2>3, OtherSuffix
<1>4. RefundRows'
  BY <1>2, <1>3 DEF RefundRows, Refund, Row, User
<1>5. ASSUME NEW w \in Wallets PROVE RefundChecked(w)'
  <2>1. PICK job : job = work'[w].job
    OBVIOUS
  <2>2. RefundIsNext(job) => job.tx \in Runs
    BY DEF RefundIsNext
  <2>3. RefundIsNext(job) =>
          \A x \in BagToSet(ledger') : x.ext # Refund(job.tx).ext
    BY <1>2, <1>3, <2>2
  <2> QED BY <2>1, <2>3 DEF RefundChecked, RefundIsNext, Refund, Row, User
<1> QED BY <1>4, <1>5 DEF RefundInv

(* What a step of the listener does to the job of a goroutine: it is still  *)
(* there while at most another goroutine posts, or it starts a call anew,   *)
(* or its duplicate check has passed.                                       *)
OthersPost(v) ==
  \/ ledger' = ledger
  \/ \E w \in Wallets \ {v} :
       work[w].job \in JobType /\ work[w].job # NoJob /\ Posts(w)

LEMMA JobMoves ==
  ASSUME TypeInv, WorkCurrent, StepCases, NEW v \in Wallets
  PROVE  \/ work'[v].job \in {NoJob, work[v].job} /\ OthersPost(v)
         \/ work'[v].job.seen = 0
         \/ CheckPassed(v)
<1>0. work \in [Wallets -> WorkType]
  BY DEF TypeInv
<1>1. CASE Rounds
  <2>1. Idle.job = NoJob /\ ToFetch.job = NoJob
    BY DEF Idle, ToFetch
  <2>2. ledger' = ledger /\ work'[v].job \in {work[v].job, NoJob}
    BY <1>1, <2>1 DEF Rounds, Crash, Forget, Restart, OpenWindow, EndRecovery, BeginPoll,
                      Cleanup, Tick
  <2> QED BY <2>2 DEF OthersPost
<1>2. CASE PrimeActs \/ UNCHANGED vars
  <2>1. work' = work /\ ledger' = ledger
    BY <1>2 DEF PrimeActs, PrimeAppears, PrimeMoves, vars
  <2> QED BY <2>1 DEF OthersPost
<1>3. ASSUME NEW w \in Wallets, EndJob(w)
      PROVE  work'[v].job \in {work[v].job, NoJob} /\ ledger' = ledger
  BY <1>0, <1>3 DEF EndJob, WorkType
<1>4. ASSUME NEW w \in Wallets, ReadStep(w)
      PROVE  \/ work'[v].job \in {work[v].job, NoJob} /\ ledger' = ledger
             \/ work'[v].job.seen = 0
  <2>0. ledger' = ledger
    BY <1>4, ReadFrame
  <2>1. CASE Fetch(w) \/ FetchFails(w)
    BY <1>0, <2>0, <2>1 DEF Fetch, FetchFails, Idle, WorkType
  <2>2. CASE TakeNext(w) \/ TakeUnmatched(w)
    <3>0. PICK x \in work[w].todo :
            \E byAddress \in {ByAddress(x[1]), Nobody}, byKey \in {Info[x[1]].keyUser, Nobody} :
              Take(w, x, byAddress, byKey)
      BY <2>2 DEF TakeNext, TakeUnmatched
    <3>1. PICK byAddress \in {ByAddress(x[1]), Nobody},
               byKey \in {Info[x[1]].keyUser, Nobody} :
            Take(w, x, byAddress, byKey)
      BY <3>0
    <3>2. x[1] \in Txs /\ x[2] \in Statuses
      BY <1>0 DEF WorkType
    <3>3. PICK job : job = First(x[1], x[2], byAddress, byKey)
      OBVIOUS
    <3>4. job.seen = 0
      BY <3>2, <3>3, FirstType
    <3>5. work'[v].job \in {NoJob, job, work[v].job}
      BY <1>0, <3>1, <3>3 DEF Take, WorkType
    <3> QED BY <2>0, <3>4, <3>5
  <2> QED BY <1>4, <2>1, <2>2 DEF ReadStep
<1>5. ASSUME NEW w \in Wallets, HandlerStep(w)
      PROVE  \/ work'[v].job = work[v].job /\ OthersPost(v)
             \/ work'[v].job.seen = 0
             \/ CheckPassed(v)
  <2>0. /\ work[w].job \in JobType /\ work[w].job # NoJob
        /\ ledger' = ledger \/ Posts(w)
        /\ CheckPassed(w) \/ GoesOn(w)
    BY <1>5, HandlerSteps DEF CheckPassed
  <2>1. CASE v = w
    <3>1. CASE GoesOn(w)
      <4>1. PICK stage \in Stages : GoTo(w, stage)
        BY <3>1 DEF GoesOn
      <4>2. work'[w].job = [work[w].job EXCEPT !.stage = stage, !.seen = 0]
        BY <2>0, <4>1, GoToJob DEF TypeInv
      <4> QED BY <2>0, <2>1, <4>2 DEF JobType
    <3> QED BY <2>0, <2>1, <3>1
  <2>2. CASE v # w
    <3>1. work'[v].job = work[v].job
      <4>1. CASE CheckPassed(w)
        BY <1>0, <2>2, <4>1 DEF CheckPassed, WorkType
      <4>2. CASE GoesOn(w)
        <5>1. PICK stage \in Stages : GoTo(w, stage)
          BY <4>2 DEF GoesOn
        <5> QED BY <2>0, <2>2, <5>1, GoToJob DEF TypeInv
      <4> QED BY <2>0, <4>1, <4>2
    <3> QED BY <2>0, <2>2, <3>1 DEF OthersPost
  <2> QED BY <2>1, <2>2
<1> QED BY <1>1, <1>2, <1>3, <1>4, <1>5 DEF StepCases, OthersPost

LEMMA ListenerChecks ==
  ASSUME FlowInv, RefundInv, StepCases, NEW v \in Wallets
  PROVE  RefundChecked(v)'
<1>0. /\ TypeInv /\ WorkCurrent /\ IsABag(ledger) /\ work \in [Wallets -> WorkType]
      /\ RefundChecked(v)
  BY DEF FlowInv, TypeInv, TypeOK, RefundInv
<1> PICK new : new = work'[v].job
  OBVIOUS
<1> SUFFICES ASSUME RefundIsNext(new), NEW x \in BagToSet(ledger'),
                    x.ext = Refund(new.tx).ext
             PROVE  x.via = "rollback"
  BY DEF RefundChecked, RefundIsNext, Refund, Row, User
<1>1. PICK job : job = work[v].job
  OBVIOUS
<1>2. CASE new = job /\ OthersPost(v)
  <2>1. /\ job \in JobType /\ job # NoJob /\ job.stage = "creditBack" /\ job.tx \in Runs
        /\ job.stage \in CallStages
    BY <1>0, <1>1, <1>2 DEF RefundIsNext, WorkType, CallStages
  <2>2. /\ StageFits(job) /\ v \in Info[job.tx].wallets
        /\ RowOf(job).ext = Refund(job.tx).ext
    BY <1>0, <1>1, <2>1, RefundCall DEF WorkCurrent, JobCurrent
  <2>3. x \in BagToSet(ledger) => x.via = "rollback"
    BY <1>0, <1>1, <1>2 DEF RefundChecked
  <2>4. CASE ledger' = ledger
    BY <2>3, <2>4
  <2>5. ASSUME NEW w \in Wallets \ {v}, work[w].job \in JobType, work[w].job # NoJob,
               Posts(w)
        PROVE  x \in BagToSet(ledger)
    <3>1. PICK own \in JobType : own = work[w].job
      BY <2>5
    <3>2. /\ StageFits(own) /\ own.stage \in CallStages /\ w \in Info[own.tx].wallets
      BY <1>0, <2>5, <3>1 DEF WorkCurrent, JobCurrent, Posts
    <3>3. BagToSet(ledger') = BagToSet(ledger) \cup {RowOf(own)}
      BY <1>0, <2>5, <3>1, PostRow DEF Posts
    <3>4. ASSUME x = RowOf(own) PROVE FALSE
      <4>1. own.tx = job.tx
        BY <1>2, <2>1, <2>2, <3>2, <3>4, ExtNames
      <4>2. job.tx \in Txs /\ Info[job.tx].type = "WITHDRAWAL"
        BY <2>1, RunsAssumption
      <4> QED BY <2>2, <3>2, <4>1, <4>2, WithdrawalAssumption
    <3> QED BY <3>3, <3>4
  <2> QED BY <1>2, <2>3, <2>4, <2>5 DEF OthersPost
<1>3. CASE CheckPassed(v)
  <2>1. new = [job EXCEPT !.seen = 1] /\ job \in JobType
    <3>1. work[v].job # NoJob
      BY <1>3 DEF CheckPassed, NoJob, CallStages
    <3> QED BY <1>0, <1>1, <1>3, <3>1 DEF CheckPassed, WorkType
  <2>2. job.stage = "creditBack" /\ job.tx \in Runs /\ new.tx = job.tx
    BY <2>1 DEF RefundIsNext, JobType
  <2>3. ~Known(Refund(new.tx).ext)
    BY <1>1, <1>3, <2>1, <2>2, RefundCall DEF CheckPassed
  <2> QED BY <1>3, <2>3 DEF CheckPassed, Known
<1>4. CASE new = NoJob
  BY <1>4 DEF RefundIsNext
<1>5. CASE new.seen = 0
  BY <1>5 DEF RefundIsNext
<1> QED BY <1>0, <1>1, <1>2, <1>3, <1>4, <1>5, JobMoves

LEMMA ListenerRefunds ==
  ASSUME FlowInv, RefundInv, Next, UNCHANGED <<cli, lost>>
  PROVE  RefundInv'
<1>0. /\ TypeInv /\ WorkCurrent /\ StepCases /\ IsABag(ledger) /\ RefundRows
  BY Steps DEF FlowInv, TypeInv, TypeOK, RefundInv
<1>1. EndsKept
  <2>1. ReachedKept
    BY <1>0, ReachedStays
  <2>2. Runs \subseteq Txs
    BY RunsAssumption
  <2> QED BY <2>1, <2>2 DEF EndsKept, ReachedKept, Reached, Statuses, Final
<1>2. ASSUME NEW job \in JobType, PostsFor(job) PROVE RefundRows'
  <2>1. PICK w \in Wallets : job = work[w].job /\ job # NoJob /\ job.seen = 1
    BY <1>2 DEF PostsFor
  <2>2. ASSUME NEW r \in Runs, RowOf(job).ext = Refund(r).ext
        PROVE  JoinsRefunds(RowOf(job), r)
    <3>1. job.stage = "creditBack" /\ job.tx = r /\ status[r] = "FAILED"
      BY <1>2, <2>2, OnlyRefundCall
    <3>2. RowOf(job).via # "rollback"
      BY <3>1, RefundCall
    <3>3. \A x \in BagToSet(ledger) : x.ext = RowOf(job).ext => x.via = "rollback"
      BY <2>1, <2>2, <3>1 DEF RefundInv, RefundChecked, RefundIsNext
    <3>4. status' = status
      BY <1>2 DEF PostsFor
    <3> QED BY <3>1, <3>2, <3>3, <3>4 DEF JoinsRefunds
  <2>3. PICK row : row = RowOf(job)
    OBVIOUS
  <2>4. Post(row)
    BY <1>2, <2>3 DEF PostsFor
  <2> QED BY <1>0, <1>1, <2>2, <2>3, <2>4, RefundAdded
<1>3. RefundRows'
  BY <1>0, <1>1, <1>2, LedgerSteps, RefundsSame
<1> QED BY <1>0, <1>3, ListenerChecks DEF RefundInv

LEMMA RefundInvInit == FlowInit => RefundInv
<1> SUFFICES ASSUME FlowInit PROVE RefundInv
  OBVIOUS
<1>1. BagToSet(ledger) = {} /\ \A w \in Wallets : work[w].job = NoJob
  BY DEF FlowInit, Init, EmptyBag, SetToBag, BagToSet, PollInit, Idle
<1> QED BY <1>1 DEF RefundInv, RefundRows, RefundChecked, RefundIsNext

LEMMA RefundInvStep == FlowInv /\ RefundInv /\ [FlowNext]_flowVars => RefundInv'
<1> SUFFICES ASSUME FlowInv, RefundInv, [FlowNext]_flowVars PROVE RefundInv'
  OBVIOUS
<1>1. CASE Open
  BY <1>1, OpenRefunds
<1>2. ASSUME NEW r \in Runs, CliActs(r) PROVE RefundInv'
  BY <1>2, CliRefunds
<1>3. CASE Next /\ UNCHANGED <<cli, lost>>
  BY <1>3, ListenerRefunds
<1>4. CASE UNCHANGED flowVars
  <2>1. EndsKept /\ RefundRows'
    BY <1>4, RefundsSame DEF flowVars, vars, prime, EndsKept, RefundInv
  <2>2. work' = work /\ ledger' = ledger
    BY <1>4 DEF flowVars, vars
  <2>3. \A w \in Wallets : RefundChecked(w)'
    BY <2>2 DEF RefundInv, RefundChecked, RefundIsNext, Refund, Row, User, BagToSet
  <2> QED BY <2>1, <2>3 DEF RefundInv
<1> QED BY <1>1, <1>2, <1>3, <1>4 DEF FlowNext, CliActs

(* The CLI and the listener each give back at most once, and both only when *)
(* Prime's answer was lost.                                                 *)
THEOREM RefundsAreFew == FlowSpec => []RefundsPerParty
<1>1. FlowInv /\ RefundInv => RefundsPerParty
  <2> SUFFICES ASSUME FlowInv, RefundInv, NEW r \in Runs,
                      NEW refunds,
                      refunds = {x \in BagToSet(ledger) : x.ext = Refund(r).ext}
               PROVE  /\ \A x \in refunds : ledger[x] = 1
                      /\ Cardinality(refunds) > 1 => r \in lost
    BY DEF RefundsPerParty
  <2>1. \A x \in refunds : RefundFits(r, x) /\ x \in BagToSet(ledger) /\ x.ext = Refund(r).ext
    BY DEF RefundInv, RefundRows
  <2>2. ASSUME r \notin lost PROVE Cardinality(refunds) \in {0, 1}
    <3>1. ASSUME NEW x \in refunds, NEW y \in refunds PROVE x = y
      <4>1. ~(cli[r] = "refunded" /\ status[r] = "FAILED")
        BY <2>2 DEF FlowInv, RunFits
      <4> QED BY <2>1, <3>1, <4>1 DEF RefundFits
    <3>2. CASE refunds = {}
      BY <3>2, FS_EmptySet
    <3>3. CASE refunds # {}
      <4>1. PICK x \in refunds : TRUE
        BY <3>3
      <4>2. refunds = {x}
        BY <3>1, <4>1
      <4>3. Cardinality({x}) = 1
        BY FS_Singleton
      <4> QED BY <4>2, <4>3
    <3> QED BY <3>2, <3>3
  <2>3. \A x \in refunds : ledger[x] = 1
    BY <2>1 DEF RefundFits
  <2>4. Cardinality(refunds) > 1 => r \in lost
    BY <2>2
  <2> QED BY <2>3, <2>4
<1> QED BY <1>1, FlowInvariance, RefundInvInit, RefundInvStep, PTL DEF FlowSpec

-----------------------------------------------------------------------------
(* Debits.  What debits a run's withdrawal is its reservation, under the    *)
(* key, and a posting of the listener under Prime's id.  Each is there once *)
(* at most: the CLI has reserved nothing while it still has to reserve, and *)
(* a goroutine whose duplicate check has passed is alone with its           *)
(* withdrawal until it posts.                                               *)
Debits(ext) == {x \in BagToSet(ledger) : x.ext = ext /\ x.amount < 0}

Single(ext) ==
  \A x \in Debits(ext) : ledger[x] = 1 /\ \A y \in Debits(ext) : y = x

DebitsSingle ==
  \A r \in Runs : Single(<<r, "">>) /\ Single(<<Info[r].key, "">>)

StillToReserve(r) ==
  cli[r] \in {"start", "verified", "checked"} => Debits(<<Info[r].key, "">>) = {}

SecondCalls == {"failBack", "creditBack", "convert", "convDst"}

DebitIsNext(job) ==
  job # NoJob /\ job.seen = 1 /\ job.tx \in Runs /\ job.stage \notin SecondCalls

DebitChecked(w) ==
  DebitIsNext(work[w].job) => Debits(<<work[w].job.tx, "">>) = {}

DebitInv ==
  /\ DebitsSingle
  /\ \A r \in Runs : StillToReserve(r)
  /\ \A w \in Wallets : DebitChecked(w)

LEMMA DebitsSame ==
  ASSUME ledger' = ledger, NEW ext
  PROVE  Debits(ext)' = Debits(ext) /\ (Single(ext) => Single(ext)')
BY DEF Debits, Single, BagToSet

LEMMA DebitElsewhere ==
  ASSUME IsABag(ledger), NEW row, Post(row), NEW ext, row.ext # ext \/ ~(row.amount < 0)
  PROVE  Debits(ext)' = Debits(ext) /\ (Single(ext) => Single(ext)')
<1>1. Debits(ext)' = Debits(ext)
  BY PostRow DEF Debits
<1>2. \A x \in Debits(ext) : ledger'[x] = ledger[x]
  BY PostRow DEF Debits
<1> QED BY <1>1, <1>2 DEF Single

LEMMA DebitAdded ==
  ASSUME IsABag(ledger), NEW row, Post(row), NEW ext,
         Single(ext), row.ext = ext => Debits(ext) = {}
  PROVE  Single(ext)'
<1>1. CASE row.ext = ext /\ row.amount < 0
  <2>1. row \notin BagToSet(ledger) /\ Debits(ext) = {}
    BY <1>1 DEF Debits
  <2>2. ledger'[row] = 1 /\ BagToSet(ledger') = BagToSet(ledger) \cup {row}
    BY <2>1, PostRow
  <2>3. Debits(ext)' = {row}
    BY <1>1, <2>1, <2>2 DEF Debits
  <2> QED BY <2>2, <2>3 DEF Single
<1>2. CASE row.ext # ext \/ ~(row.amount < 0)
  BY <1>2, DebitElsewhere
<1> QED BY <1>1, <1>2

(* Prime's ids and the keys of runs name different debits. *)
LEMMA DebitNames ==
  ASSUME NEW r \in Runs, NEW q \in Runs
  PROVE  /\ <<Info[r].key, "">> # <<q, "">>
         /\ <<Info[r].key, "">> = <<Info[q].key, "">> => r = q
<1>1. Info[r].key \in Keys \cup {NoKey} /\ q \in Txs /\ r \in Txs
  BY RunsAssumption, InfoAssumption DEF InfoType
<1>2. Info[r].key # q
  BY <1>1, NamesAssumption
<1> QED BY <1>2, SamePair, RunsAssumption

(* The deposit that opens the accounts debits nothing. *)
LEMMA OpenDebits ==
  ASSUME DebitInv, Open
  PROVE  DebitInv'
<1>1. PICK opening : /\ opening = {Row(u, "", u, Opening, "confirm") : u \in Users}
                     /\ ledger' = SetToBag(opening)
  BY DEF Open
<1>2. BagToSet(ledger') = opening
  BY <1>1 DEF SetToBag, BagToSet
<1>3. ASSUME NEW x \in opening PROVE ~(x.amount < 0)
  <2>1. PICK u \in Users : x = Row(u, "", u, Opening, "confirm")
    BY <1>1
  <2>2. x.amount = Opening
    BY <2>1 DEF Row
  <2> QED BY <2>2, OpeningAssumption
<1>4. \A ext : Debits(ext)' = {}
  BY <1>2, <1>3 DEF Debits
<1> QED BY <1>4 DEF DebitInv, DebitsSingle, Single, StillToReserve, DebitChecked

(* The CLI reserves once and debits nothing else. *)
LEMMA CliDebits ==
  ASSUME FlowInv, DebitInv, NEW r \in Runs, CliActs(r)
  PROVE  DebitInv'
<1>0. IsABag(ledger) /\ CliTypeOK
  BY DEF FlowInv, TypeInv, TypeOK
<1>1. \/ ledger' = ledger
      \/ Post(Refund(r))
      \/ Post(Reservation(r)) /\ cli[r] = "checked" /\ cli'[r] = "reserved"
  BY <1>0 DEF CliActs, CliStep, Verify, CheckReservation, Reserve, Create, CreateRefused,
              CheckRefund, GiveBack, CreateUnanswered, Die, Moved, CliTypeOK
<1>2. /\ cli'[r] \in {"start", "verified", "checked"}
           => cli[r] \in {"start", "verified", "checked"}
      /\ \A q \in Runs \ {r} : cli'[q] = cli[q]
      /\ work' = work
  <2>1. cli'[r] \in {"start", "verified", "checked"}
          => cli[r] \in {"start", "verified", "checked"}
    BY <1>0 DEF CliActs, CliStep, Verify, CheckReservation, Reserve, Create, CreateRefused,
                CheckRefund, GiveBack, CreateUnanswered, Die, Moved, CliTypeOK
  <2> QED BY <2>1, CliFrame
<1>3. ASSUME \A ext : Debits(ext)' = Debits(ext) /\ (Single(ext) => Single(ext)')
      PROVE  DebitInv'
  BY <1>2, <1>3 DEF DebitInv, DebitsSingle, StillToReserve, DebitChecked, DebitIsNext
<1>4. CASE ledger' = ledger
  BY <1>3, <1>4, DebitsSame
<1>5. CASE Post(Refund(r))
  <2>1. PICK row : row = Refund(r)
    OBVIOUS
  <2>2. \A id : row.ext # <<id, "">>
    <3>1. row.ext = <<Info[r].key, "-reversal">>
      BY <2>1, CliRows
    <3> QED BY <3>1, OtherSuffix
  <2>3. \A ext : row.ext # ext => Debits(ext)' = Debits(ext) /\ (Single(ext) => Single(ext)')
    BY <1>0, <1>5, <2>1, DebitElsewhere
  <2> QED BY <1>2, <2>2, <2>3 DEF DebitInv, DebitsSingle, StillToReserve, DebitChecked, DebitIsNext
<1>6. CASE Post(Reservation(r)) /\ cli[r] = "checked" /\ cli'[r] = "reserved"
  <2>1. PICK row : row = Reservation(r)
    OBVIOUS
  <2>2. row.ext = <<Info[r].key, "">>
    BY <2>1, CliRows
  <2>3. \A ext : row.ext # ext => Debits(ext)' = Debits(ext) /\ (Single(ext) => Single(ext)')
    BY <1>0, <1>6, <2>1, DebitElsewhere
  <2>4. Single(row.ext)'
    BY <1>0, <1>6, <2>1, <2>2, DebitAdded DEF DebitInv, DebitsSingle, StillToReserve
  <2>5. DebitsSingle'
    BY <2>2, <2>3, <2>4, DebitNames DEF DebitInv, DebitsSingle
  <2>6. ASSUME NEW q \in Runs PROVE StillToReserve(q)'
    <3>1. CASE q = r
      BY <1>6, <3>1 DEF StillToReserve
    <3>2. CASE q # r
      <4>1. row.ext # <<Info[q].key, "">>
        BY <2>2, <3>2, DebitNames
      <4>2. Debits(<<Info[q].key, "">>)' = Debits(<<Info[q].key, "">>)
        BY <2>3, <4>1
      <4> QED BY <1>2, <3>2, <4>2 DEF DebitInv, StillToReserve
    <3> QED BY <3>1, <3>2
  <2>7. ASSUME NEW w \in Wallets PROVE DebitChecked(w)'
    <3>1. PICK job : job = work[w].job /\ job = work'[w].job
      BY <1>2
    <3>2. DebitIsNext(job) => Debits(<<job.tx, "">>)' = {}
      <4> SUFFICES ASSUME DebitIsNext(job) PROVE Debits(<<job.tx, "">>)' = {}
        OBVIOUS
      <4>1. row.ext # <<job.tx, "">>
        BY <2>2, DebitNames DEF DebitIsNext
      <4>2. Debits(<<job.tx, "">>) = {}
        BY <3>1 DEF DebitInv, DebitChecked
      <4> QED BY <2>3, <4>1, <4>2
    <3> QED BY <3>1, <3>2 DEF DebitChecked, DebitIsNext, Debits
  <2> QED BY <2>5, <2>6, <2>7 DEF DebitInv
<1> QED BY <1>1, <1>4, <1>5, <1>6

(* The call of a goroutine that debits a run's withdrawal. *)
LEMMA DebitCall ==
  ASSUME NEW job \in JobType, job.stage \in CallStages, job.stage \notin SecondCalls
  PROVE  RowOf(job).ext = <<job.tx, "">>
BY ExtOfRow DEF SecondCalls, CallStages

LEMMA FirstOfPair ==
  ASSUME NEW a, NEW b
  PROVE  <<a, b>>[1] = a
OBVIOUS

LEMMA DebitPosted ==
  ASSUME NEW r \in Runs, NEW job \in JobType, PostsFor(job), NEW id \in {r, Info[r].key},
         RowOf(job).ext = <<id, "">>
  PROVE  id = r /\ job.tx = r /\ job.stage \notin SecondCalls
<1>1. PICK suffix : suffix = ""
  OBVIOUS
<1>2. RowOf(job).ext = <<id, suffix>> /\ job.stage \in CallStages
  BY <1>1 DEF PostsFor
<1>3. /\ suffix = SuffixOf(job.stage)
      /\ id = IF job.stage = "creditBack" THEN Info[job.tx].key ELSE job.tx
  BY <1>2, StageOfRow
<1>4. job.tx = r
  <2>1. RowOf(job).ext[1] = id
    BY <1>2, FirstOfPair
  <2>2. r \in Txs
    BY RunsAssumption
  <2> QED BY <2>1, <2>2, PostsForOwner
<1>5. job.stage \notin SecondCalls
  BY <1>1, <1>3 DEF SuffixOf, SecondCalls
<1> QED BY <1>3, <1>4, <1>5 DEF SecondCalls

LEMMA ListenerDebitChecks ==
  ASSUME FlowInv, DebitInv, StepCases, NEW v \in Wallets
  PROVE  DebitChecked(v)'
<1>0. /\ TypeInv /\ WorkCurrent /\ IsABag(ledger) /\ work \in [Wallets -> WorkType]
      /\ DebitChecked(v)
  BY DEF FlowInv, TypeInv, TypeOK, DebitInv
<1> PICK new : new = work'[v].job
  OBVIOUS
<1> SUFFICES ASSUME DebitIsNext(new)
             PROVE  Debits(<<new.tx, "">>)' = {}
  BY DEF DebitChecked, DebitIsNext, Debits
<1>1. PICK job : job = work[v].job
  OBVIOUS
<1>2. CASE new = job /\ OthersPost(v)
  <2>1. /\ job \in JobType /\ job # NoJob /\ job.tx \in Runs /\ job.seen = 1
        /\ job.stage \notin SecondCalls
    BY <1>0, <1>1, <1>2 DEF DebitIsNext, WorkType
  <2>2. StageFits(job) /\ v \in Info[job.tx].wallets /\ job.stage \in CallStages
    BY <1>0, <1>1, <2>1 DEF WorkCurrent, JobCurrent
  <2>3. Debits(<<job.tx, "">>) = {}
    BY <1>0, <1>1, <1>2 DEF DebitChecked
  <2>4. CASE ledger' = ledger
    BY <1>2, <2>3, <2>4, DebitsSame
  <2>5. ASSUME NEW w \in Wallets \ {v}, work[w].job \in JobType, work[w].job # NoJob,
               Posts(w)
        PROVE  Debits(<<job.tx, "">>)' = {}
    <3>1. PICK own \in JobType : own = work[w].job
      BY <2>5
    <3>2. /\ StageFits(own) /\ own.stage \in CallStages /\ w \in Info[own.tx].wallets
      BY <1>0, <2>5, <3>1 DEF WorkCurrent, JobCurrent, Posts
    <3>3. RowOf(own).ext # <<job.tx, "">>
      <4> SUFFICES ASSUME RowOf(own).ext = <<job.tx, "">> PROVE FALSE
        OBVIOUS
      <4>1. RowOf(job).ext = <<job.tx, "">>
        BY <2>1, <2>2, DebitCall
      <4>2. own.tx = job.tx
        BY <2>1, <2>2, <3>2, <4>1, ExtNames
      <4>3. job.tx \in Txs /\ Info[job.tx].type = "WITHDRAWAL"
        BY <2>1, RunsAssumption
      <4> QED BY <2>2, <2>5, <3>2, <4>2, <4>3, WithdrawalAssumption
    <3>4. PICK row : row = RowOf(own)
      OBVIOUS
    <3>5. Post(row)
      BY <2>5, <3>1, <3>4 DEF Posts
    <3> QED BY <1>0, <2>3, <3>3, <3>4, <3>5, DebitElsewhere
  <2> QED BY <1>2, <2>4, <2>5 DEF OthersPost
<1>3. CASE CheckPassed(v)
  <2>1. new = [job EXCEPT !.seen = 1] /\ job \in JobType
    <3>1. work[v].job # NoJob
      BY <1>3 DEF CheckPassed, NoJob, CallStages
    <3> QED BY <1>0, <1>1, <1>3, <3>1 DEF CheckPassed, WorkType
  <2>2. job.stage \notin SecondCalls /\ job.tx \in Runs /\ new.tx = job.tx
    BY <2>1 DEF DebitIsNext, JobType
  <2>3. ~Known(<<job.tx, "">>) /\ ledger' = ledger
    BY <1>1, <1>3, <2>1, <2>2, DebitCall DEF CheckPassed
  <2>4. Debits(<<job.tx, "">>) = {}
    BY <2>3 DEF Debits, Known
  <2> QED BY <2>2, <2>3, <2>4, DebitsSame
<1>4. CASE new = NoJob
  BY <1>4 DEF DebitIsNext
<1>5. new.seen # 0
  BY DEF DebitIsNext
<1> QED BY <1>0, <1>1, <1>2, <1>3, <1>4, <1>5, JobMoves

LEMMA ListenerDebits ==
  ASSUME FlowInv, DebitInv, Next, UNCHANGED <<cli, lost>>
  PROVE  DebitInv'
<1>0. TypeInv /\ WorkCurrent /\ StepCases /\ IsABag(ledger)
  BY Steps DEF FlowInv, TypeInv, TypeOK
<1>1. CASE ledger' = ledger
  <2>1. \A ext : Debits(ext)' = Debits(ext) /\ (Single(ext) => Single(ext)')
    BY <1>1, DebitsSame
  <2>2. DebitsSingle' /\ \A r \in Runs : StillToReserve(r)'
    BY <2>1 DEF DebitInv, DebitsSingle, StillToReserve
  <2> QED BY <1>0, <2>2, ListenerDebitChecks DEF DebitInv
<1>2. ASSUME NEW job \in JobType, PostsFor(job)
      PROVE  DebitsSingle' /\ \A r \in Runs : StillToReserve(r)'
  <2>1. PICK w \in Wallets : job = work[w].job /\ job # NoJob /\ job.seen = 1
    BY <1>2 DEF PostsFor
  <2>2. PICK row : row = RowOf(job) /\ Post(row)
    BY <1>2 DEF PostsFor
  <2> SUFFICES ASSUME NEW r \in Runs
               PROVE  /\ Single(<<r, "">>)' /\ Single(<<Info[r].key, "">>)'
                      /\ StillToReserve(r)'
    BY DEF DebitsSingle
  <2>3. row.ext # <<Info[r].key, "">>
    BY <1>2, <2>2, DebitPosted, DebitNames
  <2>4. row.ext = <<r, "">> => Debits(<<r, "">>) = {}
    <3> SUFFICES ASSUME row.ext = <<r, "">> PROVE Debits(<<r, "">>) = {}
      OBVIOUS
    <3>1. job.tx = r /\ job.stage \notin SecondCalls
      BY <1>2, <2>2, DebitPosted
    <3> QED BY <2>1, <3>1 DEF DebitInv, DebitChecked, DebitIsNext
  <2>5. Single(<<r, "">>)'
    BY <1>0, <2>2, <2>4, DebitAdded DEF DebitInv, DebitsSingle
  <2>6. Single(<<Info[r].key, "">>)' /\ Debits(<<Info[r].key, "">>)' = Debits(<<Info[r].key, "">>)
    BY <1>0, <2>2, <2>3, DebitElsewhere DEF DebitInv, DebitsSingle
  <2>7. StillToReserve(r)'
    BY <2>6 DEF DebitInv, StillToReserve
  <2> QED BY <2>5, <2>6, <2>7
<1> QED BY <1>0, <1>1, <1>2, LedgerSteps, ListenerDebitChecks DEF DebitInv

LEMMA DebitInvInit == FlowInit => DebitInv
<1> SUFFICES ASSUME FlowInit PROVE DebitInv
  OBVIOUS
<1>1. BagToSet(ledger) = {}
  BY DEF FlowInit, Init, EmptyBag, SetToBag, BagToSet
<1>2. \A ext : Debits(ext) = {}
  BY <1>1 DEF Debits
<1> QED BY <1>2 DEF DebitInv, DebitsSingle, Single, StillToReserve, DebitChecked

LEMMA DebitInvStep == FlowInv /\ DebitInv /\ [FlowNext]_flowVars => DebitInv'
<1> SUFFICES ASSUME FlowInv, DebitInv, [FlowNext]_flowVars PROVE DebitInv'
  OBVIOUS
<1>1. CASE Open
  BY <1>1, OpenDebits
<1>2. ASSUME NEW r \in Runs, CliActs(r) PROVE DebitInv'
  BY <1>2, CliDebits
<1>3. CASE Next /\ UNCHANGED <<cli, lost>>
  BY <1>3, ListenerDebits
<1>4. CASE UNCHANGED flowVars
  <2>1. ledger' = ledger /\ work' = work /\ cli' = cli
    BY <1>4 DEF flowVars, vars
  <2>2. \A ext : Debits(ext)' = Debits(ext) /\ (Single(ext) => Single(ext)')
    BY <2>1, DebitsSame
  <2> QED BY <2>1, <2>2 DEF DebitInv, DebitsSingle, StillToReserve, DebitChecked, DebitIsNext
<1> QED BY <1>1, <1>2, <1>3, <1>4 DEF FlowNext, CliActs

LEMMA SinglesAreFew ==
  ASSUME NEW ext, Single(ext)
  PROVE  Cardinality(Debits(ext)) <= 1 /\ \A x \in Debits(ext) : ledger[x] = 1
<1>1. PICK debits : debits = Debits(ext)
  OBVIOUS
<1>2. CASE debits = {}
  BY <1>1, <1>2, FS_EmptySet
<1>3. CASE debits # {}
  <2>1. PICK x \in debits : debits = {x}
    BY <1>1, <1>3 DEF Single
  <2>2. Cardinality({x}) = 1
    BY FS_Singleton
  <2>3. Cardinality(debits) = 1
    BY <2>1, <2>2
  <2> QED BY <1>1, <2>3 DEF Single
<1> QED BY <1>2, <1>3

(* Whatever lookups fail and however often the listener tries again, a      *)
(* withdrawal of the CLI is debited at most once beside its reservation.    *)
THEOREM DebitsAreFew == FlowSpec => []DebitedAtMostTwice
<1>1. DebitInv => DebitedAtMostTwice
  <2> SUFFICES ASSUME DebitInv, NEW r \in Runs, NEW ref \in {r, Info[r].key},
                      NEW ext, ext = <<ref, "">>
               PROVE  Cardinality(Debits(ext)) <= 1 /\ \A x \in Debits(ext) : ledger[x] = 1
    BY DEF DebitedAtMostTwice, Debits
  <2>1. Single(ext)
    BY DEF DebitInv, DebitsSingle
  <2> QED BY <2>1, SinglesAreFew
<1> QED BY <1>1, FlowInvariance, DebitInvInit, DebitInvStep, PTL DEF FlowSpec

-----------------------------------------------------------------------------
(* The listener's promises beside the CLI. *)

(* The rows of the CLI and the opening deposit are no second postings. *)
LEMMA NoSecondLeg ==
  ASSUME NEW id, NEW suffix \in {"", "-reversal"}, NEW t
  PROVE  <<id, suffix>> \notin {<<t, "-dst">>, <<t, "-failed-reversal">>}
<1>1. PICK x : x = "-dst"
  OBVIOUS
<1>2. PICK y : y = "-failed-reversal"
  OBVIOUS
<1>3. <<id, suffix>> # <<t, x>> /\ <<id, suffix>> # <<t, y>>
  BY <1>1, <1>2, SamePair
<1> QED BY <1>1, <1>2, <1>3

(* SecondCalls than the listener mark nothing and post no second leg. *)
AddsNoLeg ==
  /\ cache' = cache
  /\ \A e : Known(e) => Known(e)'
  /\ \A t : /\ Known(<<t, "-dst">>)' => Known(<<t, "-dst">>)
            /\ Known(<<t, "-failed-reversal">>)' => Known(<<t, "-failed-reversal">>)

LEMMA NoLegsPosted ==
  ASSUME FlowInv, Open \/ \E r \in Runs : CliActs(r)
  PROVE  AddsNoLeg
<1>0. TypeInv /\ IsABag(ledger)
  BY DEF FlowInv, TypeInv, TypeOK
<1>1. CASE Open
  <2>1. PICK opening : /\ opening = {Row(u, "", u, Opening, "confirm") : u \in Users}
                       /\ ledger' = SetToBag(opening)
    BY <1>1 DEF Open
  <2>2. BagToSet(ledger') = opening
    BY <2>1 DEF SetToBag, BagToSet
  <2>3. ASSUME NEW x \in opening PROVE \E u \in Users : x.ext = <<u, "">>
    <3>1. PICK u \in Users : x = Row(u, "", u, Opening, "confirm")
      BY <2>1
    <3>2. x.ext = <<u, "">>
      BY <3>1 DEF Row
    <3> QED BY <3>2
  <2>4. \A e : Known(e)' => \E u \in Users : e = <<u, "">>
    BY <2>2, <2>3 DEF Known
  <2>5. \A e : ~Known(e)
    BY <1>1 DEF Open, Known, EmptyBag, SetToBag, BagToSet
  <2>6. cache' = cache
    BY <1>1 DEF Open
  <2>7. ASSUME NEW t PROVE ~Known(<<t, "-dst">>)' /\ ~Known(<<t, "-failed-reversal">>)'
    <3>1. \A u : <<u, "">> \notin {<<t, "-dst">>, <<t, "-failed-reversal">>}
      BY NoSecondLeg
    <3> QED BY <2>4, <3>1
  <2> QED BY <2>5, <2>6, <2>7 DEF AddsNoLeg
<1>2. ASSUME NEW r \in Runs, CliActs(r), ledger' = ledger
      PROVE  cache' = cache /\ \A e : Known(e)' <=> Known(e)
  BY <1>2, CliFrame, SameKnown
<1>3. ASSUME NEW r \in Runs, CliActs(r), NEW row, Post(row),
             NEW id, NEW suffix \in {"", "-reversal"}, row.ext = <<id, suffix>>
      PROVE  AddsNoLeg
  <2>1. \A e : Known(e)' <=> Known(e) \/ row.ext = e
    BY <1>0, <1>3, PostKnown
  <2>2. \A t : row.ext \notin {<<t, "-dst">>, <<t, "-failed-reversal">>}
    BY <1>3, NoSecondLeg
  <2> QED BY <1>3, <2>1, <2>2, CliFrame DEF AddsNoLeg
<1>4. \A r \in Runs : /\ Reservation(r).ext = <<Info[r].key, "">>
                      /\ Refund(r).ext = <<Info[r].key, "-reversal">>
  BY CliRows
<1>5. ASSUME NEW r \in Runs, CliActs(r), ledger' # ledger
      PROVE  AddsNoLeg
  <2>1. CASE Post(Reservation(r))
    BY <1>3, <1>4, <1>5, <2>1
  <2>2. CASE Post(Refund(r))
    BY <1>3, <1>4, <1>5, <2>2
  <2> QED BY <1>5, <2>1, <2>2, CliFrame DEF CliPosts
<1> QED BY <1>1, <1>2, <1>5 DEF AddsNoLeg

(* The listener's marks and pairs of postings hold as well when runs of the *)
(* CLI post to the same ledger and make transactions appear at Prime.       *)
THEOREM PromisesBesideTheCli == FlowSpec => [](MarkMeansRecorded /\ LegsInOrder)
<1>1. FlowInit => MarkMeansRecorded /\ LegsInOrder
  BY DEF FlowInit, Init, PollInit, MarkMeansRecorded, Processed,
         LegsInOrder, Known, EmptyBag, SetToBag, BagToSet
<1>2. FlowInv /\ MarkMeansRecorded /\ LegsInOrder /\ [FlowNext]_flowVars
        => MarkMeansRecorded' /\ LegsInOrder'
  <2> SUFFICES ASSUME FlowInv, MarkMeansRecorded, LegsInOrder, [FlowNext]_flowVars
               PROVE  MarkMeansRecorded' /\ LegsInOrder'
    OBVIOUS
  <2>1. CASE Open \/ \E r \in Runs : CliActs(r)
    <3>1. LegsInOrder'
      BY <2>1, NoLegsPosted DEF LegsInOrder, AddsNoLeg
    <3>2. ASSUME NEW t \in Txs, Processed(t)' PROVE Recorded(t, cache[t].as)'
      <4>1. PICK s : s = cache[t].as
        OBVIOUS
      <4>2. cache' = cache /\ Recorded(t, s)
        BY <2>1, <3>2, <4>1, NoLegsPosted DEF AddsNoLeg, MarkMeansRecorded, Processed
      <4>3. Recorded(t, s)'
        BY <2>1, <4>2, NoLegsPosted, RecordedStays DEF AddsNoLeg
      <4> QED BY <4>1, <4>2, <4>3 DEF Recorded
    <3> QED BY <3>1, <3>2 DEF MarkMeansRecorded
  <2>2. CASE Next \/ UNCHANGED flowVars
    <3>1. [Next]_vars
      BY <2>2 DEF flowVars, vars
    <3> QED BY <3>1, Steps, MarksStep, LegsStep DEF FlowInv
  <2> QED BY <2>1, <2>2 DEF FlowNext, CliActs
<1> QED BY <1>1, <1>2, FlowInvariance, PTL DEF FlowSpec
=============================================================================
