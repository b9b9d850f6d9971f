---------------------------- MODULE ListenerProofs ----------------------------
(* Theorems about Listener, for every set of wallets, transactions, users   *)
(* and keys, every window and every number of failures.                     *)
EXTENDS Listener, PollingProofs, Sums

-----------------------------------------------------------------------------
(* What a posting adds to the ledger: one copy of its row. *)
LEMMA PostRow ==
  ASSUME NEW row, Post(row), IsABag(ledger)
  PROVE  /\ IsABag(ledger')
         /\ BagToSet(ledger') = BagToSet(ledger) \cup {row}
         /\ \A r \in BagToSet(ledger) :
              r # row => ledger'[r] = ledger[r]
         /\ row \notin BagToSet(ledger) => ledger'[row] = 1
<1> USE DEF BagToSet
<1>0. \A e \in DOMAIN ledger : ledger[e] \in Nat /\ ledger[e] > 0
  BY DEF IsABag
<1>1. DOMAIN ledger' = DOMAIN ledger \cup {row}
  BY DEF Post, (+), SetToBag
<1>2. \A e \in DOMAIN ledger : e # row => ledger'[e] = ledger[e]
  BY <1>0 DEF Post, (+), SetToBag
<1>3. ledger'[row] = IF row \in DOMAIN ledger THEN ledger[row] + 1 ELSE 1
  BY DEF Post, (+), SetToBag
<1>4. \A e \in DOMAIN ledger' : ledger'[e] \in {n \in Nat : n > 0}
  BY <1>0, <1>1, <1>2, <1>3
<1>5. ledger' = [e \in DOMAIN ledger' |-> ledger'[e]]
  BY DEF Post, (+), SetToBag
<1>6. IsABag(ledger')
  BY <1>4, <1>5 DEF IsABag
<1> QED BY <1>1, <1>2, <1>3, <1>6

LEMMA PostKnown ==
  ASSUME NEW row, Post(row), IsABag(ledger)
  PROVE  \A e : Known(e)' <=> Known(e) \/ row.ext = e
BY PostRow DEF Known

LEMMA SameKnown ==
  ASSUME ledger' = ledger
  PROVE  \A e : Known(e)' <=> Known(e)
BY DEF Known

(* The transactions of a wallet alone are in no other wallet's listing. *)
LEMMA AloneMeansOneWallet ==
  ASSUME NEW t \in Txs, Alone(t),
         NEW v \in Info[t].wallets, NEW w \in Info[t].wallets
  PROVE  v = w
BY DEF Alone

(* The external id of a call names its transaction: by its own id, or by    *)
(* its key in the reversal of a failed withdrawal.                          *)
LEMMA ExtOfRow ==
  ASSUME NEW job \in JobType, job.stage \in CallStages
  PROVE  /\ job.stage \in {"confirm", "direct", "platform", "debitUser", "debitDirect",
                           "debitBlind", "debitWallet", "failOut"}
              => RowOf(job).ext = <<job.tx, "">>
         /\ job.stage = "failBack" => RowOf(job).ext = <<job.tx, "-failed-reversal">>
         /\ job.stage = "creditBack" =>
              RowOf(job).ext = <<Info[job.tx].key, "-reversal">>
         /\ job.stage = "convert" => RowOf(job).ext = <<job.tx, "-src">>
         /\ job.stage = "convDst" => RowOf(job).ext = <<job.tx, "-dst">>
BY DEF RowOf, Row, CallStages

LEMMA SamePair ==
  ASSUME NEW id, NEW suffix, NEW id2, NEW suffix2, <<id, suffix>> = <<id2, suffix2>>
  PROVE  id = id2 /\ suffix = suffix2
OBVIOUS

(* The other way round: what the external id of a call says of its stage.   *)
SuffixOf(stage) ==
  CASE stage = "failBack" -> "-failed-reversal"
    [] stage = "creditBack" -> "-reversal"
    [] stage = "convert" -> "-src"
    [] stage = "convDst" -> "-dst"
    [] OTHER -> ""

LEMMA StageOfRow ==
  ASSUME NEW job \in JobType, job.stage \in CallStages, NEW id, NEW suffix,
         RowOf(job).ext = <<id, suffix>>
  PROVE  /\ suffix = SuffixOf(job.stage)
         /\ id = IF job.stage = "creditBack" THEN Info[job.tx].key ELSE job.tx
<1>1. PICK x : x = SuffixOf(job.stage)
  OBVIOUS
<1>2. PICK i : i = IF job.stage = "creditBack" THEN Info[job.tx].key ELSE job.tx
  OBVIOUS
<1>3. RowOf(job).ext = <<i, x>>
  BY <1>1, <1>2 DEF RowOf, Row, CallStages, SuffixOf
<1>4. <<id, suffix>> = <<i, x>>
  BY <1>3
<1> QED BY <1>1, <1>2, <1>4, SamePair

-----------------------------------------------------------------------------
(* The table of the handlers. *)

(* A handler starts at a stage that fits. *)
LEMMA FirstFits ==
  ASSUME NEW t \in Txs, NEW s \in Statuses,
         NEW byAddress \in {ByAddress(t), Nobody},
         NEW byKey \in {Info[t].keyUser, Nobody},
         NEW job, job = First(t, s, byAddress, byKey)
  PROVE  StageFits(job)
<1>1. CASE Info[t].type = "DEPOSIT"
  <2>1. job = Job(t, s, FirstDeposit(t, s), ByAddress(t))
    BY <1>1 DEF First
  <2>2. CASE s = "IMPORT_PENDING" /\ Info[t].amount > 0
    <3>1. FirstDeposit(t, s) = "mark"
      BY <2>2, OnePhaseAssumption DEF FirstDeposit
    <3>2. job.stage = "mark" /\ job.tx = t /\ job.status = "IMPORT_PENDING"
      BY <2>2, <2>1, <3>1 DEF Job
    <3> QED BY <1>1, <3>2 DEF StageFits, CallStages, Recorded
  <2>3. CASE s = "IMPORTED" /\ Info[t].amount > 0 /\ Info[t].to # NoAddress
    <3>1. FirstDeposit(t, s) = "confirm"
      BY <2>3 DEF FirstDeposit
    <3>2. job.stage = "confirm" /\ job.tx = t /\ job.status = "IMPORTED"
      BY <2>3, <2>1, <3>1 DEF Job
    <3> QED BY <1>1, <3>2 DEF StageFits, CallStages
  <2>4. CASE /\ ~(s = "IMPORT_PENDING" /\ Info[t].amount > 0)
             /\ ~(s = "IMPORTED" /\ Info[t].amount > 0 /\ Info[t].to # NoAddress)
    <3>1. FirstDeposit(t, s) = "drop"
      BY <2>4 DEF FirstDeposit
    <3> QED BY <2>1, <3>1 DEF Job, StageFits, CallStages
  <2> QED BY <2>2, <2>3, <2>4
<1>2. CASE Info[t].type = "WITHDRAWAL"
  <2>1. job = FirstWithdrawal(t, s, byAddress, byKey)
    BY <1>2 DEF First
  <2>2. CASE s = "FAILED"
    <3>1. CASE Info[t].amount = 0
      <4>1. job = Job(t, s, "drop", Nobody)
        BY <2>1, <2>2, <3>1 DEF FirstWithdrawal
      <4> QED BY <4>1 DEF Job, StageFits, CallStages
    <3>2. CASE Info[t].amount # 0 /\ byKey = Nobody
      <4>1. job = Job(t, s, "failOut", Platform)
        BY <2>1, <2>2, <3>2 DEF FirstWithdrawal
      <4>2. job.stage = "failOut" /\ job.tx = t /\ job.status = "FAILED"
        BY <2>2, <4>1 DEF Job
      <4> QED BY <1>2, <4>2 DEF StageFits, CallStages
    <3>3. CASE Info[t].amount # 0 /\ byKey # Nobody
      <4>1. job = Job(t, s, "creditBack", byKey)
        BY <2>1, <2>2, <3>3 DEF FirstWithdrawal
      <4>3. Info[t].key # NoKey
        BY <3>3, InfoAssumption
      <4>2. job.stage = "creditBack" /\ job.tx = t /\ job.status = "FAILED"
        BY <2>2, <4>1 DEF Job
      <4> QED BY <1>2, <4>2, <4>3 DEF StageFits, CallStages
    <3> QED BY <3>1, <3>2, <3>3
  <2>3. CASE s = "OTHER"
    <3>1. CASE Info[t].amount = 0
      <4>1. job = Job(t, s, "mark", Nobody)
        BY <2>1, <2>3, <3>1 DEF FirstWithdrawal
      <4>2. job.stage = "mark" /\ job.tx = t /\ job.status = s
        BY <4>1 DEF Job
      <4> QED BY <1>2, <3>1, <4>2 DEF StageFits, CallStages, Recorded
    <3>2. CASE Info[t].amount # 0 /\ Match(t, byAddress, byKey) = Nobody
      <4>1. job = Job(t, s, "debitWallet", Platform)
        BY <2>1, <2>3, <3>2 DEF FirstWithdrawal
      <4>2. job.stage = "debitWallet" /\ job.tx = t /\ job.status = "OTHER"
        BY <2>3, <4>1 DEF Job
      <4> QED BY <1>2, <4>2 DEF StageFits, CallStages
    <3>3. CASE Info[t].amount # 0 /\ Match(t, byAddress, byKey) # Nobody
      <4>1. job = Job(t, s, "debitUser", Match(t, byAddress, byKey))
        BY <2>1, <2>3, <3>3 DEF FirstWithdrawal
      <4>2. job.stage = "debitUser" /\ job.tx = t /\ job.status = "OTHER"
        BY <2>3, <4>1 DEF Job
      <4> QED BY <1>2, <4>2 DEF StageFits, CallStages
    <3> QED BY <3>1, <3>2, <3>3
  <2>4. CASE s = "DONE"
    <3>1. CASE Info[t].amount = 0
      <4>1. job = Job(t, s, "mark", Nobody)
        BY <2>1, <2>4, <3>1 DEF FirstWithdrawal
      <4>2. job.stage = "mark" /\ job.tx = t /\ job.status = s
        BY <4>1 DEF Job
      <4> QED BY <1>2, <3>1, <4>2 DEF StageFits, CallStages, Recorded
    <3>2. CASE Info[t].amount # 0
      <4> DEFINE acct == IF Match(t, byAddress, byKey) = Nobody THEN PortfolioPlatform
                         ELSE Match(t, byAddress, byKey)
      <4>1. job = Job(t, s, "look", acct)
        BY <2>1, <2>4, <3>2 DEF FirstWithdrawal
      <4>2. job.stage = "look" /\ job.tx = t /\ job.status = "DONE"
        BY <2>4, <4>1 DEF Job
      <4> QED BY <1>2, <4>2 DEF StageFits, CallStages
    <3> QED BY <3>1, <3>2
  <2>5. CASE s \notin {"FAILED", "OTHER", "DONE"}
    <3>1. job = Job(t, s, "drop", Nobody)
      BY <2>1, <2>5 DEF FirstWithdrawal
    <3> QED BY <3>1 DEF Job, StageFits, CallStages
  <2> QED BY <2>2, <2>3, <2>4, <2>5
<1>3. CASE Info[t].type = "CONVERSION"
  <2>1. job = Job(t, s, IF s = "DONE" THEN "convert" ELSE "drop", Platform)
    BY <1>3 DEF First
  <2>2. CASE s = "DONE"
    BY <1>3, <2>1, <2>2 DEF Job, StageFits, CallStages
  <2>3. CASE s # "DONE"
    BY <2>1, <2>3 DEF Job, StageFits, CallStages
  <2> QED BY <2>2, <2>3
<1>4. CASE Info[t].type \notin {"DEPOSIT", "WITHDRAWAL", "CONVERSION"}
  <2>1. job.stage = "platform" /\ job.tx = t
    BY <1>4 DEF First, Job
  <2>2. Info[t].type = "TRANSFER"
    BY <1>4, LookupTypes DEF InfoType
  <2> QED BY <2>1, <2>2 DEF StageFits, CallStages
<1> QED BY <1>1, <1>2, <1>3, <1>4

-----------------------------------------------------------------------------
(* What is in the ledger stays there, and so does what follows from it. *)
LEMMA RecordedStays ==
  ASSUME NEW t \in Txs, NEW s, \A e : Known(e) => Known(e)', Recorded(t, s)
  PROVE  Recorded(t, s)'
BY DEF Recorded, InLedger, HasPending

LEMMA FitsStays ==
  ASSUME NEW job, job.tx \in Txs, \A e : Known(e) => Known(e)', StageFits(job)
  PROVE  StageFits(job)'
<1>1. Recorded(job.tx, job.status) => Recorded(job.tx, job.status)'
  BY RecordedStays
<1> QED BY <1>1 DEF StageFits

(* A call that found its external id or posted it has done what its         *)
(* transaction calls for, but for the first of two postings.                *)
LEMMA CallRecords ==
  ASSUME NEW job \in JobType, job.stage \in CallStages \ {"failOut", "convert"},
         StageFits(job), \A e : Known(e) => Known(e)', Known(RowOf(job).ext)'
  PROVE  Recorded(job.tx, job.status)'
<1>1. CASE job.stage \in {"confirm", "direct"}
  <2>1. Info[job.tx].type = "DEPOSIT" /\ Known(<<job.tx, "">>)'
    BY <1>1, ExtOfRow DEF StageFits
  <2> QED BY <2>1 DEF Recorded
<1>2. CASE job.stage \in {"debitUser", "debitWallet", "debitDirect", "debitBlind"}
  <2>1. /\ Info[job.tx].type = "WITHDRAWAL" /\ job.status # "FAILED"
        /\ Known(<<job.tx, "">>)'
    BY <1>2, ExtOfRow DEF StageFits
  <2> QED BY <2>1 DEF Recorded, InLedger, HasPending
<1>3. CASE job.stage \in {"failBack", "creditBack"}
  <2>1. /\ Info[job.tx].type = "WITHDRAWAL" /\ job.status = "FAILED"
        /\ \/ Known(<<Info[job.tx].key, "-reversal">>)'
           \/ Known(<<job.tx, "-failed-reversal">>)'
    BY <1>3, ExtOfRow DEF StageFits
  <2> QED BY <2>1 DEF Recorded
<1>4. CASE job.stage = "convDst"
  <2>1. /\ Info[job.tx].type = "CONVERSION"
        /\ Known(<<job.tx, "-src">>)' /\ Known(<<job.tx, "-dst">>)'
    BY <1>4, ExtOfRow DEF StageFits
  <2> QED BY <2>1 DEF Recorded
<1>5. CASE job.stage = "platform"
  <2>1. Info[job.tx].type = "TRANSFER" /\ Known(<<job.tx, "">>)'
    BY <1>5, ExtOfRow DEF StageFits
  <2> QED BY <2>1 DEF Recorded
<1> QED BY <1>1, <1>2, <1>3, <1>4, <1>5 DEF CallStages

(* A handler goes on to a stage that fits. *)
LEMMA AfterFits ==
  ASSUME NEW job \in JobType, job.stage \in CallStages,
         StageFits(job), \A e : Known(e) => Known(e)',
         NEW outcome \in {"ok", "dup", "error"},
         outcome # "error" => Known(RowOf(job).ext)',
         NEW next, next.tx = job.tx, next.status = job.status,
         next.stage = AfterLeg(job.stage, outcome)
  PROVE  StageFits(next)'
<1>1. job.tx \in Txs
  BY DEF JobType
<1>2. CASE next.stage = "drop"
  BY <1>2 DEF StageFits, CallStages
<1>3. CASE next.stage = "mark"
  <2>1. outcome # "error" /\ job.stage \notin {"failOut", "convert"}
    BY <1>3 DEF AfterLeg, After, AfterDeposit, AfterPending, AfterOther
  <2>2. Recorded(job.tx, job.status)'
    BY <2>1, CallRecords
  <2> QED BY <1>3, <2>2 DEF StageFits, CallStages
<1>4. CASE job.stage = "confirm" /\ outcome # "ok"
  <2>1. next.stage = "direct"
    BY <1>4 DEF AfterLeg, After, AfterDeposit
  <2>2. Info[job.tx].type = "DEPOSIT" /\ job.status = "IMPORTED"
    BY <1>4 DEF StageFits
  <2> QED BY <2>1, <2>2 DEF StageFits, CallStages
<1>5. CASE job.stage = "debitUser" /\ outcome = "error"
  <2>1. next.stage = "debitWallet"
    BY <1>5 DEF AfterLeg, After, AfterPending
  <2>2. Info[job.tx].type = "WITHDRAWAL" /\ job.status = "OTHER"
    BY <1>5 DEF StageFits
  <2> QED BY <2>1, <2>2 DEF StageFits, CallStages
<1>6. CASE job.stage = "failOut" /\ outcome # "error"
  <2>1. next.stage = "failBack"
    BY <1>6 DEF AfterLeg
  <2>2. /\ Info[job.tx].type = "WITHDRAWAL" /\ job.status = "FAILED"
        /\ Known(<<job.tx, "">>)'
    BY <1>6, ExtOfRow DEF StageFits
  <2> QED BY <2>1, <2>2 DEF StageFits, CallStages
<1>7. CASE job.stage = "convert" /\ outcome # "error"
  <2>1. next.stage = "convDst"
    BY <1>7 DEF AfterLeg
  <2>2. /\ Info[job.tx].type = "CONVERSION" /\ job.status = "DONE"
        /\ Known(<<job.tx, "-src">>)'
    BY <1>7, ExtOfRow DEF StageFits
  <2> QED BY <2>1, <2>2 DEF StageFits, CallStages
<1>8. \/ next.stage \in {"drop", "mark"}
      \/ job.stage = "confirm" /\ outcome # "ok"
      \/ job.stage = "debitUser" /\ outcome = "error"
      \/ job.stage \in {"failOut", "convert"} /\ outcome # "error"
  BY DEF AfterLeg, After, AfterDeposit, AfterPending, AfterOther, CallStages
<1> QED BY <1>2, <1>3, <1>4, <1>5, <1>6, <1>7, <1>8

LEMMA AfterType ==
  ASSUME NEW stage \in CallStages, NEW outcome \in {"ok", "dup", "error"}
  PROVE  AfterLeg(stage, outcome) \in Stages
BY DEF AfterLeg, After, AfterDeposit, AfterPending, AfterOther, Stages, CallStages

-----------------------------------------------------------------------------
(* Every variable keeps its type.  The type of the goroutines as functions  *)
(* is what TypeOK spells out.                                               *)
TypeInv == TypeOK /\ work \in [Wallets -> WorkType]

LEMMA TypeInit == Init => TypeInv
<1> SUFFICES ASSUME Init PROVE TypeInv
  OBVIOUS
<1> USE BoundsAssumption
<1>1. work \in [Wallets -> WorkType] /\ cache \in [Txs -> EntryType]
  BY IdleTypes DEF Init, PollInit
<1>2. IsABag(ledger)
  BY DEF Init, EmptyBag, SetToBag, IsABag
<1>3. /\ now \in 0..MaxTime /\ since \in -Lookback..MaxTime /\ faults \in 0..MaxFaults
      /\ status \in [Txs -> Statuses] /\ created \in [Txs -> 0..MaxTime]
      /\ phase \in {"down", "recovering", "running"}
  BY DEF Init, PollInit, Statuses
<1> QED BY <1>1, <1>2, <1>3 DEF TypeInv, TypeOK, PollTypeOK, WorkType

LEMMA TypeParts ==
  /\ TypeInv <=> Scalars /\ work \in [Wallets -> WorkType] /\ IsABag(ledger)
  /\ TypeInv' <=> Scalars' /\ work' \in [Wallets -> WorkType] /\ IsABag(ledger')
BY DEF TypeInv, TypeOK, PollTypeOK, Scalars, WorkType

LEMMA TypePoll ==
  /\ TypeInv <=> PollInv /\ IsABag(ledger)
  /\ TypeInv' <=> PollInv' /\ IsABag(ledger')
BY PollParts DEF TypeInv, TypeOK

(* The steps that leave the ledger alone. *)
LEMMA QuietTypes ==
  ASSUME TypeInv,
         Rounds \/ PrimeActs \/ \E w \in Wallets : ReadStep(w) \/ EndJob(w)
  PROVE  TypeInv'
BY TypePoll, RoundPoll, PrimePoll, ReadPoll, EndPoll DEF ReadStep

HandlerStep(w) ==
  Look(w) \/ LookFails(w) \/ CheckCall(w) \/ PostCall(w) \/ PostUnreported(w) \/ CallFails(w)

(* What a step of a handler does: it goes on to a stage that fits, with the *)
(* ledger as it is or with the row of its call, or its check has passed.    *)
GoesOn(w) ==
  StageFits(work[w].job)' /\ \E stage \in Stages : GoTo(w, stage)

CheckPassed(w) ==
  /\ work' = [work EXCEPT ![w].job.seen = 1]
  /\ work[w].job.stage \in CallStages
  /\ ~Known(RowOf(work[w].job).ext)
  /\ ledger' = ledger

Posts(w) ==
  /\ work[w].job.stage \in CallStages /\ work[w].job.seen = 1
  /\ Post(RowOf(work[w].job))

LEMMA HandlerSteps ==
  ASSUME TypeInv, WorkCurrent, NEW w \in Wallets, HandlerStep(w)
  PROVE  /\ work[w].job \in JobType /\ work[w].job # NoJob
         /\ \/ CheckPassed(w)
            \/ GoesOn(w) /\ ledger' = ledger
            \/ GoesOn(w) /\ Posts(w)
         /\ UNCHANGED <<now, prime, phase, since, cache>>
         /\ faults' \in {faults, faults + 1} /\ (faults' # faults => faults < MaxFaults)
<1>1. work[w].job \in JobType /\ work[w].job # NoJob
  <2>1. work[w].job.stage # "none"
    BY DEF HandlerStep, Look, LookFails, CheckCall, PostCall, PostUnreported, CallFails,
           At, CallStages
  <2> QED BY <2>1, InHand DEF TypeInv
<1> PICK job \in JobType : job = work[w].job
  BY <1>1
<1>2. StageFits(job) /\ job.tx \in Txs
  BY <1>1 DEF WorkCurrent, JobCurrent, JobType
<1>3. faults \in Nat /\ MaxFaults \in Nat
  BY BoundsAssumption DEF TypeInv, TypeOK, PollTypeOK
<1>4. ledger' = ledger => \A e : Known(e) => Known(e)'
  BY SameKnown
<1>5. Post(RowOf(job)) => /\ \A e : Known(e) => Known(e)'
                          /\ Known(RowOf(job).ext)'
  BY PostKnown DEF TypeInv, TypeOK
<1>6. ASSUME NEW stage \in Stages, GoTo(w, stage),
             NEW next, next = [job EXCEPT !.stage = stage, !.seen = 0], StageFits(next)'
      PROVE  GoesOn(w)
  <2>1. work'[w].job = next
    BY <1>1, <1>6, GoToJob DEF TypeInv
  <2> QED BY <1>6, <2>1 DEF GoesOn
<1>7. ASSUME NEW outcome \in {"ok", "dup", "error"}, job.stage \in CallStages,
             GoTo(w, AfterLeg(job.stage, outcome)), \A e : Known(e) => Known(e)',
             outcome # "error" => Known(RowOf(job).ext)'
      PROVE  GoesOn(w)
  <2>1. PICK stage \in Stages : stage = AfterLeg(job.stage, outcome)
    BY <1>7, AfterType
  <2>2. PICK next : next = [job EXCEPT !.stage = stage, !.seen = 0]
    OBVIOUS
  <2>3. next.tx = job.tx /\ next.status = job.status /\ next.stage = stage
    BY <2>2 DEF JobType
  <2>4. StageFits(next)'
    BY <1>2, <1>7, <2>1, <2>3, AfterFits
  <2> QED BY <1>6, <1>7, <2>1, <2>2, <2>4
<1>8. ASSUME NEW stage \in {"mark", "debitDirect", "debitBlind"}, job.stage = "look",
             GoTo(w, stage), ledger' = ledger, stage = "mark" => InLedger(job.tx)
      PROVE  GoesOn(w)
  <2>1. stage \in Stages
    BY DEF Stages
  <2>2. PICK next : next = [job EXCEPT !.stage = stage, !.seen = 0]
    OBVIOUS
  <2>3. next.tx = job.tx /\ next.status = job.status /\ next.stage = stage
    BY <2>2 DEF JobType
  <2>4. Info[job.tx].type = "WITHDRAWAL" /\ job.status = "DONE"
    BY <1>2, <1>8 DEF StageFits
  <2>5. stage = "mark" => Recorded(job.tx, job.status)
    BY <1>8, <2>4 DEF Recorded
  <2>6. StageFits(next)
    BY <2>3, <2>4, <2>5 DEF StageFits, CallStages
  <2>7. StageFits(next)'
    BY <1>2, <1>4, <1>8, <2>3, <2>6, FitsStays
  <2> QED BY <1>6, <1>8, <2>1, <2>2, <2>7
<1>a. CASE Look(w)
  <2>1. job.stage = "look" /\ ledger' = ledger
    BY <1>a DEF Look, At
  <2>2. PICK stage \in {"mark", "debitDirect"} :
          stage = IF InLedger(job.tx) THEN "mark" ELSE "debitDirect"
    OBVIOUS
  <2>3. GoTo(w, stage) /\ (stage = "mark" => InLedger(job.tx))
    BY <1>a, <2>2 DEF Look
  <2>4. GoesOn(w)
    BY <1>8, <2>1, <2>2, <2>3
  <2> QED BY <1>1, <1>a, <2>1, <2>4 DEF Look
<1>b. CASE LookFails(w)
  <2>1. job.stage = "look" /\ ledger' = ledger /\ GoTo(w, "debitBlind")
    BY <1>b DEF LookFails, At
  <2>2. GoesOn(w)
    BY <1>8, <2>1
  <2> QED BY <1>1, <1>3, <1>b, <2>1, <2>2 DEF LookFails, Fault
<1>c. CASE CheckCall(w)
  <2>0. /\ job.stage \in CallStages /\ ledger' = ledger
        /\ UNCHANGED <<now, prime, phase, since, cache, faults>>
    BY <1>c DEF CheckCall, At
  <2>1. CASE Refused(job)
    <3>1. GoTo(w, AfterLeg(job.stage, "error"))
      BY <1>c, <2>1 DEF CheckCall
    <3>2. GoesOn(w)
      BY <1>4, <1>7, <2>0, <3>1
    <3> QED BY <1>1, <2>0, <3>2
  <2>2. CASE ~Refused(job) /\ Known(RowOf(job).ext)
    <3>1. GoTo(w, AfterLeg(job.stage, "dup"))
      BY <1>c, <2>2 DEF CheckCall
    <3>2. GoesOn(w)
      BY <1>4, <1>7, <2>0, <2>2, <3>1
    <3> QED BY <1>1, <2>0, <3>2
  <2>3. CASE ~Refused(job) /\ ~Known(RowOf(job).ext)
    <3>1. CheckPassed(w)
      BY <1>c, <2>0, <2>3 DEF CheckCall, CheckPassed
    <3> QED BY <1>1, <2>0, <3>1
  <2> QED BY <2>1, <2>2, <2>3
<1>d. CASE PostCall(w)
  <2>1. Post(RowOf(job)) /\ job.stage \in CallStages /\ job.seen = 1
    BY <1>d DEF PostCall, At
  <2>2. GoesOn(w)
    BY <1>5, <1>7, <1>d, <2>1 DEF PostCall
  <2> QED BY <1>1, <1>d, <2>1, <2>2 DEF PostCall, Posts
<1>e. CASE PostUnreported(w)
  <2>1. Post(RowOf(job)) /\ job.stage \in CallStages /\ job.seen = 1
    BY <1>e DEF PostUnreported, At, CallStages
  <2>2. PICK next : next = [job EXCEPT !.stage = "drop", !.seen = 0]
    OBVIOUS
  <2>3. next.stage = "drop"
    BY <2>2 DEF JobType
  <2>4. StageFits(next)'
    BY <2>3 DEF StageFits, CallStages
  <2>5. "drop" \in Stages
    BY DEF Stages
  <2>6. GoesOn(w)
    BY <1>6, <1>e, <2>2, <2>4, <2>5 DEF PostUnreported
  <2> QED BY <1>1, <1>3, <1>e, <2>1, <2>6 DEF PostUnreported, Posts, Fault
<1>f. CASE CallFails(w)
  <2>1. GoesOn(w)
    BY <1>4, <1>7, <1>f DEF CallFails, At
  <2> QED BY <1>1, <1>3, <1>f, <2>1 DEF CallFails, Fault
<1> QED BY <1>a, <1>b, <1>c, <1>d, <1>e, <1>f DEF HandlerStep

LEMMA HandlerTypes ==
  ASSUME TypeInv, WorkCurrent, NEW w \in Wallets, HandlerStep(w)
  PROVE  TypeInv'
<1>0. /\ Scalars /\ work \in [Wallets -> WorkType] /\ IsABag(ledger)
      /\ work[w].job \in JobType /\ work[w] \in WorkType
  BY HandlerSteps, TypeParts
<1>1. Scalars'
  BY <1>0, HandlerSteps, BoundsAssumption DEF Scalars, prime
<1>2. IsABag(ledger')
  BY <1>0, HandlerSteps, PostRow DEF Posts, CheckPassed
<1>3. CASE CheckPassed(w)
  <2>1. [work[w].job EXCEPT !.seen = 1] \in JobType
    BY <1>0 DEF JobType
  <2>2. work' = [work EXCEPT ![w] = [work[w] EXCEPT
                   !.job = [work[w].job EXCEPT !.seen = 1]]]
    BY <1>0, <1>3, <2>1 DEF CheckPassed, WorkType, JobType
  <2>3. work' \in [Wallets -> WorkType]
    BY <1>0, <2>1, <2>2 DEF WorkType
  <2> QED BY <1>1, <1>2, <2>3, TypeParts
<1>4. CASE GoesOn(w)
  <2>1. work' \in [Wallets -> WorkType]
    BY <1>0, <1>4, GoToJob DEF TypeInv, GoesOn
  <2> QED BY <1>1, <1>2, <2>1, TypeParts
<1> QED BY <1>3, <1>4, HandlerSteps

-----------------------------------------------------------------------------
(* What goroutines know stays true. *)

(* The external id of a posting tells its transaction. *)
LEMMA ExtNames ==
  ASSUME NEW i \in JobType, i.stage \in CallStages, StageFits(i),
         NEW j \in JobType, j.stage \in CallStages, StageFits(j),
         RowOf(i).ext = RowOf(j).ext
  PROVE  i.tx = j.tx
<1>1. ASSUME NEW k \in JobType, k.stage \in CallStages, StageFits(k)
      PROVE  \E suffix \in {"", "-failed-reversal", "-src", "-dst", "-reversal"} :
                IF suffix = "-reversal"
                THEN Info[k.tx].key # NoKey /\ RowOf(k).ext = <<Info[k.tx].key, suffix>>
                ELSE RowOf(k).ext = <<k.tx, suffix>>
  BY <1>1, ExtOfRow DEF StageFits, CallStages
<1>2. i.tx \in Txs /\ j.tx \in Txs
  BY DEF JobType
<1>3. PICK p : IF p = "-reversal"
               THEN Info[i.tx].key # NoKey /\ RowOf(i).ext = <<Info[i.tx].key, p>>
               ELSE RowOf(i).ext = <<i.tx, p>>
  BY <1>1
<1>4. PICK q : IF q = "-reversal"
               THEN Info[j.tx].key # NoKey /\ RowOf(j).ext = <<Info[j.tx].key, q>>
               ELSE RowOf(j).ext = <<j.tx, q>>
  BY <1>1
<1>5. p = q
  BY <1>3, <1>4
<1>6. CASE p = "-reversal"
  <2>1. Info[i.tx].key = Info[j.tx].key /\ Info[i.tx].key # NoKey
    BY <1>3, <1>4, <1>5, <1>6
  <2> QED BY <1>2, <2>1, NamesAssumption
<1>7. CASE p # "-reversal"
  BY <1>3, <1>4, <1>5, <1>7
<1> QED BY <1>6, <1>7

LEMMA JobStays ==
  ASSUME TypeInv, NEW v \in Wallets, JobCurrent(v), ReachedKept,
         NEW job, job = work[v].job, work'[v].job = job,
         \A e : Known(e) => Known(e)'
  PROVE  JobCurrent(v)'
<1> SUFFICES ASSUME job # NoJob
             PROVE  /\ v \in Info[job.tx].wallets
                    /\ Reached(job.tx, job.status)'
                    /\ StageFits(job)'
                    /\ job.seen = 1 => job.stage \in CallStages
  BY DEF JobCurrent
<1>1. job \in JobType
  BY DEF TypeInv, WorkType
<1>2. job.tx \in Txs /\ job.status \in Statuses
  BY <1>1 DEF JobType
<1>3. StageFits(job)
  BY DEF JobCurrent
<1>4. StageFits(job)'
  BY <1>2, <1>3, FitsStays
<1> QED BY <1>2, <1>4 DEF JobCurrent, ReachedKept

(* A goroutine that a step leaves alone. *)
LEMMA UntouchedStays ==
  ASSUME TypeInv, WorkCurrent, NEW v \in Wallets, work'[v] = work[v],
         ReachedKept, \A e : Known(e) => Known(e)'
  PROVE  TodoCurrent(v)' /\ JobCurrent(v)'
<1>1. TodoCurrent(v) /\ JobCurrent(v)
  BY DEF WorkCurrent
<1>2. PICK job : job = work[v].job
  OBVIOUS
<1>3. TodoCurrent(v)'
  BY <1>1, TodoStays DEF TypeInv
<1> QED BY <1>1, <1>2, <1>3, JobStays

LEMMA RoundJobs ==
  ASSUME TypeInv, WorkCurrent, Rounds
  PROVE  WorkCurrent'
<1>1. status' = status /\ ledger' = ledger
  BY DEF Rounds, Crash, Restart, EndRecovery, BeginPoll, Cleanup, Tick, prime
<1>2. CASE work' = work
  BY <1>1, <1>2, SameReached, SameKnown, UntouchedStays DEF WorkCurrent
<1>3. CASE \A w \in Wallets : work'[w].todo = {} /\ work'[w].job = NoJob
  BY <1>3 DEF WorkCurrent, TodoCurrent, JobCurrent
<1>4. \/ work' = work
      \/ \A w \in Wallets : work'[w].todo = {} /\ work'[w].job = NoJob
  <2>1. Idle.todo = {} /\ Idle.job = NoJob /\ ToFetch.todo = {} /\ ToFetch.job = NoJob
    BY DEF Idle, ToFetch
  <2> QED BY <2>1 DEF Rounds, Crash, Forget, Restart, OpenWindow, EndRecovery, BeginPoll,
                      Cleanup, Tick
<1> QED BY <1>2, <1>3, <1>4

LEMMA PrimeJobs ==
  ASSUME TypeInv, WorkCurrent, PrimeActs
  PROVE  WorkCurrent'
<1>1. work' = work /\ ledger' = ledger
  BY DEF PrimeActs, PrimeAppears, PrimeMoves
<1> QED BY <1>1, TypePoll, PrimeKeepsReached, SameKnown, UntouchedStays DEF WorkCurrent

LEMMA HandlerJobs ==
  ASSUME TypeInv, WorkCurrent, NEW w \in Wallets, HandlerStep(w)
  PROVE  WorkCurrent'
<1>1. work[w].job \in JobType /\ work[w].job # NoJob /\ status' = status
  BY HandlerSteps DEF prime
<1>2. ReachedKept /\ TodoCurrent(w) /\ JobCurrent(w)
  BY <1>1, SameReached DEF WorkCurrent
<1>3. CASE CheckPassed(w)
  <2>1. PICK job : job = [work[w].job EXCEPT !.seen = 1]
    OBVIOUS
  <2>2. /\ work'[w].job = job /\ work'[w].todo = work[w].todo
        /\ \A v \in Wallets : v # w => work'[v] = work[v]
    BY <1>3, <2>1 DEF CheckPassed, TypeInv, WorkType
  <2>3. /\ job.tx = work[w].job.tx /\ job.status = work[w].job.status
        /\ job.stage = work[w].job.stage /\ job \in JobType
    BY <1>1, <2>1 DEF JobType
  <2>5. StageFits(job)
    BY <1>1, <1>2, <2>3 DEF JobCurrent, StageFits
  <2>6. StageFits(job)'
    <3>1. job.tx \in Txs
      BY <2>3 DEF JobType
    <3>2. ledger' = ledger
      BY <1>3 DEF CheckPassed
    <3> QED BY <2>5, <3>1, <3>2, SameKnown, FitsStays
  <2>7. Reached(job.tx, job.status)'
    BY <1>1, <1>2, <2>3 DEF JobCurrent, ReachedKept, JobType
  <2>8. JobCurrent(w)'
    BY <1>1, <1>2, <1>3, <2>2, <2>3, <2>6, <2>7 DEF JobCurrent, CheckPassed
  <2>9. TodoCurrent(w)'
    BY <1>2, <2>2, TodoStays DEF TypeInv
  <2> QED BY <1>2, <1>3, <2>2, <2>8, <2>9, SameKnown, UntouchedStays
          DEF WorkCurrent, CheckPassed
<1>4. CASE GoesOn(w)
  <2>1. PICK stage \in Stages : GoTo(w, stage)
    BY <1>4 DEF GoesOn
  <2>2. PICK job : job = [work[w].job EXCEPT !.stage = stage, !.seen = 0]
    OBVIOUS
  <2>3. /\ work'[w].job = job /\ work'[w].todo = work[w].todo
        /\ \A v \in Wallets : v # w => work'[v] = work[v]
    BY <1>1, <2>1, <2>2, GoToJob DEF TypeInv
  <2>4. /\ job.tx = work[w].job.tx /\ job.status = work[w].job.status /\ job.seen = 0
    BY <1>1, <2>2 DEF JobType
  <2>5. Reached(job.tx, job.status)'
    BY <1>1, <1>2, <2>4 DEF JobCurrent, ReachedKept, JobType
  <2>6. JobCurrent(w)'
    BY <1>1, <1>2, <1>4, <2>3, <2>4, <2>5 DEF JobCurrent, GoesOn
  <2>7. TodoCurrent(w)'
    BY <1>2, <2>3, TodoStays DEF TypeInv
  <2>8. ASSUME NEW v \in Wallets, v # w PROVE TodoCurrent(v)' /\ JobCurrent(v)'
    <3>1. ledger' = ledger \/ Posts(w)
      BY HandlerSteps DEF CheckPassed
    <3>2. \A e : Known(e) => Known(e)'
      BY <3>1, SameKnown, PostKnown DEF Posts, TypeInv, TypeOK
    <3> QED BY <1>2, <2>3, <2>8, <3>2, UntouchedStays
  <2> QED BY <2>6, <2>7, <2>8 DEF WorkCurrent
<1> QED BY <1>3, <1>4, HandlerSteps

LEMMA ReadJobs ==
  ASSUME TypeInv, WorkCurrent, NEW w \in Wallets, ReadStep(w)
  PROVE  WorkCurrent'
<1>0. /\ ReachedKept /\ TodoCurrent(w) /\ PollInv
      /\ ledger' = ledger
  BY SameReached, ReadFrame, TypePoll DEF WorkCurrent
<1>1. /\ \A v \in Wallets : v # w => work'[v] = work[v]
      /\ TodoCurrent(w)'
  BY <1>0, ReadWork
<1>2. SUFFICES JobCurrent(w)'
  BY <1>0, <1>1, SameKnown, UntouchedStays DEF WorkCurrent
<1>3. CASE work'[w].job = NoJob
  BY <1>3 DEF JobCurrent
<1>4. CASE work'[w].job = work[w].job
  <2>1. PICK job : job = work[w].job
    OBVIOUS
  <2> QED BY <1>0, <1>4, <2>1, SameKnown, JobStays DEF WorkCurrent
<1>5. ASSUME NEW t \in Txs, NEW s \in Statuses, w \in Info[t].wallets, Reached(t, s),
             NEW byAddress \in {ByAddress(t), Nobody},
             NEW byKey \in {Info[t].keyUser, Nobody},
             work'[w].job = First(t, s, byAddress, byKey)
      PROVE  JobCurrent(w)'
  <2>1. PICK job : job = First(t, s, byAddress, byKey)
    OBVIOUS
  <2>2. job \in JobType /\ job.tx = t /\ job.status = s /\ job.seen = 0
    BY <2>1, FirstType
  <2>3. StageFits(job)
    BY <2>1, FirstFits
  <2>4. StageFits(job)'
    BY <1>0, <2>2, <2>3, SameKnown, FitsStays
  <2>5. Reached(t, s)'
    BY <1>0, <1>5 DEF ReachedKept
  <2> QED BY <1>5, <2>1, <2>2, <2>4, <2>5 DEF JobCurrent
<1> QED BY <1>0, <1>3, <1>4, <1>5, ReadWork

LEMMA EndJobs ==
  ASSUME TypeInv, WorkCurrent, NEW w \in Wallets, EndJob(w)
  PROVE  WorkCurrent'
<1>1. /\ ReachedKept /\ ledger' = ledger /\ TodoCurrent(w)
      /\ \A v \in Wallets : v # w => work'[v] = work[v]
      /\ work'[w].todo = work[w].todo /\ work'[w].job = NoJob
  BY SameReached DEF WorkCurrent, EndJob, prime, TypeInv, WorkType
<1>2. TodoCurrent(w)' /\ JobCurrent(w)'
  BY <1>1, TodoStays DEF TypeInv, JobCurrent
<1> QED BY <1>1, <1>2, SameKnown, UntouchedStays DEF WorkCurrent

-----------------------------------------------------------------------------
(* The inductive invariant but for the postings: types and goroutines. *)

StepCases ==
  \/ Rounds \/ PrimeActs \/ UNCHANGED vars
  \/ \E w \in Wallets : ReadStep(w) \/ HandlerStep(w) \/ EndJob(w)

LEMMA Steps == [Next]_vars => StepCases
BY DEF Next, Goroutine, GoroutineFails, StepCases, ReadStep, HandlerStep

LEMMA CoreInit == Init => TypeInv /\ WorkCurrent
<1> SUFFICES ASSUME Init PROVE WorkCurrent
  BY TypeInit
<1>1. \A w \in Wallets : work[w].todo = {} /\ work[w].job = NoJob
  BY DEF Init, PollInit, Idle
<1> QED BY <1>1 DEF WorkCurrent, TodoCurrent, JobCurrent

LEMMA CoreStep == TypeInv /\ WorkCurrent /\ [Next]_vars => TypeInv' /\ WorkCurrent'
<1> SUFFICES ASSUME TypeInv, WorkCurrent, StepCases PROVE TypeInv' /\ WorkCurrent'
  BY Steps
<1>1. CASE Rounds
  BY <1>1, QuietTypes, RoundJobs
<1>2. CASE PrimeActs
  BY <1>2, QuietTypes, PrimeJobs
<1>3. ASSUME NEW w \in Wallets, ReadStep(w) PROVE TypeInv' /\ WorkCurrent'
  BY <1>3, QuietTypes, ReadJobs
<1>4. ASSUME NEW w \in Wallets, HandlerStep(w) PROVE TypeInv' /\ WorkCurrent'
  BY <1>4, HandlerTypes, HandlerJobs
<1>5. ASSUME NEW w \in Wallets, EndJob(w) PROVE TypeInv' /\ WorkCurrent'
  BY <1>5, QuietTypes, EndJobs
<1>6. CASE UNCHANGED vars
  <2>1. /\ UNCHANGED <<now, status, created, ledger, phase, since, work, cache, faults>>
    BY <1>6 DEF vars, prime
  <2>2. TypeInv'
    BY <2>1, TypeParts DEF Scalars
  <2> QED BY <2>1, <2>2, SameReached, SameKnown, UntouchedStays DEF WorkCurrent
<1> QED BY <1>1, <1>2, <1>3, <1>4, <1>5, <1>6 DEF StepCases

(* A duplicate check that passed still holds when the call posts: nobody    *)
(* else posts for a transaction that one wallet alone lists.                *)
LEMMA PostSparesOthers ==
  ASSUME TypeInv, JobsCurrent, NEW v \in Wallets, NEW w \in Wallets, v # w,
         work'[v] = work[v], work[w].job \in JobType, work[w].job # NoJob, Posts(w)
  PROVE  CheckHolds(v)'
<1>1. /\ JobCurrent(v) /\ JobCurrent(w) /\ CheckHolds(v)
      /\ work[v].job \in JobType \cup {NoJob}
  BY DEF JobsCurrent, WorkCurrent, TypeInv, WorkType
<1>2. PICK job : job = work[v].job
  OBVIOUS
<1>3. PICK own \in JobType : own = work[w].job
  OBVIOUS
<1>4. \A e : Known(e)' <=> Known(e) \/ RowOf(own).ext = e
  BY <1>3, PostKnown DEF Posts, TypeInv, TypeOK
<1>5. /\ StageFits(own) /\ own.stage \in CallStages
      /\ w \in Info[own.tx].wallets /\ own.tx \in Txs
  BY <1>1, <1>3 DEF JobCurrent, Posts, JobType
<1>6. ASSUME job # NoJob, job.seen = 1, Alone(job.tx)
      PROVE  ~Known(RowOf(job).ext)'
  <2>1. /\ StageFits(job) /\ job.stage \in CallStages /\ job \in JobType
        /\ v \in Info[job.tx].wallets /\ ~Known(RowOf(job).ext)
    BY <1>1, <1>2, <1>6 DEF JobCurrent, CheckHolds
  <2>2. job.tx \in Txs
    BY <2>1 DEF JobType
  <2>3. job.tx # own.tx
    BY <1>5, <1>6, <2>1, <2>2, AloneMeansOneWallet
  <2>4. RowOf(own).ext # RowOf(job).ext
    BY <1>5, <2>1, <2>3, ExtNames
  <2> QED BY <1>4, <2>1, <2>4
<1> QED BY <1>2, <1>6 DEF CheckHolds, Alone, RowOf, Row

LEMMA UntouchedCheck ==
  ASSUME JobsCurrent, NEW v \in Wallets, work'[v].job = work[v].job, ledger' = ledger
  PROVE  CheckHolds(v)'
BY SameKnown DEF JobsCurrent, CheckHolds, Alone, RowOf, Row

LEMMA HandlerChecks ==
  ASSUME TypeInv, JobsCurrent, NEW w \in Wallets, HandlerStep(w), NEW v \in Wallets
  PROVE  CheckHolds(v)'
<1>0. work[w].job \in JobType /\ work[w].job # NoJob
  BY HandlerSteps DEF JobsCurrent
<1>1. CASE CheckPassed(w)
  <2>1. /\ work'[w].job = [work[w].job EXCEPT !.seen = 1]
        /\ v # w => work'[v].job = work[v].job
    BY <1>1 DEF CheckPassed, TypeInv, WorkType
  <2>2. CASE v # w
    BY <1>1, <2>1, <2>2, UntouchedCheck DEF CheckPassed
  <2>3. CASE v = w
    <3>1. PICK job : job = [work[w].job EXCEPT !.seen = 1]
      OBVIOUS
    <3>2. job.tx = work[w].job.tx /\ job.stage = work[w].job.stage /\ job \in JobType
      BY <1>0, <3>1 DEF JobType
    <3>3. RowOf(job).ext = RowOf(work[w].job).ext
      BY <1>0, <1>1, <3>2, ExtOfRow DEF CheckPassed, CallStages
    <3>4. ~Known(RowOf(job).ext)'
      BY <1>1, <3>3, SameKnown DEF CheckPassed
    <3> QED BY <2>1, <2>3, <3>1, <3>4 DEF CheckHolds, Alone, RowOf, Row
  <2> QED BY <2>2, <2>3
<1>2. CASE GoesOn(w)
  <2>1. PICK stage \in Stages : GoTo(w, stage)
    BY <1>2 DEF GoesOn
  <2>2. /\ work'[w].job = [work[w].job EXCEPT !.stage = stage, !.seen = 0]
        /\ v # w => work'[v] = work[v]
    BY <1>0, <2>1, GoToJob DEF TypeInv
  <2>3. work'[w].job.seen = 0
    BY <1>0, <2>2 DEF JobType
  <2>4. ledger' = ledger \/ Posts(w)
    BY HandlerSteps DEF JobsCurrent, CheckPassed
  <2>5. CASE v # w
    BY <1>0, <2>2, <2>4, <2>5, UntouchedCheck, PostSparesOthers
  <2>6. CASE v = w
    BY <2>3, <2>6 DEF CheckHolds
  <2> QED BY <2>5, <2>6
<1> QED BY <1>1, <1>2, HandlerSteps DEF JobsCurrent

LEMMA ReadChecks ==
  ASSUME TypeInv, JobsCurrent, NEW w \in Wallets, ReadStep(w), NEW v \in Wallets
  PROVE  CheckHolds(v)'
<1>0. /\ TodoCurrent(w) /\ work[w] \in WorkType /\ ledger' = ledger
      /\ work \in [Wallets -> WorkType]
  BY ReadFrame DEF JobsCurrent, WorkCurrent, TypeInv
<1>1. CASE work'[v].job \in {work[v].job, NoJob}
  BY <1>0, <1>1, UntouchedCheck DEF CheckHolds
<1>2. CASE Fetch(w) \/ FetchFails(w)
  <2>1. work'[v].job \in {work[v].job, NoJob}
    BY <1>0, <1>2 DEF Fetch, FetchFails, Idle, WorkType
  <2> QED BY <1>1, <2>1
<1>3. ASSUME NEW x \in work[w].todo,
             NEW byAddress \in {ByAddress(x[1]), Nobody},
             NEW byKey \in {Info[x[1]].keyUser, Nobody},
             Take(w, x, byAddress, byKey)
      PROVE  CheckHolds(v)'
  <2>1. x[1] \in Txs /\ x[2] \in Statuses
    BY <1>0 DEF WorkType
  <2>2. PICK job : job = First(x[1], x[2], byAddress, byKey)
    OBVIOUS
  <2>3. job.seen = 0
    BY <2>1, <2>2, FirstType
  <2>4. work'[v].job \in {NoJob, job, work[v].job}
    BY <1>0, <1>3, <2>2 DEF Take, WorkType
  <2> QED BY <1>1, <2>3, <2>4 DEF CheckHolds
<1>4. CASE TakeNext(w)
  BY <1>3, <1>4 DEF TakeNext
<1>5. CASE TakeUnmatched(w)
  BY <1>3, <1>5 DEF TakeUnmatched
<1> QED BY <1>2, <1>4, <1>5 DEF ReadStep

LEMMA JobsInit == Init => TypeInv /\ JobsCurrent
<1> SUFFICES ASSUME Init PROVE JobsCurrent
  BY TypeInit
<1>1. \A w \in Wallets : work[w].job = NoJob
  BY DEF Init, PollInit, Idle
<1> QED BY <1>1, CoreInit DEF JobsCurrent, CheckHolds

LEMMA JobsStep == TypeInv /\ JobsCurrent /\ [Next]_vars => TypeInv' /\ JobsCurrent'
<1> SUFFICES ASSUME TypeInv, JobsCurrent, StepCases, TypeInv', WorkCurrent',
                    NEW v \in Wallets
             PROVE  CheckHolds(v)'
  BY Steps, CoreStep DEF JobsCurrent
<1>0. CASE work'[v].job \in {work[v].job, NoJob} /\ ledger' = ledger
  BY <1>0, UntouchedCheck DEF CheckHolds
<1>1. CASE Rounds
  <2>1. Idle.job = NoJob /\ ToFetch.job = NoJob
    BY DEF Idle, ToFetch
  <2>2. ledger' = ledger /\ work'[v].job \in {work[v].job, NoJob}
    BY <1>1, <2>1 DEF Rounds, Crash, Forget, Restart, OpenWindow, EndRecovery, BeginPoll,
                      Cleanup, Tick
  <2> QED BY <1>0, <2>2
<1>2. CASE PrimeActs \/ UNCHANGED vars
  <2>1. work' = work /\ ledger' = ledger
    BY <1>2 DEF PrimeActs, PrimeAppears, PrimeMoves, vars
  <2> QED BY <1>0, <2>1
<1>3. ASSUME NEW w \in Wallets, EndJob(w) PROVE CheckHolds(v)'
  <2>1. ledger' = ledger /\ work'[v].job \in {work[v].job, NoJob}
    BY <1>3 DEF EndJob, TypeInv, WorkType
  <2> QED BY <1>0, <2>1
<1> QED BY <1>1, <1>2, <1>3, HandlerChecks, ReadChecks DEF StepCases

-----------------------------------------------------------------------------
(* Every variable of the listener keeps its type. *)
THEOREM ListenerTypes == Spec => []TypeOK
<1>1. TypeInv => TypeOK
  BY DEF TypeInv
<1> QED BY JobsInit, JobsStep, <1>1, PTL DEF Spec

(* Every goroutine's work is current: see JobsCurrent. *)
THEOREM JobsStayCurrent == Spec => []JobsCurrent
BY JobsInit, JobsStep, PTL DEF Spec

-----------------------------------------------------------------------------
(* The safety properties.  The ledger changes only by the postings of jobs  *)
(* that are current.                                                        *)

PostsFor(job) ==
  /\ \E w \in Wallets : job = work[w].job /\ job # NoJob /\ job.seen = 1
  /\ job.stage \in CallStages /\ StageFits(job) /\ Reached(job.tx, job.status)
  /\ Post(RowOf(job))
  /\ UNCHANGED <<status, cache>>

LEMMA LedgerSteps ==
  ASSUME TypeInv, WorkCurrent, StepCases
  PROVE  ledger' = ledger \/ \E job \in JobType : PostsFor(job)
<1>1. CASE Rounds
  BY <1>1 DEF Rounds, Crash, Restart, EndRecovery, BeginPoll, Cleanup, Tick
<1>2. CASE PrimeActs
  BY <1>2 DEF PrimeActs, PrimeAppears, PrimeMoves
<1>3. ASSUME NEW w \in Wallets, ReadStep(w) \/ EndJob(w) PROVE ledger' = ledger
  BY <1>3, ReadFrame DEF EndJob
<1>4. ASSUME NEW w \in Wallets, HandlerStep(w), ledger' # ledger
      PROVE  \E job \in JobType : PostsFor(job)
  <2>1. /\ work[w].job \in JobType /\ work[w].job # NoJob
        /\ Posts(w) /\ UNCHANGED <<status, cache>>
    BY <1>4, HandlerSteps DEF CheckPassed, prime
  <2>2. PICK job \in JobType : job = work[w].job
    BY <2>1
  <2>3. PostsFor(job)
    BY <2>1, <2>2 DEF WorkCurrent, JobCurrent, Posts, PostsFor
  <2> QED BY <2>3
<1>5. CASE UNCHANGED vars
  BY <1>5 DEF vars
<1> QED BY <1>1, <1>2, <1>3, <1>4, <1>5 DEF StepCases

LEMMA LedgerGrows ==
  ASSUME TypeInv, WorkCurrent, StepCases
  PROVE  \A e : Known(e) => Known(e)'
BY LedgerSteps, SameKnown, PostKnown DEF PostsFor, TypeInv, TypeOK

(* A mark is kept, forgotten, or set for a job that has come to its end. *)
LEMMA MarkSteps ==
  ASSUME TypeInv, WorkCurrent, StepCases, NEW t \in Txs
  PROVE  \/ cache'[t] \in {cache[t], NotMarked}
         \/ Recorded(t, cache'[t].as) /\ ledger' = ledger
<1>0. cache \in [Txs -> EntryType]
  BY DEF TypeInv, TypeOK, PollTypeOK
<1>1. CASE Rounds
  BY <1>0, <1>1 DEF Rounds, Crash, Forget, Restart, EndRecovery, BeginPoll, Cleanup, Tick
<1>2. CASE PrimeActs
  BY <1>2 DEF PrimeActs, PrimeAppears, PrimeMoves
<1>3. ASSUME NEW w \in Wallets, ReadStep(w) PROVE cache' = cache
  BY <1>3, ReadFrame
<1>4. ASSUME NEW w \in Wallets, HandlerStep(w) PROVE cache' = cache
  BY <1>4, HandlerSteps
<1>5. ASSUME NEW w \in Wallets, EndJob(w), cache'[t] # cache[t]
      PROVE  Recorded(t, cache'[t].as) /\ ledger' = ledger
  <2>1. /\ work[w].job.stage = "mark" /\ work[w].job.tx = t
        /\ cache'[t].as = work[w].job.status /\ ledger' = ledger
    BY <1>0, <1>5 DEF EndJob
  <2>2. work[w].job # NoJob
    BY <2>1, InHand DEF TypeInv
  <2> QED BY <2>1, <2>2 DEF WorkCurrent, JobCurrent, StageFits
<1>6. CASE UNCHANGED vars
  BY <1>6 DEF vars
<1> QED BY <1>1, <1>2, <1>3, <1>4, <1>5, <1>6 DEF StepCases

(* A step of the listener keeps what the marks promise. *)
LEMMA MarksStep ==
  ASSUME TypeInv, WorkCurrent, MarkMeansRecorded, StepCases
  PROVE  MarkMeansRecorded'
<1> SUFFICES ASSUME NEW t \in Txs, Processed(t)'
             PROVE  Recorded(t, cache[t].as)'
  BY DEF MarkMeansRecorded
<1>1. cache'[t] # NotMarked
  BY DEF Processed
<1>2. PICK s : s = cache'[t].as
  OBVIOUS
<1>3. Recorded(t, s)
  BY <1>1, <1>2, MarkSteps DEF MarkMeansRecorded, Processed
<1>4. Recorded(t, s)'
  BY <1>3, LedgerGrows, RecordedStays
<1> QED BY <1>2, <1>4 DEF Recorded

(* A transaction is marked as processed only once what it calls for is in   *)
(* the database.                                                            *)
THEOREM MarksAreEarned == Spec => []MarkMeansRecorded
<1>1. Init => MarkMeansRecorded
  BY DEF Init, PollInit, MarkMeansRecorded, Processed
<1>2. TypeInv /\ JobsCurrent /\ MarkMeansRecorded /\ [Next]_vars => MarkMeansRecorded'
  BY Steps, MarksStep DEF JobsCurrent
<1> QED BY JobsInit, JobsStep, <1>1, <1>2, PTL DEF Spec

(* So do the steps of the listener with postings that belong together. *)
LEMMA LegsStep ==
  ASSUME TypeInv, WorkCurrent, LegsInOrder, StepCases
  PROVE  LegsInOrder'
<1>1. CASE ledger' = ledger
  BY <1>1, SameKnown DEF LegsInOrder
<1>2. ASSUME NEW job \in JobType, PostsFor(job) PROVE LegsInOrder'
  <2>1. \A e : Known(e)' <=> Known(e) \/ RowOf(job).ext = e
    BY <1>2, PostKnown DEF PostsFor, TypeInv, TypeOK
  <2>2. ASSUME NEW t \in Txs, RowOf(job).ext = <<t, "-dst">>
        PROVE  Known(<<t, "-src">>)
    <3>1. PICK x : x = "-dst"
      OBVIOUS
    <3>2. RowOf(job).ext = <<t, x>>
      BY <2>2, <3>1
    <3>3. x = SuffixOf(job.stage)
      BY <1>2, <3>2, StageOfRow DEF PostsFor
    <3>4. job.stage = "convDst"
      BY <3>1, <3>3 DEF SuffixOf
    <3>5. job.tx = t
      BY <1>2, <3>2, <3>4, StageOfRow DEF PostsFor
    <3> QED BY <1>2, <3>4, <3>5 DEF PostsFor, StageFits
  <2>3. ASSUME NEW t \in Txs, RowOf(job).ext = <<t, "-failed-reversal">>
        PROVE  Known(<<t, "">>)
    <3>1. PICK x : x = "-failed-reversal"
      OBVIOUS
    <3>2. RowOf(job).ext = <<t, x>>
      BY <2>3, <3>1
    <3>3. x = SuffixOf(job.stage)
      BY <1>2, <3>2, StageOfRow DEF PostsFor
    <3>4. job.stage = "failBack"
      BY <3>1, <3>3 DEF SuffixOf
    <3>5. job.tx = t
      BY <1>2, <3>2, <3>4, StageOfRow DEF PostsFor
    <3> QED BY <1>2, <3>4, <3>5 DEF PostsFor, StageFits
  <2> QED BY <2>1, <2>2, <2>3 DEF LegsInOrder
<1> QED BY <1>1, <1>2, LedgerSteps

(* The second of two postings is never there without the first. *)
THEOREM LegsStayInOrder == Spec => []LegsInOrder
<1>1. Init => LegsInOrder
  BY DEF Init, LegsInOrder, Known, EmptyBag, SetToBag, BagToSet
<1>2. TypeInv /\ JobsCurrent /\ LegsInOrder /\ [Next]_vars => LegsInOrder'
  BY Steps, LegsStep DEF JobsCurrent
<1> QED BY JobsInit, JobsStep, <1>1, <1>2, PTL DEF Spec

LEMMA ReachedStays ==
  ASSUME TypeInv, WorkCurrent, StepCases
  PROVE  ReachedKept
<1>1. CASE status' = status
  BY <1>1, SameReached
<1>2. CASE PrimeActs
  BY <1>2, TypePoll, PrimeKeepsReached
<1>3. CASE Rounds
  <2>1. status' = status
    BY <1>3 DEF Rounds, Crash, Restart, EndRecovery, BeginPoll, Cleanup, Tick, prime
  <2> QED BY <1>1, <2>1
<1>4. ASSUME NEW w \in Wallets, ReadStep(w) \/ HandlerStep(w) \/ EndJob(w)
      PROVE  ReachedKept
  <2>1. status' = status
    BY <1>4, ReadFrame, HandlerSteps DEF EndJob, prime
  <2> QED BY <1>1, <2>1
<1>5. CASE UNCHANGED vars
  BY <1>1, <1>5 DEF vars, prime
<1> QED BY <1>2, <1>3, <1>4, <1>5 DEF StepCases

(* A posting for t answers a status that t has reached. *)
LEMMA PostIsJustified ==
  ASSUME NEW job \in JobType, PostsFor(job), NEW t \in Txs,
         NEW id, NEW suffix, RowOf(job).ext = <<id, suffix>>
  PROVE  /\ id = t /\ suffix = "" =>
              /\ status[t] # "absent"
              /\ Info[t].type = "DEPOSIT" => Reached(t, "IMPORTED")
              /\ Info[t].type = "WITHDRAWAL" => Reached(t, "OTHER")
         /\ id = t /\ suffix \in {"-src", "-dst"} => Reached(t, "DONE")
         /\ id = t /\ suffix = "-failed-reversal" => Reached(t, "FAILED")
         /\ id = Info[t].key /\ suffix = "-reversal" => Reached(t, "FAILED")
<1>1. /\ job.stage \in CallStages /\ StageFits(job) /\ job.tx \in Txs
      /\ Reached(job.tx, job.status)
  BY DEF PostsFor, JobType
<1>2. /\ suffix = SuffixOf(job.stage)
      /\ id = IF job.stage = "creditBack" THEN Info[job.tx].key ELSE job.tx
  BY <1>1, StageOfRow
<1>3. CASE suffix = ""
  <2>1. job.stage \notin {"failBack", "creditBack", "convert", "convDst"}
    BY <1>2, <1>3 DEF SuffixOf
  <2> QED BY <1>1, <1>2, <1>3, <2>1 DEF StageFits, CallStages, Reached, Final
<1>4. CASE suffix \in {"-src", "-dst"}
  <2>1. job.stage \in {"convert", "convDst"}
    BY <1>2, <1>4 DEF SuffixOf
  <2> QED BY <1>1, <1>2, <1>4, <2>1 DEF StageFits
<1>5. CASE suffix = "-failed-reversal"
  <2>1. job.stage = "failBack"
    BY <1>2, <1>5 DEF SuffixOf
  <2> QED BY <1>1, <1>2, <1>5, <2>1 DEF StageFits
<1>6. CASE suffix = "-reversal"
  <2>1. job.stage = "creditBack"
    BY <1>2, <1>6 DEF SuffixOf
  <2>2. Info[job.tx].key # NoKey /\ job.status = "FAILED"
    BY <1>1, <2>1 DEF StageFits
  <2>3. id = Info[t].key => t = job.tx
    BY <1>1, <1>2, <2>1, <2>2, NamesAssumption
  <2> QED BY <1>1, <1>6, <2>2, <2>3
<1> QED BY <1>3, <1>4, <1>5, <1>6

(* A posting answers a status that Prime has reached. *)
THEOREM PostingsAreJustified == Spec => []JustifiedByPrime
<1>1. Init => JustifiedByPrime
  BY DEF Init, JustifiedByPrime, Justified, Known, EmptyBag, SetToBag, BagToSet
<1>2. TypeInv /\ JobsCurrent /\ JustifiedByPrime /\ [Next]_vars => JustifiedByPrime'
  <2> SUFFICES ASSUME TypeInv, JobsCurrent, JustifiedByPrime, StepCases, NEW t \in Txs
               PROVE  Justified(t)'
    BY Steps DEF JustifiedByPrime
  <2>0. Justified(t) /\ ReachedKept
    BY ReachedStays DEF JustifiedByPrime, JobsCurrent
  <2>1. /\ \A s \in Statuses : Reached(t, s) => Reached(t, s)'
        /\ status[t] # "absent" => status'[t] # "absent"
    BY <2>0 DEF ReachedKept, Reached, Statuses, Final
  <2>2. CASE ledger' = ledger
    <3>1. \A e : Known(e)' <=> Known(e)
      BY <2>2, SameKnown
    <3> QED BY <2>0, <2>1, <3>1 DEF Justified, Statuses, Final
  <2>3. ASSUME NEW job \in JobType, PostsFor(job) PROVE Justified(t)'
    <3>1. \A e : Known(e)' <=> Known(e) \/ RowOf(job).ext = e
      BY <2>3, PostKnown DEF PostsFor, TypeInv, TypeOK
    <3>2. status' = status
      BY <2>3 DEF PostsFor
    <3>3. ASSUME Known(<<t, "">>)'
          PROVE  /\ status[t] # "absent"
                 /\ Info[t].type = "DEPOSIT" => Reached(t, "IMPORTED")
                 /\ Info[t].type = "WITHDRAWAL" => Reached(t, "OTHER")
      BY <2>0, <2>3, <3>1, <3>3, PostIsJustified DEF Justified
    <3>4. ASSUME Known(<<t, "-src">>)' \/ Known(<<t, "-dst">>)'
          PROVE  Reached(t, "DONE")
      BY <2>0, <2>3, <3>1, <3>4, PostIsJustified DEF Justified
    <3>5. ASSUME Known(<<t, "-failed-reversal">>)'
          PROVE  Reached(t, "FAILED")
      BY <2>0, <2>3, <3>1, <3>5, PostIsJustified DEF Justified
    <3>6. ASSUME Known(<<Info[t].key, "-reversal">>)'
          PROVE  Reached(t, "FAILED")
      BY <2>0, <2>3, <3>1, <3>6, PostIsJustified DEF Justified
    <3> QED BY <2>1, <3>2, <3>3, <3>4, <3>5, <3>6 DEF Justified, Statuses, Final
  <2> QED BY <2>2, <2>3, LedgerSteps DEF JobsCurrent
<1> QED BY JobsInit, JobsStep, <1>1, <1>2, PTL DEF Spec

(* A posting whose id is a transaction's, or its key, is made for it.       *)
LEMMA PostsForOwner ==
  ASSUME NEW job \in JobType, PostsFor(job), NEW t \in Txs,
         RowOf(job).ext[1] \in {t, Info[t].key}
  PROVE  job.tx = t
<1>1. PICK suffix : suffix = SuffixOf(job.stage)
  OBVIOUS
<1>2. PICK id : id = IF job.stage = "creditBack" THEN Info[job.tx].key ELSE job.tx
  OBVIOUS
<1>3. RowOf(job).ext = <<id, suffix>>
  BY <1>1, <1>2 DEF PostsFor, RowOf, Row, CallStages, SuffixOf
<1>4. id \in {t, Info[t].key}
  BY <1>3
<1>5. /\ job.tx \in Txs
      /\ Info[t].key \in Keys \cup {NoKey} /\ Info[job.tx].key \in Keys \cup {NoKey}
  BY InfoAssumption DEF JobType, InfoType
<1>6. CASE job.stage = "creditBack"
  <2>1. Info[job.tx].key # NoKey
    BY <1>6 DEF PostsFor, StageFits
  <2> QED BY <1>2, <1>4, <1>5, <1>6, <2>1, NamesAssumption
<1>7. CASE job.stage # "creditBack"
  BY <1>2, <1>4, <1>5, <1>7, NamesAssumption
<1> QED BY <1>6, <1>7

(* What one wallet's goroutine posts is posted once. *)
THEOREM PostingsAreSingle == Spec => []PostedOnce
<1>1. Init => PostedOnce
  BY DEF Init, PostedOnce, EmptyBag, SetToBag, BagToSet
<1>2. TypeInv /\ JobsCurrent /\ PostedOnce /\ [Next]_vars => PostedOnce'
  <2> SUFFICES ASSUME TypeInv, JobsCurrent, PostedOnce, StepCases
               PROVE  PostedOnce'
    BY Steps
  <2>1. CASE ledger' = ledger
    BY <2>1 DEF PostedOnce, BagToSet
  <2>2. ASSUME NEW job \in JobType, PostsFor(job) PROVE PostedOnce'
    <3> SUFFICES ASSUME NEW r \in BagToSet(ledger'), NEW t \in Txs,
                        r.ext[1] \in {t, Info[t].key}, Alone(t)
                 PROVE  /\ ledger'[r] = 1
                        /\ \A q \in BagToSet(ledger') : q.ext = r.ext => q = r
      BY DEF PostedOnce, Alone
    <3> DEFINE row == RowOf(job)
    <3>1. /\ BagToSet(ledger') = BagToSet(ledger) \cup {row}
          /\ \A e \in BagToSet(ledger) : e # row => ledger'[e] = ledger[e]
          /\ row \notin BagToSet(ledger) => ledger'[row] = 1
      BY <2>2, PostRow DEF PostsFor, TypeInv, TypeOK
    <3>2. CASE r.ext = row.ext
      <4>1. job.tx = t
        BY <2>2, <3>2, PostsForOwner
      <4>2. \A e \in BagToSet(ledger) : e.ext # row.ext
        BY <2>2, <4>1 DEF PostsFor, Known, JobsCurrent, CheckHolds
      <4>3. \A e \in BagToSet(ledger') : e.ext = row.ext => e = row
        BY <3>1, <4>2
      <4> QED BY <3>1, <3>2, <4>2, <4>3
    <3>3. CASE r.ext # row.ext
      <4>1. r # row /\ r \in BagToSet(ledger)
        BY <3>1, <3>3
      <4>2. /\ ledger[r] = 1
            /\ \A q \in BagToSet(ledger) : q.ext = r.ext => q = r
        BY <4>1 DEF PostedOnce
      <4> QED BY <3>1, <3>3, <4>1, <4>2
    <3> QED BY <3>2, <3>3
  <2> QED BY <2>1, <2>2, LedgerSteps DEF JobsCurrent
<1> QED BY JobsInit, JobsStep, <1>1, <1>2, PTL DEF Spec

-----------------------------------------------------------------------------
(* Every row of the ledger is the row of a call of a handler, for a         *)
(* transaction of the call's type that some wallet lists.                   *)
CallFits(job) ==
  LET For(stages, type) == job.stage \in stages => Info[job.tx].type = type
  IN /\ job.stage \in CallStages
     /\ Info[job.tx].wallets # {}
     /\ For({"confirm", "direct"}, "DEPOSIT")
     /\ For({"debitUser", "debitWallet", "debitDirect", "debitBlind",
             "failOut", "failBack", "creditBack"}, "WITHDRAWAL")
     /\ For({"convert", "convDst"}, "CONVERSION")
     /\ For({"platform"}, "TRANSFER")

RowsFit ==
  \A r \in BagToSet(ledger) : \E job \in JobType : CallFits(job) /\ r = RowOf(job)

LEMMA RowsFitStep == TypeInv /\ JobsCurrent /\ RowsFit /\ [Next]_vars => RowsFit'
<1> SUFFICES ASSUME TypeInv, JobsCurrent, RowsFit, StepCases
             PROVE  RowsFit'
  BY Steps
<1>1. CASE ledger' = ledger
  BY <1>1 DEF RowsFit, BagToSet
<1>2. ASSUME NEW job \in JobType, PostsFor(job) PROVE RowsFit'
  <2>1. BagToSet(ledger') = BagToSet(ledger) \cup {RowOf(job)}
    BY <1>2, PostRow DEF PostsFor, TypeInv, TypeOK
  <2>2. Info[job.tx].wallets # {}
    BY <1>2 DEF PostsFor, JobsCurrent, WorkCurrent, JobCurrent
  <2>3. CallFits(job)
    BY <1>2, <2>2 DEF PostsFor, StageFits, CallFits
  <2> QED BY <2>1, <2>3 DEF RowsFit
<1> QED BY <1>1, <1>2, LedgerSteps DEF JobsCurrent

(* The rows of a withdrawal whose failure is recorded are two, of opposite  *)
(* amounts.                                                                 *)
LEMMA RowOfWithdrawal ==
  ASSUME NEW job \in JobType, CallFits(job), NEW t \in Txs, RowOf(job).ext[1] = t
  PROVE  /\ RowOf(job).ext = <<t, SuffixOf(job.stage)>>
         /\ job.stage = "failBack" =>
              /\ Info[t].type = "WITHDRAWAL" /\ Alone(t)
              /\ RowOf(job).amount = Info[t].amount
         /\ job.stage # "failBack" /\ Info[t].type = "WITHDRAWAL" =>
              SuffixOf(job.stage) = "" /\ RowOf(job).amount = -Info[t].amount
<1>1. PICK id : id = IF job.stage = "creditBack" THEN Info[job.tx].key ELSE job.tx
  OBVIOUS
<1>2. PICK suffix : suffix = SuffixOf(job.stage)
  OBVIOUS
<1>3. RowOf(job).ext = <<id, suffix>> /\ id = t
  <2>1. RowOf(job).ext = <<id, suffix>>
    BY <1>1, <1>2 DEF CallFits, RowOf, Row, CallStages, SuffixOf
  <2> QED BY <2>1
<1>4. job.tx \in Txs /\ Info[job.tx].key \in Keys \cup {NoKey}
  BY InfoAssumption DEF JobType, InfoType
<1>5. job.stage # "creditBack" /\ job.tx = t
  BY <1>1, <1>3, <1>4, NamesAssumption
<1>6. ASSUME job.stage = "failBack"
      PROVE  /\ Info[t].type = "WITHDRAWAL" /\ Alone(t)
             /\ RowOf(job).amount = Info[t].amount
  <2>1. Info[t].type = "WITHDRAWAL" /\ RowOf(job).amount = Info[t].amount
    BY <1>5, <1>6 DEF CallFits, RowOf, Row
  <2>2. PICK w \in Info[t].wallets : TRUE
    BY <1>5 DEF CallFits
  <2>3. w \in Wallets
    BY InfoAssumption DEF InfoType
  <2>4. Alone(t)
    BY <2>1, <2>2, <2>3, WithdrawalAssumption DEF Alone
  <2> QED BY <2>1, <2>4
<1>7. ASSUME job.stage # "failBack", Info[t].type = "WITHDRAWAL"
      PROVE  SuffixOf(job.stage) = "" /\ RowOf(job).amount = -Info[t].amount
  <2>1. job.stage \in {"debitUser", "debitWallet", "debitDirect", "debitBlind", "failOut"}
    BY <1>5, <1>7 DEF CallFits, CallStages
  <2> QED BY <1>5, <2>1 DEF SuffixOf, RowOf, Row
<1> QED BY <1>2, <1>3, <1>6, <1>7

LEMMA FailureRows ==
  ASSUME IsABag(ledger), RowsFit, PostedOnce, LegsInOrder,
         NEW t \in Txs, Known(<<t, "-failed-reversal">>)
  PROVE  \E p, q \in BagToSet(ledger) :
           /\ p # q /\ p.amount = Info[t].amount /\ q.amount = -Info[t].amount
           /\ ledger[p] = 1 /\ ledger[q] = 1
           /\ {r \in BagToSet(ledger) : r.ext[1] = t} = {p, q}
<1>1. PICK back, none : back = "-failed-reversal" /\ none = ""
  OBVIOUS
<1>2. PICK p \in BagToSet(ledger) : p.ext = <<t, back>>
  BY <1>1 DEF Known
<1>3. PICK q \in BagToSet(ledger) : q.ext = <<t, none>>
  BY <1>1 DEF LegsInOrder, Known
<1>4. /\ Info[t].type = "WITHDRAWAL" /\ Alone(t)
      /\ p.amount = Info[t].amount
  <2>1. PICK job \in JobType : CallFits(job) /\ p = RowOf(job)
    BY DEF RowsFit
  <2>2. RowOf(job).ext = <<t, back>>
    BY <1>2, <2>1
  <2>3. back = SuffixOf(job.stage)
    BY <2>1, <2>2, StageOfRow DEF CallFits
  <2>4. job.stage = "failBack" /\ RowOf(job).ext[1] = t
    <3>1. job.stage = "failBack"
      BY <1>1, <2>3 DEF SuffixOf
    <3>2. RowOf(job).ext[1] = t
      BY <2>2
    <3> QED BY <3>1, <3>2
  <2> QED BY <2>1, <2>4, RowOfWithdrawal
<1>5. ASSUME NEW r \in BagToSet(ledger), r.ext[1] = t
      PROVE  /\ r.ext = <<t, back>> \/ (r.ext = <<t, none>> /\ r.amount = -Info[t].amount)
             /\ ledger[r] = 1
             /\ \A s \in BagToSet(ledger) : s.ext = r.ext => s = r
  <2>1. PICK job \in JobType : CallFits(job) /\ r = RowOf(job)
    BY DEF RowsFit
  <2>2. /\ RowOf(job).ext = <<t, SuffixOf(job.stage)>>
        /\ job.stage # "failBack" =>
             SuffixOf(job.stage) = "" /\ RowOf(job).amount = -Info[t].amount
    BY <1>4, <1>5, <2>1, RowOfWithdrawal
  <2>3. CASE job.stage = "failBack"
    <3>1. SuffixOf(job.stage) = back
      BY <1>1, <2>3 DEF SuffixOf
    <3>2. r.ext = <<t, back>>
      BY <2>1, <2>2, <3>1
    <3> QED BY <1>4, <1>5, <3>2 DEF PostedOnce
  <2>4. CASE job.stage # "failBack"
    <3>1. SuffixOf(job.stage) = none /\ RowOf(job).amount = -Info[t].amount
      BY <1>1, <2>2, <2>4
    <3>2. r.ext = <<t, none>> /\ r.amount = -Info[t].amount
      BY <2>1, <2>2, <3>1
    <3> QED BY <1>4, <1>5, <3>2 DEF PostedOnce
  <2> QED BY <2>3, <2>4
<1>6. p.ext[1] = t /\ q.ext[1] = t
  BY <1>2, <1>3
<1>7. p.ext # q.ext
  <2>1. back # none
    BY <1>1
  <2>2. <<t, back>> # <<t, none>>
    <3>1. ASSUME <<t, back>> = <<t, none>> PROVE back = none
      BY <3>1, SamePair
    <3> QED BY <2>1, <3>1
  <2> QED BY <1>2, <1>3, <2>2
<1>8. \A r \in BagToSet(ledger) : r.ext[1] = t <=> r \in {p, q}
  BY <1>2, <1>3, <1>5, <1>6
<1>9. q.amount = -Info[t].amount /\ ledger[p] = 1 /\ ledger[q] = 1
  BY <1>2, <1>3, <1>5, <1>6, <1>7
<1> QED BY <1>4, <1>7, <1>8, <1>9

LEMMA TwoCancel ==
  ASSUME NEW f, NEW p, NEW q, p # q, f[p] \in Int, f[q] \in Int, f[p] + f[q] = 0
  PROVE  SumFunctionOnSet(f, {p, q}) = 0
<1>1. IsFiniteSet({p, q}) /\ {p, q} \ {p} = {q}
  <2>1. IsFiniteSet({p} \cup {q})
    BY FS_AddElement, FS_Singleton
  <2>2. {p} \cup {q} = {p, q} /\ {p, q} \ {p} = {q}
    OBVIOUS
  <2> QED BY <2>1, <2>2
<1>2. IsFiniteSet({q}) /\ {q} \ {q} = {}
  <2>1. IsFiniteSet({q})
    BY FS_Singleton
  <2> QED BY <2>1
<1>3. SumFunctionOnSet(f, {p, q}) = f[p] + SumFunctionOnSet(f, {p, q} \ {p})
  <2>1. p \in {p, q} /\ \A x \in {p, q} : f[x] \in Int
    OBVIOUS
  <2> QED BY <1>1, <2>1, SumRemove
<1>4. SumFunctionOnSet(f, {q}) = f[q] + SumFunctionOnSet(f, {q} \ {q})
  <2>1. q \in {q} /\ \A x \in {q} : f[x] \in Int
    OBVIOUS
  <2> QED BY <1>2, <2>1, SumRemove
<1>5. /\ SumFunctionOnSet(f, {p, q}) = f[p] + SumFunctionOnSet(f, {q})
      /\ SumFunctionOnSet(f, {q}) = f[q] + SumFunctionOnSet(f, {})
  BY <1>1, <1>2, <1>3, <1>4
<1>6. SumFunctionOnSet(f, {}) = 0
  BY SumEmpty
<1> QED BY <1>5, <1>6

LEMMA FailuresAddUp ==
  ASSUME IsABag(ledger), RowsFit, PostedOnce, LegsInOrder
  PROVE  FailureCancels
<1> SUFFICES ASSUME NEW t \in Txs, Known(<<t, "-failed-reversal">>)
             PROVE  Sum({r \in BagToSet(ledger) : r.ext[1] = t}) = 0
  BY DEF FailureCancels
<1>1. PICK p, q \in BagToSet(ledger) :
           /\ p # q /\ p.amount = Info[t].amount /\ q.amount = -Info[t].amount
           /\ ledger[p] = 1 /\ ledger[q] = 1
           /\ {r \in BagToSet(ledger) : r.ext[1] = t} = {p, q}
  BY FailureRows
<1>2. PICK f : f = [r \in {p, q} |-> r.amount * ledger[r]]
  OBVIOUS
<1>3. Info[t].amount \in Nat
  BY InfoAssumption DEF InfoType
<1>4. f[p] = Info[t].amount /\ f[q] = -Info[t].amount
  BY <1>1, <1>2, <1>3
<1>5. SumFunctionOnSet(f, {p, q}) = 0
  <2>1. /\ p # q /\ f[p] \in Int /\ f[q] \in Int
        /\ f[p] + f[q] = 0
    BY <1>1, <1>3, <1>4
  <2> QED BY <2>1, TwoCancel
<1> QED BY <1>1, <1>2, <1>5 DEF Sum

(* The records of a failed withdrawal that matches no user cancel out over  *)
(* all accounts, whatever was posted before and wherever a crash fell.      *)
THEOREM FailuresCancel == Spec => []FailureCancels
<1>1. Init => RowsFit
  BY DEF Init, RowsFit, EmptyBag, SetToBag, BagToSet
<1>2. TypeInv /\ RowsFit /\ PostedOnce /\ LegsInOrder => FailureCancels
  BY FailuresAddUp DEF TypeInv, TypeOK
<1>3. Spec => []RowsFit
  BY JobsInit, JobsStep, <1>1, RowsFitStep, PTL DEF Spec
<1>4. Spec => []TypeInv
  BY JobsInit, JobsStep, PTL DEF Spec
<1> QED BY <1>2, <1>3, <1>4, PostingsAreSingle, LegsStayInOrder, PTL
=============================================================================
