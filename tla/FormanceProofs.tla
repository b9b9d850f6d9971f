---------------------------- MODULE FormanceProofs ----------------------------
(* Theorems about FormanceFlow, for any number of runs of the CLI beside any *)
(* number of wallets, transactions, crashes and lost answers.  Only the last *)
(* uses what an account holds: the others are true whatever the ledger       *)
(* refuses as short.                                                         *)
EXTENDS FormanceFlow, PollingProofs, Sums

-----------------------------------------------------------------------------
(* The inductive invariant. *)

DoneStages == LookStages \cup {"settle", "debitDirect", "debitBlind"}
BackStages == {"creditBack", "revert", "credit"}

(* What the status of a transaction allows the handler to do. *)
CallFits(job) ==
  LET t == job.tx
      For(stages, type, s) ==
        job.stage \in stages => Info[t].type = type /\ job.status = s
  IN /\ job.stage \in CallStages \cup DoneStages \cup BackStages \cup {"mark", "drop"}
     /\ For({"park"}, "DEPOSIT", "IMPORT_PENDING")
     /\ For({"confirm", "direct"}, "DEPOSIT", "IMPORTED")
     /\ For({"debitUser", "debitWallet"}, "WITHDRAWAL", "OTHER")
     /\ For(DoneStages, "WITHDRAWAL", "DONE")
     /\ For(BackStages \cup {"failOut"}, "WITHDRAWAL", "FAILED")
     /\ For({"convert"}, "CONVERSION", "DONE")
     /\ job.stage = "platform" => Info[t].type = "TRANSFER"
     /\ job.stage \in {"confirm", "direct"} => job.acct \in Users \cup {Nobody}
     /\ job.stage \in DoneStages => job.acct \in Users \cup {PortfolioPlatform}
     /\ job.stage \in BackStages \cup {"debitUser"} => job.acct \in Users
     /\ job.stage \in BackStages => Info[t].key # NoKey

(* Where a ledger transaction comes from. *)
Posted(x) ==
  \/ x.ref = NoRef /\ x.of = NoOf
  \/ \E u \in Users : x.ref = <<u, "">> /\ x.of = NoOf /\ x.via = "direct"
  \/ \E r \in Runs :
       /\ x.of = Info[r].key
       /\ \/ x.ref = <<Info[r].key, "">> /\ x.via = "reserve"
          \/ x.ref = <<Info[r].key, "-reversal">> /\ x.via = "compensate"
  \/ \E j \in JobType :
       /\ j.stage \in CallStages /\ CallFits(j) /\ Reached(j.tx, j.status)
       /\ x.ref = TxnOf(j).ref /\ x.of = TxnOf(j).of /\ x.via = j.stage

(* Recorded, which for a failed withdrawal without a key only the two       *)
(* postings of the failure can be.                                          *)
Settled(t, s) ==
  /\ Recorded(t, s)
  /\ Info[t].type = "WITHDRAWAL" /\ s = "FAILED" /\ Info[t].key = NoKey
       /\ Info[t].amount # 0 => HasRef(<<t, "">>)

JobFits(w) ==
  LET job == work[w].job
  IN job # NoJob =>
       /\ Reached(job.tx, job.status) /\ CallFits(job)
       /\ job.seen \in {0} \cup DOMAIN ledger
       /\ job.stage = "mark" => Settled(job.tx, job.status)
       /\ job.stage = "revert" => /\ job.seen \in DOMAIN ledger
                                  /\ ledger[job.seen].of = Info[job.tx].key

(* No goroutine is about to debit a run's withdrawal directly because its   *)
(* lookups found nothing, unless the CLI may have undone the reservation.   *)
NotDirect(w) ==
  LET job == work[w].job
  IN job # NoJob /\ job.tx \in Runs /\ job.stage \in {"lookId", "debitDirect"} =>
       job.tx \in lost

(* The latest transaction of a key exists, if there is one of the key. *)
LatestExists ==
  \A of \in Txs \cup Keys \cup {NoKey} :
    LET named == {i \in DOMAIN ledger : ledger[i].of = of}
    IN \E m \in {0} \cup named : \A i \in named : i <= m

MarksFit ==
  \A t \in Txs : Processed(t) => Reached(t, cache[t].as) /\ Settled(t, cache[t].as)

Undone(r) ==
  \E i \in DOMAIN ledger :
    \/ ledger[i].ref = <<Info[r].key, "-reversal">>
    \/ ledger[i].of = Info[r].key /\ ledger[i].reverted

(* What the state of a run says of Prime and of the ledger. *)
RunFits(r) ==
  LET key == Info[r].key
      reserved == HasRef(<<key, "">>)
  IN /\ cli[r] \in {"reserved", "created", "rollback", "refunding", "compensating",
                    "refunded"} => reserved
     /\ status[r] # "absent" \/ Undone(r) => reserved
     /\ cli[r] \in {"start", "refused", "verified", "reserved"} => status[r] = "absent"
     /\ cli[r] \in {"rollback", "refunding", "compensating", "refunded"} /\ r \notin lost =>
          status[r] = "absent"
     /\ Undone(r) =>
          \/ status[r] = "FAILED" \/ r \in lost
          \/ status[r] = "absent" /\ cli[r] \in {"compensating", "refunded", "dead"}
     /\ cli[r] = "refunding" => /\ found[r] \in DOMAIN ledger
                                /\ ledger[found[r]].of = key
     /\ found[r] \in {0} \cup DOMAIN ledger
     /\ \A i, j \in DOMAIN ledger :
          ledger[i].ref = <<key, "">> /\ ledger[j].ref = <<key, "">> => i = j

LedgerFits ==
  /\ ledger \in Seq(TxnType) /\ LatestExists
  /\ \A i \in DOMAIN ledger : Posted(ledger[i])

FlowInv ==
  /\ PollInv /\ CliTypeOK /\ DOMAIN found = Runs /\ LedgerFits /\ MarksFit
  /\ \A w \in Wallets : TodoCurrent(w) /\ JobFits(w) /\ NotDirect(w)
  /\ \A r \in Runs : RunFits(r)
  /\ NoSecondDebitAtDone

-----------------------------------------------------------------------------
(* References: what the reference of a ledger transaction says of it. *)

LEMMA Pairs ==
  ASSUME NEW id, NEW suffix, NEW id2, NEW suffix2, <<id, suffix>> = <<id2, suffix2>>
  PROVE  id = id2 /\ suffix = suffix2
OBVIOUS

LEMMA NotEmpty ==
  ASSUME NEW id, NEW suffix
  PROVE  <<id, suffix>> # NoRef
BY DEF NoRef

LEMMA CallRefs ==
  ASSUME NEW j \in JobType, j.stage \in CallStages
  PROVE  /\ TxnOf(j).via = j.stage
         /\ j.stage = "credit" => /\ TxnOf(j).ref = <<Info[j.tx].key, "-reversal">>
                                  /\ TxnOf(j).of = Info[j.tx].key
         /\ j.stage # "credit" =>
              \E suffix \in {"", "-pending", "-confirmed", "-direct"} :
                /\ TxnOf(j).ref = <<j.tx, suffix>>
                /\ j.stage \in {"direct", "debitUser", "debitWallet", "failOut", "convert",
                                "platform"} => suffix = ""
                /\ j.stage = "park" => suffix = "-pending"
                /\ j.stage \in {"confirm", "settle"} => suffix = "-confirmed"
                /\ j.stage \in {"debitDirect", "debitBlind"} => suffix = "-direct"
         /\ TxnOf(j).of =
              IF j.stage \in {"settle", "debitDirect", "debitBlind", "credit"}
              THEN Info[j.tx].key ELSE IF j.stage = "debitUser" THEN j.tx ELSE NoOf
         /\ TxnOf(j).reverted = FALSE
<1> USE DEF TxnOf, DepositStages, WithdrawalStages, CallStages
<1>1. CASE j.stage \in DepositStages
  BY <1>1 DEF DepositTxn, Posting, Txn
<1>2. CASE j.stage \in WithdrawalStages
  BY <1>2 DEF WithdrawalTxn, Posting, Txn
<1>3. CASE j.stage \in {"failOut", "convert", "platform"}
  BY <1>3 DEF PlatformTxn, Posting, Txn
<1> QED BY <1>1, <1>2, <1>3

(* The keys of the runs, and of the withdrawals that are credited back. *)
LEMMA KeyFacts ==
  ASSUME NEW t \in Txs
  PROVE  /\ Info[t].key \in Keys \cup {NoKey} /\ Info[t].key \notin Txs \cup Users
         /\ Info[t].key # NoOf /\ t # NoOf /\ t \notin Users
         /\ Info[t].key # NoKey =>
              \A u \in Txs : Info[u].key = Info[t].key => u = t
         /\ t \in Runs => Info[t].key # NoKey /\ Info[t].type = "WITHDRAWAL"
BY InfoAssumption, NamesAssumption, UsersAssumption, RunsAssumption DEF InfoType

(* Entries with the same name are posted for the same reason. *)
LEMMA SamePosted ==
  ASSUME NEW x, NEW y, Posted(x), y.ref = x.ref, y.of = x.of, y.via = x.via
  PROVE  Posted(y)
BY DEF Posted

LEMMA PostedStays ==
  ASSUME ReachedKept, NEW x, Posted(x)
  PROVE  Posted(x)'
<1>1. ASSUME NEW j \in JobType, Reached(j.tx, j.status)
      PROVE  Reached(j.tx, j.status)'
  BY <1>1 DEF ReachedKept, JobType
<1> QED BY <1>1 DEF Posted

(* What is posted under the key of a withdrawal. *)
LEMMA OfKey ==
  ASSUME NEW t \in Txs, Info[t].key # NoKey, NEW x, Posted(x), x.of = Info[t].key
  PROVE  \/ t \in Runs /\ x.ref = <<Info[t].key, "">> /\ x.via = "reserve"
         \/ x.ref = <<Info[t].key, "-reversal">>
         \/ /\ x.via \in {"settle", "debitDirect", "debitBlind"}
            /\ Reached(t, "DONE") /\ Info[t].type = "WITHDRAWAL"
<1>1. ASSUME NEW r \in Runs, Info[r].key = Info[t].key PROVE r = t
  BY <1>1, KeyFacts, RunsAssumption
<1>2. ASSUME NEW j \in JobType, j.stage \in CallStages, CallFits(j),
             Reached(j.tx, j.status), x.ref = TxnOf(j).ref, x.of = TxnOf(j).of,
             x.via = j.stage
      PROVE  \/ x.ref = <<Info[t].key, "-reversal">>
             \/ /\ x.via \in {"settle", "debitDirect", "debitBlind"}
                /\ Reached(t, "DONE") /\ Info[t].type = "WITHDRAWAL"
  <2>1. j.tx \in Txs
    BY DEF JobType
  <2>2. Info[t].key # NoOf /\ Info[t].key # j.tx
    BY <2>1, KeyFacts
  <2>3. /\ j.stage \in {"settle", "debitDirect", "debitBlind", "credit"}
        /\ Info[j.tx].key = Info[t].key
    BY <1>2, <2>2, CallRefs
  <2>4. j.tx = t
    BY <2>1, <2>3, KeyFacts
  <2>5. CASE j.stage = "credit"
    BY <1>2, <2>4, <2>5, CallRefs
  <2>6. CASE j.stage # "credit"
    BY <1>2, <2>3, <2>4, <2>6 DEF CallFits, DoneStages
  <2> QED BY <2>5, <2>6
<1> QED BY <1>1, <1>2, KeyFacts DEF Posted

(* The reservation of a key and what takes it back. *)
LEMMA KeyRefs ==
  ASSUME NEW t \in Txs, Info[t].key # NoKey, NEW x, Posted(x)
  PROVE  /\ x.ref = <<Info[t].key, "">> =>
              t \in Runs /\ x.of = Info[t].key /\ x.via = "reserve"
         /\ x.ref = <<Info[t].key, "-reversal">> =>
              /\ x.of = Info[t].key
              /\ \/ t \in Runs /\ x.via = "compensate"
                 \/ x.via = "credit" /\ Reached(t, "FAILED") /\ Info[t].type = "WITHDRAWAL"
<1> PICK none : none = ""
  OBVIOUS
<1> PICK back : back = "-reversal"
  OBVIOUS
<1>1. ASSUME NEW suffix, x.ref = <<Info[t].key, suffix>>
      PROVE  /\ x.ref # NoRef
             /\ \A u, other : u \in Users \cup Txs => x.ref # <<u, other>>
             /\ \A u, other : u \in Txs /\ x.ref = <<Info[u].key, other>> =>
                               u = t /\ suffix = other
  <2>1. x.ref # NoRef
    BY <1>1, NotEmpty
  <2>2. ASSUME NEW u \in Users \cup Txs, NEW other, x.ref = <<u, other>> PROVE FALSE
    <3>1. Info[t].key = u
      BY <1>1, <2>2, Pairs
    <3> QED BY <3>1, KeyFacts
  <2>3. ASSUME NEW u \in Txs, NEW other, x.ref = <<Info[u].key, other>>
        PROVE  u = t /\ suffix = other
    <3>0. <<Info[u].key, other>> = <<Info[t].key, suffix>>
      BY <1>1, <2>3
    <3>1. Info[u].key = Info[t].key /\ suffix = other
      BY <3>0, Pairs
    <3>2. \A v \in Txs : Info[v].key = Info[t].key => v = t
      BY KeyFacts
    <3> QED BY <3>1, <3>2
  <2> QED BY <2>1, <2>2, <2>3
<1>2. ASSUME NEW suffix \in {none, back}, x.ref = <<Info[t].key, suffix>>
      PROVE  \/ /\ t \in Runs /\ x.of = Info[t].key
                /\ \/ suffix = none /\ x.via = "reserve"
                   \/ suffix = back /\ x.via = "compensate"
             \/ /\ suffix = back /\ x.via = "credit" /\ x.of = Info[t].key
                /\ Reached(t, "FAILED") /\ Info[t].type = "WITHDRAWAL"
  <2>1. ASSUME NEW r \in Runs, x.of = Info[r].key,
               \/ x.ref = <<Info[r].key, none>> /\ x.via = "reserve"
               \/ x.ref = <<Info[r].key, back>> /\ x.via = "compensate"
        PROVE  /\ t \in Runs /\ x.of = Info[t].key
               /\ \/ suffix = none /\ x.via = "reserve"
                  \/ suffix = back /\ x.via = "compensate"
    <3>1. r \in Txs /\ \E other : x.ref = <<Info[r].key, other>>
      BY <2>1, RunsAssumption
    <3>2. r = t
      BY <1>1, <1>2, <3>1
    <3> QED BY <1>1, <1>2, <2>1, <3>2
  <2>2. ASSUME NEW j \in JobType, j.stage \in CallStages, CallFits(j),
               Reached(j.tx, j.status), x.ref = TxnOf(j).ref, x.of = TxnOf(j).of,
               x.via = j.stage
        PROVE  /\ suffix = back /\ x.via = "credit" /\ x.of = Info[t].key
               /\ Reached(t, "FAILED") /\ Info[t].type = "WITHDRAWAL"
    <3>1. j.tx \in Txs
      BY DEF JobType
    <3>2. j.stage = "credit"
      <4>1. j.stage # "credit" => \E other : x.ref = <<j.tx, other>>
        BY ZenonT(40), <2>2, CallRefs
      <4> QED BY <1>1, <1>2, <3>1, <4>1
    <3>3. x.ref = <<Info[j.tx].key, back>> /\ x.of = Info[j.tx].key
      BY <2>2, <3>2, CallRefs
    <3>4. j.tx = t /\ suffix = back
      BY <1>1, <1>2, <3>1, <3>3
    <3> QED BY <2>2, <3>2, <3>3, <3>4 DEF CallFits, BackStages
  <2>3. /\ x.ref # NoRef
        /\ \A u \in Users : x.ref # <<u, "">>
    BY <1>1, <1>2
  <2> QED BY <2>1, <2>2, <2>3 DEF Posted
<1>3. none # back
  OBVIOUS
<1> QED BY <1>2, <1>3

-----------------------------------------------------------------------------
(* Types of what is posted. *)
LEMMA CallTypes ==
  ASSUME NEW j \in JobType, j.stage \in CallStages, CallFits(j)
  PROVE  TxnOf(j) \in TxnType
<1>0. j.tx \in Txs /\ Info[j.tx] \in InfoType
  BY InfoAssumption DEF JobType
<1>1. /\ Info[j.tx].amount \in Nat /\ Info[j.tx].key \in Keys \cup {NoKey}
      /\ j.tx \in Txs
  BY <1>0 DEF InfoType
<1>2. /\ j.stage \in {"confirm", "direct"} => Owner(j) \in Accounts
      /\ j.stage \in {"settle", "debitDirect", "debitBlind", "credit", "debitUser"} =>
           j.acct \in Accounts
      /\ j.stage = "credit" => Info[j.tx].key \in Keys
      /\ {Wallet, Deposits, Withdrawals, Conversions, PortfolioPlatform} \subseteq Accounts
  BY <1>1 DEF CallFits, Owner, Accounts, DoneStages, BackStages
<1> USE <1>1, <1>2 DEF TxnOf, DepositStages, WithdrawalStages, CallStages
<1>3. CASE j.stage \in DepositStages
  BY <1>3 DEF DepositTxn, Posting, Txn, TxnType
<1>4. CASE j.stage \in WithdrawalStages
  BY <1>4 DEF WithdrawalTxn, Posting, Txn, TxnType
<1>5. CASE j.stage \in {"failOut", "convert", "platform"}
  BY <1>5 DEF PlatformTxn, Posting, Txn, TxnType
<1> QED BY <1>3, <1>4, <1>5

LEMMA RunFacts ==
  ASSUME NEW r \in Runs
  PROVE  /\ r \in Txs /\ Info[r].key \in Keys /\ Info[r].key # NoKey
         /\ Info[r].type = "WITHDRAWAL" /\ r \notin Spontaneous
         /\ Reservation(r) \in TxnType /\ Compensation(r) \in TxnType
         /\ Reservation(r).ref = <<Info[r].key, "">>
         /\ Compensation(r).ref = <<Info[r].key, "-reversal">>
         /\ Reservation(r).of = Info[r].key /\ Compensation(r).of = Info[r].key
         /\ Reservation(r).via = "reserve" /\ Compensation(r).via = "compensate"
         /\ Posted(Reservation(r)) /\ Posted(Compensation(r))
<1>1. /\ r \in Txs /\ Info[r] \in InfoType
      /\ Info[r].type = "WITHDRAWAL" /\ r \notin Spontaneous
      /\ Info[r].keyUser \in Users
  BY RunsAssumption, InfoAssumption
<1>2. Info[r].key # NoKey
  BY <1>1, InfoAssumption, UsersAssumption
<1>3. Info[r].key \in Keys
  BY <1>1, <1>2 DEF InfoType
<1>4. /\ Reservation(r) \in TxnType /\ Compensation(r) \in TxnType
      /\ Reservation(r).ref = <<Info[r].key, "">>
      /\ Compensation(r).ref = <<Info[r].key, "-reversal">>
      /\ Reservation(r).of = Info[r].key /\ Compensation(r).of = Info[r].key
      /\ Reservation(r).via = "reserve" /\ Compensation(r).via = "compensate"
  BY <1>1, <1>3 DEF Reservation, Compensation, Txn, TxnType, Accounts, User, InfoType
<1>5. ASSUME NEW x \in {Reservation(r), Compensation(r)} PROVE Posted(x)
  BY <1>4, <1>5 DEF Posted
<1> QED BY <1>1, <1>2, <1>3, <1>4, <1>5

-----------------------------------------------------------------------------
(* Steps of the ledger. *)

(* The ledger grows by x, and k is marked as reverted, 0 for none. *)
Grown(x, k) ==
  /\ DOMAIN ledger' = DOMAIN ledger \cup {Len(ledger) + 1}
  /\ ledger'[Len(ledger) + 1] = x
  /\ \A i \in DOMAIN ledger :
       /\ ledger'[i].ref = ledger[i].ref /\ ledger'[i].of = ledger[i].of
       /\ ledger'[i].via = ledger[i].via /\ ledger'[i].amount = ledger[i].amount
       /\ ledger'[i].from = ledger[i].from /\ ledger'[i].to = ledger[i].to
       /\ ledger'[i].reverted = IF i = k THEN TRUE ELSE ledger[i].reverted

LEMMA Indices ==
  ASSUME ledger \in Seq(TxnType)
  PROVE  /\ Len(ledger) \in Nat /\ DOMAIN ledger = 1..Len(ledger)
         /\ \A i \in DOMAIN ledger : ledger[i] \in TxnType
OBVIOUS

LEMMA RecordGrows ==
  ASSUME ledger \in Seq(TxnType), NEW x \in TxnType, Record(x)
  PROVE  ledger' \in Seq(TxnType) /\ Grown(x, 0)
<1>1. /\ ledger' \in Seq(TxnType) /\ Len(ledger') = Len(ledger) + 1
      /\ ledger'[Len(ledger) + 1] = x
      /\ \A i \in 1..Len(ledger) : ledger'[i] = ledger[i]
  BY DEF Record
<1>2. /\ DOMAIN ledger' = DOMAIN ledger \cup {Len(ledger) + 1}
      /\ \A i \in DOMAIN ledger : i # 0 /\ ledger'[i] = ledger[i]
  BY <1>1, Indices
<1> QED BY <1>1, <1>2 DEF Grown

LEMMA MirrorFacts ==
  ASSUME ledger \in Seq(TxnType), NEW i \in DOMAIN ledger
  PROVE  /\ Mirror(i) \in TxnType /\ Mirror(i).ref = NoRef /\ Mirror(i).of = NoOf
         /\ Posted(Mirror(i))
<1>1. ledger[i] \in TxnType
  BY Indices
<1>2. Mirror(i) \in TxnType /\ Mirror(i).ref = NoRef /\ Mirror(i).of = NoOf
  BY <1>1 DEF Mirror, Txn, TxnType, Accounts
<1>3. ASSUME NEW x, x = Mirror(i) PROVE Posted(x)
  BY <1>2, <1>3 DEF Posted
<1> QED BY <1>2, <1>3

LEMMA RevertGrows ==
  ASSUME ledger \in Seq(TxnType), NEW k \in DOMAIN ledger, Revert(k)
  PROVE  ledger' \in Seq(TxnType) /\ Grown(Mirror(k), k)
<1>1. PICK marked : marked = [ledger EXCEPT ![k].reverted = TRUE]
  OBVIOUS
<1>2. /\ [ledger[k] EXCEPT !.reverted = TRUE] \in TxnType
      /\ marked = [ledger EXCEPT ![k] = [ledger[k] EXCEPT !.reverted = TRUE]]
  BY ZenonT(40), <1>1, Indices DEF TxnType
<1>3. marked \in Seq(TxnType) /\ Len(marked) = Len(ledger)
  BY <1>2, Indices
<1>4. \A i \in DOMAIN ledger :
        /\ marked[i].ref = ledger[i].ref /\ marked[i].of = ledger[i].of
        /\ marked[i].via = ledger[i].via /\ marked[i].amount = ledger[i].amount
        /\ marked[i].from = ledger[i].from /\ marked[i].to = ledger[i].to
        /\ marked[i].reverted = IF i = k THEN TRUE ELSE ledger[i].reverted
  BY <1>2, Indices DEF TxnType
<1>5. /\ ledger' \in Seq(TxnType) /\ Len(ledger') = Len(marked) + 1
      /\ ledger'[Len(marked) + 1] = Mirror(k)
      /\ \A i \in 1..Len(marked) : ledger'[i] = marked[i]
  BY <1>1, <1>3, MirrorFacts DEF Revert
<1>6. /\ DOMAIN ledger' = DOMAIN ledger \cup {Len(ledger) + 1}
      /\ \A i \in DOMAIN ledger : ledger'[i] = marked[i]
  BY <1>3, <1>5, Indices
<1>7. ledger'[Len(ledger) + 1] = Mirror(k)
  BY <1>3, <1>5
<1>8. ASSUME NEW i \in DOMAIN ledger
      PROVE  /\ ledger'[i].ref = ledger[i].ref /\ ledger'[i].of = ledger[i].of
             /\ ledger'[i].via = ledger[i].via /\ ledger'[i].amount = ledger[i].amount
             /\ ledger'[i].from = ledger[i].from /\ ledger'[i].to = ledger[i].to
             /\ ledger'[i].reverted = IF i = k THEN TRUE ELSE ledger[i].reverted
  <2>1. PICK e : e = marked[i]
    OBVIOUS
  <2>2. PICK d : d = ledger[i]
    OBVIOUS
  <2>3. /\ e.ref = d.ref /\ e.of = d.of /\ e.via = d.via /\ e.amount = d.amount
        /\ e.from = d.from /\ e.to = d.to
        /\ e.reverted = IF i = k THEN TRUE ELSE d.reverted
    BY <1>4, <2>1, <2>2
  <2>4. ledger'[i] = e
    BY <1>6, <2>1
  <2> QED BY <2>2, <2>3, <2>4
<1> QED BY <1>5, <1>6, <1>7, <1>8 DEF Grown

(* What is in the ledger stays there. *)
LedgerKept ==
  \A i \in DOMAIN ledger :
    /\ i \in DOMAIN ledger'
    /\ ledger'[i].ref = ledger[i].ref /\ ledger'[i].of = ledger[i].of
    /\ ledger'[i].via = ledger[i].via
    /\ ledger[i].reverted => ledger'[i].reverted

LEMMA GrownKeeps ==
  ASSUME ledger \in Seq(TxnType), NEW x, NEW k, Grown(x, k)
  PROVE  /\ LedgerKept
         /\ \A ref : HasRef(ref)' <=> (HasRef(ref) \/ x.ref = ref)
BY Indices DEF Grown, LedgerKept, HasRef

LEMMA GrownLatest ==
  ASSUME ledger \in Seq(TxnType), LatestExists, NEW x, NEW k, Grown(x, k)
  PROVE  LatestExists'
<1> SUFFICES ASSUME NEW of \in Txs \cup Keys \cup {NoKey}
             PROVE  \E m \in {0} \cup {i \in DOMAIN ledger' : ledger'[i].of = of} :
                      \A i \in {j \in DOMAIN ledger' : ledger'[j].of = of} : i <= m
  BY DEF LatestExists
<1>1. CASE x.of = of
  BY <1>1, Indices DEF Grown
<1>2. CASE x.of # of
  <2>1. {i \in DOMAIN ledger' : ledger'[i].of = of} = {i \in DOMAIN ledger : ledger[i].of = of}
    BY <1>2, Indices DEF Grown
  <2> QED BY <2>1 DEF LatestExists
<1> QED BY <1>1, <1>2

LEMMA LatestFacts ==
  ASSUME ledger \in Seq(TxnType), LatestExists, NEW of \in Txs \cup Keys \cup {NoKey}
  PROVE  /\ \/ Latest(of) = 0
            \/ Latest(of) \in DOMAIN ledger /\ ledger[Latest(of)].of = of
         /\ \A i \in DOMAIN ledger : ledger[i].of = of => i <= Latest(of) /\ Latest(of) # 0
<1> DEFINE named == {i \in DOMAIN ledger : ledger[i].of = of}
<1>1. PICK m \in {0} \cup named : \A i \in named : i <= m
  BY DEF LatestExists
<1>2. \A i \in {0} \cup named : i \in Nat /\ (i \in named => i # 0)
  BY Indices
<1>3. m \in {0} \cup named /\ \A i \in {0} \cup named : m >= i
  BY <1>1, <1>2
<1>4. Latest(of) \in {0} \cup named /\ \A i \in {0} \cup named : Latest(of) >= i
  <2>1. PICK S : S = {0} \cup named
    OBVIOUS
  <2>2. \E n \in S : \A i \in S : n >= i
    BY <1>3, <2>1
  <2>3. Max(S) \in S /\ \A i \in S : Max(S) >= i
    BY <2>2 DEF Max
  <2> QED BY <2>1, <2>3 DEF Latest
<1> QED BY <1>2, <1>4

-----------------------------------------------------------------------------
(* What a step keeps that adds to the ledger only what Prime allows. *)

Onward ==
  /\ ReachedKept /\ LedgerKept /\ lost \subseteq lost'
  /\ \A i \in DOMAIN ledger' \ DOMAIN ledger :
       \E x : /\ x = ledger'[i] /\ Posted(x)
              /\ \A r \in Runs : x.ref = <<Info[r].key, "">> => status[r] = "absent"

LEMMA RefsStay ==
  ASSUME LedgerKept
  PROVE  \A ref : HasRef(ref) => HasRef(ref)'
BY DEF LedgerKept, HasRef

LEMMA EntriesStay ==
  ASSUME Onward, \A i \in DOMAIN ledger : Posted(ledger[i])
  PROVE  (\A i \in DOMAIN ledger : Posted(ledger[i]))'
<1> SUFFICES ASSUME NEW i \in DOMAIN ledger' PROVE Posted(ledger[i])'
  OBVIOUS
<1>1. PICK x : x = ledger'[i]
  OBVIOUS
<1>2. Posted(x)
  <2>1. CASE i \in DOMAIN ledger
    <3>1. PICK y : y = ledger[i]
      OBVIOUS
    <3>2. Posted(y) /\ x.ref = y.ref /\ x.of = y.of /\ x.via = y.via
      BY <1>1, <2>1, <3>1 DEF Onward, LedgerKept
    <3> QED BY <3>2, SamePosted
  <2> QED BY <1>1, <2>1 DEF Onward
<1>3. Posted(x)'
  BY <1>2, PostedStays DEF Onward
<1> QED BY <1>1, <1>3 DEF Posted

(* What is recorded stays so: of a failed withdrawal nothing is posted under *)
(* its key but what gives it back.                                          *)
LEMMA SettledStays ==
  ASSUME Onward, NEW t \in Txs, NEW s \in Statuses, Reached(t, s), Settled(t, s)
  PROVE  Settled(t, s)'
<1>1. \A ref : HasRef(ref) => HasRef(ref)'
  BY RefsStay DEF Onward
<1>2. CASE Info[t].type = "WITHDRAWAL" /\ s = "FAILED" /\ Info[t].amount # 0
  <2>1. CASE HasRef(<<t, "">>) \/ HasRef(<<Info[t].key, "-reversal">>)
    BY <1>1, <1>2, <2>1 DEF Settled, Recorded
  <2>2. CASE /\ Info[t].key # NoKey
             /\ \A i \in DOMAIN ledger : ledger[i].of = Info[t].key => ledger[i].reverted
    <3>1. ASSUME NEW i \in DOMAIN ledger', ledger'[i].of = Info[t].key
          PROVE  ledger'[i].reverted \/ HasRef(<<Info[t].key, "-reversal">>)'
      <4>1. CASE i \in DOMAIN ledger
        BY <2>2, <3>1, <4>1 DEF Onward, LedgerKept
      <4>2. CASE i \notin DOMAIN ledger
        <5>1. PICK x : /\ x = ledger'[i] /\ Posted(x)
                       /\ \A r \in Runs : x.ref = <<Info[r].key, "">> =>
                                            status[r] = "absent"
          BY <4>2 DEF Onward
        <5>2. \/ x.ref = <<Info[t].key, "-reversal">> \/ Reached(t, "DONE")
              \/ t \in Runs /\ x.ref = <<Info[t].key, "">>
          BY <2>2, <3>1, <5>1, OfKey
        <5>3. status[t] = "FAILED"
          BY <1>2 DEF Reached, Final
        <5>4. x.ref = <<Info[t].key, "-reversal">>
          BY <5>1, <5>2, <5>3 DEF Reached, Final
        <5> QED BY <5>1, <5>4 DEF HasRef
      <4> QED BY <4>1, <4>2
    <3> QED BY <1>2, <2>2, <3>1 DEF Settled, Recorded
  <2> QED BY <1>2, <2>1, <2>2 DEF Settled, Recorded
<1>3. CASE ~(Info[t].type = "WITHDRAWAL" /\ s = "FAILED" /\ Info[t].amount # 0)
  BY <1>1, <1>3 DEF Settled, Recorded
<1> QED BY <1>2, <1>3

LEMMA JobFitsStays ==
  ASSUME work \in [Wallets -> WorkType], NEW v \in Wallets, Onward,
         work'[v].job = work[v].job, JobFits(v), NotDirect(v)
  PROVE  JobFits(v)' /\ NotDirect(v)'
<1>1. NotDirect(v)'
  BY DEF NotDirect, Onward
<1>2. PICK job : job = work[v].job
  OBVIOUS
<1>3. ASSUME job # NoJob
      PROVE  /\ Reached(job.tx, job.status)' /\ CallFits(job)
             /\ job.stage = "mark" => Settled(job.tx, job.status)'
  <2>1. job \in JobType
    BY <1>2, <1>3 DEF WorkType
  <2>2. job.tx \in Txs /\ job.status \in Statuses
    BY <2>1 DEF JobType
  <2>3. /\ Reached(job.tx, job.status) /\ CallFits(job)
        /\ job.stage = "mark" => Settled(job.tx, job.status)
    BY <1>2, <1>3 DEF JobFits
  <2> QED BY <2>2, <2>3, SettledStays DEF Onward, ReachedKept
<1>4. work[v].job # NoJob =>
        /\ Reached(work[v].job.tx, work[v].job.status)' /\ CallFits(work[v].job)'
        /\ work'[v].job.stage = "mark" => Settled(work[v].job.tx, work[v].job.status)'
  <2>1. work[v].job # NoJob => Reached(work[v].job.tx, work[v].job.status)'
    BY <1>2, <1>3 DEF Reached
  <2>2. work[v].job # NoJob => CallFits(work[v].job)'
    BY <1>2, <1>3
  <2>3. work[v].job # NoJob /\ work'[v].job.stage = "mark" =>
          Settled(work[v].job.tx, work[v].job.status)'
    BY <1>2, <1>3 DEF Settled
  <2> QED BY <2>1, <2>2, <2>3
<1>5. JobFits(v)'
  BY ZenonT(40), <1>4 DEF JobFits, Onward, LedgerKept
<1> QED BY <1>1, <1>5

LEMMA JobStays ==
  ASSUME work \in [Wallets -> WorkType], NEW v \in Wallets, Onward, work'[v] = work[v],
         TodoCurrent(v), JobFits(v), NotDirect(v)
  PROVE  TodoCurrent(v)' /\ JobFits(v)' /\ NotDirect(v)'
BY TodoStays, JobFitsStays DEF Onward

LEMMA MarksStay ==
  ASSUME Onward, PollInv, MarksFit, cache' = cache
  PROVE  MarksFit'
<1> SUFFICES ASSUME NEW t \in Txs, Processed(t)'
             PROVE  Reached(t, cache[t].as)' /\ Settled(t, cache[t].as)'
  BY DEF MarksFit
<1>1. PICK s : s = cache[t].as
  OBVIOUS
<1>2. s \in Statuses /\ Reached(t, s) /\ Settled(t, s)
  BY <1>1 DEF MarksFit, Processed, PollInv, Scalars, EntryType
<1>3. Reached(t, s)' /\ Settled(t, s)'
  BY <1>2, SettledStays DEF Onward, ReachedKept
<1> QED BY <1>1, <1>3 DEF Reached, Settled, Recorded

(* A step that is not of the run, and that does not post its reservation. *)
LEMMA RunStays ==
  ASSUME NEW r \in Runs, RunFits(r), LedgerKept, lost \subseteq lost',
         cli'[r] = cli[r], found'[r] = found[r],
         \/ status'[r] = status[r]
         \/ status[r] \notin {"absent", "FAILED"} /\ status'[r] # "absent",
         Undone(r)' => Undone(r) \/ status[r] = "FAILED",
         \A i \in DOMAIN ledger' \ DOMAIN ledger : ledger'[i].ref # <<Info[r].key, "">>
  PROVE  RunFits(r)'
<1> DEFINE key == Info[r].key
<1>1. HasRef(<<key, "">>) => HasRef(<<key, "">>)'
  BY RefsStay
<1>2. status'[r] = "absent" <=> status[r] = "absent"
  OBVIOUS
<1>3. Undone(r)' => /\ HasRef(<<key, "">>)'
                    /\ \/ status'[r] = "FAILED" \/ r \in lost'
                       \/ /\ status'[r] = "absent"
                          /\ cli'[r] \in {"compensating", "refunded", "dead"}
  BY <1>1 DEF RunFits
<1>4. /\ cli'[r] = "refunding" => /\ found'[r] \in DOMAIN ledger'
                                  /\ ledger'[found'[r]].of = key
      /\ found'[r] \in {0} \cup DOMAIN ledger'
  BY DEF RunFits, LedgerKept
<1>5. \A i, j \in DOMAIN ledger' :
        ledger'[i].ref = <<key, "">> /\ ledger'[j].ref = <<key, "">> => i = j
  BY DEF RunFits, LedgerKept
<1> QED BY <1>1, <1>2, <1>3, <1>4, <1>5 DEF RunFits

-----------------------------------------------------------------------------
(* The stages of the handlers. *)

(* A handler starts at a stage that fits; it marks nothing at once but a    *)
(* withdrawal of nothing.                                                   *)
LEMMA FirstFits ==
  ASSUME NEW t \in Txs, NEW s \in Statuses,
         NEW byAddress \in {ByAddress(t), Nobody},
         NEW byKey \in {Info[t].keyUser, Nobody},
         NEW job, job = First(t, s, byAddress, byKey)
  PROVE  /\ CallFits(job) /\ job.stage \notin {"revert", "lookId", "debitDirect"}
         /\ job.stage = "mark" => Settled(t, s)
<1> USE TwoPhaseAssumption DEF CallFits, DoneStages, BackStages, LookStages, CallStages,
        DepositStages, WithdrawalStages, Job
<1>1. CASE Info[t].type = "DEPOSIT"
  BY <1>1, LookupTypes DEF First, FirstDeposit
<1>2. CASE Info[t].type = "WITHDRAWAL"
  <2>1. job = FirstWithdrawal(t, s, byAddress, byKey)
    BY <1>2 DEF First
  <2>2. /\ byKey # Nobody => byKey \in Users /\ Info[t].key # NoKey
        /\ Match(t, byAddress, byKey) \in Users \cup {Nobody}
    BY LookupTypes, InfoAssumption DEF Match
  <2>3. CASE s = "FAILED"
    BY <1>2, <2>1, <2>2, <2>3 DEF FirstWithdrawal
  <2>4. CASE s \in {"OTHER", "DONE"} /\ Info[t].amount = 0
    BY <1>2, <2>1, <2>4 DEF FirstWithdrawal, Settled, Recorded
  <2>5. CASE s \in {"OTHER", "DONE"} /\ Info[t].amount # 0
    BY <1>2, <2>1, <2>2, <2>5 DEF FirstWithdrawal
  <2>6. CASE s \notin {"FAILED", "OTHER", "DONE"}
    BY <1>2, <2>1, <2>6 DEF FirstWithdrawal
  <2> QED BY <2>3, <2>4, <2>5, <2>6
<1>3. CASE Info[t].type = "CONVERSION"
  BY <1>3 DEF First
<1>4. CASE Info[t].type \notin {"DEPOSIT", "WITHDRAWAL", "CONVERSION"}
  <2>1. Info[t].type = "TRANSFER"
    BY <1>4, LookupTypes DEF InfoType
  <2> QED BY <2>1 DEF First
<1> QED BY <1>1, <1>2, <1>3, <1>4

(* From one stage of a handler to another. *)
SameJob(j, next) ==
  next \in JobType /\ next.tx = j.tx /\ next.status = j.status /\ next.acct = j.acct

LEMMA MovesFit ==
  ASSUME NEW j \in JobType, NEW next, SameJob(j, next), CallFits(j),
         \/ j.stage \in DoneStages /\ next.stage \in DoneStages
         \/ j.stage \in BackStages /\ next.stage \in BackStages
         \/ next.stage \in {"mark", "drop"}
         \/ j.stage = "confirm" /\ next.stage = "direct"
         \/ j.stage = "debitUser" /\ next.stage = "debitWallet"
  PROVE  CallFits(next)
BY DEF SameJob, CallFits, DoneStages, BackStages, LookStages, CallStages,
       DepositStages, WithdrawalStages

LEMMA AfterMoves ==
  ASSUME NEW stage \in CallStages, NEW outcome \in {"ok", "dup", "error"}
  PROVE  /\ \/ After(stage, outcome) \in {"mark", "drop"}
            \/ stage = "confirm" /\ After(stage, outcome) = "direct"
            \/ stage = "debitUser" /\ After(stage, outcome) = "debitWallet"
         /\ After(stage, outcome) = "mark" => outcome # "error"
BY DEF After, AfterDeposit, AfterPending, AfterOther

(* Once what a call posts is in the ledger, the transaction is settled. *)
LEMMA CallSettles ==
  ASSUME NEW j \in JobType, j.stage \in CallStages, CallFits(j), HasRef(TxnOf(j).ref)'
  PROVE  Settled(j.tx, j.status)'
<1> USE DEF Settled, Recorded, CallFits
<1>1. CASE j.stage = "credit"
  BY <1>1, CallRefs DEF BackStages
<1>2. CASE j.stage \in DepositStages
  BY ZenonT(40), <1>2, CallRefs DEF DepositStages
<1>3. CASE j.stage \in {"debitUser", "debitWallet"}
  BY <1>3, CallRefs
<1>4. CASE j.stage \in {"settle", "debitDirect", "debitBlind"}
  <2>1. /\ Info[j.tx].type = "WITHDRAWAL" /\ j.status = "DONE"
        /\ TxnOf(j).ref \in {<<j.tx, "-confirmed">>, <<j.tx, "-direct">>}
    BY <1>4, CallRefs DEF DoneStages
  <2> QED BY <2>1
<1>5. CASE j.stage \in {"failOut", "convert", "platform"}
  BY <1>5, CallRefs
<1> QED BY <1>1, <1>2, <1>3, <1>4, <1>5 DEF CallStages, WithdrawalStages

-----------------------------------------------------------------------------
(* The steps of a handler. *)

HandlerStep(w) ==
  \/ Look(w) \/ LookFails(w) \/ Call(w) \/ CallFails(w)
  \/ FindReserved(w) \/ RevertReserved(w) \/ RevertFails(w)

CallPosts(w) ==
  LET j == work[w].job
  IN j.stage \in CallStages /\ ~HasRef(TxnOf(j).ref) /\ Record(TxnOf(j))

Reverts(w) == work[w].job.stage = "revert" /\ Revert(work[w].job.seen)

LEMMA HandlerFrame ==
  ASSUME PollInv, NEW w \in Wallets, HandlerStep(w)
  PROVE  /\ UNCHANGED <<now, prime, phase, since, cache>> /\ faults' \in 0..MaxFaults
         /\ work[w].job \in JobType /\ work[w].job # NoJob
         /\ ledger' = ledger \/ CallPosts(w) \/ Reverts(w)
<1>1. /\ UNCHANGED <<now, prime, phase, since, cache>>
      /\ faults' = faults \/ Fault
      /\ ledger' = ledger \/ CallPosts(w) \/ Reverts(w)
      /\ work[w].job.stage # "none"
  <2>1. CASE Look(w) \/ LookFails(w)
    BY <2>1 DEF Look, LookFails, At, LookStages
  <2>2. CASE Call(w) \/ CallFails(w)
    BY <2>2 DEF Call, CallFails, At, CallPosts, Accepted, CallStages, DepositStages,
                WithdrawalStages
  <2>3. CASE FindReserved(w)
    BY <2>3 DEF FindReserved, At
  <2>4. CASE RevertReserved(w) \/ RevertFails(w)
    BY <2>4 DEF RevertReserved, RevertFails, At, Reverts
  <2> QED BY <2>1, <2>2, <2>3, <2>4 DEF HandlerStep
<1>2. faults' \in 0..MaxFaults
  BY <1>1, BoundsAssumption DEF Fault, PollInv, Scalars
<1> QED BY <1>1, <1>2, InHand DEF PollInv

-----------------------------------------------------------------------------
(* The ledger after a step. *)

LEMMA QuietOnward ==
  ASSUME ledger' = ledger, ReachedKept, lost \subseteq lost'
  PROVE  Onward
BY DEF Onward, LedgerKept

LEMMA QuietLedger ==
  ASSUME LedgerFits, Onward, ledger' = ledger
  PROVE  LedgerFits'
BY EntriesStay DEF LedgerFits, LatestExists

LEMMA GrownOnward ==
  ASSUME LedgerFits, status' = status, lost \subseteq lost', ledger' \in Seq(TxnType),
         NEW x, NEW k, Grown(x, k), Posted(x),
         \A r \in Runs : x.ref = <<Info[r].key, "">> => status[r] = "absent"
  PROVE  Onward /\ LedgerFits'
<1>1. LedgerKept /\ LatestExists'
  BY GrownKeeps, GrownLatest DEF LedgerFits
<1>2. Onward
  BY <1>1, SameReached DEF Onward, Grown
<1> QED BY <1>1, <1>2, EntriesStay DEF LedgerFits

LEMMA GrownRuns ==
  ASSUME ledger \in Seq(TxnType), NEW x, NEW k, Grown(x, k), NEW r \in Runs
  PROVE  Undone(r)' => \/ Undone(r)
                       \/ x.ref = <<Info[r].key, "-reversal">>
                       \/ x.of = Info[r].key /\ x.reverted
                       \/ k \in DOMAIN ledger /\ ledger[k].of = Info[r].key
BY Indices DEF Grown, Undone

LEMMA GrownDirect ==
  ASSUME ledger \in Seq(TxnType), NoSecondDebitAtDone, lost \subseteq lost',
         NEW x, NEW k, Grown(x, k),
         \A r \in Runs : x.ref = <<r, "-direct">> /\ x.via = "debitDirect" => r \in lost
  PROVE  NoSecondDebitAtDone'
BY Indices DEF Grown, NoSecondDebitAtDone

(* The runs and the ledger, when a handler posts ... *)
LEMMA CallLedger ==
  ASSUME FlowInv, NEW w \in Wallets, CallPosts(w), work[w].job \in JobType,
         work[w].job # NoJob, UNCHANGED <<status, cli, lost, found>>
  PROVE  Onward /\ LedgerFits' /\ NoSecondDebitAtDone' /\ \A r \in Runs : RunFits(r)'
<1>1. PICK j \in JobType : j = work[w].job
  OBVIOUS
<1>2. /\ j.stage \in CallStages /\ CallFits(j) /\ Reached(j.tx, j.status)
      /\ Record(TxnOf(j)) /\ NotDirect(w) /\ ledger \in Seq(TxnType)
  BY <1>1 DEF FlowInv, JobFits, CallPosts, LedgerFits
<1>3. PICK x : x = TxnOf(j)
  OBVIOUS
<1>4. ledger' \in Seq(TxnType) /\ Grown(x, 0) /\ Posted(x)
  BY <1>2, <1>3, CallTypes, RecordGrows, CallRefs DEF Posted
<1>5. x.via = j.stage /\ x.reverted = FALSE
  BY <1>2, <1>3, CallRefs
<1>6. ASSUME NEW r \in Runs
      PROVE  /\ x.ref # <<Info[r].key, "">>
             /\ x.ref = <<Info[r].key, "-reversal">> => status[r] = "FAILED"
  <2>1. r \in Txs /\ Info[r].key # NoKey
    BY RunFacts
  <2>2. x.via \notin {"reserve", "compensate"}
    BY <1>2, <1>5 DEF CallStages, DepositStages, WithdrawalStages
  <2>3. /\ x.ref = <<Info[r].key, "">> => x.via = "reserve"
        /\ x.ref = <<Info[r].key, "-reversal">> =>
             x.via = "compensate" \/ Reached(r, "FAILED")
    BY <1>4, <2>1, KeyRefs
  <2> QED BY <2>2, <2>3 DEF Reached, Final
<1>7. ASSUME NEW r \in Runs, x.ref = <<r, "-direct">>, x.via = "debitDirect"
      PROVE  r \in lost
  <2>1. j.stage = "debitDirect" /\ x.ref = <<j.tx, "-direct">>
    BY <1>2, <1>3, <1>5, <1>7, CallRefs
  <2>2. j.tx = r
    <3>1. <<j.tx, "-direct">> = <<r, "-direct">>
      BY <1>7, <2>1
    <3> QED BY <3>1, Pairs
  <2> QED BY <1>1, <1>2, <2>1, <2>2 DEF NotDirect
<1>8. Onward /\ LedgerFits'
  BY <1>4, <1>6, GrownOnward DEF FlowInv
<1>9. ASSUME NEW r \in Runs PROVE RunFits(r)'
  <2>1. Undone(r)' => Undone(r) \/ status[r] = "FAILED"
    <3>1. 0 \notin DOMAIN ledger
      BY <1>2, Indices
    <3>2. Undone(r)' => \/ Undone(r)
                        \/ x.ref = <<Info[r].key, "-reversal">>
                        \/ x.of = Info[r].key /\ x.reverted
                        \/ 0 \in DOMAIN ledger /\ ledger[0].of = Info[r].key
      BY <1>2, <1>4, GrownRuns
    <3> QED BY <1>5, <1>6, <3>1, <3>2
  <2>2. \A i \in DOMAIN ledger' \ DOMAIN ledger : ledger'[i].ref # <<Info[r].key, "">>
    BY <1>4, <1>6 DEF Grown
  <2> QED BY <1>8, <2>1, <2>2, RunStays DEF FlowInv, Onward
<1> QED BY <1>2, <1>4, <1>7, <1>8, <1>9, GrownDirect DEF FlowInv

(* ... and when it reverts the reservation of a failed withdrawal. *)
LEMMA RevertLedger ==
  ASSUME FlowInv, NEW w \in Wallets, Reverts(w), work[w].job \in JobType,
         work[w].job # NoJob, UNCHANGED <<status, cli, lost, found>>
  PROVE  Onward /\ LedgerFits' /\ NoSecondDebitAtDone' /\ \A r \in Runs : RunFits(r)'
<1>1. PICK j \in JobType : j = work[w].job
  OBVIOUS
<1>2. PICK k : k = j.seen
  OBVIOUS
<1>3. /\ j.stage = "revert" /\ CallFits(j) /\ Reached(j.tx, j.status) /\ Revert(k)
      /\ k \in DOMAIN ledger /\ ledger[k].of = Info[j.tx].key /\ ledger \in Seq(TxnType)
      /\ j.tx \in Txs
  BY <1>1, <1>2 DEF FlowInv, JobFits, Reverts, LedgerFits, JobType
<1>4. status[j.tx] = "FAILED" /\ Info[j.tx].key # NoKey
  BY <1>3 DEF CallFits, BackStages, Reached, Final
<1>5. PICK x : x = Mirror(k)
  OBVIOUS
<1>6. /\ ledger' \in Seq(TxnType) /\ Grown(x, k) /\ Posted(x)
      /\ x.ref = NoRef /\ x.of = NoOf
  BY <1>3, <1>5, RevertGrows, MirrorFacts
<1>7. \A id, suffix : x.ref # <<id, suffix>>
  BY <1>6, NotEmpty
<1>8. Onward /\ LedgerFits'
  BY <1>6, <1>7, GrownOnward DEF FlowInv
<1>9. ASSUME NEW r \in Runs PROVE RunFits(r)'
  <2>1. Info[r].key = Info[j.tx].key => r = j.tx
    BY <1>3, <1>4, RunFacts, KeyFacts
  <2>2. x.of # Info[r].key
    BY <1>6, RunFacts, KeyFacts
  <2>3. Undone(r)' => Undone(r) \/ status[r] = "FAILED"
    <3>1. Undone(r)' => \/ Undone(r)
                        \/ x.ref = <<Info[r].key, "-reversal">>
                        \/ x.of = Info[r].key /\ x.reverted
                        \/ k \in DOMAIN ledger /\ ledger[k].of = Info[r].key
      BY <1>3, <1>6, GrownRuns
    <3> QED BY <1>3, <1>4, <1>7, <2>1, <2>2, <3>1
  <2>4. \A i \in DOMAIN ledger' \ DOMAIN ledger : ledger'[i].ref # <<Info[r].key, "">>
    BY ZenonT(40), <1>6, <1>7 DEF Grown
  <2> QED BY <1>8, <2>3, <2>4, RunStays DEF FlowInv, Onward
<1> QED BY <1>3, <1>6, <1>7, <1>8, <1>9, GrownDirect DEF FlowInv

-----------------------------------------------------------------------------
(* The goroutine after a step of its handler. *)

(* What a lookup by the key of a run finds, once it has reserved. *)
LEMMA ReservationLatest ==
  ASSUME LedgerFits, NEW r \in Runs, HasRef(<<Info[r].key, "">>)
  PROVE  /\ Latest(Info[r].key) \in DOMAIN ledger /\ Latest(Info[r].key) # 0
         /\ ledger[Latest(Info[r].key)].of = Info[r].key
<1>1. r \in Txs /\ Info[r].key \in Keys /\ Info[r].key # NoKey
  BY RunFacts
<1>2. PICK i \in DOMAIN ledger : ledger[i].ref = <<Info[r].key, "">>
  BY DEF HasRef
<1>3. PICK x : x = ledger[i]
  OBVIOUS
<1>4. Posted(x) /\ x.ref = <<Info[r].key, "">>
  BY <1>2, <1>3 DEF LedgerFits
<1>5. ledger[i].of = Info[r].key
  BY <1>1, <1>3, <1>4, KeyRefs
<1> QED BY <1>1, <1>2, <1>5, LatestFacts DEF LedgerFits

(* It is pending, unless Prime has failed the withdrawal or its answer to    *)
(* the CLI was lost.                                                        *)
LEMMA ReservationPending ==
  ASSUME LedgerFits, NEW r \in Runs, RunFits(r), status[r] = "DONE", r \notin lost
  PROVE  HasPending(Info[r].key)
<1>1. HasRef(<<Info[r].key, "">>) /\ ~Undone(r)
  BY DEF RunFits
<1> QED BY <1>1, ReservationLatest DEF HasPending, Undone

(* Nothing of a failed withdrawal is left when the latest transaction of    *)
(* its key is reverted: what else there is under the key gives back.        *)
LEMMA RevertedSettles ==
  ASSUME LedgerFits, \A r \in Runs : RunFits(r), NEW t \in Txs, Info[t].key # NoKey,
         status[t] = "FAILED",
         NEW k \in DOMAIN ledger, ledger[k].of = Info[t].key
  PROVE  \/ HasRef(<<Info[t].key, "-reversal">>)
         \/ \A i \in DOMAIN ledger : ledger[i].of = Info[t].key => i = k
<1> DEFINE key == Info[t].key
<1>1. ASSUME NEW i \in DOMAIN ledger, ledger[i].of = key
      PROVE  \/ HasRef(<<key, "-reversal">>)
             \/ t \in Runs /\ ledger[i].ref = <<key, "">>
  <2>1. PICK x : x = ledger[i]
    OBVIOUS
  <2>2. Posted(x) /\ x.of = key
    BY <1>1, <2>1 DEF LedgerFits
  <2>3. \/ t \in Runs /\ x.ref = <<key, "">>
        \/ x.ref = <<key, "-reversal">>
    BY <2>2, OfKey DEF Reached, Final
  <2> QED BY <2>1, <2>3 DEF HasRef
<1> QED BY <1>1 DEF RunFits

Goes(w, next) ==
  /\ work' \in [Wallets -> WorkType] /\ \A v \in Wallets : v # w => work'[v] = work[v]
  /\ work'[w].todo = work[w].todo /\ work'[w].job = next
  /\ SameJob(work[w].job, next)

LEMMA GoToGoes ==
  ASSUME work \in [Wallets -> WorkType], NEW w \in Wallets, work[w].job \in JobType,
         NEW stage \in Stages, GoTo(w, stage)
  PROVE  \E next : Goes(w, next) /\ next.stage = stage /\ next.seen = 0
<1>1. PICK next : next = work'[w].job
  OBVIOUS
<1>2. /\ work' \in [Wallets -> WorkType] /\ \A v \in Wallets : v # w => work'[v] = work[v]
      /\ work'[w].todo = work[w].todo
      /\ next = [work[w].job EXCEPT !.stage = stage, !.seen = 0] /\ next \in JobType
  BY <1>1, GoToJob
<1>3. SameJob(work[w].job, next) /\ next.stage = stage /\ next.seen = 0
  BY <1>2 DEF SameJob, JobType
<1> QED BY <1>1, <1>2, <1>3 DEF Goes

(* What the next stage relies on. *)
NextFits(next) ==
  /\ CallFits(next) /\ next.seen \in {0} \cup DOMAIN ledger
  /\ next.stage = "mark" => Settled(next.tx, next.status)'
  /\ next.stage = "revert" => /\ next.seen \in DOMAIN ledger
                              /\ ledger[next.seen].of = Info[next.tx].key
  /\ next.tx \in Runs /\ next.stage \in {"lookId", "debitDirect"} => next.tx \in lost

LEMMA LookGoes ==
  ASSUME FlowInv, NEW w \in Wallets, work[w].job \in JobType, work[w].job # NoJob,
         Look(w) \/ LookFails(w)
  PROVE  \E next : Goes(w, next) /\ NextFits(next)
<1>1. PICK j \in JobType : j = work[w].job
  OBVIOUS
<1>2. /\ j.stage \in LookStages /\ CallFits(j) /\ Reached(j.tx, j.status) /\ NotDirect(w)
      /\ work \in [Wallets -> WorkType] /\ j.tx \in Txs
  BY <1>1 DEF FlowInv, JobFits, Look, LookFails, At, PollInv, JobType
<1>3. Info[j.tx].type = "WITHDRAWAL" /\ status[j.tx] = "DONE"
  BY <1>2 DEF CallFits, DoneStages, Reached, Final
<1>4. PICK stage \in {"settle", "lookId", "lookIdBlind", "debitDirect", "debitBlind"} :
        /\ GoTo(w, stage)
        /\ stage = "lookId" => j.stage = "look" /\ ~HasPending(Info[j.tx].key)
        /\ stage = "debitDirect" => j.stage = "lookId"
  <2>1. CASE Look(w)
    BY <1>1, <1>2, <2>1 DEF Look, At, LookStages, NotFound, RefLooked
  <2>2. CASE LookFails(w)
    BY <1>1, <1>2, <2>2 DEF LookFails, At, LookStages
  <2> QED BY <2>1, <2>2
<1>5. stage \in Stages /\ stage \in DoneStages /\ j.stage \in DoneStages
  BY <1>2 DEF Stages, DoneStages, LookStages
<1>6. PICK next : Goes(w, next) /\ next.stage = stage /\ next.seen = 0
  BY <1>1, <1>2, <1>4, <1>5, GoToGoes
<1>7. CallFits(next) /\ next.tx = j.tx
  BY <1>1, <1>2, <1>5, <1>6, MovesFit DEF Goes, SameJob
<1>8. j.tx \in Runs /\ stage \in {"lookId", "debitDirect"} => j.tx \in lost
  BY <1>1, <1>2, <1>3, <1>4, ReservationPending DEF FlowInv, NotDirect
<1> QED BY <1>4, <1>6, <1>7, <1>8 DEF NextFits

LEMMA CallGoes ==
  ASSUME FlowInv, NEW w \in Wallets, work[w].job \in JobType, work[w].job # NoJob, Onward,
         Call(w) \/ CallFails(w)
  PROVE  \E next : Goes(w, next) /\ NextFits(next)
<1>1. PICK j \in JobType : j = work[w].job
  OBVIOUS
<1>2. /\ j.stage \in CallStages /\ CallFits(j) /\ work \in [Wallets -> WorkType]
      /\ ledger \in Seq(TxnType)
  BY <1>1 DEF FlowInv, JobFits, Call, CallFails, At, PollInv, LedgerFits
<1>3. PICK outcome \in {"ok", "dup", "error"} :
        /\ GoTo(w, After(j.stage, outcome))
        /\ outcome # "error" => HasRef(TxnOf(j).ref)'
  <2>1. TxnOf(j) \in TxnType
    BY <1>2, CallTypes
  <2>2. Record(TxnOf(j)) => HasRef(TxnOf(j).ref)'
    <3>1. PICK x : x = TxnOf(j)
      OBVIOUS
    <3>2. Record(x) => HasRef(x.ref)'
      BY <1>2, <2>1, <3>1, RecordGrows, GrownKeeps
    <3> QED BY <3>1, <3>2
  <2>3. HasRef(TxnOf(j).ref) => HasRef(TxnOf(j).ref)'
    BY RefsStay DEF Onward
  <2>4. CASE Call(w)
    BY <1>1, <2>2, <2>3, <2>4 DEF Call, Answered, Reported
  <2>5. CASE CallFails(w)
    BY <1>1, <2>5 DEF CallFails, Answered, Reported
  <2> QED BY <2>4, <2>5
<1>4. PICK stage : stage = After(j.stage, outcome)
  OBVIOUS
<1>5. /\ \/ stage \in {"mark", "drop"}
         \/ j.stage = "confirm" /\ stage = "direct"
         \/ j.stage = "debitUser" /\ stage = "debitWallet"
      /\ stage = "mark" => outcome # "error"
  BY <1>2, <1>4, AfterMoves
<1>6. stage \in Stages
  BY <1>5 DEF Stages
<1>7. PICK next : Goes(w, next) /\ next.stage = stage /\ next.seen = 0
  BY <1>1, <1>2, <1>3, <1>4, <1>6, GoToGoes
<1>8. CallFits(next) /\ next.tx = j.tx /\ next.status = j.status
  BY <1>1, <1>2, <1>5, <1>7, MovesFit DEF Goes, SameJob
<1>9. stage = "mark" => Settled(j.tx, j.status)'
  BY <1>2, <1>3, <1>5, CallSettles
<1> QED BY <1>5, <1>7, <1>8, <1>9 DEF NextFits

(* Nothing to give back, or given back already. *)
LEMMA NothingLeft ==
  ASSUME LedgerFits, \A r \in Runs : RunFits(r), NEW t \in Txs, Info[t].key # NoKey,
         status[t] = "FAILED", Info[t].type = "WITHDRAWAL",
         \/ Latest(Info[t].key) = 0
         \/ \E k \in DOMAIN ledger : ledger[k].of = Info[t].key /\ ledger[k].reverted
  PROVE  Settled(t, "FAILED")
<1>1. Info[t].key \in Txs \cup Keys \cup {NoKey}
  BY KeyFacts
<1>2. CASE Latest(Info[t].key) = 0
  <2>1. \A i \in DOMAIN ledger : ledger[i].of # Info[t].key
    BY <1>1, <1>2, LatestFacts DEF LedgerFits
  <2> QED BY <2>1 DEF Settled, Recorded
<1>3. ASSUME NEW k \in DOMAIN ledger, ledger[k].of = Info[t].key, ledger[k].reverted
      PROVE  Settled(t, "FAILED")
  <2>1. \/ HasRef(<<Info[t].key, "-reversal">>)
        \/ \A i \in DOMAIN ledger : ledger[i].of = Info[t].key => i = k
    BY <1>3, RevertedSettles
  <2> QED BY <1>3, <2>1 DEF Settled, Recorded
<1> QED BY <1>2, <1>3

(* Given back by this step. *)
LEMMA RevertSettles ==
  ASSUME LedgerFits, Onward, \A r \in Runs : RunFits(r), NEW t \in Txs,
         Info[t].key # NoKey, status[t] = "FAILED", Info[t].type = "WITHDRAWAL",
         NEW k \in DOMAIN ledger, ledger[k].of = Info[t].key, Revert(k)
  PROVE  Settled(t, "FAILED")'
<1>1. ledger \in Seq(TxnType)
  BY DEF LedgerFits
<1>2. PICK x : x = Mirror(k)
  OBVIOUS
<1>3. Grown(x, k) /\ x.of # Info[t].key
  BY <1>1, <1>2, RevertGrows, MirrorFacts, KeyFacts
<1>4. \/ HasRef(<<Info[t].key, "-reversal">>)'
      \/ \A i \in DOMAIN ledger : ledger[i].of = Info[t].key => i = k
  BY RevertedSettles, RefsStay DEF Onward
<1>5. \/ HasRef(<<Info[t].key, "-reversal">>)'
      \/ \A i \in DOMAIN ledger' : ledger'[i].of = Info[t].key => ledger'[i].reverted
  BY <1>3, <1>4 DEF Grown
<1> QED BY <1>5 DEF Settled, Recorded

LEMMA BackGoes ==
  ASSUME FlowInv, NEW w \in Wallets, work[w].job \in JobType, work[w].job # NoJob, Onward,
         FindReserved(w) \/ RevertReserved(w) \/ RevertFails(w)
  PROVE  \E next : Goes(w, next) /\ NextFits(next)
<1>1. PICK j \in JobType : j = work[w].job
  OBVIOUS
<1>2. /\ j.stage \in {"creditBack", "revert"} /\ CallFits(j) /\ Reached(j.tx, j.status)
      /\ work \in [Wallets -> WorkType] /\ j.tx \in Txs /\ LedgerFits
      /\ j.stage = "revert" => /\ j.seen \in DOMAIN ledger
                               /\ ledger[j.seen].of = Info[j.tx].key
  BY <1>1 DEF FlowInv, JobFits, FindReserved, RevertReserved, RevertFails, At, PollInv, JobType
<1>3. /\ Info[j.tx].type = "WITHDRAWAL" /\ j.status = "FAILED" /\ status[j.tx] = "FAILED"
      /\ Info[j.tx].key # NoKey /\ Info[j.tx].key \in Keys \cup {NoKey}
  BY <1>2, KeyFacts DEF CallFits, BackStages, Reached, Final
<1>4. Settled(j.tx, "FAILED") => Settled(j.tx, "FAILED")'
  BY <1>2, <1>3, SettledStays DEF Statuses, Final
(* A stage that the goroutine goes to with nothing read. *)
<1>5. ASSUME NEW stage \in {"mark", "credit"}, GoTo(w, stage),
             stage = "mark" => Settled(j.tx, "FAILED")'
      PROVE  \E next : Goes(w, next) /\ NextFits(next)
  <2>1. stage \in Stages /\ j.stage \in BackStages
    BY <1>2 DEF Stages, BackStages
  <2>2. PICK next : Goes(w, next) /\ next.stage = stage /\ next.seen = 0
    BY <1>1, <1>2, <1>5, <2>1, GoToGoes
  <2>3. SameJob(j, next)
    BY <1>1, <2>2 DEF Goes
  <2>4. stage = "mark" \/ stage \in BackStages
    BY DEF BackStages
  <2>5. CallFits(next)
    BY <1>2, <2>1, <2>2, <2>3, <2>4, MovesFit
  <2> QED BY <1>3, <1>5, <2>2, <2>3, <2>5 DEF NextFits, SameJob
<1>6. CASE FindReserved(w)
  <2>1. PICK i : i = Latest(Info[j.tx].key)
    OBVIOUS
  <2>2. i = 0 \/ (i \in DOMAIN ledger /\ ledger[i].of = Info[j.tx].key)
    BY <1>2, <1>3, <2>1, LatestFacts DEF LedgerFits
  <2>3. CASE i = 0 \/ ledger[i].reverted
    <3>1. GoTo(w, "mark")
      BY <1>1, <1>6, <2>1, <2>3 DEF FindReserved
    <3>2. Settled(j.tx, "FAILED")
      BY <1>2, <1>3, <2>1, <2>2, <2>3, NothingLeft DEF FlowInv
    <3> QED BY <1>4, <1>5, <3>1, <3>2
  <2>4. CASE i # 0 /\ ~ledger[i].reverted
    <3>1. work' = [work EXCEPT ![w].job.stage = "revert", ![w].job.seen = i]
      BY <1>1, <1>6, <2>1, <2>4 DEF FindReserved
    <3>2. PICK next : next = [j EXCEPT !.stage = "revert", !.seen = i]
      OBVIOUS
    <3>3. next \in JobType /\ next.stage = "revert" /\ next.seen = i /\ SameJob(j, next)
      <4>1. i \in Nat /\ "revert" \in Stages
        BY <1>2, <2>2, <2>4, Indices DEF LedgerFits, Stages
      <4> QED BY <3>2, <4>1 DEF JobType, SameJob
    <3>4. work' = [work EXCEPT ![w] = [work[w] EXCEPT !.job = next]]
      <4>1. work[w] \in WorkType
        BY <1>2
      <4> QED BY <1>1, <3>1, <3>2, <4>1 DEF WorkType, JobType
    <3>5. Goes(w, next)
      BY <1>1, <1>2, <3>3, <3>4 DEF Goes, WorkType
    <3>6. CallFits(next)
      BY <1>2, <3>3, MovesFit DEF BackStages
    <3> QED BY <2>2, <2>4, <3>3, <3>5, <3>6 DEF NextFits, SameJob
  <2> QED BY <2>3, <2>4
<1>7. CASE RevertReserved(w)
  <2>1. j.stage = "revert"
    BY <1>1, <1>7 DEF RevertReserved, At
  <2>2. CASE Revert(j.seen) /\ GoTo(w, "mark")
    <3>1. Settled(j.tx, "FAILED")'
      BY <1>2, <1>3, <2>1, <2>2, RevertSettles DEF FlowInv
    <3> QED BY <1>5, <2>2, <3>1
  <2>3. CASE ledger[j.seen].reverted /\ GoTo(w, "mark")
    <3>1. Settled(j.tx, "FAILED")
      BY <1>2, <1>3, <2>1, <2>3, NothingLeft DEF FlowInv
    <3> QED BY <1>4, <1>5, <2>3, <3>1
  <2>4. CASE GoTo(w, "credit")
    BY <1>5, <2>4
  <2> QED BY <1>1, <1>7, <2>2, <2>3, <2>4 DEF RevertReserved
<1>8. CASE RevertFails(w)
  BY <1>5, <1>8 DEF RevertFails
<1> QED BY <1>6, <1>7, <1>8

(* A step of a handler, for the goroutine and for the others. *)
LEMMA HandlerWork ==
  ASSUME FlowInv, NEW w \in Wallets, HandlerStep(w), Onward, UNCHANGED status
  PROVE  /\ work' \in [Wallets -> WorkType]
         /\ \A v \in Wallets : (TodoCurrent(v) /\ JobFits(v) /\ NotDirect(v))'
<1>0. /\ PollInv /\ work \in [Wallets -> WorkType]
      /\ work[w].job \in JobType /\ work[w].job # NoJob
  BY HandlerFrame DEF FlowInv, PollInv
<1>1. PICK next : Goes(w, next) /\ NextFits(next)
  BY <1>0, LookGoes, CallGoes, BackGoes DEF HandlerStep
<1>2. /\ next.tx = work[w].job.tx /\ next.status = work[w].job.status
      /\ next.tx \in Txs /\ next.status \in Statuses /\ work'[w].job = next
  BY <1>1 DEF Goes, SameJob, JobType
<1>3. Reached(next.tx, next.status)'
  BY <1>0, <1>2 DEF FlowInv, JobFits, Onward, ReachedKept
<1>4. NotDirect(w)'
  BY <1>1, <1>2 DEF NextFits, NotDirect, Onward
<1>5. \A i \in DOMAIN ledger : i \in DOMAIN ledger' /\ ledger'[i].of = ledger[i].of
  BY DEF Onward, LedgerKept
<1>6. JobFits(w)'
  <2>1. /\ CallFits(next) /\ next.seen \in {0} \cup DOMAIN ledger'
        /\ next.stage = "mark" => Settled(next.tx, next.status)'
        /\ next.stage = "revert" => /\ next.seen \in DOMAIN ledger'
                                    /\ ledger'[next.seen].of = Info[next.tx].key
    BY <1>1, <1>5 DEF NextFits
  <2> QED BY <1>2, <1>3, <2>1 DEF JobFits, CallFits, Reached, Settled
<1>7. TodoCurrent(w)'
  BY <1>0, <1>1, TodoStays DEF FlowInv, Onward, Goes
<1>8. ASSUME NEW v \in Wallets, v # w PROVE (TodoCurrent(v) /\ JobFits(v) /\ NotDirect(v))'
  BY <1>0, <1>1, <1>8, JobStays DEF FlowInv, Goes
<1> QED BY <1>1, <1>4, <1>6, <1>7, <1>8 DEF Goes

-----------------------------------------------------------------------------
(* The steps of the listener and of Prime. *)

LEMMA SameLedger ==
  ASSUME ledger' = ledger
  PROVE  /\ LedgerKept
         /\ \A ref : HasRef(ref)' <=> HasRef(ref)
         /\ \A r \in Runs : Undone(r)' <=> Undone(r)
BY DEF LedgerKept, HasRef, Undone

(* The parts that a step keeps which posts nothing and is not the CLI's. *)
Unposted == Onward /\ LedgerFits' /\ NoSecondDebitAtDone' /\ \A r \in Runs : RunFits(r)'

LEMMA QuietParts ==
  ASSUME FlowInv, ledger' = ledger, ReachedKept, UNCHANGED <<cli, lost, found>>,
         \A r \in Runs :
           \/ status'[r] = status[r]
           \/ status[r] \notin {"absent", "FAILED"} /\ status'[r] # "absent"
  PROVE  Unposted
<1>1. Onward /\ LedgerFits'
  BY QuietOnward, QuietLedger DEF FlowInv
<1>2. NoSecondDebitAtDone'
  BY DEF FlowInv, NoSecondDebitAtDone
<1>3. \A r \in Runs : RunFits(r)'
  BY SameLedger, RunStays DEF FlowInv
<1> QED BY <1>1, <1>2, <1>3 DEF Unposted

(* Prime moves a run's withdrawal only after the CLI has made it. *)
LEMMA PrimeRuns ==
  ASSUME FlowInv, PrimeActs, NEW r \in Runs
  PROVE  \/ status'[r] = status[r]
         \/ status[r] \notin {"absent", "FAILED"} /\ status'[r] # "absent"
<1>0. status \in [Txs -> Statuses] /\ r \in Txs /\ r \notin Spontaneous
  BY RunFacts DEF FlowInv, PollInv, Scalars
<1>1. ASSUME NEW t \in Txs, PrimeAppears(t) PROVE status'[r] = status[r]
  <2>1. t # r
    BY <1>0, <1>1 DEF PrimeAppears, Spontaneous
  <2> QED BY <1>0, <1>1, <2>1 DEF PrimeAppears, Appear
<1>2. ASSUME NEW t \in Txs, PrimeMoves(t), status'[r] # status[r]
      PROVE  status[r] \notin {"absent", "FAILED"} /\ status'[r] # "absent"
  <2>1. PICK m \in Statuses : /\ <<status[t], m>> \in Moves(Info[t].type)
                              /\ status' = [status EXCEPT ![t] = m]
    BY <1>2 DEF PrimeMoves
  <2>2. /\ m # "absent" /\ status[t] # "FAILED" /\ status[t] # "absent"
        /\ t = r /\ status'[r] = m
    BY <1>0, <1>2, <2>1 DEF PrimeMoves, Moves
  <2> QED BY <2>2
<1> QED BY <1>1, <1>2 DEF PrimeActs

LEMMA RoundInv ==
  ASSUME FlowInv, Rounds, UNCHANGED <<cli, lost, found>>
  PROVE  FlowInv'
<1>1. PollInv /\ PollInv' /\ ledger' = ledger /\ status' = status
  BY RoundPoll DEF FlowInv, Rounds, Crash, Restart, EndRecovery, BeginPoll, Cleanup, Tick, prime
<1>2. Unposted
  BY <1>1, SameReached, QuietParts
<1>3. \A t \in Txs : cache'[t] \in {cache[t], NotMarked}
  BY DEF Rounds, Crash, Restart, EndRecovery, BeginPoll, Cleanup, Tick, Forget
<1>4. MarksFit'
  <2> SUFFICES ASSUME NEW t \in Txs, Processed(t)'
               PROVE  Reached(t, cache[t].as)' /\ Settled(t, cache[t].as)'
    BY DEF MarksFit
  <2>1. PICK s : s = cache[t].as
    OBVIOUS
  <2>2. cache'[t] = cache[t] /\ Processed(t)
    BY <1>3 DEF Processed
  <2>3. s \in Statuses /\ Reached(t, s) /\ Settled(t, s)
    BY <1>1, <2>1, <2>2 DEF FlowInv, MarksFit, PollInv, Scalars, EntryType
  <2>4. Reached(t, s)' /\ Settled(t, s)'
    BY <1>2, <2>3, SettledStays DEF Unposted, Onward, ReachedKept
  <2> QED BY <2>1, <2>2, <2>4 DEF Reached, Settled, Recorded
<1>5. ASSUME NEW v \in Wallets PROVE (TodoCurrent(v) /\ JobFits(v) /\ NotDirect(v))'
  <2>1. work'[v] = work[v] \/ (work'[v].todo = {} /\ work'[v].job = NoJob)
    BY DEF Rounds, Crash, Restart, EndRecovery, BeginPoll, Cleanup, Tick, Forget,
           OpenWindow, Idle, ToFetch
  <2>2. CASE work'[v] = work[v]
    BY <1>1, <1>2, <2>2, JobStays DEF FlowInv, Unposted, PollInv
  <2>3. CASE work'[v].todo = {} /\ work'[v].job = NoJob
    BY <2>3 DEF TodoCurrent, JobFits, NotDirect
  <2> QED BY <2>1, <2>2, <2>3
<1> QED BY <1>1, <1>2, <1>4, <1>5 DEF FlowInv, Unposted, CliTypeOK

LEMMA PrimeInv ==
  ASSUME FlowInv, PrimeActs, UNCHANGED <<cli, lost, found>>
  PROVE  FlowInv'
<1>1. /\ PollInv /\ PollInv' /\ ledger' = ledger /\ ReachedKept
      /\ work' = work /\ cache' = cache
  BY PrimePoll, PrimeKeepsReached DEF FlowInv, PrimeActs, PrimeAppears, PrimeMoves
<1>2. Unposted
  BY <1>1, PrimeRuns, QuietParts
<1>3. MarksFit'
  BY <1>1, <1>2, MarksStay DEF FlowInv, Unposted
<1>4. \A v \in Wallets : (TodoCurrent(v) /\ JobFits(v) /\ NotDirect(v))'
  BY <1>1, <1>2, JobStays DEF FlowInv, Unposted, PollInv
<1> QED BY <1>1, <1>2, <1>3, <1>4 DEF FlowInv, Unposted, CliTypeOK

LEMMA ReadInv ==
  ASSUME FlowInv, NEW w \in Wallets, ReadStep(w), UNCHANGED <<cli, lost, found>>
  PROVE  FlowInv'
<1>1. /\ PollInv /\ PollInv' /\ ledger' = ledger /\ status' = status /\ cache' = cache
      /\ TodoCurrent(w)
  BY ReadPoll, ReadFrame DEF FlowInv, ReadStep
<1>2. Unposted
  BY <1>1, SameReached, QuietParts
<1>3. MarksFit'
  BY <1>1, <1>2, MarksStay DEF FlowInv, Unposted
<1>4. /\ \A v \in Wallets : v # w => work'[v] = work[v]
      /\ TodoCurrent(w)'
  BY <1>1, ReadWork
<1>5. \A v \in Wallets : v # w => (TodoCurrent(v) /\ JobFits(v) /\ NotDirect(v))'
  BY <1>1, <1>2, <1>4, JobStays DEF FlowInv, Unposted, PollInv
<1>6. JobFits(w)' /\ NotDirect(w)'
  <2>1. CASE work'[w].job = NoJob
    BY <2>1 DEF JobFits, NotDirect
  <2>2. CASE work'[w].job = work[w].job
    BY <1>1, <1>2, <2>2, JobFitsStays DEF FlowInv, Unposted, PollInv
  <2>3. ASSUME NEW t \in Txs, NEW s \in Statuses, Reached(t, s),
               NEW byAddress \in {ByAddress(t), Nobody},
               NEW byKey \in {Info[t].keyUser, Nobody},
               work'[w].job = First(t, s, byAddress, byKey)
        PROVE  JobFits(w)' /\ NotDirect(w)'
    <3>1. PICK job : job = First(t, s, byAddress, byKey)
      OBVIOUS
    <3>2. /\ job.tx = t /\ job.status = s /\ job.seen = 0
          /\ CallFits(job) /\ job.stage \notin {"revert", "lookId", "debitDirect"}
          /\ job.stage = "mark" => Settled(t, s)
      BY <3>1, FirstType, FirstFits
    <3>3. /\ job.tx \in Txs /\ job.status \in Statuses /\ Reached(job.tx, job.status)
          /\ job.stage = "mark" => Settled(job.tx, job.status)
      BY <2>3, <3>2
    <3>4. /\ Reached(job.tx, job.status)'
          /\ job.stage = "mark" => Settled(job.tx, job.status)'
      BY <1>2, <3>3, SettledStays DEF Unposted, Onward, ReachedKept
    <3>5. work'[w].job = job
      BY <2>3, <3>1
    <3>6. /\ Reached(work[w].job.tx, work[w].job.status)'
          /\ work'[w].job.stage = "mark" => Settled(work[w].job.tx, work[w].job.status)'
      BY <3>4, <3>5 DEF Reached, Settled
    <3>7. CallFits(work[w].job)'
      BY <3>2, <3>5
    <3> QED BY <3>2, <3>5, <3>6, <3>7 DEF JobFits, NotDirect
  <2> QED BY <1>1, <2>1, <2>2, <2>3, ReadWork
<1> QED BY <1>1, <1>2, <1>3, <1>4, <1>5, <1>6 DEF FlowInv, Unposted, CliTypeOK

LEMMA EndInv ==
  ASSUME FlowInv, NEW w \in Wallets, EndJob(w), UNCHANGED <<cli, lost, found>>
  PROVE  FlowInv'
<1>1. /\ PollInv /\ PollInv' /\ ledger' = ledger /\ status' = status
      /\ work \in [Wallets -> WorkType]
  BY EndPoll DEF FlowInv, EndJob, prime, PollInv
<1>2. Unposted
  BY <1>1, SameReached, QuietParts
<1>3. PICK j : j = work[w].job
  OBVIOUS
<1>4. j \in JobType /\ j # NoJob
  <2>1. work[w].job.stage # "none"
    BY DEF EndJob, At
  <2> QED BY <1>1, <1>3, <2>1, InHand
<1>5. MarksFit'
  <2>1. CASE cache' = cache
    BY <1>1, <1>2, <2>1, MarksStay DEF FlowInv, Unposted
  <2>2. CASE j.stage = "mark" /\ cache' = [cache EXCEPT ![j.tx] = [at |-> now, as |-> j.status]]
    <3> SUFFICES ASSUME NEW t \in Txs, Processed(t)'
                 PROVE  Reached(t, cache[t].as)' /\ Settled(t, cache[t].as)'
      BY DEF MarksFit
    <3>1. PICK s : s = cache'[t].as
      OBVIOUS
    <3>2. s \in Statuses /\ Reached(t, s) /\ Settled(t, s)
      <4>1. CASE t = j.tx
        <5>1. s = j.status
          BY <1>1, <2>2, <3>1, <4>1 DEF PollInv, Scalars
        <5>2. /\ j.status \in Statuses /\ Reached(j.tx, j.status)
              /\ Settled(j.tx, j.status)
          BY <1>3, <1>4, <2>2 DEF FlowInv, JobFits, JobType
        <5> QED BY <4>1, <5>1, <5>2
      <4>2. CASE t # j.tx
        <5>1. cache'[t] = cache[t] /\ Processed(t)
          BY <1>1, <2>2, <4>2 DEF PollInv, Scalars, Processed
        <5> QED BY <1>1, <3>1, <5>1 DEF FlowInv, MarksFit, PollInv, Scalars, EntryType
      <4> QED BY <4>1, <4>2
    <3>3. Reached(t, s)' /\ Settled(t, s)'
      BY <1>2, <3>2, SettledStays DEF Unposted, Onward, ReachedKept
    <3> QED BY <3>1, <3>3 DEF Reached, Settled, Recorded
  <2> QED BY <1>3, <2>1, <2>2 DEF EndJob
<1>6. /\ \A v \in Wallets : v # w => work'[v] = work[v]
      /\ work'[w].todo = work[w].todo /\ work'[w].job = NoJob
  BY <1>1 DEF EndJob, WorkType
<1>7. \A v \in Wallets : v # w => (TodoCurrent(v) /\ JobFits(v) /\ NotDirect(v))'
  BY <1>1, <1>2, <1>6, JobStays DEF FlowInv, Unposted
<1>8. (TodoCurrent(w) /\ JobFits(w) /\ NotDirect(w))'
  BY <1>1, <1>2, <1>6, TodoStays DEF FlowInv, Unposted, Onward, JobFits, NotDirect
<1> QED BY <1>1, <1>2, <1>5, <1>7, <1>8 DEF FlowInv, Unposted, CliTypeOK

LEMMA HandlerInv ==
  ASSUME FlowInv, NEW w \in Wallets, HandlerStep(w), UNCHANGED <<cli, lost, found>>
  PROVE  FlowInv'
<1>1. /\ UNCHANGED <<now, prime, phase, since, cache>> /\ faults' \in 0..MaxFaults
      /\ work[w].job \in JobType /\ work[w].job # NoJob
      /\ ledger' = ledger \/ CallPosts(w) \/ Reverts(w)
      /\ PollInv
  BY HandlerFrame DEF FlowInv
<1>2. status' = status /\ created' = created
  BY <1>1 DEF prime
<1>3. Unposted
  <2>1. CASE ledger' = ledger
    BY <1>2, <2>1, SameReached, QuietParts
  <2>2. CASE CallPosts(w)
    BY <1>1, <1>2, <2>2, CallLedger DEF Unposted
  <2>3. CASE Reverts(w)
    BY <1>1, <1>2, <2>3, RevertLedger DEF Unposted
  <2> QED BY <1>1, <2>1, <2>2, <2>3
<1>4. /\ work' \in [Wallets -> WorkType]
      /\ \A v \in Wallets : (TodoCurrent(v) /\ JobFits(v) /\ NotDirect(v))'
  BY <1>2, <1>3, HandlerWork DEF Unposted
<1>5. PollInv'
  BY <1>1, <1>2, <1>4 DEF PollInv, Scalars
<1>6. MarksFit'
  BY <1>1, <1>3, MarksStay DEF FlowInv, Unposted
<1> QED BY <1>3, <1>4, <1>5, <1>6 DEF FlowInv, Unposted, CliTypeOK

LEMMA ListenerInv ==
  ASSUME FlowInv, Next, UNCHANGED <<cli, lost, found>>
  PROVE  FlowInv'
BY RoundInv, PrimeInv, ReadInv, EndInv, HandlerInv
   DEF Next, Goroutine, GoroutineFails, ReadStep, HandlerStep

-----------------------------------------------------------------------------
(* The steps of the CLI. *)

CliStep(r) ==
  \/ Verify(r) \/ Reserve(r) \/ AtPrime(r) \/ FindOwn(r) \/ RevertOwn(r)
  \/ Compensate(r) \/ CliCallFails(r)

(* What a run posts, and what it reverts, 0 for nothing. *)
RunPosts(r, x, k) ==
  /\ ledger' \in Seq(TxnType) /\ Grown(x, k) /\ status' = status /\ found' = found
  /\ \/ /\ x = Reservation(r) /\ k = 0 /\ ~HasRef(x.ref)
        /\ cli[r] = "verified" /\ cli'[r] \in {"reserved", "dead"}
     \/ /\ x = Compensation(r) /\ k = 0
        /\ cli[r] = "compensating" /\ cli'[r] \in {"refunded", "dead"}
     \/ /\ x.ref = NoRef /\ x.of = NoOf /\ Posted(x)
        /\ k \in DOMAIN ledger /\ ledger[k].of = Info[r].key
        /\ cli[r] = "refunding" /\ cli'[r] \in {"refunded", "compensating"}

LEMMA CliFrame ==
  ASSUME FlowInv, NEW r \in Runs, CliStep(r)
  PROVE  /\ UNCHANGED <<now, phase, since, work, cache>>
         /\ prime' = prime \/ Appear(r, "CREATED")
         /\ faults' \in 0..MaxFaults
         /\ CliTypeOK' /\ DOMAIN found' = Runs /\ lost \subseteq lost'
         /\ \A q \in Runs : q # r => cli'[q] = cli[q] /\ found'[q] = found[q]
<1>0. CliTypeOK /\ DOMAIN found = Runs /\ faults \in 0..MaxFaults /\ MaxFaults \in Nat
  BY BoundsAssumption DEF FlowInv, PollInv, Scalars
<1> USE DEF Moved, NotListener, CliTypeOK
<1>1. CASE Verify(r) \/ Reserve(r)
  BY <1>0, <1>1 DEF Verify, Reserve
<1>2. CASE AtPrime(r)
  BY <1>0, <1>2 DEF AtPrime, Create, CreateRefused, CreateUnanswered, Die, Fault
<1>3. CASE FindOwn(r) \/ RevertOwn(r)
  BY <1>0, <1>3 DEF FindOwn, RevertOwn
<1>4. CASE Compensate(r) \/ CliCallFails(r)
  BY <1>0, <1>4 DEF Compensate, CliCallFails, Fault
<1> QED BY <1>1, <1>2, <1>3, <1>4 DEF CliStep

LEMMA CliKinds ==
  ASSUME FlowInv, NEW r \in Runs, CliStep(r)
  PROVE  \/ ledger' = ledger /\ status' = status /\ RunFits(r)'
         \/ ledger' = ledger /\ found' = found /\ (Create(r) \/ CreateUnanswered(r))
         \/ \E x, k : RunPosts(r, x, k)
<1>0. /\ RunFits(r) /\ ledger \in Seq(TxnType) /\ LedgerFits /\ CliTypeOK
      /\ DOMAIN found = Runs
  BY DEF FlowInv, LedgerFits
<1>1. ASSUME NEW x \in TxnType, Record(x) PROVE ledger' \in Seq(TxnType) /\ Grown(x, 0)
  BY <1>0, <1>1, RecordGrows
<1>2. ASSUME cli[r] = "refunding", Revert(found[r]), status' = status, found' = found,
             cli'[r] \in {"refunded", "compensating"}
      PROVE  \E x, k : RunPosts(r, x, k)
  <2>1. PICK k : k = found[r]
    OBVIOUS
  <2>2. k \in DOMAIN ledger /\ ledger[k].of = Info[r].key /\ Revert(k)
    BY <1>0, <1>2, <2>1 DEF RunFits
  <2>3. PICK x : x = Mirror(k)
    OBVIOUS
  <2>4. /\ ledger' \in Seq(TxnType) /\ Grown(x, k) /\ Posted(x)
        /\ x.ref = NoRef /\ x.of = NoOf
    BY <1>0, <2>2, <2>3, RevertGrows, MirrorFacts
  <2> QED BY <1>2, <2>2, <2>4 DEF RunPosts
<1>3. ASSUME Record(Reservation(r)), ~HasRef(Reservation(r).ref), status' = status,
             found' = found, cli[r] = "verified", cli'[r] \in {"reserved", "dead"}
      PROVE  \E x, k : RunPosts(r, x, k)
  <2>1. PICK x : x = Reservation(r)
    OBVIOUS
  <2>2. RunPosts(r, x, 0)
    BY <1>1, <1>3, <2>1, RunFacts DEF RunPosts
  <2> QED BY <2>2
<1>4. ASSUME Record(Compensation(r)), status' = status, found' = found,
             cli[r] = "compensating", cli'[r] \in {"refunded", "dead"}
      PROVE  \E x, k : RunPosts(r, x, k)
  <2>1. PICK x : x = Compensation(r)
    OBVIOUS
  <2>2. RunPosts(r, x, 0)
    BY <1>1, <1>4, <2>1, RunFacts DEF RunPosts
  <2> QED BY <2>2
(* A step that posts nothing. *)
<1>5. ASSUME ledger' = ledger, status' = status, lost' = lost,
             found'[r] = found[r],
             <<cli[r], cli'[r]>> \in
               { <<"start", "refused">>, <<"start", "verified">>, <<"verified", "refused">>,
                 <<"reserved", "rollback">>, <<"rollback", "refunded">>,
                 <<"rollback", "compensating">>, <<"refunding", "refunded">>,
                 <<"refunding", "compensating">>, <<"compensating", "dead">> }
               \/ cli'[r] = "dead"
      PROVE  RunFits(r)'
  BY <1>0, <1>5, SameLedger DEF RunFits
<1> USE DEF Moved, CliTypeOK
<1>6. CASE Verify(r)
  BY <1>0, <1>5, <1>6 DEF Verify, prime
<1>7. CASE Reserve(r)
  BY <1>0, <1>3, <1>5, <1>7 DEF Reserve, Accepted, prime
<1>8. CASE AtPrime(r)
  BY <1>0, <1>5, <1>8 DEF AtPrime, Create, CreateRefused, CreateUnanswered, Die, prime
<1>9. CASE FindOwn(r)
  <2>1. PICK i : i = Latest(Info[r].key)
    OBVIOUS
  <2>2. i \in DOMAIN ledger /\ ledger[i].of = Info[r].key
    BY <1>0, <1>9, <2>1, ReservationLatest DEF FindOwn, RunFits
  <2>3. CASE ledger[i].reverted
    BY <1>0, <1>5, <1>9, <2>1, <2>3 DEF FindOwn, prime
  <2>4. CASE ~ledger[i].reverted
    <3>1. /\ cli[r] = "rollback" /\ cli'[r] = "refunding" /\ found'[r] = i
          /\ ledger' = ledger /\ status' = status /\ lost' = lost
      BY <1>0, <1>9, <2>1, <2>4 DEF FindOwn, prime
    <3>2. RunFits(r)'
      BY <1>0, <2>2, <3>1, SameLedger DEF RunFits
    <3> QED BY <3>1, <3>2
  <2> QED BY <2>3, <2>4
<1>10. CASE RevertOwn(r)
  BY <1>0, <1>2, <1>5, <1>10 DEF RevertOwn, prime
<1>11. CASE Compensate(r)
  BY <1>0, <1>4, <1>5, <1>11 DEF Compensate, prime
<1>12. CASE CliCallFails(r)
  BY <1>0, <1>2, <1>3, <1>4, <1>5, <1>12 DEF CliCallFails, Accepted, prime
<1> QED BY <1>6, <1>7, <1>8, <1>9, <1>10, <1>11, <1>12 DEF CliStep

(* Prime makes the withdrawal of a run that has reserved. *)
LEMMA AppearsRuns ==
  ASSUME FlowInv, NEW r \in Runs, CliStep(r), ledger' = ledger, found' = found,
         Create(r) \/ CreateUnanswered(r)
  PROVE  Unposted /\ status' \in [Txs -> Statuses] /\ created' \in [Txs -> 0..MaxTime]
<1>1. /\ r \in Txs /\ PollInv /\ RunFits(r) /\ CliTypeOK /\ LedgerFits
      /\ now \in 0..MaxTime /\ status \in [Txs -> Statuses] /\ created \in [Txs -> 0..MaxTime]
  BY RunFacts DEF FlowInv, PollInv, Scalars
<1>2. /\ status[r] = "absent" /\ cli[r] = "reserved"
      /\ status' = [status EXCEPT ![r] = "CREATED"]
      /\ created' = [created EXCEPT ![r] = now]
      /\ cli'[r] \in {"created", "rollback"} /\ lost \subseteq lost'
      /\ cli'[r] = "rollback" => r \in lost'
  BY <1>1 DEF Create, CreateUnanswered, Moved, Appear, CliTypeOK
<1>3. ReachedKept
  BY <1>1, <1>2 DEF ReachedKept, Reached, Final
<1>4. Onward /\ LedgerFits'
  BY <1>1, <1>2, <1>3, QuietOnward, QuietLedger
<1>5. NoSecondDebitAtDone'
  BY <1>2 DEF FlowInv, NoSecondDebitAtDone
<1>6. ASSUME NEW q \in Runs, q # r PROVE RunFits(q)'
  <2>1. status'[q] = status[q]
    BY <1>1, <1>2, <1>6, RunFacts
  <2>2. cli'[q] = cli[q] /\ found'[q] = found[q]
    BY <1>6, CliFrame
  <2>3. RunFits(q)
    BY DEF FlowInv
  <2> QED BY <1>2, <2>1, <2>2, <2>3, SameLedger, RunStays
<1>7. RunFits(r)'
  <2>1. status'[r] = "CREATED"
    BY <1>1, <1>2
  <2>2. found'[r] \in {0} \cup DOMAIN ledger'
    BY <1>1 DEF RunFits
  <2> QED BY <1>1, <1>2, <2>1, <2>2, SameLedger DEF RunFits
<1>8. status' \in [Txs -> Statuses] /\ created' \in [Txs -> 0..MaxTime]
  BY <1>1, <1>2 DEF Statuses
<1> QED BY <1>4, <1>5, <1>6, <1>7, <1>8 DEF Unposted

(* A run posts, or reverts what it reserved. *)
LEMMA PostsRuns ==
  ASSUME FlowInv, NEW r \in Runs, CliStep(r), NEW x, NEW k, RunPosts(r, x, k)
  PROVE  Unposted /\ UNCHANGED prime
<1>0. /\ LedgerFits /\ ledger \in Seq(TxnType) /\ RunFits(r) /\ lost \subseteq lost'
      /\ Grown(x, k) /\ ledger' \in Seq(TxnType) /\ status' = status
      /\ r \in Txs
  BY CliFrame, RunFacts DEF FlowInv, LedgerFits, RunPosts
<1>1. 0 \notin DOMAIN ledger
  BY <1>0, Indices
<1>2. Posted(x)
  BY RunFacts DEF RunPosts
<1>3. UNCHANGED prime
  <2>1. ~Appear(r, "CREATED")
    BY <1>0, RunFacts DEF Appear, FlowInv, PollInv, Scalars
  <2> QED BY <2>1, CliFrame
<1> PICK none : none = ""
  OBVIOUS
<1> PICK back : back = "-reversal"
  OBVIOUS
<1>4. \/ x.ref = <<Info[r].key, none>> /\ ~x.reverted /\ cli[r] = "verified"
      \/ x.ref = <<Info[r].key, back>> /\ ~x.reverted
      \/ x.ref = NoRef /\ x.of = NoOf
  <2>1. ~Reservation(r).reverted /\ ~Compensation(r).reverted
    BY DEF Reservation, Compensation, Txn
  <2>2. /\ Reservation(r).ref = <<Info[r].key, none>>
        /\ Compensation(r).ref = <<Info[r].key, back>>
    BY RunFacts
  <2> QED BY <2>1, <2>2 DEF RunPosts
<1>5. ASSUME NEW id, NEW suffix, x.ref = <<id, suffix>>
      PROVE  /\ id = Info[r].key /\ ~x.reverted
             /\ (suffix = none /\ cli[r] = "verified") \/ suffix = back
  <2>1. x.ref # NoRef
    BY <1>5, NotEmpty
  <2>2. PICK other : /\ x.ref = <<Info[r].key, other>> /\ ~x.reverted
                     /\ (other = none /\ cli[r] = "verified") \/ other = back
    BY <1>4, <2>1
  <2>3. <<id, suffix>> = <<Info[r].key, other>>
    BY <1>5, <2>2
  <2> QED BY <2>2, <2>3, Pairs
<1>6. ASSUME NEW q \in Runs, x.ref = <<Info[q].key, "">> PROVE q = r /\ status[q] = "absent"
  <2>1. Info[q].key = Info[r].key /\ cli[r] = "verified"
    <3>1. x.ref = <<Info[q].key, none>> /\ none # back
      BY <1>6
    <3> QED BY <1>5, <3>1
  <2> QED BY <1>0, <2>1, RunsAssumption DEF RunFits
<1>7. Onward /\ LedgerFits'
  BY <1>0, <1>2, <1>6, GrownOnward
<1>8. NoSecondDebitAtDone'
  <2>1. ASSUME NEW q \in Runs, x.ref = <<q, "-direct">> PROVE FALSE
    <3>1. q = Info[r].key
      BY <1>5, <2>1
    <3> QED BY <1>0, <3>1, RunFacts, KeyFacts
  <2> QED BY <1>0, <2>1, GrownDirect DEF FlowInv
<1>9. ASSUME NEW q \in Runs
      PROVE  Undone(q)' => \/ Undone(q)
                           \/ x.ref = <<Info[q].key, "-reversal">>
                           \/ k \in DOMAIN ledger /\ ledger[k].of = Info[q].key
  <2>1. ~(x.of = Info[q].key /\ x.reverted)
    BY <1>4, RunFacts, KeyFacts
  <2> QED BY <1>0, <2>1, GrownRuns
<1>10. ASSUME NEW q \in Runs, q # r PROVE RunFits(q)'
  <2>1. Info[q].key # Info[r].key
    BY <1>10, RunsAssumption
  <2>2. Undone(q)' => Undone(q)
    <3>1. x.ref # <<Info[q].key, "-reversal">>
      BY <1>5, <2>1
    <3>2. ~(k \in DOMAIN ledger /\ ledger[k].of = Info[q].key)
      BY <1>1, <2>1 DEF RunPosts
    <3> QED BY <1>9, <3>1, <3>2
  <2>3. \A i \in DOMAIN ledger' \ DOMAIN ledger : ledger'[i].ref # <<Info[q].key, "">>
    BY <1>0, <1>6, <1>10 DEF Grown
  <2>4. RunFits(q) /\ cli'[q] = cli[q] /\ found'[q] = found[q] /\ LedgerKept
    BY <1>7, <1>10, CliFrame DEF FlowInv, Onward
  <2> QED BY <1>0, <2>2, <2>3, <2>4, RunStays
<1>11. RunFits(r)'
  <2>1. /\ LedgerKept
        /\ \A ref : HasRef(ref)' <=> (HasRef(ref) \/ x.ref = ref)
    BY <1>0, GrownKeeps
  <2>2. found'[r] \in {0} \cup DOMAIN ledger'
    <3>1. found' = found
      BY DEF RunPosts
    <3> QED BY <1>0, <2>1, <3>1 DEF RunFits, LedgerKept
  <2>3. CASE x = Reservation(r) /\ k = 0 /\ ~HasRef(x.ref) /\ cli[r] = "verified"
             /\ cli'[r] \in {"reserved", "dead"}
    <3>1. x.ref = <<Info[r].key, "">> /\ x.ref # <<Info[r].key, "-reversal">>
      <4>1. x.ref = <<Info[r].key, none>> /\ none # back
        BY <2>3, RunFacts
      <4>2. x.ref # <<Info[r].key, back>>
        <5>1. ASSUME <<Info[r].key, none>> = <<Info[r].key, back>> PROVE none = back
          BY <5>1, Pairs
        <5> QED BY <4>1, <5>1
      <4> QED BY <4>1, <4>2
    <3>2. Undone(r)' => Undone(r)
      BY <1>1, <1>9, <2>3, <3>1
    <3>3. \A i, j \in DOMAIN ledger' : ledger'[i].ref = x.ref /\ ledger'[j].ref = x.ref => i = j
      BY <1>0, <2>3 DEF Grown, HasRef
    <3> QED BY <1>0, <2>1, <2>2, <2>3, <3>1, <3>2, <3>3 DEF RunFits
  <2>4. CASE cli[r] \in {"compensating", "refunding"}
             /\ cli'[r] \in {"refunded", "dead", "compensating"}
             /\ x.ref # <<Info[r].key, "">>
    <3>1. \A i, j \in DOMAIN ledger' :
            ledger'[i].ref = <<Info[r].key, "">> /\ ledger'[j].ref = <<Info[r].key, "">>
            => i = j
      BY ZenonT(40), <1>0, <2>4 DEF Grown, RunFits
    <3>2. HasRef(<<Info[r].key, "">>)'
      BY <1>0, <2>1, <2>4 DEF RunFits
    <3>3. status'[r] = status[r] /\ (r \in lost' \/ status[r] = "absent")
      BY <1>0, <2>4 DEF RunFits
    <3>4. cli'[r] # "refunding" /\ cli'[r] \notin {"start", "refused", "verified", "reserved"}
      BY <2>4
    <3>5. Undone(r)' => \/ status'[r] = "FAILED" \/ r \in lost'
                        \/ /\ status'[r] = "absent"
                           /\ cli'[r] \in {"compensating", "refunded", "dead"}
      BY <2>4, <3>3
    <3> QED BY <2>2, <3>1, <3>2, <3>3, <3>4, <3>5 DEF RunFits
  <2>5. x.ref = <<Info[r].key, "">> => cli[r] = "verified"
    <3>1. none # back
      OBVIOUS
    <3> QED BY <1>5, <3>1
  <2> QED BY <2>3, <2>4, <2>5 DEF RunPosts
<1> QED BY <1>3, <1>7, <1>8, <1>10, <1>11 DEF Unposted

LEMMA CliInv ==
  ASSUME FlowInv, NEW r \in Runs, CliStep(r)
  PROVE  FlowInv'
<1>0. PollInv /\ MarksFit /\ work \in [Wallets -> WorkType]
  BY DEF FlowInv, PollInv
<1>1. Unposted /\ status' \in [Txs -> Statuses] /\ created' \in [Txs -> 0..MaxTime]
  <2>1. CASE ledger' = ledger /\ status' = status /\ RunFits(r)'
    <3>1. UNCHANGED prime
      <4>1. ~Appear(r, "CREATED")
        BY <1>0, <2>1, RunFacts DEF Appear, PollInv, Scalars
      <4> QED BY <4>1, CliFrame
    <3>2. lost \subseteq lost'
      BY CliFrame
    <3>3. Onward /\ LedgerFits' /\ NoSecondDebitAtDone'
      BY <2>1, <3>2, SameReached, QuietOnward, QuietLedger DEF FlowInv, NoSecondDebitAtDone
    <3>4. ASSUME NEW q \in Runs, q # r PROVE RunFits(q)'
      BY <2>1, <3>2, <3>4, CliFrame, SameLedger, RunStays DEF FlowInv
    <3> QED BY <1>0, <2>1, <3>1, <3>3, <3>4 DEF Unposted, PollInv, Scalars, prime
  <2>2. CASE ledger' = ledger /\ found' = found /\ (Create(r) \/ CreateUnanswered(r))
    BY <2>2, AppearsRuns
  <2>3. CASE \E x, k : RunPosts(r, x, k)
    BY <1>0, <2>3, PostsRuns DEF PollInv, Scalars, prime
  <2> QED BY <2>1, <2>2, <2>3, CliKinds
<1>2. /\ UNCHANGED <<now, phase, since, work, cache>> /\ faults' \in 0..MaxFaults
      /\ CliTypeOK' /\ DOMAIN found' = Runs
  BY CliFrame
<1>3. PollInv'
  BY <1>0, <1>1, <1>2 DEF PollInv, Scalars
<1>4. MarksFit'
  BY <1>0, <1>1, <1>2, MarksStay DEF Unposted
<1>5. \A v \in Wallets : (TodoCurrent(v) /\ JobFits(v) /\ NotDirect(v))'
  BY <1>0, <1>1, <1>2, JobStays DEF FlowInv, Unposted
<1> QED BY <1>1, <1>2, <1>3, <1>4, <1>5 DEF FlowInv, Unposted

-----------------------------------------------------------------------------
(* The deposit that opens the accounts. *)

Opens(x) ==
  /\ \E u \in Users : x.ref = <<u, "">> /\ x.of = NoOf /\ x.via = "direct" /\ ~x.reverted
  /\ x.from = Wallet

LEMMA OpenEntries ==
  ASSUME Open
  PROVE  /\ ledger' \in Seq(TxnType)
         /\ \A i \in DOMAIN ledger' : \E x : x = ledger'[i] /\ Opens(x) /\ Posted(x)
<1>1. PICK n : n = Cardinality(Users)
  OBVIOUS
<1>2. n \in Nat
  BY <1>1, OpeningAssumption, FS_CardinalityType
<1>3. PICK order \in [1..n -> Users] :
        ledger' = [i \in DOMAIN order |->
          Txn(<<order[i], "">>, Wallet, order[i], Opening, NoOf, TRUE, "direct")]
  BY <1>1 DEF Open
<1>4. ASSUME NEW i \in 1..n
      PROVE  \E x \in TxnType : x = ledger'[i] /\ Opens(x) /\ Posted(x)
  <2>1. PICK u \in Users : u = order[i]
    OBVIOUS
  <2>2. PICK x : x = Txn(<<u, "">>, Wallet, u, Opening, NoOf, TRUE, "direct")
    OBVIOUS
  <2>3. x = ledger'[i]
    BY <1>3, <2>1, <2>2
  <2>4. /\ x.ref = <<u, "">> /\ x.of = NoOf /\ x.via = "direct" /\ x.reverted = FALSE
        /\ x.from = Wallet
    BY <2>2 DEF Txn
  <2>5. x \in TxnType
    BY <2>2, OpeningAssumption DEF Txn, TxnType, Accounts, CallStages, DepositStages
  <2> QED BY <2>3, <2>4, <2>5 DEF Opens, Posted
<1>5. DOMAIN ledger' = 1..n /\ ledger' = [i \in 1..n |-> ledger'[i]]
  BY <1>3
<1>6. ledger' \in [1..n -> TxnType]
  BY <1>4, <1>5
<1>7. ledger' \in Seq(TxnType)
  BY <1>2, <1>6
<1> QED BY <1>4, <1>5, <1>7

LEMMA OpenInv ==
  ASSUME FlowInv, Open
  PROVE  FlowInv'
<1>1. /\ ledger = <<>> /\ DOMAIN ledger = {}
      /\ UNCHANGED <<now, prime, phase, since, work, cache, faults, cli, lost, found>>
  <2>1. ledger = <<>>
    BY DEF Open
  <2>2. UNCHANGED <<now, prime, phase, since, work, cache, faults, cli, lost, found>>
    BY DEF Open
  <2> QED BY <2>1, <2>2
<1>2. status' = status /\ created' = created
  BY <1>1 DEF prime
<1>3. ASSUME NEW x, Opens(x)
      PROVE  /\ x.of \notin Txs \cup Keys \cup {NoKey} /\ x.via # "debitDirect"
             /\ \A t \in Txs : \A suffix : x.ref # <<Info[t].key, suffix>>
  <2>1. PICK u \in Users : x.ref = <<u, "">> /\ x.of = NoOf /\ x.via = "direct"
    BY <1>3 DEF Opens
  <2>2. ASSUME NEW t \in Txs, NEW suffix, x.ref = <<Info[t].key, suffix>> PROVE FALSE
    <3>1. <<Info[t].key, suffix>> = <<u, "">>
      BY <2>1, <2>2
    <3>2. Info[t].key = u
      BY <3>1, Pairs
    <3> QED BY <3>2, KeyFacts
  <2> QED BY <2>1, <2>2, UsersAssumption
<1>4. ASSUME NEW i \in DOMAIN ledger'
      PROVE  /\ ledger'[i].of \notin Txs \cup Keys \cup {NoKey}
             /\ ledger'[i].via # "debitDirect"
             /\ \A t \in Txs : \A suffix : ledger'[i].ref # <<Info[t].key, suffix>>
  <2>1. PICK x : x = ledger'[i] /\ Opens(x)
    BY OpenEntries
  <2> QED BY <1>3, <2>1
<1>5. Onward
  <2>1. ReachedKept
    BY <1>2, SameReached
  <2>2. LedgerKept
    BY <1>1 DEF LedgerKept
  <2>3. \A i \in DOMAIN ledger' :
          \E x : /\ x = ledger'[i] /\ Posted(x)
                 /\ \A r \in Runs : x.ref # <<Info[r].key, "">>
    <3>1. PICK none : none = ""
      OBVIOUS
    <3>2. ASSUME NEW i \in DOMAIN ledger', NEW r \in Runs
          PROVE  ledger'[i].ref # <<Info[r].key, none>>
      <4>1. r \in Txs
        BY RunFacts
      <4> QED BY <1>4, <4>1
    <3> QED BY <3>1, <3>2, OpenEntries
  <2> QED BY <1>1, <2>1, <2>2, <2>3 DEF Onward
<1>6. LedgerFits'
  <2>1. (\A i \in DOMAIN ledger : Posted(ledger[i]))'
    BY <1>1, <1>5, EntriesStay
  <2>2. LatestExists'
    BY <1>4 DEF LatestExists
  <2> QED BY <2>1, <2>2, OpenEntries DEF LedgerFits
<1>7. NoSecondDebitAtDone'
  BY <1>4 DEF NoSecondDebitAtDone
<1>8. ASSUME NEW r \in Runs PROVE RunFits(r)'
  <2>1. r \in Txs /\ Info[r].key \in Keys
    BY RunFacts
  <2>2. ~Undone(r)'
    BY <1>4, <2>1 DEF Undone
  <2>3. \A i \in DOMAIN ledger' : ledger'[i].ref # <<Info[r].key, "">>
    BY <1>4, <2>1
  <2> QED BY <1>1, <1>2, <1>5, <2>2, <2>3, RunStays DEF FlowInv, Onward
<1>9. PollInv /\ work \in [Wallets -> WorkType] /\ work' = work /\ cache' = cache
  BY <1>1 DEF FlowInv, PollInv
<1>10. PollInv'
  BY <1>1, <1>2, <1>9 DEF PollInv, Scalars
<1>11. MarksFit'
  BY <1>5, <1>9, MarksStay DEF FlowInv
<1>12. \A v \in Wallets : (TodoCurrent(v) /\ JobFits(v) /\ NotDirect(v))'
  BY <1>5, <1>9, JobStays DEF FlowInv
<1> QED BY <1>1, <1>6, <1>7, <1>8, <1>10, <1>11, <1>12 DEF FlowInv, CliTypeOK

-----------------------------------------------------------------------------
(* The invariant holds. *)

LEMMA FlowStart == FlowInit => FlowInv
<1> SUFFICES ASSUME FlowInit PROVE FlowInv
  OBVIOUS
<1>1. /\ PollInv /\ ledger = <<>> /\ DOMAIN ledger = {}
      /\ \A v \in Wallets : work[v].todo = {} /\ work[v].job = NoJob
      /\ \A t \in Txs : status[t] = "absent"
  BY PollStart DEF FlowInit, Init, PollInit, Idle
<1>2. CliTypeOK /\ DOMAIN found = Runs /\ NoSecondDebitAtDone
  BY <1>1 DEF FlowInit, CliInit, CliTypeOK, NoSecondDebitAtDone
<1>3. LedgerFits
  BY <1>1 DEF LedgerFits, LatestExists
<1>4. MarksFit
  BY DEF FlowInit, Init, PollInit, MarksFit, Processed, NotMarked
<1>5. \A v \in Wallets : TodoCurrent(v) /\ JobFits(v) /\ NotDirect(v)
  BY <1>1 DEF TodoCurrent, JobFits, NotDirect
<1>6. ASSUME NEW r \in Runs PROVE RunFits(r)
  <2>1. status[r] = "absent" /\ cli[r] = "start" /\ found[r] = 0 /\ ~Undone(r)
    BY <1>1, RunFacts DEF FlowInit, CliInit, Undone
  <2> QED BY <1>1, <2>1 DEF RunFits
<1> QED BY <1>1, <1>2, <1>3, <1>4, <1>5, <1>6 DEF FlowInv

LEMMA FlowStutters ==
  ASSUME FlowInv, UNCHANGED formanceVars
  PROVE  FlowInv'
<1> USE DEF formanceVars, flowVars, vars, prime
<1>1. UNCHANGED <<ledger, status, cli, lost, found>> /\ work' = work /\ cache' = cache
  OBVIOUS
<1>2. Unposted
  BY <1>1, SameReached, QuietParts
<1>3. PollInv /\ PollInv' /\ work \in [Wallets -> WorkType]
  BY DEF FlowInv, PollInv, Scalars
<1>4. MarksFit'
  BY <1>1, <1>2, <1>3, MarksStay DEF FlowInv, Unposted
<1>5. \A v \in Wallets : (TodoCurrent(v) /\ JobFits(v) /\ NotDirect(v))'
  BY <1>1, <1>2, <1>3, JobStays DEF FlowInv, Unposted
<1> QED BY <1>1, <1>2, <1>3, <1>4, <1>5 DEF FlowInv, Unposted, CliTypeOK

LEMMA FlowInvariance == FlowSpec => []FlowInv
<1>1. FlowInv /\ [FlowNext]_formanceVars => FlowInv'
  <2> SUFFICES ASSUME FlowInv, [FlowNext]_formanceVars PROVE FlowInv'
    OBVIOUS
  <2>1. CASE Open
    BY <2>1, OpenInv
  <2>2. ASSUME NEW r \in Runs, CliStep(r) PROVE FlowInv'
    BY <2>2, CliInv
  <2>3. CASE Next /\ UNCHANGED <<cli, lost, found>>
    BY <2>3, ListenerInv
  <2>4. CASE UNCHANGED formanceVars
    BY <2>4, FlowStutters
  <2> QED BY <2>1, <2>2, <2>3, <2>4 DEF FlowNext, CliStep
<1> QED BY <1>1, FlowStart, PTL DEF FlowSpec

-----------------------------------------------------------------------------
(* What holds of the withdrawals over Formance. *)

(* The variables have their types, and a revert in two calls never points   *)
(* outside the ledger.                                                      *)
THEOREM FlowTypes == FlowSpec => []FlowTypeOK
<1>1. FlowInv => FlowTypeOK
  BY PollParts DEF FlowInv, FlowTypeOK, TypeOK, LedgerFits, JobFits, RunFits
<1> QED BY <1>1, FlowInvariance, PTL

(* The listener marks a transaction as processed only once what it calls    *)
(* for is in the ledger.                                                    *)
THEOREM MarksAreEarned == FlowSpec => []MarkMeansRecorded
<1>1. FlowInv => MarkMeansRecorded
  BY DEF FlowInv, MarksFit, Settled, MarkMeansRecorded
<1> QED BY <1>1, FlowInvariance, PTL

(* What is posted under Prime's id of a transaction answers a status that   *)
(* Prime has reached.                                                       *)
THEOREM PostingsAreJustified == FlowSpec => []JustifiedByPrime
<1>1. ASSUME FlowInv, NEW t \in Txs, NEW i \in DOMAIN ledger,
             ledger[i].ref # NoRef, ledger[i].ref[1] = t
      PROVE  status[t] \in
               CASE ledger[i].via = "park" -> {"IMPORT_PENDING", "IMPORTED"}
                 [] ledger[i].via \in {"confirm", "direct"} -> {"IMPORTED"}
                 [] ledger[i].via \in {"debitUser", "debitWallet"} ->
                      {"OTHER", "DONE", "FAILED"}
                 [] ledger[i].via \in {"settle", "debitDirect", "debitBlind", "convert"} ->
                      {"DONE"}
                 [] ledger[i].via = "failOut" -> {"FAILED"}
                 [] OTHER -> Statuses \ {"absent"}
  <2>1. PICK x : x = ledger[i]
    OBVIOUS
  <2>2. Posted(x) /\ x.ref # NoRef /\ x.ref[1] = t /\ status[t] \in Statuses
    BY <1>1, <2>1 DEF FlowInv, LedgerFits, PollInv, Scalars
  <2>3. ASSUME NEW u \in Users, x.ref = <<u, "">> PROVE FALSE
    <3>1. PICK none : x.ref = <<u, none>>
      BY <2>3
    <3>2. u = t
      BY <2>2, <3>1
    <3> QED BY <3>2, KeyFacts
  <2>4. ~\E r \in Txs : \E suffix : x.ref = <<Info[r].key, suffix>>
    BY <2>2, KeyFacts
  <2>5. PICK j \in JobType :
          /\ j.stage \in CallStages /\ CallFits(j) /\ Reached(j.tx, j.status)
          /\ x.ref = TxnOf(j).ref /\ x.via = j.stage
    BY ZenonT(40), <2>2, <2>3, <2>4, RunFacts DEF Posted
  <2>6. j.stage # "credit" /\ j.tx = t
    <3>1. j.stage # "credit"
      BY ZenonT(40), <2>4, <2>5, CallRefs DEF JobType
    <3>2. PICK suffix : x.ref = <<j.tx, suffix>>
      BY <2>5, <3>1, CallRefs
    <3> QED BY <2>2, <3>1, <3>2
  <2>7. Reached(t, j.status) /\ CallFits(j) /\ x.via = j.stage /\ j.stage \in CallStages
    BY <2>5, <2>6
  <2> QED BY <2>1, <2>2, <2>6, <2>7
          DEF Reached, Final, CallFits, DoneStages, BackStages, CallStages, DepositStages,
              WithdrawalStages
<1>2. FlowInv => JustifiedByPrime
  BY <1>1 DEF JustifiedByPrime
<1> QED BY <1>2, FlowInvariance, PTL

(* Prime is never asked for a withdrawal that was not reserved, and nothing *)
(* is given back that was not reserved.                                     *)
THEOREM ReservationsComeFirst == FlowSpec => []ReservedFirst
<1>1. FlowInv => ReservedFirst
  <2> SUFFICES ASSUME FlowInv, NEW r \in Runs, status[r] # "absent" \/ GivenBack(r)
               PROVE  HasRef(Reservation(r).ref)
    BY DEF ReservedFirst
  <2>1. PICK reserved : reserved = Reservation(r).ref
    OBVIOUS
  <2>2. GivenBack(r) => HasRef(reserved) \/ Undone(r)
    BY <2>1, RunFacts DEF GivenBack, Undone, HasRef
  <2>3. reserved = <<Info[r].key, "">>
    BY <2>1, RunFacts
  <2> QED BY <2>1, <2>2, <2>3 DEF FlowInv, RunFits
<1> QED BY <1>1, FlowInvariance, PTL

(* A withdrawal is paid out and given back as well only when the answer to  *)
(* the CLI was lost.                                                        *)
THEOREM RefundedOrPaid == FlowSpec => []PaidAndRefundedOnlyIfLost
<1>1. ASSUME FlowInv, NEW r \in Runs, GivenBack(r), status[r] = "DONE"
      PROVE  r \in lost
  <2>1. ASSUME NEW i \in DOMAIN ledger, ledger[i].ref = <<Info[r].key, "">>
        PROVE  ledger[i].of = Info[r].key
    <3>1. PICK x : x = ledger[i]
      OBVIOUS
    <3>2. Posted(x) /\ x.ref = <<Info[r].key, "">>
      BY <1>1, <2>1, <3>1 DEF FlowInv, LedgerFits
    <3>3. r \in Txs /\ Info[r].key # NoKey
      BY RunFacts
    <3>4. x.of = Info[r].key
      BY <3>2, <3>3, KeyRefs
    <3> QED BY <3>1, <3>4
  <2>2. Undone(r)
    BY <1>1, <2>1, RunFacts DEF GivenBack, Undone
  <2> QED BY <1>1, <2>2 DEF FlowInv, RunFits
<1>2. FlowInv => PaidAndRefundedOnlyIfLost
  BY <1>1 DEF PaidAndRefundedOnlyIfLost
<1> QED BY <1>2, FlowInvariance, PTL

(* What the CLI reserved is not debited again when the listener sees the    *)
(* withdrawal done, unless a lookup failed or the answer to the CLI was     *)
(* lost.                                                                    *)
THEOREM DoneIsNotDebitedAgain == FlowSpec => []NoSecondDebitAtDone
<1>1. FlowInv => NoSecondDebitAtDone
  BY DEF FlowInv
<1> QED BY <1>1, FlowInvariance, PTL

-----------------------------------------------------------------------------
(* Balances: what the entries of a ledger l add up to. *)

Amounts(l, indices) == SumFunctionOnSet([i \in indices |-> l[i].amount], indices)
Into(l, acct) == {i \in DOMAIN l : l[i].to = acct}
OutOf(l, acct) == {i \in DOMAIN l : l[i].from = acct}
BalanceIn(l, acct) == Amounts(l, Into(l, acct)) - Amounts(l, OutOf(l, acct))

LEMMA BalanceAt ==
  \A acct : Balance(acct) = BalanceIn(ledger, acct) /\ Balance(acct)' = BalanceIn(ledger', acct)
BY DEF Balance, SumOver, BalanceIn, Amounts, Into, OutOf

LEMMA AmountType == \A x \in TxnType : x.amount \in Nat
BY DEF TxnType

LEMMA AmountsType ==
  ASSUME NEW l \in Seq(TxnType), NEW indices \in SUBSET DOMAIN l
  PROVE  IsFiniteSet(indices) /\ Amounts(l, indices) \in Nat
<1>1. Len(l) \in Nat /\ DOMAIN l = 1..Len(l) /\ \A i \in DOMAIN l : l[i] \in TxnType
  OBVIOUS
<1>2. IsFiniteSet(indices)
  <2>1. IsFiniteSet(1..Len(l))
    BY <1>1, FS_Interval
  <2> QED BY <1>1, <2>1, FS_Subset
<1>3. PICK f : f = [i \in indices |-> l[i].amount]
  OBVIOUS
<1>4. \A i \in indices : f[i] \in Nat
  BY <1>1, <1>3, AmountType
<1>5. SumFunctionOnSet(f, indices) \in Nat
  BY <1>2, <1>4, SumNat
<1> QED BY <1>2, <1>3, <1>5 DEF Amounts

(* The amounts of a longer ledger: those of the shorter, and the last. *)
Longer(l, m, n) ==
  /\ n \notin DOMAIN l /\ DOMAIN m = DOMAIN l \cup {n}
  /\ \A i \in DOMAIN l : m[i].amount = l[i].amount

LEMMA AmountsGrow ==
  ASSUME NEW l, NEW m, l \in Seq(TxnType), m \in Seq(TxnType), NEW n, Longer(l, m, n),
         NEW indices, indices \subseteq DOMAIN l
  PROVE  /\ Amounts(m, indices) = Amounts(l, indices)
         /\ Amounts(m, indices \cup {n}) = Amounts(l, indices) + m[n].amount
<1>1. IsFiniteSet(indices) /\ Amounts(l, indices) \in Nat
  BY AmountsType
<1>2. PICK f : f = [i \in indices |-> l[i].amount]
  OBVIOUS
<1>3. PICK g : g = [i \in indices |-> m[i].amount]
  OBVIOUS
<1>4. PICK h : h = [i \in indices \cup {n} |-> m[i].amount]
  OBVIOUS
<1>5. /\ \A i \in indices : f[i] = g[i] /\ g[i] = h[i]
      /\ \A i \in indices \cup {n} : h[i] \in Int
      /\ n \notin indices /\ h[n] = m[n].amount
  <2>1. \A i \in DOMAIN m : m[i].amount \in Nat
    BY AmountType
  <2> QED BY <1>2, <1>3, <1>4, <2>1 DEF Longer
<1>6. SumFunctionOnSet(f, indices) = SumFunctionOnSet(g, indices)
  BY <1>1, <1>5, SumSame
<1>7. SumFunctionOnSet(g, indices) = SumFunctionOnSet(h, indices)
  BY <1>1, <1>5, SumSame
<1>8. SumFunctionOnSet(h, indices \cup {n}) = SumFunctionOnSet(h, indices) + h[n]
  BY <1>1, <1>5, SumAdd
<1> QED BY <1>2, <1>3, <1>4, <1>5, <1>6, <1>7, <1>8 DEF Amounts

(* What the entry x does to the account. *)
Change(x, acct) ==
  (IF x.to = acct THEN x.amount ELSE 0) - (IF x.from = acct THEN x.amount ELSE 0)

LEMMA BalanceGrows ==
  ASSUME ledger \in Seq(TxnType), ledger' \in Seq(TxnType), NEW x \in TxnType, NEW k,
         Grown(x, k), NEW acct
  PROVE  Balance(acct) \in Int /\ Balance(acct)' = Balance(acct) + Change(x, acct)
<1>1. PICK l \in Seq(TxnType) : l = ledger
  OBVIOUS
<1>2. PICK m \in Seq(TxnType) : m = ledger'
  OBVIOUS
<1>3. PICK n : n = Len(ledger) + 1
  OBVIOUS
<1>4. /\ DOMAIN m = DOMAIN l \cup {n} /\ n \notin DOMAIN l /\ m[n] = x
      /\ \A i \in DOMAIN l : /\ m[i].amount = l[i].amount
                             /\ m[i].from = l[i].from /\ m[i].to = l[i].to
  <2>1. n \notin DOMAIN ledger
    BY <1>3, Indices
  <2>2. /\ DOMAIN ledger' = DOMAIN ledger \cup {n} /\ ledger'[n] = x
        /\ \A i \in DOMAIN ledger : /\ ledger'[i].amount = ledger[i].amount
                                    /\ ledger'[i].from = ledger[i].from
                                    /\ ledger'[i].to = ledger[i].to
    BY <1>3 DEF Grown
  <2> QED BY <1>1, <1>2, <2>1, <2>2
<1>5. PICK into : into = Into(l, acct)
  OBVIOUS
<1>6. PICK out : out = OutOf(l, acct)
  OBVIOUS
<1>7. into \in SUBSET DOMAIN l /\ out \in SUBSET DOMAIN l
  BY <1>5, <1>6 DEF Into, OutOf
<1>8. /\ Into(m, acct) = IF x.to = acct THEN into \cup {n} ELSE into
      /\ OutOf(m, acct) = IF x.from = acct THEN out \cup {n} ELSE out
  BY <1>4, <1>5, <1>6 DEF Into, OutOf
<1>9. Amounts(l, into) \in Nat /\ Amounts(l, out) \in Nat /\ x.amount \in Nat
  BY <1>7, AmountsType, AmountType
<1>10. /\ Amounts(m, into) = Amounts(l, into) /\ Amounts(m, out) = Amounts(l, out)
       /\ Amounts(m, into \cup {n}) = Amounts(l, into) + x.amount
       /\ Amounts(m, out \cup {n}) = Amounts(l, out) + x.amount
  <2>1. ASSUME NEW indices, indices \subseteq DOMAIN l
        PROVE  /\ Amounts(m, indices) = Amounts(l, indices)
               /\ Amounts(m, indices \cup {n}) = Amounts(l, indices) + m[n].amount
    <3>1. Longer(l, m, n)
      BY <1>4 DEF Longer
    <3> QED BY <1>1, <1>2, <2>1, <3>1, AmountsGrow
  <2> QED BY <1>4, <1>7, <2>1
<1>11. /\ Amounts(m, Into(m, acct)) =
            Amounts(l, into) + (IF x.to = acct THEN x.amount ELSE 0)
       /\ Amounts(m, OutOf(m, acct)) =
            Amounts(l, out) + (IF x.from = acct THEN x.amount ELSE 0)
  BY <1>8, <1>9, <1>10
<1>12. /\ BalanceIn(l, acct) \in Int
       /\ BalanceIn(m, acct) = BalanceIn(l, acct) + Change(x, acct)
  BY <1>5, <1>6, <1>9, <1>11 DEF BalanceIn, Change
<1> QED BY <1>1, <1>2, <1>12, BalanceAt

(* An entry that the ledger accepts takes an account below zero only when   *)
(* its script allows the overdraft of the account.                          *)
LEMMA BelowZero ==
  ASSUME ledger \in Seq(TxnType), ledger' \in Seq(TxnType), NEW x \in TxnType, NEW k,
         Grown(x, k), ~Short(x), NEW acct, Balance(acct)' < 0
  PROVE  Balance(acct) < 0 \/ (x.overdraft /\ x.from = acct)
<1>1. PICK b : b = Balance(acct)
  OBVIOUS
<1>2. b \in Int /\ Balance(acct)' = b + Change(x, acct) /\ x.amount \in Nat
  BY <1>1, BalanceGrows, AmountType
<1>3. x.from = acct /\ ~x.overdraft => b >= x.amount
  BY <1>1, <1>2 DEF Short
<1> QED BY <1>1, <1>2, <1>3 DEF Change

-----------------------------------------------------------------------------
(* What the scripts allow. *)
AllowsOverdraft(x) ==
  x.overdraft =>
    /\ x.from # Deposits
    /\ x.from \in Users => x.via \in {"debitDirect", "debitBlind"}
    /\ x.from = Withdrawals => x.via \in {"credit", "compensate"}

LEMMA CallAllows ==
  ASSUME NEW j \in JobType, j.stage \in CallStages, CallFits(j)
  PROVE  AllowsOverdraft(TxnOf(j))
<1> USE UsersAssumption DEF TxnOf, DepositStages, WithdrawalStages, CallStages,
        AllowsOverdraft, Posting, Txn, Wallet, Deposits, Withdrawals, Conversions
<1>1. CASE j.stage \in DepositStages
  BY <1>1 DEF DepositTxn
<1>2. CASE j.stage \in WithdrawalStages
  <2>1. j.stage \in {"debitDirect", "debitBlind"} =>
          j.acct # Deposits /\ j.acct # Withdrawals
    BY DEF CallFits, DoneStages, PortfolioPlatform
  <2> QED BY <1>2, <2>1 DEF WithdrawalTxn
<1>3. CASE j.stage \in {"failOut", "convert", "platform"}
  BY <1>3 DEF PlatformTxn
<1> QED BY <1>1, <1>2, <1>3

LEMMA OwnAllows ==
  ASSUME NEW r \in Runs
  PROVE  /\ AllowsOverdraft(Reservation(r)) /\ AllowsOverdraft(Compensation(r))
         /\ Compensation(r).overdraft
BY UsersAssumption DEF AllowsOverdraft, Reservation, Compensation, Txn, Wallet, Deposits,
   Withdrawals, Conversions

LEMMA MirrorAllows == \A i : AllowsOverdraft(Mirror(i))
BY DEF AllowsOverdraft, Mirror, Txn

(* A step posts x, which the ledger accepts. *)
Posts(x) ==
  /\ x \in TxnType /\ ledger' \in Seq(TxnType) /\ ~Short(x) /\ AllowsOverdraft(x)
  /\ \E k : Grown(x, k)

LEMMA PostsKeep ==
  ASSUME ledger \in Seq(TxnType), OverdraftOnlyWhereAllowed, NEW x, Posts(x)
  PROVE  OverdraftOnlyWhereAllowed'
<1>1. PICK k : Grown(x, k)
  BY DEF Posts
<1>2. /\ x \in TxnType /\ ledger' \in Seq(TxnType) /\ ~Short(x) /\ AllowsOverdraft(x)
  BY DEF Posts
<1>3. ASSUME NEW acct, Balance(acct)' < 0
      PROVE  Balance(acct) < 0 \/ (x.overdraft /\ x.from = acct)
  BY <1>1, <1>2, <1>3, BelowZero
<1>4. PICK before : before = {ledger[i].via : i \in DOMAIN ledger}
  OBVIOUS
<1>5. PICK after : after = {ledger'[i].via : i \in DOMAIN ledger'}
  OBVIOUS
<1>6. before \subseteq after /\ x.via \in after
  <2>1. \A i \in DOMAIN ledger : i \in DOMAIN ledger' /\ ledger'[i].via = ledger[i].via
    BY <1>1 DEF Grown
  <2>2. \E i \in DOMAIN ledger' : ledger'[i] = x
    BY <1>1 DEF Grown
  <2> QED BY <1>4, <1>5, <2>1, <2>2
<1>7. /\ Balance(Deposits) >= 0
      /\ \A u \in Users : Balance(u) < 0 => before \cap {"debitDirect", "debitBlind"} # {}
      /\ Balance(Withdrawals) < 0 => before \cap {"credit", "compensate"} # {}
  BY <1>4 DEF OverdraftOnlyWhereAllowed
<1>8. \A acct : Balance(acct) \in Int /\ Balance(acct)' \in Int
  <2> SUFFICES ASSUME NEW acct PROVE Balance(acct) \in Int /\ Balance(acct)' \in Int
    OBVIOUS
  <2>1. PICK b : b = Balance(acct)
    OBVIOUS
  <2>2. b \in Int /\ Balance(acct)' = b + Change(x, acct)
    BY <1>1, <1>2, <2>1, BalanceGrows
  <2>3. Change(x, acct) \in Int
    BY <1>2, AmountType DEF Change
  <2> QED BY <2>1, <2>2, <2>3
<1>9. Balance(Deposits)' >= 0
  <2>1. ~(Balance(Deposits) < 0)
    BY <1>7, <1>8
  <2>2. ~(Balance(Deposits)' < 0)
    BY <1>2, <1>3, <2>1 DEF AllowsOverdraft
  <2> QED BY <1>8, <2>2
<1>10. ASSUME NEW u \in Users, Balance(u)' < 0
       PROVE  after \cap {"debitDirect", "debitBlind"} # {}
  BY <1>2, <1>3, <1>6, <1>7, <1>10 DEF AllowsOverdraft
<1>11. ASSUME Balance(Withdrawals)' < 0
       PROVE  after \cap {"credit", "compensate"} # {}
  BY <1>2, <1>3, <1>6, <1>7, <1>11 DEF AllowsOverdraft
<1> QED BY <1>5, <1>9, <1>10, <1>11 DEF OverdraftOnlyWhereAllowed

(* The calls of the handlers ... *)
LEMMA HandlerPosts ==
  ASSUME FlowInv, NEW w \in Wallets, HandlerStep(w)
  PROVE  ledger' = ledger \/ \E x : Posts(x)
<1>1. ledger \in Seq(TxnType)
  BY DEF FlowInv, LedgerFits
<1>2. CASE Look(w) \/ LookFails(w) \/ FindReserved(w)
  BY <1>2 DEF Look, LookFails, FindReserved
<1>3. CASE Call(w) \/ CallFails(w)
  <2>1. PICK j \in JobType : j = work[w].job
    BY <1>3, HandlerFrame DEF HandlerStep, FlowInv
  <2>2. j.stage \in CallStages /\ CallFits(j)
    BY <1>3, <2>1, HandlerFrame DEF HandlerStep, FlowInv, JobFits, Call, CallFails, At
  <2>3. PICK x : x = TxnOf(j)
    OBVIOUS
  <2>4. ledger' = ledger \/ (Record(x) /\ ~Short(x))
    BY <1>3, <2>1, <2>3 DEF Call, CallFails, Accepted
  <2>5. x \in TxnType /\ AllowsOverdraft(x)
    BY <2>2, <2>3, CallTypes, CallAllows
  <2> QED BY <1>1, <2>4, <2>5, RecordGrows DEF Posts
<1>4. CASE RevertReserved(w) \/ RevertFails(w)
  <2>1. PICK k : k = work[w].job.seen
    OBVIOUS
  <2>2. ledger' = ledger \/ (At(w, {"revert"}) /\ CanRevert(k) /\ Revert(k))
    BY <1>4, <2>1 DEF RevertReserved, RevertFails
  <2>3. CASE At(w, {"revert"}) /\ CanRevert(k) /\ Revert(k)
    <3>1. k \in DOMAIN ledger
      BY <1>4, <2>1, <2>3, HandlerFrame DEF HandlerStep, FlowInv, JobFits, At
    <3>2. PICK x : x = Mirror(k)
      OBVIOUS
    <3>3. x \in TxnType /\ AllowsOverdraft(x) /\ ~Short(x)
      BY <1>1, <2>3, <3>1, <3>2, MirrorFacts, MirrorAllows DEF CanRevert
    <3>4. ledger' \in Seq(TxnType) /\ Grown(x, k)
      BY <1>1, <2>3, <3>1, <3>2, RevertGrows
    <3> QED BY <3>3, <3>4 DEF Posts
  <2> QED BY <2>2, <2>3
<1> QED BY <1>2, <1>3, <1>4 DEF HandlerStep

(* ... and of the CLI. *)
LEMMA CliPosts ==
  ASSUME FlowInv, NEW r \in Runs, CliStep(r)
  PROVE  ledger' = ledger \/ \E x : Posts(x)
<1>1. ledger \in Seq(TxnType) /\ RunFits(r)
  BY DEF FlowInv, LedgerFits
<1>2. ASSUME NEW x \in {Reservation(r), Compensation(r)}, Record(x), ~Short(x)
      PROVE  Posts(x)
  <2>1. x \in TxnType /\ AllowsOverdraft(x)
    BY <1>2, RunFacts, OwnAllows
  <2> QED BY <1>1, <1>2, <2>1, RecordGrows DEF Posts
<1>3. ASSUME Record(Reservation(r)), ~Short(Reservation(r))
      PROVE  \E x : Posts(x)
  <2>1. Posts(Reservation(r))
    BY <1>2, <1>3
  <2> QED BY <2>1
<1>4. ASSUME Record(Compensation(r))
      PROVE  \E x : Posts(x)
  <2>1. ~Short(Compensation(r))
    BY OwnAllows DEF Short
  <2>2. Posts(Compensation(r))
    BY <1>2, <1>4, <2>1
  <2> QED BY <2>2
<1>5. ASSUME cli[r] = "refunding", CanRevert(found[r]), Revert(found[r])
      PROVE  \E x : Posts(x)
  <2>1. PICK k : k = found[r]
    OBVIOUS
  <2>2. k \in DOMAIN ledger
    BY <1>1, <1>5, <2>1 DEF RunFits
  <2>3. PICK x : x = Mirror(k)
    OBVIOUS
  <2>4. x \in TxnType /\ AllowsOverdraft(x) /\ ~Short(x)
    BY <1>1, <1>5, <2>1, <2>2, <2>3, MirrorFacts, MirrorAllows DEF CanRevert
  <2>5. ledger' \in Seq(TxnType) /\ Grown(x, k)
    BY <1>1, <1>5, <2>1, <2>2, <2>3, RevertGrows
  <2> QED BY <2>4, <2>5 DEF Posts
<1>6. CASE Verify(r) \/ AtPrime(r) \/ FindOwn(r)
  BY <1>6 DEF Verify, AtPrime, Create, CreateRefused, CreateUnanswered, Die, FindOwn
<1>7. CASE Reserve(r)
  BY <1>3, <1>7 DEF Reserve, Accepted
<1>8. CASE RevertOwn(r)
  BY <1>5, <1>8 DEF RevertOwn
<1>9. CASE Compensate(r)
  BY <1>4, <1>9 DEF Compensate
<1>10. CASE CliCallFails(r)
  BY <1>3, <1>4, <1>5, <1>10 DEF CliCallFails, Accepted, Moved
<1> QED BY <1>6, <1>7, <1>8, <1>9, <1>10 DEF CliStep

(* The accounts before anything is posted, and after they are opened. *)
LEMMA StartAllowed ==
  ASSUME ledger = <<>>
  PROVE  OverdraftOnlyWhereAllowed
<1>1. \A acct : Into(ledger, acct) = {} /\ OutOf(ledger, acct) = {}
  BY DEF Into, OutOf
<1>2. Amounts(ledger, {}) = 0
  BY SumEmpty DEF Amounts
<1>3. ASSUME NEW acct PROVE BalanceIn(ledger, acct) = 0
  <2>1. PICK none : none = Amounts(ledger, {})
    OBVIOUS
  <2>2. Into(ledger, acct) = {} /\ OutOf(ledger, acct) = {}
    BY <1>1
  <2>3. BalanceIn(ledger, acct) = none - none
    BY <2>1, <2>2 DEF BalanceIn
  <2> QED BY <1>2, <2>1, <2>3
<1>4. \A acct : Balance(acct) = 0
  BY <1>3, BalanceAt
<1> QED BY <1>4 DEF OverdraftOnlyWhereAllowed

LEMMA OpenAllowed ==
  ASSUME Open
  PROVE  OverdraftOnlyWhereAllowed'
<1>1. PICK m \in Seq(TxnType) : m = ledger'
  BY OpenEntries
<1>2. \A i \in DOMAIN m : m[i].from = Wallet
  BY <1>1, OpenEntries DEF Opens
<1>3. ASSUME NEW acct, acct # Wallet PROVE Balance(acct)' \in Nat
  <2>1. Into(m, acct) \in SUBSET DOMAIN m /\ OutOf(m, acct) = {}
    BY <1>2, <1>3 DEF Into, OutOf
  <2>2. Amounts(m, Into(m, acct)) \in Nat
    BY <1>1, <2>1, AmountsType
  <2>3. Amounts(m, {}) = 0
    BY SumEmpty DEF Amounts
  <2>4. BalanceIn(m, acct) \in Nat
    BY <2>1, <2>2, <2>3 DEF BalanceIn
  <2> QED BY <1>1, <2>4, BalanceAt
<1>4. /\ Deposits # Wallet /\ Withdrawals # Wallet
      /\ \A u \in Users : u # Wallet
  BY UsersAssumption DEF Deposits, Withdrawals, Wallet
<1>5. \A acct : acct # Wallet => Balance(acct)' >= 0 /\ ~(Balance(acct)' < 0)
  <2> SUFFICES ASSUME NEW acct, acct # Wallet
               PROVE  Balance(acct)' >= 0 /\ ~(Balance(acct)' < 0)
    OBVIOUS
  <2>1. PICK b : b = Balance(acct)'
    OBVIOUS
  <2>2. b \in Nat
    BY <1>3, <2>1
  <2> QED BY <2>1, <2>2
<1> QED BY <1>4, <1>5 DEF OverdraftOnlyWhereAllowed

(* The ledger refuses every overdraft that a script does not allow: no      *)
(* interleaving of CLI, goroutines and reverts takes the account of the     *)
(* pending deposits below zero, a user only after a direct debit, and that  *)
(* of the withdrawals under way only after a compensating credit.           *)
THEOREM OverdraftsAreAllowed == FlowSpec => []OverdraftOnlyWhereAllowed
<1>1. FlowInit => OverdraftOnlyWhereAllowed
  BY StartAllowed DEF FlowInit, Init
<1>2. ASSUME FlowInv, OverdraftOnlyWhereAllowed, [FlowNext]_formanceVars
      PROVE  OverdraftOnlyWhereAllowed'
  <2>1. ASSUME ledger' = ledger PROVE OverdraftOnlyWhereAllowed'
    <3>1. \A acct : Balance(acct)' = Balance(acct)
      BY <2>1, BalanceAt
    <3> QED BY <1>2, <2>1, <3>1 DEF OverdraftOnlyWhereAllowed
  <2>2. ASSUME \E x : Posts(x) PROVE OverdraftOnlyWhereAllowed'
    BY <1>2, <2>2, PostsKeep DEF FlowInv, LedgerFits
  <2>3. CASE Open
    BY <2>3, OpenAllowed
  <2>4. ASSUME NEW r \in Runs, CliStep(r) PROVE OverdraftOnlyWhereAllowed'
    BY <1>2, <2>1, <2>2, <2>4, CliPosts
  <2>5. ASSUME NEW w \in Wallets, HandlerStep(w) PROVE OverdraftOnlyWhereAllowed'
    BY <1>2, <2>1, <2>2, <2>5, HandlerPosts
  <2>6. CASE Rounds \/ PrimeActs
    BY <2>1, <2>6 DEF Rounds, Crash, Restart, EndRecovery, BeginPoll, Cleanup, Tick,
                      PrimeActs, PrimeAppears, PrimeMoves
  <2>7. ASSUME NEW w \in Wallets, ReadStep(w) \/ EndJob(w) PROVE OverdraftOnlyWhereAllowed'
    BY <2>1, <2>7, ReadFrame DEF ReadStep, EndJob
  <2>8. CASE Next
    BY <2>5, <2>6, <2>7, <2>8
       DEF Next, Goroutine, GoroutineFails, ReadStep, HandlerStep
  <2>9. CASE UNCHANGED formanceVars
    BY <2>1, <2>9 DEF formanceVars, flowVars, vars
  <2> QED BY <1>2, <2>3, <2>4, <2>8, <2>9 DEF FlowNext, CliStep
<1> QED BY <1>1, <1>2, FlowInvariance, PTL DEF FlowSpec
=============================================================================
