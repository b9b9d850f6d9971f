------------------------------ MODULE Listener ------------------------------
(***************************************************************************)
(* The listener over the SQLite store.  A store call is two steps, the      *)
(* duplicate check and the posting, because Subledger shows that a call is  *)
(* atomic but for its duplicate check.  A conversion and a failed           *)
(* withdrawal that matches no user are two postings each.                   *)
(***************************************************************************)
EXTENDS Polling, Bags, Functions

ASSUME OnePhaseAssumption == ~TwoPhase

-----------------------------------------------------------------------------
(* The store at the granularity of its calls.  A row's external id is an id *)
(* with a suffix; via is no column, it remembers which call posted the row, *)
(* for the properties.                                                      *)

Row(id, suffix, acct, amount, via) ==
  [ext |-> <<id, suffix>>, acct |-> acct, amount |-> amount, via |-> via]

Known(ext) == \E r \in BagToSet(ledger) : r.ext = ext

(* HasPendingWithdrawal: a row with this reference has been posted. *)
HasPending(ref) == Known(<<ref, "">>)

Post(row) == ledger' = ledger (+) SetToBag({row})

(* The sum of the amounts of a set of rows, each as often as it is there. *)
Sum(rowSet) == SumFunctionOnSet([r \in rowSet |-> r.amount * ledger[r]], rowSet)

(* What each store call posts. *)
RowOf(j) ==
  LET amount == Info[j.tx].amount
      Of(id, suffix, acct, signed) == Row(id, suffix, acct, signed, j.stage)
  IN CASE j.stage \in {"confirm", "direct", "platform"} -> Of(j.tx, "", j.acct, amount)
       [] j.stage \in {"debitUser", "debitDirect", "debitBlind"} ->
            Of(j.tx, "", j.acct, -amount)
       [] j.stage \in {"debitWallet", "failOut"} -> Of(j.tx, "", Platform, -amount)
       [] j.stage = "failBack" -> Of(j.tx, "-failed-reversal", Platform, amount)
       [] j.stage = "creditBack" -> Of(Info[j.tx].key, "-reversal", j.acct, amount)
       [] j.stage = "convert" -> Of(j.tx, "-src", Platform, -amount)
       [] j.stage = "convDst" -> Of(j.tx, "-dst", Platform, amount)

CallStages ==
  {"confirm", "direct", "platform", "debitUser", "debitWallet", "debitDirect",
   "debitBlind", "failOut", "failBack", "creditBack", "convert", "convDst"}

(* A deposit to an address nobody owns is an error of the store. *)
Refused(j) == j.stage \in {"confirm", "direct"} /\ j.acct = Nobody

(* Mutation of AfterLeg: an error of the first posting is ignored. *)
AfterLeg_IgnoresErrors(stage, outcome) ==
  CASE stage = "failOut" -> "failBack"
    [] stage = "convert" -> "convDst"
    [] OTHER -> After(stage, outcome)

(* A call that is two postings goes on with the second, else the handler    *)
(* goes on.                                                                 *)
AfterLeg(stage, outcome) ==
  CASE stage = "failOut" /\ outcome # "error" -> "failBack"
    [] stage = "convert" /\ outcome # "error" -> "convDst"
    [] OTHER -> After(stage, outcome)

-----------------------------------------------------------------------------
(* The steps of a handler. *)

(* Mutation of InLedger: only Prime's id is looked for. *)
InLedger_ById(t) == HasPending(t)

(* processWithdrawal at DONE: is the withdrawal in the ledger, under its    *)
(* idempotency key or under Prime's id?  If so ConfirmWithdrawal, a no-op   *)
(* here, and the mark; if not, or if the query failed ("debitBlind", the    *)
(* same call by another name), the user is debited.                         *)
InLedger(t) == HasPending(Info[t].key) \/ HasPending(t)

Look(w) ==
  /\ At(w, {"look"})
  /\ GoTo(w, IF InLedger(work[w].job.tx) THEN "mark" ELSE "debitDirect")
  /\ UNCHANGED <<now, prime, ledger, phase, since, cache, faults>>

LookFails(w) ==
  /\ At(w, {"look"})
  /\ Fault
  /\ GoTo(w, "debitBlind")
  /\ UNCHANGED <<now, prime, ledger, phase, since, cache>>

(* Mutation of CheckCall: nobody looks for the external id. *)
CheckCall_NoDuplicateCheck(w) ==
  LET job == work[w].job
  IN /\ At(w, CallStages)
     /\ job.seen = 0
     /\ IF Refused(job) THEN GoTo(w, AfterLeg(job.stage, "error"))
        ELSE work' = [work EXCEPT ![w].job.seen = 1]
     /\ UNCHANGED <<now, prime, ledger, phase, since, cache, faults>>

(* The call's checks: the user exists, the external id is not known yet. *)
CheckCall(w) ==
  LET job == work[w].job
  IN /\ At(w, CallStages)
     /\ job.seen = 0
     /\ IF Refused(job) THEN GoTo(w, AfterLeg(job.stage, "error"))
        ELSE IF Known(RowOf(job).ext) THEN GoTo(w, AfterLeg(job.stage, "dup"))
        ELSE work' = [work EXCEPT ![w].job.seen = 1]
     /\ UNCHANGED <<now, prime, ledger, phase, since, cache, faults>>

PostCall(w) ==
  LET job == work[w].job
  IN /\ At(w, CallStages)
     /\ job.seen = 1
     /\ Post(RowOf(job))
     /\ GoTo(w, AfterLeg(job.stage, "ok"))
     /\ UNCHANGED <<now, prime, phase, since, cache, faults>>

(* The call posted, and then a lookup for its reply failed: LedgerService   *)
(* reports a failure.                                                       *)
PostUnreported(w) ==
  LET job == work[w].job
  IN /\ At(w, {"direct", "creditBack"})
     /\ job.seen = 1
     /\ Fault
     /\ Post(RowOf(job))
     /\ GoTo(w, "drop")
     /\ UNCHANGED <<now, prime, phase, since, cache>>

(* The call failed: SQLITE_BUSY, a cancelled context, any other error. *)
CallFails(w) ==
  /\ At(w, CallStages)
  /\ Fault
  /\ GoTo(w, AfterLeg(work[w].job.stage, "error"))
  /\ UNCHANGED <<now, prime, ledger, phase, since, cache>>

(* What the goroutine of a wallet does when nothing fails. *)
Goroutine(w) ==
  Fetch(w) \/ TakeNext(w) \/ Look(w) \/ CheckCall(w) \/ PostCall(w) \/ EndJob(w)

GoroutineFails(w) ==
  FetchFails(w) \/ TakeUnmatched(w) \/ LookFails(w) \/ PostUnreported(w) \/ CallFails(w)

Init == PollInit /\ ledger = EmptyBag

Next ==
  \/ Rounds \/ PrimeActs
  \/ \E w \in Wallets : Goroutine(w) \/ GoroutineFails(w)

Spec == Init /\ [][Next]_vars

(* Fairness: goroutines run, a round that is done is followed by the next   *)
(* one (the ticker), a recovery that is done by the poll loop.  Nothing is  *)
(* assumed of Prime, of the clock, or of anybody restarting the program.    *)
Fairness ==
  /\ WF_vars(EndRecovery) /\ WF_vars(BeginPoll)
  /\ \A w \in Wallets : WF_vars(Goroutine(w))

FairSpec == Spec /\ Fairness

-----------------------------------------------------------------------------
TypeOK == PollTypeOK /\ IsABag(ledger)

(* A transaction seen with status s has left its trace in the ledger. *)
Recorded(t, s) ==
  LET type == Info[t].type
  IN /\ type = "DEPOSIT" /\ s = "IMPORTED" => Known(<<t, "">>)
     /\ type = "WITHDRAWAL" /\ Info[t].amount # 0 =>
          /\ s = "OTHER" => Known(<<t, "">>)
          /\ s = "DONE" => InLedger(t)
          /\ s = "FAILED" => \/ Known(<<Info[t].key, "-reversal">>)
                              \/ Known(<<t, "-failed-reversal">>)
     /\ type = "CONVERSION" /\ s = "DONE" =>
          Known(<<t, "-src">>) /\ Known(<<t, "-dst">>)
     /\ type = "TRANSFER" => Known(<<t, "">>)

(* What a stage of a handler may rely on. *)
StageFits(job) ==
  LET t == job.tx
      For(stages, type, s) ==
        job.stage \in stages => Info[t].type = type /\ job.status = s
  IN /\ job.stage \in CallStages \cup {"look", "mark", "drop"}
     /\ For({"confirm", "direct"}, "DEPOSIT", "IMPORTED")
     /\ For({"debitUser", "debitWallet"}, "WITHDRAWAL", "OTHER")
     /\ For({"look", "debitDirect", "debitBlind"}, "WITHDRAWAL", "DONE")
     /\ For({"failOut", "failBack", "creditBack"}, "WITHDRAWAL", "FAILED")
     /\ For({"convert", "convDst"}, "CONVERSION", "DONE")
     /\ job.stage = "platform" => Info[t].type = "TRANSFER"
     /\ job.stage = "failBack" => Known(<<t, "">>)
     /\ job.stage = "creditBack" => Info[t].key # NoKey
     /\ job.stage = "convDst" => Known(<<t, "-src">>)
     /\ job.stage = "mark" => Recorded(t, job.status)

Alone(t) == \E w \in Wallets : Info[t].wallets = {w}

JobCurrent(w) ==
  LET job == work[w].job
  IN job # NoJob =>
       /\ w \in Info[job.tx].wallets
       /\ Reached(job.tx, job.status)
       /\ StageFits(job)
       /\ job.seen = 1 => job.stage \in CallStages

WorkCurrent == \A w \in Wallets : TodoCurrent(w) /\ JobCurrent(w)

CheckHolds(w) ==
  LET job == work[w].job
  IN job # NoJob /\ job.seen = 1 /\ Alone(job.tx) => ~Known(RowOf(job).ext)

(* However old the listing of a goroutine is: what it says of a status was  *)
(* so once, the transaction in hand is at a stage that its status and the   *)
(* ledger allow, and nobody else has posted what the duplicate check of a   *)
(* transaction of this wallet alone did not find.                           *)
JobsCurrent == WorkCurrent /\ \A w \in Wallets : CheckHolds(w)

(* A transaction is marked as processed only once what the status marked    *)
(* calls for is in the database, whatever fails and in whatever order.      *)
(* What a later status calls for may be skipped (ImportedIsCredited).       *)
MarkMeansRecorded == \A t \in Txs : Processed(t) => Recorded(t, cache[t].as)

(* However often the listener restarts, recovers, polls and retries, what   *)
(* one wallet's goroutine posts is posted once.                             *)
PostedOnce ==
  \A r \in BagToSet(ledger) :
    (\E t \in Txs : r.ext[1] \in {t, Info[t].key} /\ Alone(t))
    => /\ ledger[r] = 1
       /\ \A q \in BagToSet(ledger) : q.ext = r.ext => q = r

(* A posting answers a status that Prime has reached: no money is credited  *)
(* before the deposit is imported, none is given back for a withdrawal that *)
(* has not failed, nothing is converted before the conversion is done.      *)
Justified(t) ==
  /\ Known(<<t, "">>) =>
       /\ status[t] # "absent"
       /\ Info[t].type = "DEPOSIT" => Reached(t, "IMPORTED")
       /\ Info[t].type = "WITHDRAWAL" => Reached(t, "OTHER")
  /\ Known(<<t, "-src">>) \/ Known(<<t, "-dst">>) => Reached(t, "DONE")
  /\ Known(<<t, "-failed-reversal">>) => Reached(t, "FAILED")
  /\ Known(<<Info[t].key, "-reversal">>) => Reached(t, "FAILED")

JustifiedByPrime == \A t \in Txs : Justified(t)

(* Of two postings that belong together the second is never there alone,    *)
(* so a crash or an error between them leaves a state that a retry          *)
(* completes: the debit of a conversion before its credit, the initiation   *)
(* of an unmatched failed withdrawal before its reversal.                   *)
LegsInOrder ==
  \A t \in Txs :
    /\ Known(<<t, "-dst">>) => Known(<<t, "-src">>)
    /\ Known(<<t, "-failed-reversal">>) => Known(<<t, "">>)

(* withdrawal.go records the failure of a withdrawal that matches no user   *)
(* as initiation and reversal with "net balance = 0".  Over all accounts    *)
(* the two cancel out, whatever was posted for the withdrawal before and    *)
(* however often the handler was interrupted.  On a single account they     *)
(* need not: the debit that was there already may be a user's.              *)
FailureCancels ==
  \A t \in Txs : Known(<<t, "-failed-reversal">>) =>
    Sum({r \in BagToSet(ledger) : r.ext[1] = t}) = 0

(* A final status that Prime shows inside the window is recorded, or the    *)
(* window moves on before a round got to it, provided that the listener is  *)
(* not down for good and did not mark the transaction under an earlier      *)
(* status: failed calls are retried, and a round that stalls on one wallet  *)
(* is not what keeps another's transaction out.                             *)
SeenEarlier(t) ==
  \/ Processed(t) /\ cache[t].as # status[t]
  \/ \E w \in Wallets :
       \/ \E s \in Statuses \ {status[t]} : <<t, s>> \in work[w].todo
       \/ work[w].job # NoJob /\ work[w].job.tx = t /\ work[w].job.status # status[t]

Recordable(t) ==
  Info[t].type = "DEPOSIT" => Info[t].amount > 0 /\ Info[t].to \in Users

FinalIsRecorded ==
  <>[](phase # "down") =>
    \A t \in Txs :
      (status[t] \in Final /\ Recordable(t) /\ ~SeenEarlier(t))
      ~> (Recorded(t, status[t]) \/ created[t] < now - Lookback)

-----------------------------------------------------------------------------
(* What documents and comments say and the code does not do. *)

(* The listener is up from the first appearance of the transaction on.      *)
UpThroughout(t) == [](status[t] # "absent" => phase # "down")

(* README.md: the listener "processes deposits automatically when they      *)
(* reach TRANSACTION_IMPORTED status"; deposit.go: phase 2 moves the funds  *)
(* of a pending deposit to the user.  Stated of a listener that is up.      *)
ImportedIsCredited ==
  \A t \in Txs :
    UpThroughout(t) =>
      (Info[t].type = "DEPOSIT" /\ status[t] = "IMPORTED") ~> Known(<<t, "">>)
=============================================================================
