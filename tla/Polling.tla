------------------------------- MODULE Polling -------------------------------
(***************************************************************************)
(* The send/receive listener of one portfolio: it polls Coinbase Prime for  *)
(* the transactions of every monitored wallet, one goroutine per wallet,    *)
(* and hands what it finds to a handler, which posts it to the store.       *)
(*                                                                          *)
(* A handler is a table (First, After): which store call comes first for a  *)
(* transaction with a given status, and what follows each outcome of each   *)
(* call.  What a call does is the store's: Listener and FormanceListener    *)
(* add the calls of the two stores.                                         *)
(*                                                                          *)
(* Prime is external: a transaction appears, and its status moves along     *)
(* Moves; a listing returns those created since a given time, each with the *)
(* status it has at that moment.                                            *)
(***************************************************************************)
EXTENDS Integers, FiniteSets

CONSTANTS
  Wallets,      \* the monitored wallets
  Txs,          \* the Prime transactions that may appear
  Info,         \* what Prime says of each of them, see InfoType
  Users,        \* the users of the store
  Keys,         \* the idempotency keys of withdrawals
  Nobody,       \* no user: an address or a key that matches none
  NoAddress,    \* a transfer_to without any address
  NoKey,        \* the empty idempotency key
  TwoPhase,     \* does the store park a deposit that Prime is still importing?
  Scenes,       \* bound: which transactions may appear together without this
                \*   program's doing
  Lookback,     \* lookbackWindow
  PollBudget,   \* bound: time between the start of a poll and the next one
  MaxTime,      \* bound: the clock stops here
  MaxFaults     \* bound: failed calls and crashes in a behaviour

Platform == "prime-platform"               \* what the store uses
PortfolioPlatform == "prime-platform-id"   \* what processWithdrawal uses

InfoType ==
  [type    : {"DEPOSIT", "WITHDRAWAL", "CONVERSION", "TRANSFER"},
   wallets : SUBSET Wallets,             \* whose listings show it
   to      : Users \cup {Nobody, NoAddress},  \* whose address transfer_to has
   keyUser : Users \cup {Nobody},        \* whom the key's prefix matches
   key     : Keys \cup {NoKey},
   amount  : Nat]

ASSUME InfoAssumption ==
  /\ Info \in [Txs -> InfoType] /\ Scenes \subseteq SUBSET Txs
  /\ \A t \in Txs : Info[t].key = NoKey => Info[t].keyUser = Nobody

(* A withdrawal leaves one wallet, whose listing alone shows it. *)
ASSUME WithdrawalAssumption ==
  \A t \in Txs : Info[t].type = "WITHDRAWAL" =>
    \A v, w \in Info[t].wallets : v = w

(* Prime's ids are no keys, and no two withdrawals are made with one key. *)
ASSUME NamesAssumption ==
  /\ Txs \cap (Keys \cup {NoKey}) = {}
  /\ \A t, u \in Txs : Info[t].key = Info[u].key /\ Info[t].key # NoKey => t = u

ASSUME BoundsAssumption ==
  /\ TwoPhase \in BOOLEAN
  /\ Lookback \in Nat /\ PollBudget \in Nat
  /\ MaxTime \in Nat /\ MaxFaults \in Nat

VARIABLES
  now,      \* the clock
  status,   \* Prime: the status of each transaction, or "absent"
  created,  \* Prime: when each transaction appeared
  ledger,   \* what the store has recorded
  phase,    \* "down", "recovering" (performStartupRecovery) or "running"
  since,    \* start of the window of the current poll or recovery
  work,     \* the goroutine of each wallet
  cache,    \* processedTxIds: when and with which status each tx was marked
  faults    \* failures so far

prime == <<status, created>>
vars == <<now, prime, ledger, phase, since, work, cache, faults>>

-----------------------------------------------------------------------------
(* Prime. *)

Final == {"IMPORTED", "DONE", "FAILED"}

Statuses == {"absent", "CREATED", "IMPORT_PENDING", "OTHER"} \cup Final

(* FAILED stands for TRANSACTION_CANCELLED, _REJECTED, _FAILED and _EXPIRED, *)
(* CREATED for every status the listener only waits on.                     *)
Moves(type) ==
  CASE type = "DEPOSIT" ->
         { <<"absent", "CREATED">>, <<"absent", "IMPORT_PENDING">>,
           <<"absent", "IMPORTED">>, <<"CREATED", "IMPORT_PENDING">>,
           <<"IMPORT_PENDING", "IMPORTED">> }
    [] type = "WITHDRAWAL" ->
         { <<"absent", "CREATED">>, <<"CREATED", "OTHER">>,
           <<"CREATED", "DONE">>, <<"CREATED", "FAILED">>,
           <<"OTHER", "DONE">>, <<"OTHER", "FAILED">> }
    [] OTHER ->
         { <<"absent", "CREATED">>, <<"CREATED", "DONE">>, <<"CREATED", "FAILED">> }

Appear(t, s) ==
  /\ status[t] = "absent"
  /\ <<"absent", s>> \in Moves(Info[t].type)
  /\ status' = [status EXCEPT ![t] = s]
  /\ created' = [created EXCEPT ![t] = now]

Spontaneous == UNION Scenes

PrimeAppears(t) ==
  /\ \E scene \in Scenes :
       t \in scene /\ {u \in Spontaneous : status[u] # "absent"} \subseteq scene
  /\ \E s \in Statuses : Appear(t, s)
  /\ UNCHANGED <<now, ledger, phase, since, work, cache, faults>>

PrimeMoves(t) ==
  /\ status[t] # "absent"
  /\ \E s \in Statuses :
       /\ <<status[t], s>> \in Moves(Info[t].type)
       /\ status' = [status EXCEPT ![t] = s]
  /\ UNCHANGED <<now, created, ledger, phase, since, work, cache, faults>>

-----------------------------------------------------------------------------
(* The handlers. *)

(* The calls of the handlers, over either store, and how a handler ends. *)
Stages ==
  {"park", "confirm", "direct", "platform", "convert", "convDst",
   "look", "lookId", "lookIdBlind", "debitUser", "debitWallet", "debitDirect",
   "debitBlind", "settle", "failOut", "failBack", "creditBack", "credit", "revert",
   "mark", "drop"}

(* seen: what the current call has read of the store, 0 for nothing yet.    *)
JobType ==
  [tx : Txs, status : Statuses, stage : Stages, seen : Nat,
   acct : Users \cup {Nobody, Platform, PortfolioPlatform}]

NoJob == [stage |-> "none"]

Job(t, s, stage, acct) ==
  [tx |-> t, status |-> s, stage |-> stage, acct |-> acct, seen |-> 0]

(* The user of a withdrawal: by destination address, then by the prefix of  *)
(* the idempotency key.  A lookup that fails counts as one that found       *)
(* nobody.                                                                  *)
ByAddress(t) == IF Info[t].to = NoAddress THEN Nobody ELSE Info[t].to

Match(t, byAddress, byKey) ==
  IF byAddress # Nobody THEN byAddress ELSE byKey

(* Mutation of FirstDeposit: a pending import is credited at once. *)
FirstDeposit_Early(t, s) ==
  IF s \in {"IMPORT_PENDING", "IMPORTED"} /\ Info[t].amount > 0 /\ Info[t].to # NoAddress
  THEN "confirm" ELSE "drop"

(* processDeposit: what it does first with a transaction.  To park a        *)
(* deposit is a no-op in the store that is not TwoPhase.                    *)
FirstDeposit(t, s) ==
  CASE s = "IMPORT_PENDING" /\ Info[t].amount > 0 ->
         IF TwoPhase THEN "park" ELSE "mark"
    [] s = "IMPORTED" /\ Info[t].amount > 0 /\ Info[t].to # NoAddress -> "confirm"
    [] OTHER -> "drop"

(* Mutation of FirstWithdrawal: a withdrawal under way is debited as done.  *)
FirstWithdrawal_Early(t, s, byAddress, byKey) ==
  IF s = "FAILED" THEN Job(t, s, "drop", Nobody)
  ELSE Job(t, s, "look", Match(t, byAddress, byKey))

(* processWithdrawal, given whom its lookups found. *)
FirstWithdrawal(t, s, byAddress, byKey) ==
  LET acct == Match(t, byAddress, byKey)
      zero == Info[t].amount = 0
  IN CASE s = "FAILED" ->
            IF zero THEN Job(t, s, "drop", Nobody)
            ELSE IF byKey = Nobody THEN Job(t, s, "failOut", Platform)
            ELSE Job(t, s, "creditBack", byKey)
       [] s = "OTHER" ->
            IF zero THEN Job(t, s, "mark", Nobody)
            ELSE IF acct = Nobody THEN Job(t, s, "debitWallet", Platform)
            ELSE Job(t, s, "debitUser", acct)
       [] s = "DONE" ->
            IF zero THEN Job(t, s, "mark", Nobody)
            ELSE Job(t, s, "look", IF acct = Nobody THEN PortfolioPlatform ELSE acct)
       [] OTHER -> Job(t, s, "drop", Nobody)

(* processTransaction: dispatch on the type. *)
First(t, s, byAddress, byKey) ==
  CASE Info[t].type = "DEPOSIT" ->
         Job(t, s, FirstDeposit(t, s), ByAddress(t))
    [] Info[t].type = "WITHDRAWAL" -> FirstWithdrawal(t, s, byAddress, byKey)
    [] Info[t].type = "CONVERSION" ->
         Job(t, s, IF s = "DONE" THEN "convert" ELSE "drop", Platform)
    [] OTHER -> Job(t, s, "platform", Platform)

(* Mutation of AfterDeposit: any error of the direct deposit is taken for a *)
(* duplicate.                                                               *)
AfterDeposit_MarksErrors(stage, outcome) ==
  IF stage = "direct" \/ outcome = "ok" THEN "mark" ELSE "direct"

(* What follows each call, by its outcome.  The deposit handler compares    *)
(* error texts for equality, which no wrapped error satisfies: a duplicate  *)
(* is left unmarked like any other error.                                   *)
AfterDeposit(stage, outcome) ==
  IF outcome = "ok" THEN "mark" ELSE IF stage = "confirm" THEN "direct" ELSE "drop"

AfterPending(stage, outcome) ==
  IF outcome # "error" THEN "mark"
  ELSE IF stage = "debitUser" THEN "debitWallet" ELSE "drop"

(* Mutation of AfterOther: errors are ignored. *)
AfterOther_MarksErrors(outcome) == "mark"

AfterOther(outcome) == IF outcome = "error" THEN "drop" ELSE "mark"

After(stage, outcome) ==
  CASE stage \in {"confirm", "direct"} -> AfterDeposit(stage, outcome)
    [] stage \in {"debitUser", "debitWallet"} -> AfterPending(stage, outcome)
    [] OTHER -> AfterOther(outcome)

-----------------------------------------------------------------------------
(* The goroutines of the wallets. *)

(* at: "fetch" before the listing is there, "failed" when it never came,    *)
(* else "handle"; todo: what is left of the listing; job: the transaction   *)
(* in hand.                                                                 *)
WorkType ==
  [at : {"fetch", "handle", "failed"}, todo : SUBSET (Txs \X Statuses),
   job : JobType \cup {NoJob}]

Idle == [at |-> "handle", todo |-> {}, job |-> NoJob]
ToFetch == [Idle EXCEPT !.at = "fetch"]

(* Mutation of WalletDone: a wallet that could not be read is waited for. *)
WalletDone_NotFailed(w) == work[w] = Idle

WalletDone(w) == work[w] \in {Idle, [Idle EXCEPT !.at = "failed"]}

NotMarked == [at |-> -1, as |-> "absent"]

PollInit ==
  /\ now = 0
  /\ status = [t \in Txs |-> "absent"]
  /\ created = [t \in Txs |-> 0]
  /\ phase = "down"
  /\ since = -Lookback
  /\ work = [w \in Wallets |-> Idle]
  /\ cache = [t \in Txs |-> NotMarked]
  /\ faults = 0

Fault == faults < MaxFaults /\ faults' = faults + 1

(* Everything but the database is lost: a crash, a forced shutdown, or a    *)
(* stop (after which the next start is the same).                           *)
Forget ==
  /\ phase' = "down"
  /\ work' = [w \in Wallets |-> Idle]
  /\ cache' = [t \in Txs |-> NotMarked]

Crash ==
  /\ phase # "down"
  /\ Fault
  /\ Forget
  /\ UNCHANGED <<now, prime, ledger, since>>

(* Mutation of OpenWindow: the window starts one unit too early. *)
OpenWindow_OneEarly ==
  /\ since' = now - Lookback - 1
  /\ work' = [w \in Wallets |-> ToFetch]

(* The window of a poll or a recovery opens and every wallet is to be read. *)
OpenWindow ==
  /\ since' = now - Lookback
  /\ work' = [w \in Wallets |-> ToFetch]

Restart ==
  /\ phase = "down"
  /\ phase' = "recovering"
  /\ OpenWindow
  /\ UNCHANGED <<now, prime, ledger, cache, faults>>

(* performStartupRecovery gives up, and the listener with it, when more     *)
(* than half of the wallets could not be read.                              *)
EndRecovery ==
  /\ phase = "recovering"
  /\ \A w \in Wallets : WalletDone(w)
  /\ LET unread == {w \in Wallets : work[w].at = "failed"}
     IN IF Cardinality(unread) > Cardinality(Wallets) \div 2
        THEN Forget
        ELSE phase' = "running" /\ UNCHANGED <<work, cache>>
  /\ UNCHANGED <<now, prime, ledger, since, faults>>

(* pollWallets starts once the previous round's WaitGroup is done. *)
BeginPoll ==
  /\ phase = "running"
  /\ \A w \in Wallets : WalletDone(w)
  /\ OpenWindow
  /\ UNCHANGED <<now, prime, ledger, phase, cache, faults>>

(* Recovery reads one wallet after the other, a poll all of them at once. *)
MayFetch(w) ==
  /\ work[w].at = "fetch"
  /\ phase = "recovering" =>
       \A v \in Wallets \ {w} : work[v].at = "fetch" \/ WalletDone(v)

Listing(w) ==
  { <<t, status[t]>> : t \in {u \in Txs : /\ w \in Info[u].wallets
                                          /\ status[u] # "absent"
                                          /\ created[u] >= since} }

Fetch(w) ==
  /\ MayFetch(w)
  /\ work' = [work EXCEPT ![w] = [Idle EXCEPT !.todo = Listing(w)]]
  /\ UNCHANGED <<now, prime, ledger, phase, since, cache, faults>>

FetchFails(w) ==
  /\ MayFetch(w)
  /\ Fault
  /\ work' = [work EXCEPT ![w].at = "failed"]
  /\ UNCHANGED <<now, prime, ledger, phase, since, cache>>

(* The next transaction of the listing: skipped when marked, else handed to *)
(* its handler with what the lookups said.                                  *)
Processed(t) == cache[t] # NotMarked

Take(w, x, byAddress, byKey) ==
  /\ x \in work[w].todo /\ work[w].job = NoJob
  /\ work' = [work EXCEPT ![w].todo = @ \ {x},
       ![w].job = IF Processed(x[1]) THEN NoJob
                  ELSE First(x[1], x[2], byAddress, byKey)]
  /\ UNCHANGED <<now, prime, ledger, phase, since, cache>>

TakeNext(w) ==
  /\ \E x \in work[w].todo : Take(w, x, ByAddress(x[1]), Info[x[1]].keyUser)
  /\ UNCHANGED faults

(* A lookup of the user failed, which processWithdrawal treats as a miss. *)
TakeUnmatched(w) ==
  /\ Fault
  /\ \E x \in work[w].todo :
       LET t == x[1]
       IN /\ Info[t].type = "WITHDRAWAL"
          /\ \E byAddress \in {ByAddress(t), Nobody}, byKey \in {Info[t].keyUser, Nobody} :
               /\ <<byAddress, byKey>> # <<ByAddress(t), Info[t].keyUser>>
               /\ Take(w, x, byAddress, byKey)

-----------------------------------------------------------------------------
(* The steps of a handler. *)

At(w, stages) == work[w].job.stage \in stages

GoTo(w, stage) ==
  work' = [work EXCEPT ![w].job.stage = stage, ![w].job.seen = 0]

(* markTransactionProcessed, and the handler's return. *)
EndJob(w) ==
  LET job == work[w].job
  IN /\ At(w, {"mark", "drop"})
     /\ cache' = IF job.stage = "mark"
                 THEN [cache EXCEPT ![job.tx] = [at |-> now, as |-> job.status]]
                 ELSE cache
     /\ work' = [work EXCEPT ![w].job = NoJob]
     /\ UNCHANGED <<now, prime, ledger, phase, since, faults>>

(* cleanupProcessedTransactions, in a goroutine of its own. *)
Cleanup ==
  /\ phase = "running"
  /\ \E t \in Txs : Processed(t) /\ cache[t].at < now - Lookback
  /\ cache' = [t \in Txs |-> IF cache[t].at < now - Lookback THEN NotMarked ELSE cache[t]]
  /\ UNCHANGED <<now, prime, ledger, phase, since, work, faults>>

Tick ==
  /\ now < MaxTime
  /\ phase # "down" => now - (since + Lookback) < PollBudget
  /\ now' = now + 1
  /\ UNCHANGED <<prime, ledger, phase, since, work, cache, faults>>

(* What does not depend on the store. *)
Rounds == Crash \/ Restart \/ EndRecovery \/ BeginPoll \/ Cleanup \/ Tick
PrimeActs == \E t \in Txs : PrimeAppears(t) \/ PrimeMoves(t)

-----------------------------------------------------------------------------
(* Status s of t was true once: t has it still, or it was not final and t   *)
(* has moved on.                                                            *)
Reached(t, s) ==
  /\ status[t] # "absent"
  /\ s \in Final => status[t] = s
  /\ s = "IMPORT_PENDING" => status[t] \in {"IMPORT_PENDING", "IMPORTED"}
  /\ s = "OTHER" => status[t] \in {"OTHER", "DONE", "FAILED"}

(* However old a listing is: what it says of a status was so once. *)
TodoCurrent(w) ==
  \A x \in work[w].todo : w \in Info[x[1]].wallets /\ Reached(x[1], x[2])

EntryType == [at : -1..MaxTime, as : Statuses]

PollTypeOK ==
  /\ now \in 0..MaxTime
  /\ status \in [Txs -> Statuses]
  /\ created \in [Txs -> 0..MaxTime]
  /\ phase \in {"down", "recovering", "running"}
  /\ since \in -Lookback..MaxTime
  /\ DOMAIN work = Wallets
  /\ \A w \in Wallets :
       /\ work[w].at \in {"fetch", "handle", "failed"}
       /\ work[w].todo \subseteq Txs \X Statuses
       /\ work[w].job \in JobType \cup {NoJob}
  /\ cache \in [Txs -> EntryType]
  /\ faults \in 0..MaxFaults
=============================================================================
