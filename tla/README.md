# A verification development of prime-send-receive

TLA+ models of the two ledgers, the listener, the withdrawal tool and the setup and user tools of
this repository, the TLC instances that check them, and TLAPS proofs of every safety property that
the instances check, for every value of the constants. `PROJECT.json` names the source lines that
every definition stands for.

## 1. The system

The program keeps a ledger of what users and the platform hold at Coinbase Prime. A **listener**
polls Prime for the transactions of each wallet and posts them; a **withdrawal CLI** reserves an
amount and asks Prime to send it; setup tools store users and deposit addresses. The ledger is
behind the interface `store.LedgerStore`, with two implementations: **SQLite** and **Formance**.

| Component | State | Operations | Correct when |
|---|---|---|---|
| SQLite subledger (`internal/database/transactions.go`) | tables `transactions`, `account_balances`, `journal_entries` | `ProcessTransaction` | no update is lost, balance = history, all or nothing, no double posting |
| Reconciliation (`internal/database/balances.go`) | none | `GetBalance`, `GetAllBalances`, `ReconcileBalance` | alarms mean something |
| Store service (`internal/database/service.go`), API service (`internal/api`) | none | deposits, withdrawals, reversals, conversions, platform records | a failed or repeated call leaves what a retry completes |
| Listener (`internal/listener`) | `processedTxIds`, monitored wallets | recovery, poll, handlers, cleanup | what is skipped is recorded, nothing is posted twice or too early |
| Withdrawal CLI (`cmd/withdrawal`) | none between runs | verify, reserve, create, roll back | paid or given back, never both |
| Prime client (`internal/prime`) | at Prime | list transactions, create a withdrawal | (external) |
| Formance store (`internal/formance`) | an external ledger | the same interface, two- and three-phase postings | as SQLite, with references as idempotency; overdrafts only where a script allows them |
| Listener process (`cmd/listener`) | the listeners | start one per portfolio, shut down | one failure does not take the others along |
| Users and addresses (`internal/database/users.go`, `addresses.go`; `internal/formance/users.go`, `addresses.go`) | tables `users`, `addresses`; on Formance the metadata of an account per user | create a user, store an address, look up by email or address | an email has one user, what is stored can be found |
| Setup, user tools (`cmd/setup`, `cmd/adduser`) | none between runs | discover wallets, sync, assign, register and create addresses | an address of Prime's is somebody's, and one user's; none is made twice |
| Read-only CLIs, configuration, models, store interface | none | | |

**Interactions.** One goroutine per wallet, the listeners of other portfolios and the CLI call the
store at the same time, each on a connection of its own to one SQLite file in WAL mode. The
listener and the CLI never talk to each other: they meet in the ledger, through the external
transaction ids of their rows, and at Prime, through the idempotency key of a withdrawal.
The setup and user tools write the users and addresses that the listener's lookups read, and meet
in the store and at Prime without any lock.

**What is hard here.** The duplicate check is outside the database transaction. A listing tells a
status that Prime may have left by the time it is handled. The cache of handled transactions is in
memory, so everything is handled again after a restart. A conversion and an unmatched failure are
two postings each. The CLI verifies, reserves and creates in three calls, and a lost answer of
Prime's looks like a refusal. On Formance a deposit and a withdrawal are several transactions, each
with a reference of its own, an answer may be lost, and a revert is two calls. A withdrawal is known
by three names: its key, Prime's id and its destination address. The setup and user tools decide
with what they read some calls ago, take most errors for an empty answer, and on Formance write a
map back as a whole.
`PROJECT.json` lists each hazard at its line with the properties aimed at it.

## 2. The modules

    AtomicLedger              what the subledger promises: one posting, one step
      ^ implemented by
    Subledger                 ProcessTransaction, step by step, by concurrent callers
      ^ EXTENDS
    Reconciliation            the two reads of ReconcileBalance beside them
      ^ EXTENDS
    SubledgerProofs           theorems about Subledger and Reconciliation

    Polling                   Prime, polls and handlers, without the store's calls
      ^ EXTENDS        ^ EXTENDS            ^ EXTENDS
    Listener           FormanceListener     WithdrawalCLI      the CLI at Prime
    (SQLite calls)     (Formance calls)       ^         ^
      ^ EXTENDS          ^ EXTENDS            |         |
    WithdrawalFlow ------|--------------------+         |      the CLI beside the listener
                       FormanceFlow --------------------+

    PollingProofs             what the proofs over either store share, about Polling
      ^ EXTENDS        ^ EXTENDS
    ListenerProofs     FormanceProofs    theorems about Listener and about FormanceFlow
      ^ EXTENDS
    WithdrawalProofs          theorems about WithdrawalFlow

    Sums                      sums over finite sets; extended by SubledgerProofs,
                              ListenerProofs and FormanceProofs

    Directory                 users and addresses in either store
      ^ EXTENDS
    AddressTools              runs of the setup and user tools, and Prime's wallets
      ^ EXTENDS
    AddressTypeProofs         whose the emails are, and the types of the runs
      ^ EXTENDS
    AddressEntryProofs        theorems about the addresses

    MC*                       instances for TLC

### Subledger
A call of `ProcessTransaction` is `Check` (or `RefuseDuplicate`), `ReadAccount`, `Write` (or
`RefuseWrite`), `Commit`; `Fail` is every other error return, a cancelled context and the death of
the process. `rows`, `account` and `journal` are the three tables. What a transaction has written
but not committed stays in the caller's `frame` (`NewRow`, `NewAccount`, `Entries`), since nobody
else can see it. `version = 0` stands for a missing `account_balances` row.

SQLite is external and assumed to do this: a transaction reads the database as of its first
`SELECT`; there is one writer; a transaction that has read and then wants to write is refused at
once (`SQLITE_BUSY`) if someone else is writing or has committed since its snapshot; what is not
committed leaves no trace. The data source in `service.go:59` asks for WAL mode and for no other
transaction mode, so `BEGIN` is deferred. Decimal amounts are integers; the `REAL` columns'
rounding is left out.

### Reconciliation
`ReadBalance` and `SumHistory` are the two queries of `ReconcileBalance`, with any steps of the
subledger between them.

### Polling
`phase` is the listener's life (`Start`, `performStartupRecovery`, running). `work[w]` is the
goroutine of a wallet: the listing it has fetched and the transaction in hand. During recovery
wallets are read one after the other, in a poll all at once, and the next poll begins when all are
done (`WaitGroup`). `cache` is `processedTxIds`; `Cleanup` forgets what is older than the window.
`Crash` loses everything but the store; `FetchFails` and `TakeUnmatched` are reads that fail.

A handler is a table. `First` says which store call comes first for a type and status (with whom
the lookups found), `After` what follows each outcome (`ok`, `dup`, `error`), including the
fall-throughs of the code: a deposit that cannot be confirmed is deposited directly, a pending
withdrawal that cannot be debited is taken from the wallet.

Prime is external: statuses move along `Moves`, listings select by creation time. All failure
statuses are `FAILED`; all the statuses the listener only waits on are `CREATED`. A listing is one
read although the client fetches it page by page. The wallets' symbols, the parsing of amounts
and the choice of wallets are the constant `Info`. Prime's ids and the keys are different model
values, and two users never share a key prefix. `TwoPhase` is the one thing the handlers' table
knows of the store: `ProcessDepositPending` is a no-op on SQLite. `Scenes` are the sets of
transactions that one behaviour may show: no code is behind it, it lets one run ask the same
question of several mixes of transactions.

### Listener
The calls of the SQLite store; `ledger` is the bag of its rows. `RowOf` says what each call posts,
`AfterLeg` that a conversion and an unmatched failure are two postings. A call is two steps,
`CheckCall` and `PostCall`, which is what Subledger shows of it: atomic but for the duplicate
check. `CallFails`, `LookFails` and `PostUnreported` are its failures. `JobsCurrent` says
what a goroutine's state guarantees, and is what the proofs rest on.

### FormanceListener
The calls of the Formance store; `ledger` is the sequence of its transactions. `DepositTxn`,
`WithdrawalTxn` and `PlatformTxn` say what each call records: reference, accounts, the
`withdrawal_ref` of the metadata (`of`), whether the script allows the overdraft. `Latest` is the
listing with page size 1. `FindReserved` and `RevertReserved` are the two calls of
`RevertTransaction`. A call that fails (`CallFails`, `RevertFails`) may have been recorded.

The ledger is external and assumed to do this: a transaction is atomic; a reference is unique; a
source without overdraft may not go below zero; a listing starts with the latest transaction; a
revert posts the mirror of a transaction, which must be covered, marks the transaction as reverted
and carries none of its metadata. All wallets are one account and all assets one asset; a
conversion, two postings in two assets, is shown by its first. The two postings of an unmatched
failure cancel out within one transaction, and the second needs an account of the withdrawals under
way that is not below zero: they are shown as a transaction of amount 0 from that account.

### WithdrawalCLI
What a run does at Prime: `Create`, `CreateRefused`, `CreateUnanswered`, `Die`. Every run draws a
new idempotency key, so a run is named by the transaction it becomes. `lost` remembers the runs
whose withdrawal Prime made although the CLI got an error.

### WithdrawalFlow and FormanceFlow
What a run does in the store: `Verify`, `Reserve`, and on SQLite `CheckReservation`, `CheckRefund`
and `GiveBack`; on Formance `FindOwn` and `RevertOwn`, the two calls of the revert, and
`Compensate` when the revert fails. `Open` is the deposit that the users' balances come from.
`Verify` looks for the balance on the run's network and takes -1 for "none", so that a negative one
is passed over for the total of all networks: SQLite's balances have no network and are always the
total; over Formance, whose model keeps one balance, a negative one may pass or not.

### Directory
`email` is the users; `listed` the addresses of each user, which on SQLite is the table `addresses`
and on Formance the JSON map in the account's metadata; `keyed` the metadata's key per address.
`InsertAddress` is one row, without any uniqueness; `WriteMetadata` replaces the map by what was
read and the new entry, and merges the key. `AddressesOf`, `AllAddressesOf` and `Owners` are the
lookups: Formance's `GetAddresses` ignores the network, and its lookup by address tries only the
assets in `assetPrecision`. On either store a lookup that matches several users answers with any.
The map `wallet_ids`, written back in the same way, is left out: the tools do not read it. The
withdrawal CLI and the listener do, to choose wallets, which are constants of their models.

### AddressTools
A run is one process of `cmd/setup` or `cmd/adduser`: `Begin`, then one action per call to Prime or
to the store, with what it holds between calls in `run[r]`. The tools' loops are one mechanism:
`PickTask` takes the next pair of user and asset (or address), `FirstCall` says where its body
begins. `Identify`, `InsertUser` (SQLite), `CheckEmail` and `WriteUser` (Formance) find or create
the user or the platform's account; `Find`, `Search` and `LookUp` are the explicit addresses of the
command line; `UseWallet`, `CreateWallet`, `ListAddresses`, `Check`, `Mint` are `processUserAsset`
and `processAsset`; `PutRow`, `ReadMap` and `WriteMap` are `StoreAddress`. Every call may fail
(`Slips`), in the way its caller handles it, and every run may be killed (`Die`). A call to Prime
or Formance that fails may have been done. The many listings of `Search` are one action: one that
fails is skipped, and matters only when it is the one that shows the address.

Prime is external: wallets and addresses are only added; one page of a listing is read. The id
that `CreateWallet` returns is the activity's (`internal/prime/service.go:246`), which the tools go
on to use as the wallet's; it is taken to name the wallet, or the calls that use it fail.

## 3. What is checked

Every property of a passing run has a mutant of the code (`*_...` operators before the definition
they change) under which TLC finds it violated.

| Run | Question | Bounds |
|---|---|---|
| `subledger` | Do overlapping postings lose or half-write anything? Are duplicates possible only in overlap? Do rows stay? Is it an atomic ledger? What do the two reads of reconciliation tell? | 2 callers, 5 calls (all kinds, a shared id, no id), a call starts below 3 rows, 1 auditor |
| `subledger_live` | Do retries get through? | 2 callers, 2 ids; 4 rows, which no behaviour exceeds |
| `listener` | Does a mark mean that the work is done? Is it done once? Not before Prime says so? Are two legs posted in order, by two goroutines at once? Does an unmatched failure cancel out? Is what a goroutine goes on with still so? | two scenes: a deposit and a conversion that 2 wallets list; a withdrawal whose key and destination belong to 2 users, and a transfer; 2 failures, window 1, time 0..2 |
| `withdrawal_flow` | On SQLite: is every withdrawal reserved first, not debited again at DONE when the lookup is answered, debited at most once beside the reservation in any case, paid or refunded? Is a reservation resolved, a final status recorded? | 1 run and a deposit in a second wallet, 1 failure, window 0, time 0..1 |
| `formance` | On Formance: is every withdrawal reserved first, not debited directly when the lookup is answered, paid or refunded? Is a mark earned although calls fail after they took effect? Is there an overdraft where no script allows one? | 1 run and a deposit, 2 failures, window 1, time 0..1 |
| `addresses` | Is there one user per email, one address per wallet and network? Is every address somebody's after a setup? Do Formance's two forms of an address agree? Is what counts as a success one? | 2 runs, 6 pairs of command lines on either store, 2 assets and networks, 1 failure or kill |

Why the bounds are enough: two callers meet every pair of steps of two calls, and three rows give an
account a history that another one interleaves with. Two failures allow a crash after a failed call,
or a failure in each leg of a pair. With a window of 1 and time up to 2 a transaction leaves the
window, its mark is forgotten, and a listing taken before is still worked on. `MaxRows` stops
callers from starting; beyond that a stop is impossible, and deadlock is checked except in
`subledger_live`, where every call has been posted at the end, and in `addresses`, where both runs
have ended. In the flows, one run and the listener are the two parties that give back the same
amount. On SQLite the deposit is in a wallet of its own, so that the failed read of one wallet may
keep the other out, and with a window of 0 one unit of the clock is a whole window: what is created
at time 0 leaves it, and its mark is forgotten. Over Formance both are in one wallet, and nothing
leaves the window; the two failures there allow a lost answer of Prime's with a failed revert, or two
lost answers of the ledger's. What needs two runs is the run `overdraft`. For the tools, two runs
meet every pair of reads and writes; the second asset is one that has no wallet and that Formance's
lookup does not know, and with a page of one address the second address of a wallet and network
overflows it. The pairs of command lines are those that share something: two setups with and without
a user, a setup beside a user tool with and without explicit addresses, two user tools with the same
address, and two with the same email. `PollBudget` = 1 keeps a round from outlasting one unit of the
clock.

The model has one clock for Prime and the listener: a skew between them shifts the window and is
not modelled.

### Fairness
`Subledger!FairSpec`: a call that has started goes on, a call that has not been posted is made
again (the listener handles a transaction again in the next poll), and nothing is assumed of
failures. `Listener!Fairness`: goroutines run, the ticker starts the next round, recovery ends.
Nothing is assumed of Prime, of the clock, or of anyone restarting the program, so the liveness
properties say what they need (`<>[](phase # "down")`). `FairFlowSpec` adds that a run of the CLI
goes on. The Formance modules and the tools are checked for safety only.

### Where documents and code differ
Each of these is a run that TLC finds violated:

- `imported`: a deposit seen at `TRANSACTION_IMPORT_PENDING` is marked by id, so its
  `TRANSACTION_IMPORTED` is skipped while the mark stands (README.md:184).
- `credited_twice`: on Formance a deposit that is confirmed is deposited again, directly, when its
  confirmation is refused as a duplicate or not answered (ARCHITECTURE.md:329).
- `failed_debit`: on Formance a failed withdrawal is reverted by its key, and what the listener
  debited while it was pending, under Prime's id, stays debited (withdrawal.go:371).
- `overdraft`: two runs of the CLI reserve from one balance (README.md:277, 296).
- `double_debit`: a reserved withdrawal is debited again at `OTHER_TRANSACTION_STATUS`
  (E2E_TESTING.md:269).
- `shared_address`: one setup run gives an address to every user and to the platform's account
  (README.md:156, cmd/setup/main.go:373).

Others have no run of their own; where a passing property states how far they go, it is named:

- A lost answer of Prime's leaves a withdrawal paid and given back (README.md:346):
  `PaidAndRefundedOnlyIfLost`.
- A lookup at DONE that fails counts as one that found nothing (withdrawal.go:130), and a reserved
  withdrawal is then debited again, although E2E_TESTING.md:269 says "No double-debit!":
  `NoSecondDebitAtDone` is of lookups that are answered, `DebitedAtMostTwice` says that no further
  debit follows.
- A withdrawal is debited to the user of its destination while it is pending (withdrawal.go:224) and
  credited back to the user of its key when it fails, who may be another one.
- A conversion listed by both of its wallets is posted twice when the two goroutines of a poll
  overlap (ARCHITECTURE.md:236 says idempotency is enforced): `DuplicatesOverlapped`, and
  `PostedOnce` of everything that only one wallet lists.
- On SQLite a failed withdrawal that was never debited is credited, although "nothing was
  reserved, so nothing to undo" (withdrawal.go:371).
- On Formance the revert takes the latest transaction of the key, which need not be the one that
  initiated the withdrawal (transactions.go:852 in `internal/formance`): after a compensation by
  the CLI it is the compensation, and the user is debited again.
- `ReconcileBalance` reports a mismatch where there is none (`AlarmMeansInterleaving`).
- The window is a creation time, not "between polling cycles" (README.md:94): what leaves it is
  never recorded (`FinalIsRecorded`).
- The reversal of an unmatched failure is "net balance = 0" (withdrawal.go:322) over all accounts
  only: a user debited while the withdrawal was pending stays debited, and the platform is
  credited (`FailureCancels`).
- A withdrawal "already reverted" (withdrawal.go:370) by the CLI may be reverted by the listener
  too, when the two overlap (`RefundsPerParty`).
- ARCHITECTURE.md:249 warns that balance and history "can diverge if the application crashes
  between writes": they do not, since both are in one transaction (`BalanceIsHistory`).
- A deposit to an unknown address is meant to be marked (deposit.go:191) but is handled again in
  each poll, because the texts compared in deposit.go:211 are never equal.
- The setup tool "ensures each one is stored in the local backend" (cmd/setup/main.go:152), but
  counts an asset as a success when the stores failed: `SuccessMeansAddress`.
- On Formance `GetAddresses` ignores the network it is asked for
  (`internal/formance/addresses.go:86`): once an asset has an address on one network, the setup
  tool makes none on its other networks, and counts them as a success. `SuccessMeansAddress` asks
  for the network only on SQLite.
- On Formance a deposit address is "added to deposit_addresses map"
  (`internal/formance/addresses.go:42`), from which the next write takes it again when it read the
  map before, or could not read it: `MapMatchesKeys`.

## 4. What is proved

Eight modules hold theorems and lemmas: those named below, `PollingProofs` and `Sums`.
`PollingProofs` has what three of them share about `Polling`: the types, and that what a listing
says of a status stays true. None bounds the number of callers, wallets, transactions, users, keys,
runs or failures, and all cover every value of the constants that the named assumptions allow.

### Sums
Balances, histories and journals are sums over finite sets (`SumFunctionOnSet`). The library defines
them by a recursive function and states nothing about it that can be used here, and the induction
theorem for finite sets takes an operator as a parameter. `Sums` gets by without: the subsets
of a finite set on which a statement fails have a smallest member (`SmallestSet`, from the library's
well-founded ordering of finite subsets), and one element is taken out of it. In this way the
recursive function is shown to have a solution (`SolutionExists`), which is unique
(`SolutionsAgree`), and then: a sum has a type (`SumType`, `SumNat`), does not depend on the order
(`SumRemove`), grows by an element (`SumAdd`) and is additive over disjoint sets (`SumUnion`).

### The SQLite ledger
`SubledgerProofs`, from the assumptions named in `Subledger` and `Reconciliation`, about
`Subledger!Spec`:

- `TypeCorrect`, `Spec => []TypeOK`;
- `ChainHolds`, `Spec => []AuditChain`: each row continues the account's previous row, the account
  shows the last one;
- `OnlyOverlapsDuplicate`, `Spec => []DuplicatesOverlapped`;
- `CallsStayCurrent`, `Spec => []CallsCurrent`;
- `RowsArePermanent`, `Spec => AppendOnly`;
- `LedgerImplemented`, `Spec => ImplementsLedger`: the refinement of `AtomicLedger`, with `rows` as
  the history and the accounts' balances as the balances.

The argument is one inductive invariant, `IInv`: `TypeOK`, `CallsCurrent`, `AuditChain` and
`DuplicatesOverlapped`. None of the last two is inductive alone: a commit extends the chain
correctly only if the caller's `frame` still agrees with the account it read, which is
`CallsCurrent`: a caller that has written holds the lock, its snapshot is the present one, and it
has seen the account as it is now. `Write` establishes this (through `CanWrite`), and no step of
another caller breaks it, because only the lock's holder commits. `InvInit` and `InvStep` are the
base and the step, with a lemma for steps that leave the tables alone (`QuietCalls`) and lemmas for
`Commit` (`CommitCalls`, `CommitChain`, `CommitDuplicates`). `QuietOrCommit` splits the steps in the
same way for `AppendOnly` and the refinement.

What the rows add up to:

- `BalanceSumsHistory`, `Spec => []BalanceIsHistory`;
- `JournalBalances`, `Spec => []JournalMirrorsRows`.

`SumsInv` says both of the committed tables. A commit adds one row whose amount is the difference
between the two balances it names, by `NewRow`, and the first of them is the account's by
`CallsCurrent`; its journal entries are the two sides of the same amount. Everything else leaves
the tables alone. So `SumsInv` is inductive given `IInv`.

And with auditors beside the postings, about `Reconciliation!AuditSpec`:

- `AuditsOnlyRead`, `AuditSpec => Spec`: whatever is proved of the postings holds beside them;
- `AlarmsComeFromInterleaving`, `[]AlarmMeansInterleaving`; `ReportsAreTrue`, `[]ReportVouches`.

Beside the auditors' types both rest on `AuditFits`: the balance an auditor has read was the sum of the rows there were then,
which are among those there are now, since rows stay (`AppendOnly`). What its second query finds is
then that balance and the sum of what came in between (`SumUnion`).

### The listener over SQLite
`ListenerProofs`, from `InfoAssumption` and `BoundsAssumption` (the constants' types),
`OnePhaseAssumption` (the store is SQLite) and `Polling`'s `NamesAssumption` (Prime's ids are no keys, and one
key is one withdrawal's), about `Listener!Spec`:

- `ListenerTypes`, `[]TypeOK`;
- `JobsStayCurrent`, `[]JobsCurrent`;
- `MarksAreEarned`, `[]MarkMeansRecorded`; `LegsStayInOrder`, `[]LegsInOrder`;
  `PostingsAreJustified`, `[]JustifiedByPrime`; `PostingsAreSingle`, `[]PostedOnce`;
- `FailuresCancel`, `[]FailureCancels`.

The four properties before the last are about `cache` and `ledger`, but what is written there was decided some
steps before, from a listing and a lookup that may be old. So none is inductive, and the inductive
invariant says what a goroutine in the middle of a transaction can still rely on. It has two parts:

- `WorkCurrent`: what a listing says of a status was reached once (`Reached`, which holds of a
  status for good, unlike equality with the present one), and the stage of the transaction in hand
  fits it (`StageFits`): the second of two postings is only ahead when the first is in the ledger, a
  mark only when everything is. It never says what is *not* in the ledger, so that postings of
  others cannot break it.
- `CheckHolds`: between the duplicate check and the posting, the external id is not in the ledger.
  This is true only of a transaction that one wallet alone lists (`Alone`): two goroutines overlap
  on any other. By `NamesAssumption` the posting of one transaction is not that of another
  (`ExtNames`).

A step of Prime keeps `Reached`, a posting only adds to the ledger, and each step of a goroutine
moves from a stage that fits to one that fits (`FirstFits`, `AfterFits`, `CallRecords`). The four
properties then follow where the step writes: a mark is set at the stage `mark`, a posting is made
at a stage that its status allows, and a second copy would contradict `CheckHolds`.

`FailuresCancel` is about amounts. `RowsFit` says that every row is one that some job posts whose
stage fits; so the rows with the external id of a withdrawal's failure are the first posting and its
reversal, of opposite amounts (`FailureRows`), each once by `PostedOnce`, which is where
`WithdrawalAssumption` is needed (a withdrawal leaves one wallet). The first is there by
`LegsInOrder`, and a sum of two such rows is 0 (`TwoCancel`).

### The withdrawal flow over SQLite
`WithdrawalProofs` adds `RunsAssumption` (a run of the CLI is a withdrawal with a user and a key of
its own) and `OpeningAssumption` (the users start with no debts), about `FlowSpec`:

- `FlowTypes`, `[]FlowTypeOK`; `ReservationsComeFirst`, `[]ReservedFirst`;
- `DoneIsNotDebitedAgain`, `[]NoSecondDebitAtDone`;
- `DebitsAreFew`, `[]DebitedAtMostTwice`;
- `RefundedOrPaid`, `[]PaidAndRefundedOnlyIfLost`;
- `RefundsAreFew`, `[]RefundsPerParty`;
- `PromisesBesideTheCli`, `[](MarkMeansRecorded /\ LegsInOrder)`.

The inductive invariant `FlowInv` joins `WorkCurrent` with what each run of the CLI knows
(`RunFits`): where the run is, whether the reservation is in the ledger, and what Prime has made of
it. A refund in the ledger means that Prime has failed the withdrawal, that its answer was lost, or
that it never made it and never will, since the run is over. `NoneDirect` says that no goroutine is
about to debit a run's withdrawal at DONE, which follows from the lookup at the stage `look` and the
reservation that came first. `WorkCurrent` carries over because the CLI only adds rows and
transactions at Prime; `CheckHolds` does not, since the CLI may post a refund between the
listener's duplicate check and its posting, which is why `PostedOnce` is not claimed of the flow.

For the same reason a withdrawal may be given back twice, by the CLI and by the listener; by
`RefundsAreFew` each of them does so at most once, and both only when Prime's answer was lost. The
inductive invariant is `RefundInv`: the CLI's refund is there only when its run has ended, the
listener's only when the withdrawal has failed, each once (`RefundRows`); and a goroutine between
its duplicate check and its refund finds at most the CLI's in the ledger (`RefundChecked`). One
goroutine alone works on a withdrawal (`WithdrawalAssumption`), so the listener's own checks do not
overlap.

`DebitsAreFew` has an inductive invariant of the same kind, `DebitInv`: under the key and under
Prime's id there is at most one debit each, none under the key before the run reserves
(`StillToReserve`), and none under the id that a goroutine has checked and is about to debit
(`DebitChecked`). It says nothing of lookups, so that it holds whichever of them fail.

`PromisesBesideTheCli` carries two of the listener's promises over to the composition, which no run
states of it. The lemmas `MarksStep` and `LegsStep` ask for no more than `WorkCurrent`, which
`FlowInv` contains, and the CLI marks nothing, removes no row and posts under no id of a second
posting (`AddsNoLeg`). `JustifiedByPrime` does not carry over: the CLI's refund of a withdrawal that
Prime refused is a reversal without a failure.

### The withdrawals over Formance
`FormanceProofs`, about `FormanceFlow!FlowSpec`, from the same assumptions but for the store
(`TwoPhaseAssumption`), and from `UsersAssumption` (users, ids and keys are different names, and
a user's account is none of the portfolio's) and `OpeningAssumption` (finitely many users):

- `FlowTypes`, `[]FlowTypeOK`;
- `MarksAreEarned`, `[]MarkMeansRecorded`; `PostingsAreJustified`, `[]JustifiedByPrime`;
- `ReservationsComeFirst`, `[]ReservedFirst`; `RefundedOrPaid`, `[]PaidAndRefundedOnlyIfLost`;
- `DoneIsNotDebitedAgain`, `[]NoSecondDebitAtDone`;
- `OverdraftsAreAllowed`, `[]OverdraftOnlyWhereAllowed`.

Only the last depends on balances: whatever the ledger refuses as short, the others hold. The inductive
invariant is `FlowInv` (checked by TLC on the instance of `formance` before it was proved). Beside
the types it says:

- `LedgerFits`: every ledger transaction is one that somebody posts, for a reason that Prime has
  reached (`Posted`), and for each key a latest transaction exists, which is what makes `Latest` an
  index of the ledger. The second is said of all keys as a part of the invariant, since a maximum of
  a finite set would need an induction.
- `JobFits`: the stage of a handler fits the status (`CallFits`), a handler about to mark has
  settled (`Settled`), and one between the two calls of a revert points at a transaction of the key.
  A failed call adds nothing: what the handler may rely on is only what the ledger shows.
- `Settled` of a failed withdrawal may mean that nothing is left to revert. That stays true because
  nothing can come under the key later but what gives it back (`OfKey`): a reservation only before
  Prime has the withdrawal, a settlement or a direct debit only of one that is done.
- `RunFits` and `NotDirect`, as over SQLite. `Undone` is a reservation that is reverted or
  compensated. Once a run has reserved, its key has a latest transaction (`ReservationLatest`), and
  while nothing is undone that one is not reverted (`ReservationPending`): the lookups find it.

Each kind of step is a lemma: rounds, Prime, reads, handlers (`HandlerWork` for where the handler
goes, `CallLedger` and `RevertLedger` for what it posts), the CLI (`CliKinds`: a step that posts
nothing, that makes the withdrawal, or that posts) and the opening deposit.

`OverdraftsAreAllowed` is inductive given `FlowInv`. A step that changes the ledger appends one
transaction, and marks at most one as reverted (`Grown`), so that an account's balance changes by
what that transaction moves (`BalanceGrows`, from `SumAdd`): below zero goes only what it takes from, and
only if its script allows the overdraft (`BelowZero`). `CallAllows`, `OwnAllows` and `MirrorAllows`
say of the scripts of the handlers, of the CLI and of a revert which those are; `HandlerPosts` and
`CliPosts` that no step records anything else.

### The users of the tools
`AddressTypeProofs`, from `DirectoryAssumption`, `ToolsAssumption` and `StartAssumption` (at first an
email has one user, and nobody has the platform's), proves `EmailsHaveOneUser`,
`[]OneUserPerEmail`, for any number of runs and failed calls. The property is not inductive: on
Formance a run writes its user with what it saw two calls ago. The inductive invariant, `EmailInv`,
adds:

- `Looked`: who has the email of a run that is about to create its user got it while the run was
  under way, unless the looks failed that would have shown it. Two looks precede a write
  (`GetUserByEmail` of the tool and again of `CreateUser`), so that only two failures blind it.
- `Origin`: a user that is neither an old one nor the platform's was made by the run of its id, with
  that run's email. So the platform's email is nobody else's, and its account, having one id, is one
  whoever creates it.
- A run in another's `before` has ended. So no step makes two runs that overlapped not to have
  (`OverlapStays`).

`StepKinds` sorts the steps of a run by what they do to the users: begin, none, look, create; each
kind has its lemma.

### The addresses of the tools
The same module proves `ToolTypes`, `[]TypeOK`. Its inductive
invariant, `TypeInv`, says what a run has in hand: by where it is (`CurFits`), that its task has a
user, that the wallet it lists or makes an address in is one of the asset it works on, and that what
it is about to store is an address of Prime's, stored as every run would store it (`DepositOf`), or
a withdrawal address. One lemma per action finds the next state of the run and that it fits
(`Good`); `Goes` does the rest.

`AddressEntryProofs` builds on it, with four inductive invariants, the last two of which extend
`EntryInv`:

- `SecondAddressesOverlap`, `[]SecondAddressOnlyIfOverlapped`, by `MintInv`: while a run without a
  failed call is about to make an address, those on the same network of the wallet come from runs
  that overlapped with it (`MintFits`). It gets there only from an empty page, and a page is empty
  only if there is nothing to list, since `PageLimit` is not 0; what is made after it looked is made
  by a run that is under way (`MintersOverlap`).
- `MapAndKeys`, `[]MapMatchesKeys`, by `EntryInv`: an address of Prime's has one key, whoever stored
  it (`KeysFit`), so that a write adds to the deposit keys and takes nothing away. What a run has
  read of the map is among them, and is all that is listed as long as nothing fails or overlaps
  (`ReadFits`), since then a run between its read and its write is alone.
- `AssignedTwice`, `[]AssignedTwiceOnlyIfOverlapped`, by the same invariant: what a run has assigned
  is stored for somebody for good (`Held`). A run that looks and finds nobody has seen that no run
  that had ended assigned the address, if the lookup can match it (`Unfound`), and this stays so
  until it has stored the address itself.
- `SuccessIsTrue`, `[]SuccessMeansAddress`, by `ServeInv`: an address of Prime's is stored in one
  form (`KeptFits`), so that what a user has for an asset it has for good (`Has`), as Prime has
  (`AtPrime`). What a run has found or stored for the asset in hand, the user has (`HandFits`), and
  so has it what is counted, but for the setup tool after a failed call (`Counted`).
- `SetupIsComplete`, `[]SetupCovers`, by `CoverInv`: while a setup run without a failed call
  discovers, each address that can be seen and looked up is held by somebody, or is still to be
  listed or stored for the platform's account (`Pending`); the addresses that the run leaves alone
  because they were assigned are held (`SyncFits`). That there is such an account rests on
  `PlatformFound`: whoever has the platform's email is its account, and it stays, so that a run that
  could not create the account finds it when it looks again.

### Only model-checked
Liveness: `RetriesSucceed`, `ReservationResolved`, `FinalIsRecorded`. It needs fairness and ENABLED,
which the prover does not handle. Every other property of the passing runs is a theorem. The runs
that expect a violation refute what documents say, and have nothing to prove.

## 5. Not modelled

- Several listeners in one process (`cmd/listener`): the start of each, and one that fails to start
  and is left out.
- Of SQLite, the rounding of the `REAL` columns, the connection pool's settings and the schema's
  indexes and dummy users. Of Formance, precision, the wallets and networks of an asset, and the
  reads for reports.
- Of the tools, the validation of names and emails, and a missing `assets.yaml`, with which
  either ends before it makes addresses.
  `ListWallets` is one read. Prime's other services (portfolios, the client's set-up) keep no state
  of the program's.
- The history, address and balance queries of the CLIs, configuration, logging and formatting, and
  the declarations in `internal/models` and `internal/store`: they keep no state.

## 6. Plan

1. (done) `Subledger`, `AtomicLedger`, `Reconciliation`, `Polling`, `Listener`, `WithdrawalCLI`,
   `WithdrawalFlow`, `FormanceListener`, `FormanceFlow`, the proofs of the subledger.
2. (done) `Directory` and `AddressTools`; the proofs of `Listener`, `WithdrawalFlow` and
   `FormanceFlow`.
3. (done) Proofs about the tools: the types and the six other properties of the run `addresses`;
   proofs about sums, and with them of the remaining safety properties of the ledgers, of
   reconciliation, the listener and the flows.
4. An abstract withdrawal (reserved, then settled or given back, never both) that the flows
   implement as long as no answer is lost; fairness and liveness over Formance; two withdrawals
   without a key.
5. `Portfolios`: several listeners over one store, a failed start, forced shutdown. The directory
   beside the listener, which turns the constant `to` of `Info` into state.
6. Small operators against reference definitions: symbol normalisation, decimal rounding.
