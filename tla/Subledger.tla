------------------------------ MODULE Subledger ------------------------------
(***************************************************************************)
(* The SQLite subledger: SubledgerService.ProcessTransaction run by several *)
(* callers at once.  The callers are the wallet goroutines of one listener, *)
(* the listeners of other portfolios and the withdrawal CLI; each has a     *)
(* database connection of its own and all of them share one database file   *)
(* in WAL mode.                                                             *)
(*                                                                          *)
(* One call is four steps, in the order of the code: the duplicate check,   *)
(* which reads outside the database transaction; BEGIN and the SELECT of    *)
(* the account, which fix the snapshot; the INSERTs and the UPDATE, which   *)
(* need the write lock; the COMMIT.  Any number of other calls may run      *)
(* between two of them.                                                     *)
(*                                                                          *)
(* SQLite itself is external.  What is assumed of it: a transaction reads   *)
(* the database as it was at its first SELECT; there is one writer at a     *)
(* time; a transaction that has read and then wants to write is refused at  *)
(* once (SQLITE_BUSY) when another connection is writing or has committed   *)
(* since the snapshot; a transaction that does not commit leaves no trace.  *)
(***************************************************************************)
EXTENDS Integers, Sequences, FiniteSets, Functions

CONSTANTS
  Workers,    \* the callers of ProcessTransaction, one connection each
  NoWorker,   \* the write lock's holder when nobody holds it
  Accounts,   \* the (user_id, asset) pairs
  ExtIds,     \* the external transaction ids
  NoExt,      \* the empty external id, which is never checked
  Calls,      \* the calls that may be made: ProcessTransactionParams
  MaxRows     \* bound: a call is only started below this many rows

Kinds == {"deposit", "withdrawal", "other"}

CallType == [acct : Accounts, kind : Kinds, amount : Int, ext : ExtIds]

ASSUME CallsAssumption == Calls \subseteq CallType /\ Calls # {}
ASSUME NoWorkerAssumption == NoWorker \notin Workers
ASSUME MaxRowsAssumption == MaxRows \in Nat

VARIABLES
  rows,     \* table transactions, in the order the rows were committed
  account,  \* table account_balances; version = 0 where there is no row
  journal,  \* table journal_entries, in the order committed
  writer,   \* the connection that holds SQLite's write lock
  pc,       \* where each caller is in ProcessTransaction
  frame     \* the parameters and the local variables of each caller's call

tables == <<rows, account, journal>>
vars == <<tables, writer, pc, frame>>

-----------------------------------------------------------------------------
(* What the tables hold. *)

AccountType == [balance : Int, version : Nat, last : Nat]

NoAccount == [balance |-> 0, version |-> 0, last |-> 0]

RowType == [acct : Accounts, kind : Kinds, amount : Int, ext : ExtIds,
            before : Int, after : Int, checkedAt : Nat]

EntryType == [row : Nat, side : {"user_asset", "system_liability"},
              acct : Accounts, debit : Int, credit : Int]

(* A row with this external id has been committed. *)
Posted(e) == \E i \in DOMAIN rows : rows[i].ext = e

(* The rows of one account. *)
RowsOf(a) == {i \in DOMAIN rows : rows[i].acct = a}

(* The frame of a call: its parameters, how many rows were committed when   *)
(* the duplicate check ran and when the snapshot was taken, and the account *)
(* record that was read.                                                    *)
FrameType == [call : CallType, checked : Nat, snap : Nat, seen : AccountType]

NoFrame == [call |-> CHOOSE c \in Calls : TRUE,
            checked |-> 0, snap |-> 0, seen |-> NoAccount]

-----------------------------------------------------------------------------
(* What a call with frame f holds and computes. *)

Checked(c) == [call |-> c, checked |-> Len(rows), snap |-> 0, seen |-> NoAccount]

Snapshot(f) ==
  [call |-> f.call, checked |-> f.checked,
   snap |-> Len(rows), seen |-> account[f.call.acct]]

NewBalance(f) == f.seen.balance + f.call.amount

(* The row that is inserted.  checkedAt is not a column: it remembers when  *)
(* the call looked for duplicates, which only the properties read.          *)
NewRow(f) ==
  [acct |-> f.call.acct, kind |-> f.call.kind, amount |-> f.call.amount,
   ext |-> f.call.ext, before |-> f.seen.balance, after |-> NewBalance(f),
   checkedAt |-> f.checked]

(* Mutation of StoredVersion: a new record starts at version 0. *)
StoredVersion_FromZero(rec) == rec.version

(* A missing account record is inserted with version 1 first, in the same   *)
(* transaction; the UPDATE then adds one.                                   *)
StoredVersion(rec) == IF rec.version = 0 THEN 1 ELSE rec.version

(* Mutations of NewAccount: a new account's balance is never updated; the   *)
(* version counts down.                                                     *)
NewAccount_NotUpdated(f) ==
  [balance |-> IF f.seen.version = 0 THEN 0 ELSE NewBalance(f),
   version |-> StoredVersion(f.seen) + 1, last |-> Len(rows) + 1]

NewAccount_CountsDown(f) ==
  [balance |-> NewBalance(f), version |-> f.seen.version - 1, last |-> Len(rows) + 1]

NewAccount(f) ==
  [balance |-> NewBalance(f),
   version |-> StoredVersion(f.seen) + 1,
   last    |-> Len(rows) + 1]

(* Mutation of Entries: a withdrawal's credit keeps its sign. *)
Entries_Signed(n, c) ==
  LET Entry(side, d, k) ==
        [row |-> n, side |-> side, acct |-> c.acct, debit |-> d, credit |-> k]
  IN IF c.kind = "other" THEN << >>
     ELSE << Entry("user_asset", c.amount, 0), Entry("system_liability", c.amount, 0) >>

(* The double-entry journal of a row: nothing for the other kinds. *)
Entries(n, c) ==
  LET Entry(side, d, k) ==
        [row |-> n, side |-> side, acct |-> c.acct, debit |-> d, credit |-> k]
  IN IF c.kind = "deposit"
     THEN << Entry("user_asset", c.amount, 0),
             Entry("system_liability", 0, c.amount) >>
     ELSE IF c.kind = "withdrawal"
     THEN << Entry("user_asset", 0, -c.amount),
             Entry("system_liability", -c.amount, 0) >>
     ELSE << >>

-----------------------------------------------------------------------------
Init ==
  /\ rows = << >>
  /\ account = [a \in Accounts |-> NoAccount]
  /\ journal = << >>
  /\ writer = NoWorker
  /\ pc = [w \in Workers |-> "idle"]
  /\ frame = [w \in Workers |-> NoFrame]

(* Mutation of NotDuplicate: only the newest row is looked at. *)
NotDuplicate_Newest(e) ==
  \A i \in DOMAIN rows : i = Len(rows) => e = NoExt \/ rows[i].ext # e

(* The duplicate check passes: no committed row has this external id now. *)
NotDuplicate(e) == e = NoExt \/ ~Posted(e)

Check(w, c) ==
  /\ pc[w] = "idle"
  /\ Len(rows) < MaxRows
  /\ NotDuplicate(c.ext)
  /\ pc' = [pc EXCEPT ![w] = "checked"]
  /\ frame' = [frame EXCEPT ![w] = Checked(c)]
  /\ UNCHANGED <<tables, writer>>

(* The call returns ErrDuplicateTransaction and changes nothing. *)
RefuseDuplicate(w, c) ==
  /\ pc[w] = "idle"
  /\ ~NotDuplicate(c.ext)
  /\ UNCHANGED vars

(* BEGIN (deferred) and the SELECT of id, balance and version. *)
ReadAccount(w) ==
  /\ pc[w] = "checked"
  /\ pc' = [pc EXCEPT ![w] = "read"]
  /\ frame' = [frame EXCEPT ![w] = Snapshot(frame[w])]
  /\ UNCHANGED <<tables, writer>>

(* Mutation of CanWrite: a stale snapshot may write. *)
CanWrite_Stale(w) == writer = NoWorker

(* SQLite lets the transaction write: nobody else does and nobody has since *)
(* the snapshot.                                                            *)
CanWrite(w) == writer = NoWorker /\ frame[w].snap = Len(rows)

(* WHERE version = ? of the UPDATE finds its row. *)
VersionMatches(w) ==
  StoredVersion(account[frame[w].call.acct]) = StoredVersion(frame[w].seen)

(* The INSERTs and the UPDATE.  What they write is invisible to the others  *)
(* until the commit, so it stays with the caller: NewRow, NewAccount and    *)
(* Entries of its frame.                                                    *)
Write(w) ==
  /\ pc[w] = "read"
  /\ CanWrite(w)
  /\ VersionMatches(w)
  /\ pc' = [pc EXCEPT ![w] = "written"]
  /\ writer' = w
  /\ UNCHANGED <<tables, frame>>

(* The caller is done; its local variables are gone. *)
Return(w) ==
  /\ pc' = [pc EXCEPT ![w] = "idle"]
  /\ frame' = [frame EXCEPT ![w] = NoFrame]

(* Mutation of Commit: an upsert replaces the row with the same external id. *)
Commit_Upsert(w) ==
  /\ pc[w] = "written"
  /\ rows' = Append(SelectSeq(rows, LAMBDA r : r.ext # frame[w].call.ext), NewRow(frame[w]))
  /\ account' = [account EXCEPT ![frame[w].call.acct] = NewAccount(frame[w])]
  /\ journal' = journal \o Entries(Len(rows) + 1, frame[w].call)
  /\ writer' = NoWorker
  /\ Return(w)

Commit(w) ==
  /\ pc[w] = "written"
  /\ rows' = Append(rows, NewRow(frame[w]))
  /\ account' = [account EXCEPT ![frame[w].call.acct] = NewAccount(frame[w])]
  /\ journal' = journal \o Entries(Len(rows) + 1, frame[w].call)
  /\ writer' = NoWorker
  /\ Return(w)

(* The first INSERT or UPDATE is refused with SQLITE_BUSY and the call      *)
(* returns the error; the deferred Rollback ends the transaction.           *)
RefuseWrite(w) ==
  /\ pc[w] = "read"
  /\ ~(CanWrite(w) /\ VersionMatches(w))
  /\ Return(w)
  /\ UNCHANGED <<tables, writer>>

(* Mutations of Fail: the lock is kept; the UPDATE survives a transaction   *)
(* that did not commit.                                                     *)
Fail_KeepsLock(w) ==
  /\ pc[w] # "idle"
  /\ Return(w)
  /\ UNCHANGED <<tables, writer>>

Fail_HalfWritten(w) ==
  /\ pc[w] # "idle"
  /\ writer' = IF writer = w THEN NoWorker ELSE writer
  /\ account' = IF pc[w] = "written"
                THEN [account EXCEPT ![frame[w].call.acct] = NewAccount(frame[w])]
                ELSE account
  /\ Return(w)
  /\ UNCHANGED <<rows, journal>>

(* Any other error return, a cancelled context, or the death of the process *)
(* with the call under way: the deferred Rollback, or WAL recovery, drops   *)
(* what was written and with it the write lock.                             *)
Fail(w) ==
  /\ pc[w] # "idle"
  /\ writer' = IF writer = w THEN NoWorker ELSE writer
  /\ Return(w)
  /\ UNCHANGED tables

Step(w) == ReadAccount(w) \/ Write(w) \/ RefuseWrite(w) \/ Commit(w)

Next ==
  \E w \in Workers :
    \/ Step(w)
    \/ Fail(w)
    \/ \E c \in Calls : Check(w, c) \/ RefuseDuplicate(w, c)

Spec == Init /\ [][Next]_vars

(* Fairness.  A call that has started goes on: it is a goroutine or a       *)
(* process that the scheduler runs.  A call that has not been posted is     *)
(* made again, as the listener does at every poll.  And the infrastructure  *)
(* failures behind Fail end some day.                                       *)
FairSpec ==
  /\ Spec
  /\ \A w \in Workers : WF_vars(Step(w))
  /\ \A c \in Calls : SF_vars(\E w \in Workers : Check(w, c))
  /\ <>[][\A w \in Workers : ~(Fail(w) /\ ~RefuseWrite(w))]_vars

-----------------------------------------------------------------------------
TypeOK ==
  /\ rows \in Seq(RowType)
  /\ account \in [Accounts -> AccountType]
  /\ journal \in Seq(EntryType)
  /\ writer \in Workers \cup {NoWorker}
  /\ pc \in [Workers -> {"idle", "checked", "read", "written"}]
  /\ frame \in [Workers -> FrameType]

(* Every row records the balance it found and the balance it left, and each *)
(* account's rows form one chain: a row starts where the account's previous *)
(* row ended, the first starts at zero, and the account shows the end of    *)
(* its last row.  Two calls that read the same balance cannot both post.    *)
RowAddsUp == \A i \in DOMAIN rows : rows[i].after = rows[i].before + rows[i].amount

ChainLinks ==
  \A i, j \in DOMAIN rows :
    /\ i < j
    /\ rows[i].acct = rows[j].acct
    /\ \A k \in DOMAIN rows : i < k /\ k < j => rows[k].acct # rows[j].acct
    => rows[j].before = rows[i].after

ChainStarts ==
  \A j \in DOMAIN rows :
    (\A k \in DOMAIN rows : k < j => rows[k].acct # rows[j].acct)
    => rows[j].before = 0

AccountShowsLastRow ==
  \A a \in Accounts :
    IF RowsOf(a) = {}
    THEN account[a] = NoAccount
    ELSE /\ account[a].last \in RowsOf(a)
         /\ \A i \in RowsOf(a) : i <= account[a].last
         /\ account[a].balance = rows[account[a].last].after

AuditChain ==
  RowAddsUp /\ ChainLinks /\ ChainStarts /\ AccountShowsLastRow

(* An external id is posted twice only by calls that overlapped: the later  *)
(* row's duplicate check ran before the earlier row was committed.  A retry *)
(* that starts after the commit is always refused.                          *)
DuplicatesOverlapped ==
  \A i, j \in DOMAIN rows :
    i < j /\ rows[i].ext = rows[j].ext /\ rows[i].ext # NoExt
    => rows[j].checkedAt < i

(* What a call under way knows is still true when it matters: the rows it   *)
(* looked at for duplicates have not got its external id, a snapshot that   *)
(* may still write shows the account as it is, and whoever has written      *)
(* holds the lock and is up to date.  With TypeOK this makes AuditChain and *)
(* DuplicatesOverlapped inductive.                                          *)
CallsCurrent ==
  \A w \in Workers :
    LET f == frame[w]
    IN pc[w] # "idle" =>
         /\ f.call \in Calls
         /\ f.checked <= Len(rows)
         /\ f.call.ext # NoExt =>
              \A i \in DOMAIN rows : i <= f.checked => rows[i].ext # f.call.ext
         /\ pc[w] # "checked" =>
              /\ f.snap <= Len(rows)
              /\ f.snap = Len(rows) => f.seen = account[f.call.acct]
         /\ pc[w] = "written" => writer = w /\ f.snap = Len(rows)

(* The amounts that the rows have posted. *)
Amounts == [i \in DOMAIN rows |-> rows[i].amount]

(* Mutation of HistorySum: the rows of every account are summed. *)
HistorySum_AllAccounts(a) == SumFunctionOnSet(Amounts, DOMAIN rows)

(* The balance of an account is the sum of the amounts of its rows, and     *)
(* the version counts them: what ReconcileBalance and the optimistic lock   *)
(* rely on.                                                                 *)
HistorySum(a) == SumFunctionOnSet(Amounts, RowsOf(a))

BalanceIsHistory ==
  \A a \in Accounts :
    /\ account[a].balance = HistorySum(a)
    /\ RowsOf(a) # {} => account[a].version = Cardinality(RowsOf(a)) + 1

(* The journal agrees with the subledger: for each account the journal's    *)
(* user_asset side carries exactly what its deposits and withdrawals moved, *)
(* and the liability side mirrors it.                                       *)
EntriesOf(a, side) ==
  {k \in DOMAIN journal : journal[k].acct = a /\ journal[k].side = side}

NetDebits == [k \in DOMAIN journal |-> journal[k].debit - journal[k].credit]

NetDebit(a, side) == SumFunctionOnSet(NetDebits, EntriesOf(a, side))

Moved(a) == SumFunctionOnSet(Amounts, {i \in RowsOf(a) : rows[i].kind # "other"})

JournalMirrorsRows ==
  \A a \in Accounts :
    /\ NetDebit(a, "user_asset") = Moved(a)
    /\ NetDebit(a, "system_liability") = -Moved(a)

(* Nobody's committed row is rewritten or removed. *)
AppendOnly == [][\A i \in DOMAIN rows : i \in DOMAIN rows' /\ rows'[i] = rows[i]]_vars

(* ProcessTransaction is atomic to its callers: with the locks, snapshots   *)
(* and versions hidden, every behaviour of the tables is one of the abstract *)
(* ledger, whose postings add to the balance that is current when they      *)
(* happen.                                                                  *)
Ledger ==
  INSTANCE AtomicLedger WITH
    balance <- [a \in Accounts |-> account[a].balance],
    history <- [i \in DOMAIN rows |-> [acct |-> rows[i].acct,
                  amount |-> rows[i].amount, ext |-> rows[i].ext]]

ImplementsLedger == Ledger!Spec

(* A posting that is tried again is posted in the end: refusals, the write  *)
(* lock and abandoned transactions never keep one caller out for ever,      *)
(* because whoever is in the way either commits or lets go of the lock.     *)
RetriesSucceed == \A c \in Calls : c.ext # NoExt => <>Posted(c.ext)
=============================================================================
