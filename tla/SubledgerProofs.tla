--------------------------- MODULE SubledgerProofs ---------------------------
(* Theorems about Subledger, for every set of callers, accounts, external   *)
(* ids and calls, and any number of rows.                                   *)
EXTENDS Reconciliation, Sums

-----------------------------------------------------------------------------
(* The frame of an idle caller is a frame. *)
LEMMA NoFrameType == NoFrame \in FrameType
BY CallsAssumption DEF NoFrame, FrameType, AccountType, NoAccount

(* The values a call computes have the types of the columns they go to. *)
LEMMA ComputedTypes ==
  ASSUME NEW f \in FrameType
  PROVE  /\ NewBalance(f) \in Int
         /\ NewRow(f) \in RowType
BY DEF FrameType, AccountType, CallType, NewBalance, NewRow, RowType

LEMMA NewAccountType ==
  ASSUME NEW f \in FrameType, rows \in Seq(RowType)
  PROVE  NewAccount(f) \in AccountType
<1>1. f.seen \in AccountType /\ NewBalance(f) \in Int
  BY ComputedTypes DEF FrameType
<1>2. StoredVersion(f.seen) \in Nat
  BY <1>1 DEF AccountType, StoredVersion
<1>3. Len(rows) + 1 \in Nat
  OBVIOUS
<1> QED BY <1>1, <1>2, <1>3 DEF NewAccount, AccountType

LEMMA EntriesType ==
  ASSUME NEW n \in Nat, NEW c \in CallType
  PROVE  Entries(n, c) \in Seq(EntryType)
<1>1. c.acct \in Accounts /\ c.amount \in Int /\ -c.amount \in Int
  BY DEF CallType
<1>2. CASE c.kind = "deposit"
  BY <1>1, <1>2 DEF Entries, EntryType
<1>3. CASE c.kind = "withdrawal"
  BY <1>1, <1>3 DEF Entries, EntryType
<1>4. CASE c.kind \notin {"deposit", "withdrawal"}
  BY <1>1, <1>4 DEF Entries, EntryType
<1> QED BY <1>2, <1>3, <1>4

(* Appending a row changes none of the others. *)
LEMMA AppendedRows ==
  ASSUME rows \in Seq(RowType), NEW r \in RowType, rows' = Append(rows, r)
  PROVE  /\ rows' \in Seq(RowType)
         /\ Len(rows') = Len(rows) + 1
         /\ DOMAIN rows' = DOMAIN rows \cup {Len(rows) + 1}
         /\ DOMAIN rows = 1 .. Len(rows)
         /\ Len(rows) \in Nat
         /\ rows'[Len(rows) + 1] = r
         /\ \A i \in DOMAIN rows : rows'[i] = rows[i]
OBVIOUS

-----------------------------------------------------------------------------
(* Every variable keeps its type. *)
LEMMA TypeInit == Init => TypeOK
BY NoFrameType DEF Init, TypeOK, NoAccount, AccountType

LEMMA TypeStep == TypeOK /\ [Next]_vars => TypeOK'
<1> SUFFICES ASSUME TypeOK, [Next]_vars PROVE TypeOK'
  OBVIOUS
<1> USE DEF TypeOK
<1>0. ASSUME NEW w \in Workers, Return(w)
      PROVE  pc' \in [Workers -> {"idle", "checked", "read", "written"}]
             /\ frame' \in [Workers -> FrameType]
  BY <1>0, NoFrameType DEF Return
<1>1. ASSUME NEW w \in Workers, ReadAccount(w) PROVE TypeOK'
  <2>1. Snapshot(frame[w]) \in FrameType
    BY DEF Snapshot, FrameType, CallType
  <2>2. frame' \in [Workers -> FrameType]
    BY <1>1, <2>1 DEF ReadAccount
  <2> QED BY <1>1, <2>2 DEF ReadAccount, tables
<1>2. ASSUME NEW w \in Workers, Write(w) PROVE TypeOK'
  BY <1>2 DEF Write, tables
<1>3. ASSUME NEW w \in Workers, RefuseWrite(w) PROVE TypeOK'
  BY <1>3, <1>0 DEF RefuseWrite, tables
<1>4. ASSUME NEW w \in Workers, Commit(w) PROVE TypeOK'
  <2>1. frame[w] \in FrameType /\ frame[w].call \in CallType
    BY DEF FrameType
  <2>2. rows' \in Seq(RowType)
    BY <1>4, <2>1, ComputedTypes, AppendedRows DEF Commit
  <2>3. account' \in [Accounts -> AccountType]
    BY <1>4, <2>1, NewAccountType DEF Commit
  <2>4. Len(rows) + 1 \in Nat
    OBVIOUS
  <2>5. journal' \in Seq(EntryType)
    BY <1>4, <2>1, <2>4, EntriesType DEF Commit
  <2> QED BY <1>4, <1>0, <2>2, <2>3, <2>5 DEF Commit
<1>5. ASSUME NEW w \in Workers, Fail(w) PROVE TypeOK'
  BY <1>5, <1>0 DEF Fail, tables
<1>6. ASSUME NEW w \in Workers, NEW c \in Calls, Check(w, c) PROVE TypeOK'
  <2>1. c \in CallType /\ Len(rows) \in Nat
    BY CallsAssumption
  <2>2. Checked(c) \in FrameType
    BY <2>1 DEF Checked, FrameType, NoAccount, AccountType
  <2> QED BY <1>6, <2>2 DEF Check, tables
<1>7. CASE UNCHANGED vars
  BY <1>7 DEF vars, tables
<1> QED BY <1>1, <1>2, <1>3, <1>4, <1>5, <1>6, <1>7 DEF Next, Step, RefuseDuplicate

THEOREM TypeCorrect == Spec => []TypeOK
BY TypeInit, TypeStep, PTL DEF Spec

-----------------------------------------------------------------------------
(* The steps that leave the rows and the accounts alone. *)
LEMMA QuietCalls ==
  ASSUME TypeOK, CallsCurrent, NEW w \in Workers, NEW c \in Calls,
         ReadAccount(w) \/ Write(w) \/ RefuseWrite(w) \/ Fail(w) \/ Check(w, c)
  PROVE  CallsCurrent'
<1> USE DEF TypeOK
<1>0. Len(rows) \in Nat
  OBVIOUS
<1> SUFFICES ASSUME NEW v \in Workers, pc'[v] # "idle"
             PROVE  LET f == frame'[v]
                    IN /\ f.call \in Calls
                       /\ f.checked <= Len(rows')
                       /\ f.call.ext # NoExt =>
                            \A i \in DOMAIN rows' :
                              i <= f.checked => rows'[i].ext # f.call.ext
                       /\ pc'[v] # "checked" =>
                            /\ f.snap <= Len(rows')
                            /\ f.snap = Len(rows') => f.seen = account'[f.call.acct]
                       /\ pc'[v] = "written" => writer' = v /\ f.snap = Len(rows')
  BY DEF CallsCurrent
<1>1. CASE ReadAccount(w)
  BY <1>0, <1>1 DEF ReadAccount, Snapshot, CallsCurrent, tables
<1>2. CASE Write(w)
  BY <1>0, <1>2, NoWorkerAssumption DEF Write, CanWrite, CallsCurrent, tables
<1>3. CASE RefuseWrite(w)
  BY <1>0, <1>3 DEF RefuseWrite, Return, CallsCurrent, tables
<1>4. CASE Fail(w)
  BY <1>0, <1>4 DEF Fail, Return, CallsCurrent, tables
<1>5. CASE Check(w, c)
  <2>1. v # w => pc'[v] = pc[v] /\ frame'[v] = frame[v]
    BY <1>5 DEF Check
  <2>2. v = w => pc'[v] = "checked" /\ frame'[v] = Checked(c)
    BY <1>5 DEF Check
  <2>3. \A i \in DOMAIN rows : c.ext # NoExt => rows[i].ext # c.ext
    BY <1>5 DEF Check, NotDuplicate, Posted
  <2> QED BY <1>0, <1>5, <2>1, <2>2, <2>3 DEF Check, Checked, CallsCurrent, tables
<1> QED BY <1>1, <1>2, <1>3, <1>4, <1>5

(* A commit leaves the other calls with a snapshot that is out of date. *)
LEMMA CommitCalls ==
  ASSUME TypeOK, CallsCurrent, NEW w \in Workers, Commit(w)
  PROVE  CallsCurrent'
<1> USE DEF TypeOK
<1>1. /\ NewRow(frame[w]) \in RowType
      /\ rows' = Append(rows, NewRow(frame[w]))
  BY ComputedTypes DEF Commit
<1>2. /\ Len(rows) \in Nat
      /\ Len(rows') = Len(rows) + 1
      /\ DOMAIN rows' = DOMAIN rows \cup {Len(rows) + 1}
      /\ \A i \in DOMAIN rows : rows'[i] = rows[i]
  BY <1>1, AppendedRows
<1> SUFFICES ASSUME NEW v \in Workers, pc'[v] # "idle"
             PROVE  LET f == frame'[v]
                    IN /\ f.call \in Calls
                       /\ f.checked <= Len(rows')
                       /\ f.call.ext # NoExt =>
                            \A i \in DOMAIN rows' :
                              i <= f.checked => rows'[i].ext # f.call.ext
                       /\ pc'[v] # "checked" =>
                            /\ f.snap <= Len(rows')
                            /\ f.snap = Len(rows') => f.seen = account'[f.call.acct]
                       /\ pc'[v] = "written" => writer' = v /\ f.snap = Len(rows')
  BY DEF CallsCurrent
<1>3. v # w /\ pc[v] = pc'[v] /\ frame'[v] = frame[v]
  BY DEF Commit, Return
<1>4. pc[v] # "written"
  BY <1>3 DEF Commit, CallsCurrent
<1>5. frame[v].checked \in Nat /\ frame[v].snap \in Nat
  BY DEF FrameType
<1> QED BY <1>2, <1>3, <1>4, <1>5 DEF CallsCurrent

-----------------------------------------------------------------------------
(* A commit extends the chain of its account: the row starts where the      *)
(* account stands, which is where the account's last row ended.             *)
LEMMA CommitChain ==
  ASSUME TypeOK, CallsCurrent, AuditChain, NEW w \in Workers, Commit(w)
  PROVE  AuditChain'
<1> DEFINE r == NewRow(frame[w])
           n == Len(rows) + 1
<1>0. PICK a \in Accounts : a = frame[w].call.acct
  BY DEF TypeOK, FrameType, CallType
<1>1. /\ frame[w] \in FrameType
      /\ account \in [Accounts -> AccountType]
      /\ rows \in Seq(RowType)
  BY DEF TypeOK
<1>2. r \in RowType /\ rows' = Append(rows, r)
  BY <1>1, ComputedTypes DEF Commit
<1>3. /\ Len(rows) \in Nat
      /\ DOMAIN rows = 1 .. Len(rows)
      /\ DOMAIN rows' = DOMAIN rows \cup {n}
      /\ rows'[n] = r
      /\ \A i \in DOMAIN rows : rows'[i] = rows[i]
  BY <1>1, <1>2, AppendedRows
<1>4. /\ r.acct = a
      /\ r.before = account[a].balance
      /\ r.after = r.before + r.amount
  BY <1>0, <1>1 DEF Commit, CallsCurrent, NewRow, NewBalance
<1>5. /\ account' = [account EXCEPT ![a] = NewAccount(frame[w])]
      /\ NewAccount(frame[w]).balance = r.after
      /\ NewAccount(frame[w]).last = n
  BY <1>0 DEF Commit, NewAccount, NewRow
<1>a. \A b \in Accounts :
        /\ RowsOf(b) = {} => account[b] = NoAccount
        /\ RowsOf(b) # {} => /\ account[b].last \in RowsOf(b)
                             /\ \A i \in RowsOf(b) : i <= account[b].last
                             /\ account[b].balance = rows[account[b].last].after
  BY DEF AuditChain, AccountShowsLastRow
<1>b. \A b : RowsOf(b) = {i \in DOMAIN rows : rows[i].acct = b}
  BY DEF RowsOf
<1>c. \A b : RowsOf(b)' = {i \in DOMAIN rows' : rows'[i].acct = b}
  BY DEF RowsOf
<1> HIDE DEF r
<1>6. RowAddsUp'
  BY <1>3, <1>4 DEF AuditChain, RowAddsUp
<1>7. ChainStarts'
  <2> SUFFICES ASSUME NEW j \in DOMAIN rows',
                      \A k \in DOMAIN rows' : k < j => rows'[k].acct # rows'[j].acct
               PROVE  rows'[j].before = 0
    BY DEF ChainStarts
  <2>1. CASE j \in DOMAIN rows
    BY <1>3, <2>1 DEF AuditChain, ChainStarts
  <2>2. CASE j = n
    <3>1. RowsOf(a) = {}
      BY <1>3, <1>4, <1>b, <2>2
    <3>2. account[a].balance = 0
      BY <1>1, <1>a, <3>1 DEF NoAccount
    <3> QED BY <1>3, <1>4, <2>2, <3>2
  <2> QED BY <1>3, <2>1, <2>2
<1>8. ChainLinks'
  <2> SUFFICES ASSUME NEW i \in DOMAIN rows', NEW j \in DOMAIN rows',
                      i < j, rows'[i].acct = rows'[j].acct,
                      \A k \in DOMAIN rows' : i < k /\ k < j => rows'[k].acct # rows'[j].acct
               PROVE  rows'[j].before = rows'[i].after
    BY DEF ChainLinks
  <2>1. i \in DOMAIN rows
    BY <1>3
  <2>2. CASE j \in DOMAIN rows
    BY <1>3, <2>1, <2>2 DEF AuditChain, ChainLinks
  <2>3. CASE j = n
    <3>1. i \in RowsOf(a)
      BY <1>3, <1>4, <2>1, <2>3 DEF RowsOf
    <3>2. /\ account[a].last \in RowsOf(a)
          /\ i <= account[a].last
          /\ account[a].balance = rows[account[a].last].after
      BY <1>1, <1>a, <3>1
    <3>3. account[a].last \in DOMAIN rows /\ rows[account[a].last].acct = a
      BY <1>b, <3>2
    <3>4. ~(i < account[a].last)
      BY <1>3, <1>4, <2>3, <3>3
    <3>5. account[a].last = i
      BY <1>3, <2>1, <3>2, <3>3, <3>4
    <3> QED BY <1>3, <1>4, <2>1, <2>3, <3>2, <3>5
  <2> QED BY <1>3, <2>2, <2>3
<1>9. AccountShowsLastRow'
  <2> SUFFICES ASSUME NEW b \in Accounts
               PROVE  IF RowsOf(b)' = {}
                      THEN account'[b] = NoAccount
                      ELSE /\ account'[b].last \in RowsOf(b)'
                           /\ \A i \in RowsOf(b)' : i <= account'[b].last
                           /\ account'[b].balance = rows'[account'[b].last].after
    BY DEF AccountShowsLastRow
  <2>1. CASE b = a
    <3>1. n \in RowsOf(a)'
      BY <1>3, <1>4, <1>c
    <3>2. \A i \in RowsOf(a)' : i <= n
      BY <1>3, <1>c
    <3>3. account'[a] = NewAccount(frame[w])
      BY <1>1, <1>5
    <3>4. account'[a].last = n /\ account'[a].balance = rows'[n].after
      BY <1>3, <1>5, <3>3
    <3> QED BY <2>1, <3>1, <3>2, <3>4
  <2>2. CASE b # a
    <3>1. RowsOf(b)' = RowsOf(b)
      BY <1>3, <1>4, <2>2 DEF RowsOf
    <3>2. account'[b] = account[b]
      BY <1>5, <2>2
    <3>3. \A i \in RowsOf(b) : rows'[i] = rows[i]
      BY <1>3 DEF RowsOf
    <3> QED BY <3>1, <3>2, <3>3 DEF AuditChain, AccountShowsLastRow
  <2> QED BY <2>1, <2>2
<1> QED BY <1>6, <1>7, <1>8, <1>9 DEF AuditChain

(* A commit overlaps with the commits of the same external id before it.    *)
LEMMA CommitDuplicates ==
  ASSUME TypeOK, CallsCurrent, DuplicatesOverlapped, NEW w \in Workers, Commit(w)
  PROVE  DuplicatesOverlapped'
<1> DEFINE r == NewRow(frame[w])
           n == Len(rows) + 1
<1> USE DEF TypeOK
<1>1. r \in RowType /\ rows' = Append(rows, r)
  BY ComputedTypes DEF Commit
<1>2. /\ DOMAIN rows = 1 .. Len(rows) /\ Len(rows) \in Nat
      /\ DOMAIN rows' = DOMAIN rows \cup {n}
      /\ rows'[n] = r
      /\ \A i \in DOMAIN rows : rows'[i] = rows[i]
  BY <1>1, AppendedRows
<1>3. r.ext = frame[w].call.ext /\ r.checkedAt = frame[w].checked
  BY DEF NewRow
<1>4. frame[w].checked \in Nat
  BY DEF FrameType
<1>5. r.ext # NoExt =>
        \A i \in DOMAIN rows : i <= r.checkedAt => rows[i].ext # r.ext
  BY <1>3 DEF Commit, CallsCurrent
<1>6. \A i \in DOMAIN rows : r.ext # NoExt /\ rows[i].ext = r.ext => r.checkedAt < i
  BY <1>2, <1>3, <1>4, <1>5
<1> QED BY <1>2, <1>6 DEF DuplicatesOverlapped

-----------------------------------------------------------------------------
(* The inductive invariant. *)
IInv == TypeOK /\ CallsCurrent /\ AuditChain /\ DuplicatesOverlapped

LEMMA InvInit == Init => IInv
<1> SUFFICES ASSUME Init PROVE IInv
  OBVIOUS
<1>1. TypeOK
  BY TypeInit
<1>2. DOMAIN rows = {}
  BY DEF Init
<1>3. CallsCurrent
  BY DEF Init, CallsCurrent
<1>4. AuditChain
  BY <1>2 DEF Init, AuditChain, RowAddsUp, ChainLinks, ChainStarts,
              AccountShowsLastRow, RowsOf
<1>5. DuplicatesOverlapped
  BY <1>2 DEF DuplicatesOverlapped
<1> QED BY <1>1, <1>3, <1>4, <1>5 DEF IInv

LEMMA InvStep == IInv /\ [Next]_vars => IInv'
<1> SUFFICES ASSUME IInv, [Next]_vars PROVE IInv'
  OBVIOUS
<1>1. TypeOK'
  BY TypeStep DEF IInv
<1>2. ASSUME NEW w \in Workers, Commit(w) PROVE IInv'
  BY <1>1, <1>2, CommitCalls, CommitChain, CommitDuplicates DEF IInv
<1>3. ASSUME NEW w \in Workers, NEW c \in Calls,
             ReadAccount(w) \/ Write(w) \/ RefuseWrite(w) \/ Fail(w) \/ Check(w, c)
      PROVE  IInv'
  <2>1. UNCHANGED <<rows, account>>
    BY <1>3 DEF ReadAccount, Write, RefuseWrite, Fail, Check, tables
  <2>2. CallsCurrent'
    BY <1>3, QuietCalls DEF IInv
  <2>3. AuditChain'
    BY <2>1 DEF IInv, AuditChain, RowAddsUp, ChainLinks, ChainStarts,
                AccountShowsLastRow, RowsOf
  <2>4. DuplicatesOverlapped'
    BY <2>1 DEF IInv, DuplicatesOverlapped
  <2> QED BY <1>1, <2>2, <2>3, <2>4 DEF IInv
<1>4. CASE UNCHANGED vars
  BY <1>1, <1>4 DEF vars, tables, IInv, CallsCurrent, AuditChain, RowAddsUp,
       ChainLinks, ChainStarts, AccountShowsLastRow, RowsOf, DuplicatesOverlapped
<1>5. \E c \in Calls : TRUE
  BY CallsAssumption
<1> QED BY <1>2, <1>3, <1>4, <1>5 DEF Next, Step, RefuseDuplicate

LEMMA Invariance == Spec => []IInv
BY InvInit, InvStep, PTL DEF Spec

(* The rows of every account form one chain that ends in its balance. *)
THEOREM ChainHolds == Spec => []AuditChain
<1>1. IInv => AuditChain
  BY DEF IInv
<1> QED BY <1>1, Invariance, PTL

(* What a call knows is still true when it writes: see CallsCurrent. *)
THEOREM CallsStayCurrent == Spec => []CallsCurrent
<1>1. IInv => CallsCurrent
  BY DEF IInv
<1> QED BY <1>1, Invariance, PTL

(* An external id is posted again only by a call that overlapped with the   *)
(* first posting.                                                           *)
THEOREM OnlyOverlapsDuplicate == Spec => []DuplicatesOverlapped
<1>1. IInv => DuplicatesOverlapped
  BY DEF IInv
<1> QED BY <1>1, Invariance, PTL

-----------------------------------------------------------------------------
(* A step either commits one call or leaves the rows and the accounts as    *)
(* they are.                                                                *)
LEMMA QuietOrCommit ==
  ASSUME [Next]_vars
  PROVE  (\E w \in Workers : Commit(w)) \/ UNCHANGED <<rows, account>>
BY DEF Next, Step, ReadAccount, Write, RefuseWrite, Fail, Check, RefuseDuplicate,
       vars, tables

(* No committed row is rewritten or removed. *)
THEOREM RowsArePermanent == Spec => AppendOnly
<1>1. ASSUME TypeOK, [Next]_vars
      PROVE  \A i \in DOMAIN rows : i \in DOMAIN rows' /\ rows'[i] = rows[i]
  <2>1. CASE UNCHANGED <<rows, account>>
    BY <2>1
  <2>2. ASSUME NEW w \in Workers, Commit(w)
        PROVE  \A i \in DOMAIN rows : i \in DOMAIN rows' /\ rows'[i] = rows[i]
    <3>1. rows \in Seq(RowType) /\ frame[w] \in FrameType
      BY <1>1 DEF TypeOK
    <3> QED BY <2>2, <3>1, ComputedTypes, AppendedRows DEF Commit
  <2> QED BY <1>1, <2>1, <2>2, QuietOrCommit
<1> QED BY <1>1, TypeCorrect, PTL DEF Spec, AppendOnly

-----------------------------------------------------------------------------
(* Refinement: a commit is a posting of the abstract ledger, and every      *)
(* other step changes nothing that the abstract ledger shows.               *)
LEMMA LedgerInit == Init => Ledger!Init
BY DEF Init, Ledger!Init, NoAccount

LEMMA LedgerPost ==
  ASSUME IInv, NEW w \in Workers, Commit(w)
  PROVE  Ledger!Next
<1>0. PICK c \in Calls : c = frame[w].call
  BY DEF IInv, CallsCurrent, Commit
<1> DEFINE r == NewRow(frame[w])
           shown(x) == [acct |-> x.acct, amount |-> x.amount, ext |-> x.ext]
<1>1. /\ frame[w] \in FrameType /\ c \in CallType
      /\ rows \in Seq(RowType)
      /\ account \in [Accounts -> AccountType]
  BY <1>0, CallsAssumption DEF IInv, TypeOK
<1>2. frame[w].seen = account[c.acct]
  BY <1>0 DEF IInv, CallsCurrent, Commit
<1>3. account' = [account EXCEPT ![c.acct] = NewAccount(frame[w])]
  BY <1>0 DEF Commit
<1>4. NewAccount(frame[w]).balance = account[c.acct].balance + c.amount
  BY <1>0, <1>2 DEF NewAccount, NewBalance
<1>5. c.acct \in Accounts
  BY <1>1 DEF CallType
<1>6. [a \in Accounts |-> account[a].balance]'
        = [[a \in Accounts |-> account[a].balance]
             EXCEPT ![c.acct] = [a \in Accounts |-> account[a].balance][c.acct] + c.amount]
  BY <1>1, <1>3, <1>4, <1>5
<1>7. r \in RowType /\ rows' = Append(rows, r)
  BY <1>1, ComputedTypes DEF Commit
<1>8. shown(r) = shown(c)
  BY <1>0 DEF NewRow
<1>9. [i \in DOMAIN rows |-> shown(rows[i])]'
        = Append([i \in DOMAIN rows |-> shown(rows[i])], shown(c))
  <2> DEFINE h == [i \in DOMAIN rows |-> shown(rows[i])]
             n == Len(rows) + 1
  <2>1. /\ Len(rows) \in Nat /\ DOMAIN rows = 1 .. Len(rows)
        /\ DOMAIN rows' = 1 .. n
        /\ rows'[n] = r
        /\ \A i \in DOMAIN rows : rows'[i] = rows[i]
    BY <1>1, <1>7, AppendedRows
  <2>2. h \in Seq({shown(rows[i]) : i \in DOMAIN rows}) /\ Len(h) = Len(rows)
    BY <2>1
  <2>3. Append(h, shown(c)) = [i \in 1 .. n |-> IF i = n THEN shown(c) ELSE h[i]]
    BY <2>1, <2>2
  <2>4. \A i \in 1 .. n : shown(rows'[i]) = IF i = n THEN shown(c) ELSE h[i]
    BY <1>8, <2>1
  <2> QED BY <2>1, <2>3, <2>4
<1>10. Ledger!Post(c)
  BY <1>6, <1>9 DEF Ledger!Post
<1> QED BY <1>10 DEF Ledger!Next

(* ProcessTransaction is atomic to its callers. *)
THEOREM LedgerImplemented == Spec => ImplementsLedger
<1>1. ASSUME IInv, [Next]_vars
      PROVE  [Ledger!Next]_<<[a \in Accounts |-> account[a].balance],
               [i \in DOMAIN rows |-> [acct |-> rows[i].acct,
                  amount |-> rows[i].amount, ext |-> rows[i].ext]]>>
  <2>1. CASE UNCHANGED <<rows, account>>
    BY <2>1
  <2> QED BY <1>1, <2>1, LedgerPost, QuietOrCommit
<1> QED BY <1>1, LedgerInit, Invariance, PTL DEF Spec, ImplementsLedger, Ledger!Spec
-----------------------------------------------------------------------------
(* What a new row does to the sums over the rows.                           *)
LEMMA SumsOfRows ==
  ASSUME rows \in Seq(RowType), NEW r \in RowType, rows' = Append(rows, r),
         NEW S \in SUBSET DOMAIN rows
  PROVE  /\ IsFiniteSet(S) /\ Cardinality(S) \in Nat
         /\ SumFunctionOnSet(Amounts, S) \in Int
         /\ SumFunctionOnSet(Amounts', S) = SumFunctionOnSet(Amounts, S)
         /\ SumFunctionOnSet(Amounts', S \cup {Len(rows) + 1})
              = SumFunctionOnSet(Amounts, S) + r.amount
         /\ Cardinality(S \cup {Len(rows) + 1}) = Cardinality(S) + 1
<1> DEFINE n == Len(rows) + 1
<1>1. /\ Len(rows) \in Nat /\ DOMAIN rows = 1 .. Len(rows)
      /\ DOMAIN rows' = DOMAIN rows \cup {n}
      /\ rows'[n] = r
      /\ \A i \in DOMAIN rows : rows'[i] = rows[i]
  BY AppendedRows
<1>2. n \notin S /\ n \notin DOMAIN rows
  BY <1>1
<1>3. IsFiniteSet(S) /\ Cardinality(S) \in Nat
  <2>1. IsFiniteSet(1 .. Len(rows))
    BY <1>1, FS_Interval
  <2> QED BY <1>1, <2>1, FS_Subset, FS_CardinalityType
<1>4. r.amount \in Int /\ \A i \in DOMAIN rows : rows[i].amount \in Int
  <2>1. \A i \in DOMAIN rows : rows[i] \in RowType
    BY <1>1
  <2> QED BY <2>1 DEF RowType
<1>5. /\ \A i \in S : Amounts[i] \in Int /\ Amounts'[i] = Amounts[i]
      /\ Amounts'[n] = r.amount
  BY <1>1, <1>4 DEF Amounts
<1> HIDE DEF n
<1>6. SumFunctionOnSet(Amounts, S) \in Int
  BY <1>3, <1>5, SumType
<1>7. SumFunctionOnSet(Amounts', S) = SumFunctionOnSet(Amounts, S)
  BY <1>3, <1>5, SumSame
<1>8. SumFunctionOnSet(Amounts', S \cup {n}) = SumFunctionOnSet(Amounts', S) + Amounts'[n]
  BY <1>2, <1>3, <1>4, <1>5, SumAdd
<1>9. Cardinality(S \cup {n}) = Cardinality(S) + 1
  BY <1>2, <1>3, FS_AddElement
<1> QED BY <1>3, <1>5, <1>6, <1>7, <1>8, <1>9 DEF n

(* A posting adds its amount to the balance and to the history of its       *)
(* account, and one to the version and to the number of its rows.           *)
LEMMA CommitHistory ==
  ASSUME TypeOK, CallsCurrent, AuditChain, BalanceIsHistory,
         NEW w \in Workers, Commit(w)
  PROVE  BalanceIsHistory'
<1>1. /\ frame[w] \in FrameType /\ frame[w].call \in CallType
      /\ account \in [Accounts -> AccountType]
      /\ rows \in Seq(RowType)
  BY DEF TypeOK, FrameType
<1>2. PICK r \in RowType : r = NewRow(frame[w])
  BY <1>1, ComputedTypes
<1>3. PICK a \in Accounts : a = frame[w].call.acct
  BY <1>1 DEF CallType
<1>4. /\ rows' = Append(rows, r)
      /\ r.acct = a /\ r.amount = frame[w].call.amount
  BY <1>2, <1>3 DEF Commit, NewRow
<1>5. /\ Len(rows) \in Nat /\ DOMAIN rows = 1 .. Len(rows)
      /\ DOMAIN rows' = DOMAIN rows \cup {Len(rows) + 1}
      /\ rows'[Len(rows) + 1] = r
      /\ \A i \in DOMAIN rows : rows'[i] = rows[i]
  BY <1>1, <1>4, AppendedRows
<1>6. frame[w].seen = account[a]
  BY <1>3 DEF CallsCurrent, Commit
<1>7. account' = [account EXCEPT ![a] = NewAccount(frame[w])]
  BY <1>3 DEF Commit
<1> SUFFICES ASSUME NEW b \in Accounts
             PROVE  /\ account'[b].balance = HistorySum(b)'
                    /\ RowsOf(b)' # {} =>
                         account'[b].version = Cardinality(RowsOf(b)') + 1
  BY DEF BalanceIsHistory
<1>8. /\ account[b].balance = HistorySum(b)
      /\ RowsOf(b) # {} => account[b].version = Cardinality(RowsOf(b)) + 1
      /\ RowsOf(b) = {} => account[b].version = 0
  BY DEF BalanceIsHistory, AuditChain, AccountShowsLastRow, NoAccount
<1>9. /\ RowsOf(b) \in SUBSET DOMAIN rows
      /\ RowsOf(b)' = IF b = a THEN RowsOf(b) \cup {Len(rows) + 1} ELSE RowsOf(b)
  BY <1>4, <1>5 DEF RowsOf
<1>10. /\ Cardinality(RowsOf(b)) \in Nat
       /\ HistorySum(b) \in Int
       /\ SumFunctionOnSet(Amounts', RowsOf(b)) = HistorySum(b)
       /\ SumFunctionOnSet(Amounts', RowsOf(b) \cup {Len(rows) + 1})
            = HistorySum(b) + r.amount
       /\ Cardinality(RowsOf(b) \cup {Len(rows) + 1}) = Cardinality(RowsOf(b)) + 1
  BY <1>1, <1>4, <1>9, SumsOfRows DEF HistorySum
<1>11. HistorySum(b)' = SumFunctionOnSet(Amounts', RowsOf(b)')
  BY DEF HistorySum
<1>12. CASE b # a
  <2>1. account'[b] = account[b]
    BY <1>1, <1>7, <1>12
  <2> QED BY <1>8, <1>9, <1>10, <1>11, <1>12, <2>1
<1>13. CASE b = a
  <2>1. account'[b] = NewAccount(frame[w])
    BY <1>1, <1>7, <1>13
  <2>2. NewAccount(frame[w]).balance = account[b].balance + r.amount
    BY <1>4, <1>6, <1>13 DEF NewAccount, NewBalance
  <2>3. NewAccount(frame[w]).version = StoredVersion(account[b]) + 1
    BY <1>6, <1>13 DEF NewAccount
  <2>4. StoredVersion(account[b]) = Cardinality(RowsOf(b)) + 1
    <3>1. CASE RowsOf(b) = {}
      BY <1>8, <3>1, FS_EmptySet DEF StoredVersion
    <3>2. CASE RowsOf(b) # {}
      BY <1>8, <1>10, <3>2 DEF StoredVersion
    <3> QED BY <3>1, <3>2
  <2> QED BY <1>8, <1>9, <1>10, <1>11, <1>13, <2>1, <2>2, <2>3, <2>4
<1> QED BY <1>12, <1>13

(* An entry of the journal fits its columns. *)
LEMMA EntryFits ==
  ASSUME NEW n \in Nat, NEW a \in Accounts, NEW d \in Int, NEW k \in Int
  PROVE  /\ [row |-> n, side |-> "user_asset", acct |-> a,
             debit |-> d, credit |-> k] \in EntryType
         /\ [row |-> n, side |-> "system_liability", acct |-> a,
             debit |-> d, credit |-> k] \in EntryType
BY DEF EntryType

(* What the journal entries of a row do to the sums over the journal.       *)
LEMMA SumsOfEntries ==
  ASSUME journal \in Seq(EntryType), NEW n \in Nat, NEW c \in CallType,
         journal' = journal \o Entries(n, c), NEW b \in Accounts
  PROVE  LET moves == IF b = c.acct /\ c.kind # "other" THEN c.amount ELSE 0
         IN /\ NetDebit(b, "user_asset") \in Int
            /\ NetDebit(b, "system_liability") \in Int
            /\ NetDebit(b, "user_asset")' = NetDebit(b, "user_asset") + moves
            /\ NetDebit(b, "system_liability")' = NetDebit(b, "system_liability") - moves
<1> DEFINE m == Len(journal)
           U == EntriesOf(b, "user_asset")
           L == EntriesOf(b, "system_liability")
           Sum(S) == SumFunctionOnSet(NetDebits, S)
<1>1. /\ m \in Nat /\ DOMAIN journal = 1 .. m
      /\ U \in SUBSET DOMAIN journal /\ L \in SUBSET DOMAIN journal
  BY DEF EntriesOf
<1>2. IsFiniteSet(U) /\ IsFiniteSet(L)
  <2>1. IsFiniteSet(1 .. m)
    BY <1>1, FS_Interval
  <2> QED BY <1>1, <2>1, FS_Subset
<1>3. \A k \in DOMAIN journal : NetDebits[k] \in Int
  <2>1. \A k \in DOMAIN journal : journal[k] \in EntryType
    BY <1>1
  <2> QED BY <2>1 DEF NetDebits, EntryType
<1>4. c.acct \in Accounts /\ c.amount \in Int /\ c.kind \in Kinds
  BY DEF CallType
<1>5. Sum(U) \in Int /\ Sum(L) \in Int
  <2> HIDE DEF U, L
  <2> QED BY <1>1, <1>2, <1>3, SumType
<1>6. CASE c.kind = "other"
  <2>1. Entries(n, c) = << >>
    BY <1>6 DEF Entries
  <2>2. journal' = journal
    BY <2>1
  <2>3. /\ NetDebit(b, "user_asset")' = NetDebit(b, "user_asset")
        /\ NetDebit(b, "system_liability")' = NetDebit(b, "system_liability")
    BY <2>2 DEF NetDebit, NetDebits, EntriesOf
  <2> QED BY <1>5, <1>6, <2>3 DEF NetDebit
<1>7. CASE c.kind # "other"
  <2>1. PICK e, g \in EntryType :
          /\ Entries(n, c) = <<e, g>>
          /\ e.side = "user_asset" /\ g.side = "system_liability"
          /\ e.acct = c.acct /\ g.acct = c.acct
          /\ e.debit - e.credit = c.amount
          /\ g.debit - g.credit = -c.amount
    <3>0. /\ -c.amount \in Int /\ 0 \in Int
          /\ 0 - (-c.amount) = c.amount /\ 0 - c.amount = -c.amount
          /\ c.amount - 0 = c.amount /\ -c.amount - 0 = -c.amount
      BY <1>4
    <3>1. CASE c.kind = "deposit"
      <4>1. PICK e \in EntryType :
              /\ e = [row |-> n, side |-> "user_asset", acct |-> c.acct,
                      debit |-> c.amount, credit |-> 0]
              /\ e.side = "user_asset" /\ e.acct = c.acct
              /\ e.debit - e.credit = c.amount - 0
        BY <1>4, <3>0, EntryFits, Zenon
      <4>2. PICK g \in EntryType :
              /\ g = [row |-> n, side |-> "system_liability", acct |-> c.acct,
                      debit |-> 0, credit |-> c.amount]
              /\ g.side = "system_liability" /\ g.acct = c.acct
              /\ g.debit - g.credit = 0 - c.amount
        BY <1>4, <3>0, EntryFits, Zenon
      <4>3. Entries(n, c) = <<e, g>>
        BY <3>1, <4>1, <4>2 DEF Entries
      <4> QED BY <3>0, <4>1, <4>2, <4>3
    <3>2. CASE c.kind = "withdrawal"
      <4>1. PICK e \in EntryType :
              /\ e = [row |-> n, side |-> "user_asset", acct |-> c.acct,
                      debit |-> 0, credit |-> -c.amount]
              /\ e.side = "user_asset" /\ e.acct = c.acct
              /\ e.debit - e.credit = 0 - (-c.amount)
        BY <1>4, <3>0, EntryFits, Zenon
      <4>2. PICK g \in EntryType :
              /\ g = [row |-> n, side |-> "system_liability", acct |-> c.acct,
                      debit |-> -c.amount, credit |-> 0]
              /\ g.side = "system_liability" /\ g.acct = c.acct
              /\ g.debit - g.credit = -c.amount - 0
        BY <1>4, <3>0, EntryFits, Zenon
      <4>3. Entries(n, c) = <<e, g>>
        BY <3>2, <4>1, <4>2 DEF Entries
      <4> QED BY <3>0, <4>1, <4>2, <4>3
    <3> QED BY <1>4, <1>7, <3>1, <3>2 DEF Kinds
  <2>2. /\ DOMAIN journal' = DOMAIN journal \cup {m + 1, m + 2}
        /\ journal'[m + 1] = e /\ journal'[m + 2] = g
        /\ \A k \in DOMAIN journal : journal'[k] = journal[k]
    <3>1. journal' = journal \o <<e, g>>
      BY <2>1
    <3>2. /\ <<e, g>> \in Seq(EntryType) /\ Len(<<e, g>>) = 2
          /\ <<e, g>>[1] = e /\ <<e, g>>[2] = g
      OBVIOUS
    <3>3. /\ Len(journal') = m + 2 /\ DOMAIN journal' = 1 .. Len(journal')
          /\ \A k \in 1 .. m + 2 :
               journal'[k] = IF k <= m THEN journal[k] ELSE <<e, g>>[k - m]
      BY <1>1, <3>1, <3>2
    <3>4. journal'[m + 1] = e /\ journal'[m + 2] = g
      <4>1. m + 1 - m = 1 /\ m + 2 - m = 2 /\ ~(m + 1 <= m) /\ ~(m + 2 <= m)
            /\ m + 1 \in 1 .. m + 2 /\ m + 2 \in 1 .. m + 2
        BY <1>1
      <4> QED BY <3>2, <3>3, <4>1
    <3>5. DOMAIN journal' = DOMAIN journal \cup {m + 1, m + 2}
      BY <1>1, <3>3
    <3>6. \A k \in DOMAIN journal : journal'[k] = journal[k]
      BY <1>1, <3>3
    <3> QED BY <3>4, <3>5, <3>6
  <2>3. /\ \A k \in DOMAIN journal : NetDebits'[k] = NetDebits[k]
        /\ NetDebits'[m + 1] = c.amount /\ NetDebits'[m + 2] = -c.amount
    BY <1>1, <2>1, <2>2 DEF NetDebits
  <2>4. /\ EntriesOf(b, "user_asset")' = IF b = c.acct THEN U \cup {m + 1} ELSE U
        /\ EntriesOf(b, "system_liability")' = IF b = c.acct THEN L \cup {m + 2} ELSE L
    <3>1. \A k : k \in EntriesOf(b, "user_asset")' <=>
            /\ k \in DOMAIN journal'
            /\ journal'[k].acct = b /\ journal'[k].side = "user_asset"
      BY DEF EntriesOf
    <3>2. \A k : k \in EntriesOf(b, "system_liability")' <=>
            /\ k \in DOMAIN journal'
            /\ journal'[k].acct = b /\ journal'[k].side = "system_liability"
      BY DEF EntriesOf
    <3>3. /\ journal'[m + 1].acct = c.acct /\ journal'[m + 1].side = "user_asset"
          /\ journal'[m + 2].acct = c.acct /\ journal'[m + 2].side = "system_liability"
      BY <2>1, <2>2
    <3>4. \A k \in DOMAIN journal :
            /\ k \in U <=> journal'[k].acct = b /\ journal'[k].side = "user_asset"
            /\ k \in L <=> journal'[k].acct = b /\ journal'[k].side = "system_liability"
      BY <2>2 DEF EntriesOf
    <3>5. \A k : k \in U => k \in DOMAIN journal
      BY <1>1
    <3>6. \A k : k \in L => k \in DOMAIN journal
      BY <1>1
    <3>7. \A k : k \in DOMAIN journal' <=> k \in DOMAIN journal \/ k = m + 1 \/ k = m + 2
      BY <2>2
    <3> HIDE DEF U, L
    <3>8. CASE b = c.acct
      <4>1. EntriesOf(b, "user_asset")' = U \cup {m + 1}
        BY <3>1, <3>3, <3>4, <3>8, <3>5, <3>7
      <4>2. EntriesOf(b, "system_liability")' = L \cup {m + 2}
        BY <3>2, <3>3, <3>4, <3>8, <3>6, <3>7
      <4> QED BY <3>8, <4>1, <4>2
    <3>9. CASE b # c.acct
      <4>1. EntriesOf(b, "user_asset")' = U
        BY <3>1, <3>3, <3>4, <3>9, <3>5, <3>7
      <4>2. EntriesOf(b, "system_liability")' = L
        BY <3>2, <3>3, <3>4, <3>9, <3>6, <3>7
      <4> QED BY <3>9, <4>1, <4>2
    <3> QED BY <3>8, <3>9
  <2> HIDE DEF U, L
  <2>5. SumFunctionOnSet(NetDebits', U) = Sum(U) /\ SumFunctionOnSet(NetDebits', L) = Sum(L)
    BY <1>1, <1>2, <2>3, SumSame
  <2>6. SumFunctionOnSet(NetDebits', U \cup {m + 1}) = Sum(U) + c.amount
    BY <1>1, <1>2, <1>3, <1>4, <2>3, <2>5, SumAdd
  <2>7. SumFunctionOnSet(NetDebits', L \cup {m + 2}) = Sum(L) - c.amount
    <3>1. m + 2 \notin L /\ -c.amount \in Int
      BY <1>1, <1>4
    <3>2. \A k \in L \cup {m + 2} : NetDebits'[k] \in Int
      BY <1>1, <1>3, <2>3, <3>1
    <3>3. SumFunctionOnSet(NetDebits', L \cup {m + 2}) = Sum(L) + NetDebits'[m + 2]
      BY <1>2, <2>5, <3>1, <3>2, SumAdd
    <3> QED BY <1>4, <1>5, <2>3, <3>3
  <2>8. /\ NetDebit(b, "user_asset")' = SumFunctionOnSet(NetDebits', EntriesOf(b, "user_asset")')
        /\ NetDebit(b, "system_liability")'
             = SumFunctionOnSet(NetDebits', EntriesOf(b, "system_liability")')
        /\ NetDebit(b, "user_asset") = Sum(U) /\ NetDebit(b, "system_liability") = Sum(L)
    BY DEF NetDebit, U, L
  <2>9. CASE b = c.acct
    BY <1>5, <1>7, <2>4, <2>6, <2>7, <2>8, <2>9
  <2>10. CASE b # c.acct
    BY <1>4, <1>5, <2>4, <2>5, <2>8, <2>10
  <2> QED BY <2>9, <2>10
<1> QED BY <1>6, <1>7

(* A posting moves as much in the journal as in the rows of its account.    *)
LEMMA CommitJournal ==
  ASSUME TypeOK, JournalMirrorsRows, NEW w \in Workers, Commit(w)
  PROVE  JournalMirrorsRows'
<1>1. /\ frame[w] \in FrameType
      /\ journal \in Seq(EntryType)
      /\ rows \in Seq(RowType)
  BY DEF TypeOK
<1>2. PICK r \in RowType : r = NewRow(frame[w])
  BY <1>1, ComputedTypes
<1>3. PICK c \in CallType : c = frame[w].call
  BY <1>1 DEF FrameType
<1>4. /\ rows' = Append(rows, r)
      /\ journal' = journal \o Entries(Len(rows) + 1, c)
      /\ r.acct = c.acct /\ r.amount = c.amount /\ r.kind = c.kind
  BY <1>2, <1>3 DEF Commit, NewRow
<1>5. /\ Len(rows) \in Nat /\ DOMAIN rows = 1 .. Len(rows)
      /\ DOMAIN rows' = DOMAIN rows \cup {Len(rows) + 1}
      /\ rows'[Len(rows) + 1] = r
      /\ \A i \in DOMAIN rows : rows'[i] = rows[i]
  BY <1>1, <1>4, AppendedRows
<1> SUFFICES ASSUME NEW b \in Accounts
             PROVE  /\ NetDebit(b, "user_asset")' = Moved(b)'
                    /\ NetDebit(b, "system_liability")' = -Moved(b)'
  BY DEF JournalMirrorsRows
<1> DEFINE moves == IF b = c.acct /\ c.kind # "other" THEN c.amount ELSE 0
           S == {i \in RowsOf(b) : rows[i].kind # "other"}
<1>6. /\ NetDebit(b, "user_asset")' = NetDebit(b, "user_asset") + moves
      /\ NetDebit(b, "system_liability")' = NetDebit(b, "system_liability") - moves
  <2>1. PICK n \in Nat : n = Len(rows) + 1
    BY <1>5
  <2> QED BY <1>1, <1>4, <2>1, SumsOfEntries
<1>7. /\ S \in SUBSET DOMAIN rows
      /\ {i \in RowsOf(b) : rows[i].kind # "other"}'
           = IF b = c.acct /\ c.kind # "other" THEN S \cup {Len(rows) + 1} ELSE S
  BY <1>4, <1>5 DEF RowsOf
<1>8. c.amount \in Int
  BY DEF CallType
<1>9. Moved(b) = SumFunctionOnSet(Amounts, S)
  BY DEF Moved
<1>10. Moved(b)' = SumFunctionOnSet(Amounts', {i \in RowsOf(b) : rows[i].kind # "other"}')
  BY DEF Moved
<1> HIDE DEF S
<1>11. Moved(b) \in Int /\ Moved(b)' = Moved(b) + moves
  <2>1. /\ SumFunctionOnSet(Amounts, S) \in Int
        /\ SumFunctionOnSet(Amounts', S) = SumFunctionOnSet(Amounts, S)
        /\ SumFunctionOnSet(Amounts', S \cup {Len(rows) + 1})
             = SumFunctionOnSet(Amounts, S) + c.amount
    BY <1>1, <1>4, <1>7, SumsOfRows
  <2>2. CASE b = c.acct /\ c.kind # "other"
    BY <1>7, <1>9, <1>10, <2>1, <2>2
  <2>3. CASE ~(b = c.acct /\ c.kind # "other")
    <3>1. moves = 0
      BY <2>3
    <3>2. Moved(b)' = SumFunctionOnSet(Amounts', S)
      BY <1>7, <1>10, <2>3
    <3> HIDE DEF moves
    <3> QED BY <1>9, <2>1, <3>1, <3>2
  <2> QED BY <2>2, <2>3
<1> QED BY <1>6, <1>8, <1>11 DEF JournalMirrorsRows
-----------------------------------------------------------------------------
(* A step that leaves the tables alone keeps the sums; only a commit does   *)
(* not.                                                                     *)
SumsInv == IInv /\ BalanceIsHistory /\ JournalMirrorsRows

LEMMA QuietOrCommitTables ==
  ASSUME [Next]_vars
  PROVE  (\E w \in Workers : Commit(w)) \/ UNCHANGED tables
BY DEF Next, Step, ReadAccount, Write, RefuseWrite, Fail, Check, RefuseDuplicate,
       vars, tables

LEMMA SumsInit == Init => SumsInv
<1> SUFFICES ASSUME Init PROVE SumsInv
  OBVIOUS
<1>1. DOMAIN rows = {} /\ DOMAIN journal = {}
  BY DEF Init
<1>2. ASSUME NEW a \in Accounts
      PROVE  /\ RowsOf(a) = {} /\ {i \in RowsOf(a) : rows[i].kind # "other"} = {}
             /\ EntriesOf(a, "user_asset") = {} /\ EntriesOf(a, "system_liability") = {}
  BY <1>1 DEF RowsOf, EntriesOf
<1>3. BalanceIsHistory
  BY <1>2, SumEmpty DEF Init, NoAccount, BalanceIsHistory, HistorySum
<1>4. ASSUME NEW a \in Accounts
      PROVE  /\ Moved(a) = 0 /\ NetDebit(a, "user_asset") = 0
             /\ NetDebit(a, "system_liability") = 0
  BY <1>2, SumEmpty DEF Moved, NetDebit
<1>5. JournalMirrorsRows
  BY <1>4 DEF JournalMirrorsRows
<1> QED BY <1>3, <1>5, InvInit DEF SumsInv

LEMMA SumsStep == SumsInv /\ [Next]_vars => SumsInv'
<1> SUFFICES ASSUME SumsInv, [Next]_vars PROVE SumsInv'
  OBVIOUS
<1>1. IInv'
  BY InvStep DEF SumsInv
<1>2. ASSUME NEW w \in Workers, Commit(w) PROVE SumsInv'
  BY <1>1, <1>2, CommitHistory, CommitJournal DEF SumsInv, IInv
<1>3. CASE UNCHANGED tables
  <2>1. BalanceIsHistory'
    BY <1>3 DEF tables, SumsInv, BalanceIsHistory, HistorySum, Amounts, RowsOf
  <2>2. \A a \in Accounts :
          /\ UNCHANGED Moved(a)
          /\ UNCHANGED NetDebit(a, "user_asset")
          /\ UNCHANGED NetDebit(a, "system_liability")
    BY <1>3 DEF tables, Moved, Amounts, RowsOf, NetDebit, NetDebits, EntriesOf
  <2>3. JournalMirrorsRows'
    BY <2>2 DEF SumsInv, JournalMirrorsRows
  <2> QED BY <1>1, <2>1, <2>3 DEF SumsInv
<1> QED BY <1>2, <1>3, QuietOrCommitTables

LEMMA SumsHold == Spec => []SumsInv
BY SumsInit, SumsStep, PTL DEF Spec

(* The balance of an account is the sum of its history, and its version     *)
(* counts the rows.                                                         *)
THEOREM BalanceSumsHistory == Spec => []BalanceIsHistory
<1>1. SumsInv => BalanceIsHistory
  BY DEF SumsInv
<1> QED BY <1>1, SumsHold, PTL

(* The double-entry journal carries what the rows moved, on both its sides. *)
THEOREM JournalBalances == Spec => []JournalMirrorsRows
<1>1. SumsInv => JournalMirrorsRows
  BY DEF SumsInv
<1> QED BY <1>1, SumsHold, PTL

-----------------------------------------------------------------------------
(* Reconciliation.  What an auditor that is between its two reads holds is  *)
(* the sum of the rows that were there at its first one; a report speaks of *)
(* rows that are there, and what lies between its two reads decided it.     *)
RowsBetween(a, m, n) == {i \in RowsOf(a) : m < i /\ i <= n}

AuditType == [acct : Accounts, balance : Int, from : Nat, to : Nat,
              verdict : {"none", "reading", "match", "mismatch"}]

AuditTypeOK == audit \in [Auditors -> AuditType]

AuditFits(x) ==
  /\ x.verdict = "reading" =>
       /\ x.from <= Len(rows)
       /\ x.balance = SumFunctionOnSet(Amounts, RowsBetween(x.acct, 0, x.from))
  /\ x.verdict = "match" =>
       /\ x.to <= Len(rows)
       /\ SumFunctionOnSet(Amounts, RowsBetween(x.acct, x.from, x.to)) = 0
  /\ x.verdict = "mismatch" => \E i \in RowsOf(x.acct) : x.from < i /\ i <= x.to

AuditInv == SumsInv /\ AuditTypeOK /\ \A r \in Auditors : AuditFits(audit[r])

LEMMA AuditInitInv == AuditInit => AuditInv
<1> SUFFICES ASSUME AuditInit PROVE AuditInv
  OBVIOUS
<1>1. \A a \in Accounts : NoAudit(a) \in AuditType /\ NoAudit(a).verdict = "none"
  BY DEF NoAudit, AuditType
<1>2. AuditTypeOK
  BY <1>1 DEF AuditInit, AuditTypeOK, AuditType
<1>3. \A r \in Auditors : audit[r].verdict = "none"
  BY <1>1 DEF AuditInit
<1> QED BY <1>2, <1>3, SumsInit DEF AuditInit, AuditInv, AuditFits

(* The history up to the end is the history up to the first read and what   *)
(* came after it.                                                           *)
LEMMA HistorySplit ==
  ASSUME TypeOK, NEW a \in Accounts, NEW m \in Nat, m <= Len(rows)
  PROVE  /\ RowsBetween(a, 0, Len(rows)) = RowsOf(a)
         /\ SumFunctionOnSet(Amounts, RowsBetween(a, 0, m)) \in Int
         /\ SumFunctionOnSet(Amounts, RowsBetween(a, m, Len(rows))) \in Int
         /\ HistorySum(a) = SumFunctionOnSet(Amounts, RowsBetween(a, 0, m))
                            + SumFunctionOnSet(Amounts, RowsBetween(a, m, Len(rows)))
<1> DEFINE S == RowsBetween(a, 0, m)
           T == RowsBetween(a, m, Len(rows))
<1>1. /\ rows \in Seq(RowType) /\ Len(rows) \in Nat
      /\ DOMAIN rows = 1 .. Len(rows)
      /\ \A i \in DOMAIN rows : rows[i] \in RowType
  BY DEF TypeOK
<1>2. /\ S \in SUBSET (1 .. Len(rows)) /\ T \in SUBSET (1 .. Len(rows))
      /\ S \cup T = RowsOf(a) /\ S \cap T = {}
      /\ RowsBetween(a, 0, Len(rows)) = RowsOf(a)
  BY <1>1 DEF RowsOf, RowsBetween
<1>3. IsFiniteSet(S) /\ IsFiniteSet(T)
  <2>1. IsFiniteSet(1 .. Len(rows))
    BY <1>1, FS_Interval
  <2> QED BY <1>2, <2>1, FS_Subset
<1>4. \A i \in S \cup T : Amounts[i] \in Int
  BY <1>1, <1>2 DEF Amounts, RowType
<1> HIDE DEF S, T
<1>5. SumFunctionOnSet(Amounts, S) \in Int /\ SumFunctionOnSet(Amounts, T) \in Int
  BY <1>3, <1>4, SumType
<1>6. SumFunctionOnSet(Amounts, S \cup T)
        = SumFunctionOnSet(Amounts, S) + SumFunctionOnSet(Amounts, T)
  BY <1>2, <1>3, <1>4, SumUnion
<1> QED BY <1>2, <1>5, <1>6 DEF HistorySum, S, T

(* A posting during an audit leaves the rows up to any earlier end as they  *)
(* were, so what fitted goes on fitting.                                    *)
LEMMA AuditsKeepFitting ==
  ASSUME TypeOK, [Next]_vars, NEW x \in AuditType, AuditFits(x)
  PROVE  AuditFits(x)'
<1>1. CASE UNCHANGED tables
  BY <1>1 DEF tables, AuditFits, RowsBetween, RowsOf, Amounts
<1>2. ASSUME NEW w \in Workers, Commit(w) PROVE AuditFits(x)'
  <2>1. rows \in Seq(RowType) /\ frame[w] \in FrameType
    BY DEF TypeOK
  <2>2. PICK y \in RowType : rows' = Append(rows, y)
    BY <1>2, <2>1, ComputedTypes DEF Commit
  <2>3. /\ Len(rows) \in Nat /\ DOMAIN rows = 1 .. Len(rows)
        /\ Len(rows') = Len(rows) + 1
        /\ DOMAIN rows' = DOMAIN rows \cup {Len(rows) + 1}
        /\ \A i \in DOMAIN rows : rows'[i] = rows[i]
    BY <2>1, <2>2, AppendedRows
  <2>4. \A a : \A m, n \in Nat :
          n <= Len(rows) => /\ RowsBetween(a, m, n)' = RowsBetween(a, m, n)
                            /\ RowsBetween(a, m, n) \in SUBSET DOMAIN rows
    BY <2>3 DEF RowsBetween, RowsOf
  <2>5. \A a : \A m, n \in Nat :
          n <= Len(rows) => SumFunctionOnSet(Amounts', RowsBetween(a, m, n)')
                              = SumFunctionOnSet(Amounts, RowsBetween(a, m, n))
    BY <2>1, <2>2, <2>4, SumsOfRows
  <2>6. x.from \in Nat /\ x.to \in Nat
    BY DEF AuditType
  <2>7. x.verdict = "mismatch" => \E i \in RowsOf(x.acct)' : x.from < i /\ i <= x.to
    BY <2>3 DEF AuditFits, RowsOf
  <2>8. x.verdict = "reading" =>
          /\ x.from <= Len(rows')
          /\ x.balance = SumFunctionOnSet(Amounts', RowsBetween(x.acct, 0, x.from)')
    BY <2>3, <2>5, <2>6 DEF AuditFits
  <2>9. x.verdict = "match" =>
          /\ x.to <= Len(rows')
          /\ SumFunctionOnSet(Amounts', RowsBetween(x.acct, x.from, x.to)') = 0
    BY <2>3, <2>5, <2>6 DEF AuditFits
  <2> QED BY <2>7, <2>8, <2>9 DEF AuditFits
<1> QED BY <1>1, <1>2, QuietOrCommitTables

(* One auditor gets a record that fits; the others keep theirs. *)
LEMMA AuditsStay ==
  ASSUME AuditInv, [Next]_vars, UNCHANGED audit
  PROVE  AuditInv'
<1>1. SumsInv'
  BY SumsStep DEF AuditInv
<1>2. ASSUME NEW r \in Auditors PROVE AuditFits(audit[r])'
  <2>1. PICK x \in AuditType : x = audit[r]
    BY DEF AuditInv, AuditTypeOK, AuditType
  <2>2. AuditFits(x)'
    BY <2>1, AuditsKeepFitting DEF AuditInv, SumsInv, IInv
  <2>3. x = audit'[r]
    BY <2>1
  <2> QED BY <2>2, <2>3 DEF AuditFits
<1> QED BY <1>1, <1>2 DEF AuditInv, AuditTypeOK

LEMMA AuditMoves ==
  ASSUME AuditInv, UNCHANGED vars, NEW r \in Auditors, NEW x \in AuditType, AuditFits(x),
         audit' = [audit EXCEPT ![r] = x]
  PROVE  AuditInv'
<1>1. SumsInv'
  BY SumsStep DEF AuditInv
<1>2. AuditTypeOK'
  BY DEF AuditInv, AuditTypeOK, AuditType
<1>3. ASSUME NEW s \in Auditors PROVE AuditFits(audit[s])'
  <2>1. PICK y \in AuditType : y = audit'[s] /\ AuditFits(y)
    BY DEF AuditInv, AuditTypeOK, AuditType
  <2>2. AuditFits(y)'
    BY <2>1, AuditsKeepFitting DEF AuditInv, SumsInv, IInv
  <2> QED BY <2>1, <2>2 DEF AuditFits
<1> QED BY <1>1, <1>2, <1>3 DEF AuditInv

(* The first query finds the sum of the rows up to now. *)
LEMMA ReadBalanceInv ==
  ASSUME AuditInv, NEW r \in Auditors, NEW a \in Accounts, ReadBalance(r, a)
  PROVE  AuditInv'
<1>1. PICK x : x = [NoAudit(a) EXCEPT !.balance = account[a].balance,
                                      !.from = Len(rows), !.verdict = "reading"]
  OBVIOUS
<1>2. audit' = [audit EXCEPT ![r] = x] /\ UNCHANGED vars
  BY <1>1 DEF ReadBalance
<1>3. account[a].balance \in Int /\ Len(rows) \in Nat /\ TypeOK
  BY DEF AuditInv, SumsInv, IInv, TypeOK, AccountType
<1>4. /\ x.acct = a /\ x.balance = account[a].balance /\ x.from = Len(rows)
      /\ x.verdict = "reading"
      /\ x \in AuditType
  BY <1>1, <1>3 DEF NoAudit, AuditType
<1>5. account[a].balance = SumFunctionOnSet(Amounts, RowsBetween(a, 0, Len(rows)))
  <2>1. account[a].balance = HistorySum(a)
    BY DEF AuditInv, SumsInv, BalanceIsHistory
  <2> QED BY <1>3, <2>1, HistorySplit DEF HistorySum
<1>6. AuditFits(x)
  BY <1>3, <1>4, <1>5 DEF AuditFits
<1> QED BY <1>2, <1>4, <1>6, AuditMoves

(* The second query is right about the rows of both reads, so the verdict   *)
(* is about what came between them.                                         *)
LEMMA SumHistoryInv ==
  ASSUME AuditInv, NEW r \in Auditors, SumHistory(r)
  PROVE  AuditInv'
<1>0. PICK y \in AuditType : y = audit[r]
  BY DEF AuditInv, AuditTypeOK, AuditType
<1>1. PICK x : x = [y EXCEPT !.to = Len(rows),
                      !.verdict = IF y.balance = HistorySum(y.acct)
                                  THEN "match" ELSE "mismatch"]
  OBVIOUS
<1>2. audit' = [audit EXCEPT ![r] = x] /\ UNCHANGED vars
  BY <1>0, <1>1 DEF SumHistory, AuditInv, AuditTypeOK
<1>3. Len(rows) \in Nat /\ TypeOK
  BY DEF AuditInv, SumsInv, IInv, TypeOK
<1>4. /\ x.acct = y.acct /\ x.from = y.from /\ x.to = Len(rows)
      /\ x.verdict = IF y.balance = HistorySum(y.acct) THEN "match" ELSE "mismatch"
      /\ x \in AuditType
  BY <1>1, <1>3 DEF AuditType
<1>5. /\ y.acct \in Accounts /\ y.from \in Nat /\ y.from <= Len(rows)
      /\ y.balance = SumFunctionOnSet(Amounts, RowsBetween(y.acct, 0, y.from))
  BY <1>0 DEF SumHistory, AuditInv, AuditFits, AuditType
<1> DEFINE later == SumFunctionOnSet(Amounts, RowsBetween(y.acct, y.from, Len(rows)))
<1>6. y.balance = HistorySum(y.acct) <=> later = 0
  <2>1. /\ SumFunctionOnSet(Amounts, RowsBetween(y.acct, 0, y.from)) \in Int
        /\ later \in Int
        /\ HistorySum(y.acct)
             = SumFunctionOnSet(Amounts, RowsBetween(y.acct, 0, y.from)) + later
    BY <1>3, <1>5, HistorySplit
  <2> HIDE DEF later
  <2> QED BY <1>5, <2>1
<1>7. later # 0 => \E i \in RowsOf(y.acct) : y.from < i /\ i <= Len(rows)
  <2> SUFFICES ASSUME later # 0
               PROVE  \E i \in RowsOf(y.acct) : y.from < i /\ i <= Len(rows)
    OBVIOUS
  <2>1. RowsBetween(y.acct, y.from, Len(rows)) # {}
    BY SumEmpty
  <2> QED BY <2>1 DEF RowsBetween
<1>8. AuditFits(x)
  BY <1>3, <1>4, <1>6, <1>7 DEF AuditFits
<1> QED BY <1>2, <1>4, <1>8, AuditMoves

LEMMA AuditStep == AuditInv /\ [AuditNext]_auditVars => AuditInv'
<1>1. ASSUME AuditInv, UNCHANGED auditVars PROVE AuditInv'
  BY <1>1, AuditsStay DEF auditVars
<1> QED BY <1>1, ReadBalanceInv, SumHistoryInv, AuditsStay DEF AuditNext

LEMMA AuditsHold == AuditSpec => []AuditInv
BY AuditInitInv, AuditStep, PTL DEF AuditSpec

(* An audit only reads: whatever holds of the postings alone holds with     *)
(* auditors beside them.                                                    *)
THEOREM AuditsOnlyRead == AuditSpec => Spec
<1>1. [AuditNext]_auditVars => [Next]_vars
  BY DEF AuditNext, auditVars, ReadBalance, SumHistory
<1> QED BY <1>1, PTL DEF AuditSpec, Spec, AuditInit

(* ReconcileBalance reports a mismatch only when the account was posted to  *)
(* between its two reads.                                                   *)
THEOREM AlarmsComeFromInterleaving == AuditSpec => []AlarmMeansInterleaving
<1>1. AuditInv => AlarmMeansInterleaving
  BY DEF AuditInv, AuditFits, AlarmMeansInterleaving
<1> QED BY <1>1, AuditsHold, PTL

(* What was posted between the two reads of a clean report cancels out.     *)
THEOREM ReportsAreTrue == AuditSpec => []ReportVouches
<1>1. AuditInv => ReportVouches
  BY DEF AuditInv, AuditFits, ReportVouches, RowsBetween
<1> QED BY <1>1, AuditsHold, PTL
=============================================================================
