SPECIFICATION AuditSpec
CONSTANTS
  Workers = {w1, w2}
  NoWorker = nobody
  Auditors = {r1}
  a1 = a1
  a2 = a2
  e1 = e1
  e2 = e2
  e3 = e3
  none = none
  Accounts <- MCAccounts
  ExtIds <- MCExtIds
  NoExt <- none
  Calls <- MCCalls
  MaxRows = 3
SYMMETRY Symmetry
INVARIANTS
  TypeOK
  CallsCurrent
  AuditChain
  DuplicatesOverlapped
  BalanceIsHistory
  JournalMirrorsRows
  AlarmMeansInterleaving
  ReportVouches
PROPERTIES
  AppendOnly
  ImplementsLedger
