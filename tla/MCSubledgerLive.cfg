SPECIFICATION FairSpec
CONSTANTS
  Workers = {w1, w2}
  NoWorker = nobody
  a1 = a1
  a2 = a2
  e1 = e1
  e2 = e2
  e3 = e3
  none = none
  Accounts <- MCAccounts
  ExtIds <- MCExtIds
  NoExt <- none
  Calls <- MCRetried
  MaxRows = 4
PROPERTY RetriesSucceed
CHECK_DEADLOCK FALSE
