SPECIFICATION Spec
CONSTANTS
  wUSDC = wUSDC
  wUSD = wUSD
  u1 = u1
  u2 = u2
  k1 = k1
  d1 = d1
  t1 = t1
  c1 = c1
  x1 = x1
  Users <- MCUsers
  Keys <- MCKeys
  Nobody = nobody
  NoAddress = noAddress
  NoKey = noKey
  Wallets = {wUSDC, wUSD}
  Txs = {d1, c1, t1, x1}
  Scenes = {{d1, c1}, {t1, x1}}
  Info <- AllTxs
  TwoPhase = FALSE
  Lookback = 1
  PollBudget = 1
  MaxTime = 2
  MaxFaults = 2
INVARIANTS
  TypeOK
  MarkMeansRecorded
  PostedOnce
  JustifiedByPrime
  LegsInOrder
  FailureCancels
  JobsCurrent
