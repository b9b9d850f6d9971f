SPECIFICATION FairSpec
CONSTANTS
  wUSDC = wUSDC
  wUSD = wUSD
  u1 = u1
  u2 = u2
  k1 = k1
  d1 = d1
  t1 = t1
  c1 = c1
  x1 = x1
  Users <- MCUsers
  Keys <- MCKeys
  Nobody = nobody
  NoAddress = noAddress
  NoKey = noKey
  Wallets = {wUSDC}
  Txs = {d1}
  Scenes = {{d1}}
  Info <- OneDeposit
  TwoPhase = FALSE
  Lookback = 2
  PollBudget = 1
  MaxTime = 0
  MaxFaults = 0
PROPERTY ImportedIsCredited
