SPECIFICATION FlowSpec
CONSTANTS
  wUSDC = wUSDC
  wUSDC2 = wUSDC2
  u1 = u1
  k1 = k1
  k2 = k2
  r1 = r1
  r2 = r2
  d1 = d1
  Wallets = {wUSDC}
  Users <- MCUsers
  Keys <- MCKeys
  Nobody = nobody
  NoAddress = noAddress
  NoKey = noKey
  Scenes = {}
  Txs = {r1}
  Runs = {r1}
  Info <- OneRun
  Opening = 1
  TwoPhase = FALSE
  Lookback = 1
  PollBudget = 1
  MaxTime = 0
  MaxFaults = 0
INVARIANT NoDoubleDebit
