SPECIFICATION FlowSpec
CONSTANTS
  wUSDC = wUSDC
  u1 = u1
  k1 = k1
  r1 = r1
  d1 = d1
  Wallets = {wUSDC}
  Users <- MCUsers
  Keys <- MCKeys
  Nobody = nobody
  NoAddress = noAddress
  NoKey = noKey
  Scenes = {{r1}}
  Txs = {r1}
  Runs = {}
  Info <- OneRun
  Opening = 1
  TwoPhase = TRUE
  Lookback = 1
  PollBudget = 1
  MaxTime = 1
  MaxFaults = 1
INVARIANTS
  FailedLeavesNoDebit
