SPECIFICATION FlowSpec
CONSTANTS
  wUSDC = wUSDC
  u1 = u1
  k1 = k1
  r1 = r1
  d1 = d1
  Wallets = {wUSDC}
  Users <- MCUsers
  Keys <- MCKeys
  Nobody = nobody
  NoAddress = noAddress
  NoKey = noKey
  Scenes = {{d1}}
  Txs = {d1}
  Runs = {}
  Info <- OneDeposit
  Opening = 1
  TwoPhase = TRUE
  Lookback = 1
  PollBudget = 1
  MaxTime = 1
  MaxFaults = 2
INVARIANTS
  DepositCreditedOnce
