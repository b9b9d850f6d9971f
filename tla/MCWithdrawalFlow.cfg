SPECIFICATION FairFlowSpec
CONSTANTS
  wUSDC = wUSDC
  wUSDC2 = wUSDC2
  u1 = u1
  k1 = k1
  k2 = k2
  r1 = r1
  r2 = r2
  d1 = d1
  Wallets = {wUSDC, wUSDC2}
  Users <- MCUsers
  Keys <- MCKeys
  Nobody = nobody
  NoAddress = noAddress
  NoKey = noKey
  Scenes = {{d1}}
  Txs = {r1, d1}
  Runs = {r1}
  Info <- RunAndDeposit
  Opening = 1
  TwoPhase = FALSE
  Lookback = 0
  PollBudget = 1
  MaxTime = 1
  MaxFaults = 1
INVARIANTS
  FlowTypeOK
  ReservedFirst
  NoSecondDebitAtDone
  DebitedAtMostTwice
  PaidAndRefundedOnlyIfLost
  RefundsPerParty
PROPERTIES
  ReservationResolved
  FinalIsRecorded
