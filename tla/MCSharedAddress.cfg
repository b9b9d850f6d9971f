SPECIFICATION Spec
CONSTANTS
  r1 = r1
  r2 = r2
  u0 = u0
  platform = platform
  e0 = e0
  e1 = e1
  usdc = usdc
  doge = doge
  eth = eth
  base = base
  x = x
  Ids <- MCIds
  NoUser = noUser
  Emails = {e0, e1, pe}
  NoEmail = noEmail
  PlatformEmail = pe
  Assets = {usdc, doge}
  Networks = {eth, base}
  Generic = WITHDRAWAL
  External = external
  Priced = {usdc}
  Runs <- MCRuns
  Starts <- MCStarts
  PlatformId = platform
  FirstWallets <- MCWallets
  FirstAddresses <- MCMade
  Externals = {x}
  Book <- MCBook
  Configs <- MCConfigs
  SetupNetworks = {eth, base}
  UserNetworks = {eth, base}
  PageLimit = 1
  MaxFaults = 1
CHECK_DEADLOCK FALSE
INVARIANT OneOwner
