--------------------------- MODULE MCAddressTools ---------------------------
(* Instances of AddressTools for TLC: two runs of the tools, with each pair *)
(* of command lines that can get in each other's way.                       *)
EXTENDS AddressTools, TLC

CONSTANTS r1, r2, u0, platform, e0, e1, usdc, doge, eth, base, x

MCRuns == {r1, r2}
MCIds == {r1, r2, u0, platform}

SetupLine ==
  [tool |-> "setup", email |-> PlatformEmail, deposits |-> {}, withdrawals |-> {}]

AddUserLine(e, deposits, withdrawals) ==
  [tool |-> "adduser", email |-> e, deposits |-> deposits, withdrawals |-> withdrawals]

With(users, c, d) ==
  [backend : {"sqlite", "formance"}, users : {users}, command : {r1 :> c @@ r2 :> d}]

Nobody == [u \in {} |-> e0]
Somebody == u0 :> e0

MCStarts == UNION {
  With(Nobody, SetupLine, SetupLine),
  With(Somebody, SetupLine, SetupLine),
  With(Nobody, SetupLine, AddUserLine(e1, {}, {})),
  With(Somebody, SetupLine, AddUserLine(e1, {1}, {x})),
  With(Somebody, AddUserLine(e0, {1}, {x}), AddUserLine(e1, {1}, {x})),
  With(Nobody, AddUserLine(e1, {}, {}), AddUserLine(e1, {}, {})) }

(* Prime has a wallet, with an address on one of its networks.  There is no *)
(* wallet for the other asset, which Formance's lookup does not match.      *)
MCWallets == <<usdc>>
MCMade == <<[wallet |-> 1, network |-> eth, by |-> NoUser, slips |-> 0]>>

MCBook == x :> usdc

MCConfigs == {<<usdc, base>>, <<doge, eth>>}
=============================================================================
