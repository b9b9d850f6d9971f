------------------------------ MODULE Directory ------------------------------
(***************************************************************************)
(* Users and their addresses, as the two stores keep them.                  *)
(*                                                                          *)
(* SQLite has a table of users, whose emails are unique, and a table of     *)
(* addresses, in which nothing is.  Formance has one account per user; its  *)
(* metadata hold the email, a JSON map of the deposit addresses by asset,   *)
(* which is read, extended and written back, and one key per address, which *)
(* the lookup by address matches.                                           *)
(***************************************************************************)
EXTENDS Integers, FiniteSets

CONSTANTS
  Ids,            \* the ids that users may have
  NoUser,         \* no user
  Emails,         \* the emails that users may have
  NoEmail,        \* the email of an id that is not a user's
  PlatformEmail,  \* platformAccountEmail
  Assets,         \* the symbols of wallets
  Networks,       \* the networks of addresses
  Generic,        \* "WITHDRAWAL", the asset of an address that is in no book
  External,       \* "external", the network of a withdrawal address
  Priced          \* the assets in assetPrecision

ASSUME DirectoryAssumption ==
  /\ NoUser \notin Ids
  /\ PlatformEmail \in Emails /\ NoEmail \notin Emails
  /\ Generic \notin Assets /\ External \notin Networks
  /\ Priced \subseteq Assets

VARIABLES
  backend,  \* BACKEND_TYPE
  email,    \* the email of each user
  listed,   \* the addresses of each user: the table, or the JSON map
  keyed     \* Formance: the per-address keys of each account

directory == <<email, listed, keyed>>

-----------------------------------------------------------------------------
(* An address as it is stored for a user. *)
Stored(asset, network, addr) == [asset |-> asset, network |-> network, addr |-> addr]

(* StoreAddress of Formance tells withdrawal addresses by these. *)
IsWithdrawal(e) == e.asset = Generic \/ e.network = External

(* GetUserByEmail: any of these; GetUsers as the tools use it, which leave  *)
(* the platform's account out.                                              *)
UsersWith(e) == {u \in Ids : email[u] = e}
RealUsers == {u \in Ids : email[u] \notin {NoEmail, PlatformEmail}}

(* GetAddresses: Formance does not keep the network. *)
AddressesOf(u, asset, network) ==
  {e \in listed[u] : e.asset = asset /\ (backend = "sqlite" => e.network = network)}

(* GetAllUserAddresses. *)
AllAddressesOf(u) == {e.addr : e \in listed[u]}

(* FindUserByAddress answers with one of these.  Formance's query matches   *)
(* only the symbols it has a precision for.                                 *)
Findable(asset) == backend = "formance" => asset \in Priced \cup {Generic}

Owners(addr) ==
  IF backend = "sqlite"
  THEN {u \in Ids : addr \in AllAddressesOf(u)}
  ELSE {u \in Ids : \E k \in keyed[u] : k.addr = addr /\ Findable(k.asset)}

-----------------------------------------------------------------------------
(* The writes. *)

AddUser(u, e) == email' = [email EXCEPT ![u] = e]

(* Mutation of CanInsertUser: the emails are not unique. *)
CanInsertUser_Any(e) == TRUE

(* INSERT OR IGNORE, and the unique emails. *)
CanInsertUser(e) == UsersWith(e) = {}

(* SQLite: one INSERT. *)
InsertAddress(u, e) ==
  /\ listed' = [listed EXCEPT ![u] = @ \cup {e}]
  /\ UNCHANGED keyed

(* The per-address keys, of which a deposit address and a withdrawal        *)
(* address have different ones, with e's written.                           *)
WithKey(keys, e) ==
  {k \in keys : k.addr # e.addr \/ (IsWithdrawal(k) # IsWithdrawal(e))} \cup {e}

(* Mutation of WriteMetadata: the map is not extended but begun anew. *)
WriteMetadata_NewMap(u, e, read) ==
  /\ listed' = IF IsWithdrawal(e) THEN listed ELSE [listed EXCEPT ![u] = {e}]
  /\ keyed' = [keyed EXCEPT ![u] = WithKey(@, e)]

(* Formance: AddMetadataToAccount, with the map made from what was read.    *)
(* Keys are added or overwritten one by one, the map as a whole.            *)
WriteMetadata(u, e, read) ==
  /\ listed' = IF IsWithdrawal(e) THEN listed
               ELSE [listed EXCEPT ![u] = read \cup {e}]
  /\ keyed' = [keyed EXCEPT ![u] = WithKey(@, e)]
=============================================================================
