----------------------------- MODULE AddressTools -----------------------------
(***************************************************************************)
(* The setup tool and the user tool, runs of which work on one store and    *)
(* one Prime portfolio at the same time.  A run is a sequence of calls, to  *)
(* Prime or to the store, each of which may fail, and may be killed at any  *)
(* point; what it decides with is what it read some calls ago.              *)
(*                                                                          *)
(* The user tool finds or creates its user, assigns the deposit addresses   *)
(* and registers the withdrawal addresses of its command line, and without  *)
(* deposit addresses goes on to give the user an address for each asset of  *)
(* assets.yaml.  The setup tool stores every address that Prime has under   *)
(* every user, and under the platform's account those that no user had      *)
(* before, and then does the same for each asset of assets.yaml.            *)
(*                                                                          *)
(* Prime is external: wallets and their addresses appear and stay.  An      *)
(* address is its number in the order of creation.                          *)
(***************************************************************************)
EXTENDS Directory, Sequences

CONSTANTS
  Runs,           \* the runs of the tools
  Starts,         \* how it may begin: backend, users and command lines
  PlatformId,     \* "prime-platform-" and the portfolio
  FirstWallets,   \* Prime: the assets of its wallets at the beginning
  FirstAddresses, \* Prime: the addresses it has at the beginning
  Externals,      \* addresses that are none of Prime's
  Book,           \* Prime: the address book, with the asset of each
  Configs,        \* assets.yaml
  SetupNetworks,  \* the networks that the setup tool looks at
  UserNetworks,   \* the networks that the user tool looks at
  PageLimit,      \* Prime lists at most so many addresses
  MaxFaults       \* bound: failed calls and killed runs in a behaviour

Addresses == Nat \cup Externals
Known == UNION {DOMAIN s.users : s \in Starts}

CommandType ==
  [tool : {"setup", "adduser"}, email : Emails,
   deposits : SUBSET Addresses, withdrawals : SUBSET Addresses]

AddressType ==
  [wallet : Nat, network : Networks, by : Runs \cup {NoUser}, slips : Nat]

ASSUME ToolsAssumption ==
  /\ Ids = Runs \cup Known \cup {PlatformId}
  /\ PlatformId \notin Runs \cup Known /\ Runs \cap Known = {}
  /\ \A s \in Starts :
       /\ s.backend \in {"sqlite", "formance"}
       /\ \A u \in DOMAIN s.users : s.users[u] \in Emails
       /\ s.command \in [Runs -> CommandType]
       /\ \A r \in Runs :
            s.command[r].tool = "setup" => s.command[r].email = PlatformEmail
  /\ FirstWallets \in Seq(Assets) /\ FirstAddresses \in Seq(AddressType)
  /\ Externals \cap Nat = {}
  /\ DOMAIN Book \subseteq Addresses /\ \A a \in DOMAIN Book : Book[a] \in Assets
  /\ Configs \subseteq Assets \X Networks
  /\ SetupNetworks \subseteq Networks /\ UserNetworks \subseteq Networks
  /\ PageLimit \in Nat \ {0} /\ MaxFaults \in Nat

(* At first an email has one user, nobody has the platform's, and the       *)
(* addresses of Prime's wallets were made by none of the runs.              *)
ASSUME StartAssumption ==
  /\ \A s \in Starts :
       /\ \A u, v \in DOMAIN s.users : s.users[u] = s.users[v] => u = v
       /\ \A u \in DOMAIN s.users : s.users[u] # PlatformEmail
       /\ \A r \in Runs :
            s.command[r].tool = "adduser" => s.command[r].email # PlatformEmail
  /\ \A a \in DOMAIN FirstAddresses :
       FirstAddresses[a].wallet \in DOMAIN FirstWallets /\ FirstAddresses[a].by = NoUser

VARIABLES
  command,  \* the command line of each run
  wallets,  \* Prime: the asset of each wallet
  made,     \* Prime: each address, and by whom it was made
  run,      \* what each run has read and is doing
  faults    \* failures so far

prime == <<wallets, made>>
vars == <<backend, command, directory, prime, run, faults>>

-----------------------------------------------------------------------------
(* The state of a run.                                                      *)
(*   at        the call it makes next                                       *)
(*   stage     what for: "discover" (discoverAndSync) or "generate" for the *)
(*             setup tool, "assign", "register" or "generate" for the other *)
(*   user      the user of the user tool, the platform's of the setup tool  *)
(*   users     what GetUsers returned                                       *)
(*   left      those of them whose addresses are still to be read           *)
(*   assigned  assignedAddresses                                            *)
(*   places    the wallets and networks to sync                             *)
(*   tasks     what is left of the loop, cur the task in hand               *)
(*   addrs     the addresses of the task that are still to be stored        *)
(*   read      Formance: the JSON map that was read to be extended          *)
(*   exists, stored    the flags of processAsset                            *)
(*   served    the assets that are counted as a success                     *)
(* For the properties only: had, the addresses that Prime had when the run  *)
(* began to discover; gave, those it has assigned; slips, its failed calls; *)
(* before, the runs that had ended when it began.                           *)
Task(user, asset, network, wallet, addr) ==
  [user |-> user, asset |-> asset, network |-> network, wallet |-> wallet, addr |-> addr]

NoTask == Task(NoUser, Generic, External, 0, 0)

FirstStage(r) == IF command[r].tool = "setup" THEN "discover" ELSE "assign"

Idle ==
  [at |-> "idle", stage |-> "none", user |-> NoUser, users |-> {}, left |-> {},
   assigned |-> {}, places |-> {}, tasks |-> {}, cur |-> NoTask, addrs |-> {},
   read |-> {}, exists |-> FALSE, stored |-> FALSE, served |-> {},
   had |-> 0, gave |-> {}, slips |-> 0, before |-> {}]

Setup(r) == command[r].tool = "setup"
At(r, place) == run[r].at = place
Ended == {r \in Runs : run[r].at \in {"done", "dead"}}

(* A run goes on as s, after a call that succeeded or one that failed. *)
Becomes(r, s) == run' = [run EXCEPT ![r] = s] /\ UNCHANGED faults

Slips(r, s) ==
  /\ faults < MaxFaults /\ faults' = faults + 1
  /\ run' = [run EXCEPT ![r] = [s EXCEPT !.slips = @ + 1]]

GoTo(r, place) == [run[r] EXCEPT !.at = place]

OnlyReads == UNCHANGED <<backend, command, directory, prime>>

-----------------------------------------------------------------------------
(* Prime's answers. *)

WalletsOf(asset) == {w \in DOMAIN wallets : wallets[w] = asset}

On(wallet, network) ==
  {a \in DOMAIN made : made[a].wallet = wallet /\ made[a].network = network}

(* ListWalletAddresses reads one page. *)
Pages(wallet, network) ==
  LET all == On(wallet, network)
  IN IF Cardinality(all) <= PageLimit THEN {all}
     ELSE {p \in SUBSET all : Cardinality(p) = PageLimit}

-----------------------------------------------------------------------------
(* What the loops work through. *)

(* Mutation of SyncTasks: nobody asks whether there is an account. *)
SyncTasks_NoGuard(r, platform) ==
  { Task(u, wallets[p[1]], p[2], p[1], 0) :
      u \in run[r].users \cup {platform}, p \in run[r].places }

(* Each wallet and network for each user, and for the platform's account    *)
(* if there is one.                                                         *)
SyncTasks(r, platform) ==
  { Task(u, wallets[p[1]], p[2], p[1], 0) :
      u \in run[r].users \cup ({platform} \ {NoUser}), p \in run[r].places }

ConfigTasks(users) ==
  { Task(u, c[1], c[2], 0, 0) : u \in users, c \in Configs }

AddressTasks(u, addrs) == { Task(u, Generic, External, 0, a) : a \in addrs }

(* The next task: the platform's comes after the users' of the same wallet  *)
(* and network.  Nothing depends on the order otherwise.                    *)
NextTask(r) ==
  CHOOSE t \in run[r].tasks :
    t.user = run[r].user =>
      \A o \in run[r].tasks :
        <<o.wallet, o.network>> = <<t.wallet, t.network>> => o.user = t.user

FirstCall(r) ==
  CASE run[r].stage = "discover" -> "list"
    [] run[r].stage = "generate" -> IF Setup(r) THEN "wallet" ELSE "check"
    [] OTHER -> "find"

Begin(r) ==
  /\ At(r, "idle")
  /\ Becomes(r, [Idle EXCEPT !.at = IF Setup(r) THEN "discover" ELSE "identify",
                             !.stage = FirstStage(r), !.before = Ended])
  /\ OnlyReads

(* The next task, or what follows the loop. *)
PickTask(r) ==
  LET s == run[r]
      Stage(at, stage, tasks) ==
        [s EXCEPT !.at = at, !.stage = stage, !.tasks = tasks, !.cur = NoTask]
  IN /\ At(r, "next")
     /\ Becomes(r,
          IF s.tasks # {}
          THEN [s EXCEPT !.at = FirstCall(r), !.cur = NextTask(r),
                         !.tasks = @ \ {NextTask(r)}, !.addrs = {},
                         !.exists = FALSE, !.stored = FALSE]
          ELSE CASE s.stage = "discover" -> Stage("users", "generate", {})
                 [] s.stage = "assign" ->
                      Stage("next", "register", AddressTasks(s.user, command[r].withdrawals))
                 [] s.stage = "register" /\ command[r].deposits = {} ->
                      Stage("next", "generate", ConfigTasks({s.user}))
                 [] OTHER -> Stage("done", s.stage, {}))
     /\ OnlyReads

-----------------------------------------------------------------------------
(* The setup tool: what it reads before it syncs. *)

(* discoverAllWallets.  Without wallets the discovery is over. *)
Discover(r) ==
  LET s == GoTo(r, "users")
  IN /\ At(r, "discover")
     /\ \/ Becomes(r, IF wallets = <<>> THEN [s EXCEPT !.stage = "generate"]
                      ELSE [s EXCEPT !.places = (DOMAIN wallets) \X SetupNetworks,
                                     !.had = Len(made)])
        \/ Slips(r, [s EXCEPT !.stage = "generate"])
     /\ OnlyReads

(* GetUsers, for the discovery and again for assets.yaml. *)
ReadUsers(r) ==
  /\ At(r, "users")
  /\ Becomes(r, IF run[r].stage = "discover"
                THEN [GoTo(r, "assigned") EXCEPT !.users = RealUsers, !.left = RealUsers]
                ELSE [GoTo(r, "next") EXCEPT !.tasks = ConfigTasks(RealUsers)])
  /\ OnlyReads

(* assignedAddresses, one user after the other; a failed query counts as no *)
(* addresses.                                                               *)
ReadAssigned(r) ==
  LET u == CHOOSE v \in run[r].left : TRUE
      s == [run[r] EXCEPT !.left = @ \ {u}]
  IN /\ At(r, "assigned") /\ run[r].left # {}
     /\ \/ Becomes(r, [s EXCEPT !.assigned = @ \cup AllAddressesOf(u)])
        \/ Slips(r, s)
     /\ OnlyReads

AllAssigned(r) ==
  /\ At(r, "assigned") /\ run[r].left = {}
  /\ Becomes(r, GoTo(r, "identify"))
  /\ OnlyReads

-----------------------------------------------------------------------------
(* The user of the user tool, the platform's account of the setup tool. *)

Identified(r, u) ==
  [run[r] EXCEPT !.at = "next", !.user = u,
     !.tasks = IF Setup(r) THEN SyncTasks(r, u) ELSE AddressTasks(u, command[r].deposits)]

(* GetUserByEmail, first and, by the setup tool, after it could not create  *)
(* the account ("refetch").  An error counts as no such user.               *)
Identify(r) ==
  LET found == UsersWith(command[r].email)
      missed == IF At(r, "refetch") THEN Identified(r, NoUser) ELSE GoTo(r, "create")
  IN /\ At(r, "identify") \/ At(r, "refetch")
     /\ \/ \E u \in found : Becomes(r, Identified(r, u))
        \/ found = {} /\ Becomes(r, missed)
        \/ Slips(r, missed)
     /\ OnlyReads

(* Mutation of NotCreated: nobody looks whether another run created it. *)
NotCreated_NoRefetch(r) == IF Setup(r) THEN Identified(r, NoUser) ELSE GoTo(r, "dead")

NotCreated(r) == GoTo(r, IF Setup(r) THEN "refetch" ELSE "dead")

NewId(r) == IF Setup(r) THEN PlatformId ELSE r

(* CreateUser of SQLite: the INSERT, and the SELECT after it, the failure   *)
(* of which is reported although the user is there.                         *)
InsertUser(r) ==
  LET created == CanInsertUser(command[r].email)
  IN /\ At(r, "create") /\ backend = "sqlite"
     /\ IF created THEN AddUser(NewId(r), command[r].email) ELSE UNCHANGED email
     /\ \/ Becomes(r, IF created THEN Identified(r, NewId(r)) ELSE NotCreated(r))
        \/ Slips(r, NotCreated(r))
     /\ UNCHANGED <<backend, command, listed, keyed, prime>>

(* CreateUser of Formance: it looks for the email, and writes it.  A write  *)
(* that fails may have been done.                                           *)
CheckEmail(r) ==
  /\ At(r, "create") /\ backend = "formance"
  /\ \/ Becomes(r, IF UsersWith(command[r].email) = {} THEN GoTo(r, "createNow")
                   ELSE NotCreated(r))
     \/ Slips(r, GoTo(r, "createNow"))
  /\ OnlyReads

WriteUser(r) ==
  /\ At(r, "createNow")
  /\ AddUser(NewId(r), command[r].email)
  /\ Becomes(r, Identified(r, NewId(r))) \/ Slips(r, NotCreated(r))
  /\ UNCHANGED <<backend, command, listed, keyed, prime>>

CreateUserFails(r) ==
  /\ At(r, IF backend = "sqlite" THEN "create" ELSE "createNow")
  /\ Slips(r, NotCreated(r))
  /\ OnlyReads

-----------------------------------------------------------------------------
(* assignExistingAddress and registerDestinationAddress. *)

(* Mutation of WhenOwned: the address of another user is taken over. *)
WhenOwned_TakeOver(r, u) ==
  IF u = run[r].user THEN GoTo(r, "next") ELSE GoTo(r, "search")

(* An address that has an owner is left alone; a deposit address of another *)
(* user ends the run.                                                       *)
WhenOwned(r, u) ==
  GoTo(r, IF u # run[r].user /\ run[r].stage = "assign" THEN "dead" ELSE "next")

(* FindUserByAddress; an error counts as nobody's address. *)
Find(r) ==
  LET free == GoTo(r, IF run[r].stage = "assign" THEN "search" ELSE "book")
      owners == Owners(run[r].cur.addr)
  IN /\ At(r, "find")
     /\ \/ \E u \in owners : Becomes(r, WhenOwned(r, u))
        \/ owners = {} /\ Becomes(r, free)
        \/ Slips(r, free)
     /\ OnlyReads

(* The wallet and network of a deposit address, if it is on a page that is  *)
(* read.  A listing that fails is skipped: that of another wallet or        *)
(* network changes nothing; without its own the address is not found, and   *)
(* the run ends, as it does without the list of wallets (Die).              *)
Search(r) ==
  LET a == run[r].cur.addr
      found == [GoTo(r, "put") EXCEPT !.addrs = {a}, !.cur.network = made[a].network,
                  !.cur.asset = wallets[made[a].wallet]]
  IN /\ At(r, "search")
     /\ \/ /\ a \in DOMAIN made /\ made[a].network \in UserNetworks
           /\ \E page \in Pages(made[a].wallet, made[a].network) : a \in page
           /\ Becomes(r, found) \/ Slips(r, found)
        \/ /\ a \in DOMAIN made =>
                \/ made[a].network \notin UserNetworks
                \/ \E page \in Pages(made[a].wallet, made[a].network) : a \notin page
           /\ Becomes(r, GoTo(r, "dead"))
     /\ OnlyReads

(* LookupAddressBook; an error counts as not in the book. *)
LookUp(r) ==
  LET a == run[r].cur.addr
      s == [GoTo(r, IF backend = "sqlite" THEN "put" ELSE "write") EXCEPT !.addrs = {a}]
  IN /\ At(r, "book")
     /\ \/ Becomes(r, IF a \in DOMAIN Book THEN [s EXCEPT !.cur.asset = Book[a]] ELSE s)
        \/ Slips(r, s)
     /\ OnlyReads

-----------------------------------------------------------------------------
(* processUserAsset and processAsset. *)

Served(s) ==
  [s EXCEPT !.at = "next",
     !.served = @ \cup {[user |-> s.cur.user, asset |-> s.cur.asset, network |-> s.cur.network]}]

Failed(s) == [s EXCEPT !.at = "next"]

(* getOrCreateWallet: the first wallet that is listed, else a new one.  A   *)
(* wallet may be made although the call fails.                              *)
UseWallet(r) ==
  /\ At(r, "wallet")
  /\ LET found == WalletsOf(run[r].cur.asset)
     IN \/ \E w \in found : Becomes(r, [GoTo(r, "list") EXCEPT !.cur.wallet = w])
        \/ found = {} /\ Becomes(r, GoTo(r, "newWallet"))
        \/ Slips(r, Failed(run[r]))
  /\ OnlyReads

CreateWallet(r) ==
  /\ At(r, "newWallet")
  /\ wallets' = Append(wallets, run[r].cur.asset)
  /\ \/ Becomes(r, [GoTo(r, "list") EXCEPT !.cur.wallet = Len(wallets) + 1])
     \/ Slips(r, Failed(run[r]))
  /\ UNCHANGED <<backend, command, directory, made>>

CreateWalletFails(r) ==
  /\ At(r, "newWallet")
  /\ Slips(r, Failed(run[r]))
  /\ OnlyReads

(* What follows when there was nothing to sync, or nothing could be stored. *)
Unsynced(r, s) ==
  IF s.stage = "discover" THEN Failed(s)
  ELSE IF Setup(r) THEN [s EXCEPT !.at = "check"]
  ELSE IF s.exists THEN Served(s)
  ELSE [s EXCEPT !.at = "mint"]

(* Mutation of ToStore: nothing is taken over from Prime for an asset. *)
ToStore_None(s, page) == IF s.stage = "generate" THEN {} ELSE page

(* Of a page that was read: the platform's account gets what was nobody's.  *)
ToStore(s, page) ==
  IF s.stage = "discover" /\ s.cur.user = s.user THEN page \ s.assigned ELSE page

ListAddresses(r) ==
  LET s == run[r]
  IN /\ At(r, "list")
     /\ \/ \E page \in Pages(s.cur.wallet, s.cur.network) :
             LET addrs == ToStore(s, page)
             IN Becomes(r, IF addrs = {} THEN Unsynced(r, s)
                           ELSE [s EXCEPT !.addrs = addrs, !.at = "put"])
        \/ Slips(r, Unsynced(r, s))
     /\ OnlyReads

(* checkExistingAddress: before the sync in the user tool, after it in the  *)
(* setup tool.                                                              *)
Check(r) ==
  LET s == run[r]
      exists == AddressesOf(s.cur.user, s.cur.asset, s.cur.network) # {}
  IN /\ At(r, "check")
     /\ \/ Becomes(r, IF ~Setup(r) THEN [GoTo(r, "wallet") EXCEPT !.exists = exists]
                      ELSE IF exists THEN Served(s) ELSE GoTo(r, "mint"))
        \/ Slips(r, Failed(s))
     /\ OnlyReads

(* CreateDepositAddress.  An address may be made although the call fails.   *)
Mint(r) ==
  LET s == run[r]
      a == Len(made) + 1
  IN /\ At(r, "mint")
     /\ made' = Append(made, [wallet |-> s.cur.wallet, network |-> s.cur.network,
                              by |-> r, slips |-> s.slips])
     /\ \/ Becomes(r, [GoTo(r, "put") EXCEPT !.addrs = {a}, !.cur.addr = a])
        \/ Slips(r, Failed(s))
     /\ UNCHANGED <<backend, command, directory, wallets>>

MintFails(r) ==
  /\ At(r, "mint")
  /\ Slips(r, Failed(run[r]))
  /\ OnlyReads

-----------------------------------------------------------------------------
(* StoreAddress. *)

Current(r) == CHOOSE a \in run[r].addrs : TRUE

Entry(r) == Stored(run[r].cur.asset, run[r].cur.network, Current(r))

(* Mutation of AfterPut: the user tool does as the setup tool does. *)
AfterPut_CountsSynced(r, ok) ==
  LET s == [run[r] EXCEPT !.at = "put", !.addrs = @ \ {Current(r)}, !.read = {},
              !.stored = @ \/ ok,
              !.gave = IF ok /\ run[r].stage = "assign" THEN @ \cup {Current(r)} ELSE @]
  IN IF s.addrs # {} THEN s
     ELSE IF s.stage \in {"discover", "register"} THEN Failed(s)
     ELSE IF s.stage = "assign" THEN IF ok THEN Failed(s) ELSE [s EXCEPT !.at = "dead"]
     ELSE IF s.cur.addr # 0 THEN IF ok THEN Served(s) ELSE Failed(s)
     ELSE Served(s)

(* The loop over the addresses of a page, and what follows it.  The setup   *)
(* tool counts a synced asset as a success whatever was stored of it.       *)
AfterPut(r, ok) ==
  LET s == [run[r] EXCEPT !.at = "put", !.addrs = @ \ {Current(r)}, !.read = {},
              !.stored = @ \/ ok,
              !.gave = IF ok /\ run[r].stage = "assign" THEN @ \cup {Current(r)} ELSE @]
  IN IF s.addrs # {} THEN s
     ELSE IF s.stage \in {"discover", "register"} THEN Failed(s)
     ELSE IF s.stage = "assign" THEN IF ok THEN Failed(s) ELSE [s EXCEPT !.at = "dead"]
     ELSE IF s.cur.addr # 0 THEN IF ok THEN Served(s) ELSE Failed(s)
     ELSE IF Setup(r) \/ s.stored THEN Served(s)
     ELSE Unsynced(r, s)

PutRow(r) ==
  /\ At(r, "put") /\ backend = "sqlite"
  /\ InsertAddress(run[r].cur.user, Entry(r))
  /\ Becomes(r, AfterPut(r, TRUE))
  /\ UNCHANGED <<backend, command, email, prime>>

(* Formance: the map is read, and an error counts as an empty map.  What is *)
(* to be stored is then written; a write that fails may have been done.     *)
ReadMap(r) ==
  /\ At(r, "put") /\ backend = "formance"
  /\ \/ Becomes(r, [GoTo(r, "write") EXCEPT !.read = listed[run[r].cur.user]])
     \/ Slips(r, GoTo(r, "write"))
  /\ OnlyReads

WriteMap(r) ==
  /\ At(r, "write")
  /\ WriteMetadata(run[r].cur.user, Entry(r), run[r].read)
  /\ Becomes(r, AfterPut(r, TRUE)) \/ Slips(r, AfterPut(r, FALSE))
  /\ UNCHANGED <<backend, command, email, prime>>

PutFails(r) ==
  /\ At(r, IF backend = "sqlite" THEN "put" ELSE "write")
  /\ Slips(r, AfterPut(r, FALSE))
  /\ OnlyReads

(* The process is killed, or exits on an error that it reports as fatal.    *)
Die(r) ==
  /\ run[r].at \notin {"idle", "done", "dead"}
  /\ Slips(r, GoTo(r, "dead"))
  /\ OnlyReads

-----------------------------------------------------------------------------
Init ==
  /\ \E s \in Starts :
       /\ backend = s.backend
       /\ command = s.command
       /\ email = [u \in Ids |-> IF u \in DOMAIN s.users THEN s.users[u] ELSE NoEmail]
  /\ listed = [u \in Ids |-> {}]
  /\ keyed = [u \in Ids |-> {}]
  /\ wallets = FirstWallets
  /\ made = FirstAddresses
  /\ run = [r \in Runs |-> Idle]
  /\ faults = 0

Discovery(r) == Discover(r) \/ ReadUsers(r) \/ ReadAssigned(r) \/ AllAssigned(r)

UserStep(r) ==
  Identify(r) \/ InsertUser(r) \/ CheckEmail(r) \/ WriteUser(r) \/ CreateUserFails(r)

AssignStep(r) == Find(r) \/ Search(r) \/ LookUp(r)

AssetStep(r) ==
  \/ UseWallet(r) \/ CreateWallet(r) \/ CreateWalletFails(r)
  \/ ListAddresses(r) \/ Check(r) \/ Mint(r) \/ MintFails(r)

PutStep(r) == PutRow(r) \/ ReadMap(r) \/ WriteMap(r) \/ PutFails(r)

Step(r) ==
  \/ Begin(r) \/ PickTask(r) \/ Discovery(r) \/ UserStep(r)
  \/ AssignStep(r) \/ AssetStep(r) \/ PutStep(r) \/ Die(r)

Next == \E r \in Runs : Step(r)

Spec == Init /\ [][Next]_vars

-----------------------------------------------------------------------------
(* Properties. *)

(* Two runs were under way at the same time. *)
Overlapped(r, q) ==
  /\ r # q /\ ~At(r, "idle") /\ ~At(q, "idle")
  /\ r \notin run[q].before /\ q \notin run[r].before

Faultless(r) == run[r].slips = 0

EntryType ==
  [asset : Assets \cup {Generic}, network : Networks \cup {External}, addr : Addresses]

(* Each variable keeps its type. *)
TypeOK ==
  /\ \E s \in Starts : s.backend = backend /\ s.command = command
  /\ email \in [Ids -> Emails \cup {NoEmail}]
  /\ listed \in [Ids -> SUBSET EntryType] /\ keyed \in [Ids -> SUBSET EntryType]
  /\ wallets \in Seq(Assets)
  /\ \A a \in DOMAIN made : made[a] \in AddressType /\ made[a].wallet \in DOMAIN wallets
  /\ faults \in 0..MaxFaults
  /\ \A r \in Runs :
       /\ run[r].user \in Ids \cup {NoUser} /\ run[r].users \subseteq Ids
       /\ run[r].left \subseteq run[r].users /\ run[r].had <= Len(made)
       /\ run[r].addrs \cup run[r].assigned \cup run[r].gave \subseteq Addresses
       /\ run[r].read \subseteq EntryType /\ run[r].slips <= faults
       /\ ~At(r, "put") \/ (run[r].cur.user \in Ids /\ run[r].addrs # {})

(* An email has one user, whatever the order in which tools that have to    *)
(* create it look and write: on SQLite because emails are unique, and on    *)
(* Formance, where CreateUser looks before it writes, unless two runs of    *)
(* the user tool were under way together or one was refused both its looks. *)
(* The platform's account is one even when two setups create it at once.    *)
OneUserPerEmail ==
  \A u \in Ids : \A v \in Ids \ {u} :
    email[u] = email[v] /\ email[u] # NoEmail =>
      /\ backend = "formance" /\ PlatformId \notin {u, v}
      /\ \/ \E r \in {u, v} \cap Runs : run[r].slips >= 2
         \/ {u, v} \subseteq Runs /\ Overlapped(u, v)

(* An asset that a tool counts as a success has an address at Prime, on its *)
(* network too with SQLite, where GetAddresses looks at the network; and    *)
(* the user has one stored, unless it is the setup tool that had a failed   *)
(* call, which counts an asset as soon as Prime has listed its addresses.   *)
SuccessMeansAddress ==
  \A r \in Runs : \A t \in run[r].served :
    LET fits(e) == e.asset = t.asset /\ (backend = "sqlite" => e.network = t.network)
    IN /\ \E a \in DOMAIN made :
            fits(Stored(wallets[made[a].wallet], made[a].network, a))
       /\ ~Setup(r) \/ Faultless(r) =>
            \E e \in IF backend = "sqlite" THEN listed[t.user] ELSE keyed[t.user] : fits(e)

(* Formance has each deposit address in two forms, in a JSON map that is    *)
(* read and written back and in a key of its own.  What the map lists can   *)
(* be looked up by its key; and what has a key is in the map, unless two    *)
(* runs overlapped or a call failed, one of which lost the other's entries  *)
(* or took an unread map for an empty one.                                  *)
MapMatchesKeys ==
  backend = "formance" =>
    \A u \in Ids :
      LET deposits == {k \in keyed[u] : ~IsWithdrawal(k)}
      IN /\ listed[u] \subseteq deposits
         /\ \/ deposits \subseteq listed[u]
            \/ \E r \in Runs : ~Faultless(r)
            \/ \E r, q \in Runs : Overlapped(r, q)

(* Once a setup run without a failed call has discovered, each address that *)
(* Prime had when it began is somebody's, on the networks it knows: a       *)
(* user's or the platform's, whatever other tools do meanwhile, the         *)
(* creation of the same platform account included.  An address that is not  *)
(* on the page that is read, or that Formance's lookup cannot match, is     *)
(* missed.                                                                  *)
SetupCovers ==
  \A r \in Runs :
    Setup(r) /\ Faultless(r) /\ run[r].stage = "generate" =>
      \A a \in 1..run[r].had :
        /\ made[a].network \in SetupNetworks
        /\ Cardinality(On(made[a].wallet, made[a].network)) <= PageLimit
        /\ Findable(wallets[made[a].wallet])
        => Owners(a) # {}

(* Two runs of the user tool assign one deposit address to different users  *)
(* only if they were under way together, or a call failed: a failed lookup  *)
(* is taken for an address that is nobody's.                                *)
AssignedTwiceOnlyIfOverlapped ==
  \A r \in Runs : \A q \in Runs \ {r} :
    run[r].user # run[q].user =>
      \A a \in run[r].gave \cap run[q].gave :
        \/ ~Findable(wallets[made[a].wallet])
        \/ Overlapped(r, q) \/ ~Faultless(r) \/ ~Faultless(q)

(* A tool makes an address at Prime only where there is none: there are two *)
(* of one wallet and network only if the runs that made them overlapped, or *)
(* the later one had a failed call.  A run that retries what an earlier one *)
(* did not finish takes over what is there.                                 *)
SecondAddressOnlyIfOverlapped ==
  \A j \in DOMAIN made : \A i \in 1..(j - 1) :
    /\ <<made[i].wallet, made[i].network>> = <<made[j].wallet, made[j].network>>
    /\ made[j].by \in Runs /\ made[j].slips = 0
    => made[i].by \in Runs /\ Overlapped(made[i].by, made[j].by)

(* README.md and the tools have deposit addresses per user: an address is   *)
(* one user's.                                                              *)
OneOwner ==
  \A a \in DOMAIN made : Cardinality(Owners(a)) <= 1
=============================================================================
