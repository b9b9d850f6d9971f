--------------------------- MODULE AddressEntryProofs ---------------------------
(* Theorems about the addresses of AddressTools, for any number of runs:    *)
(* which can be made twice, which assigned twice, what Formance's two forms *)
(* of an address have to do with each other, what the tools count as a      *)
(* success, and what a setup run leaves behind.                             *)
EXTENDS AddressTypeProofs, FiniteSetTheorems

-----------------------------------------------------------------------------
(* Addresses are made where there are none. *)

Minting(r, s) == s.at = "mint" \/ (s.at = "check" /\ Setup(r))

(* Nothing is made where there is something, but what overlaps. *)
MintFits(r) ==
  Minting(r, run[r]) /\ run[r].slips = 0 =>
    \A a \in On(run[r].cur.wallet, run[r].cur.network) :
      made[a].by \in Runs /\ Overlapped(made[a].by, r)

MintInv ==
  /\ TypeInv /\ EmailInv /\ SecondAddressOnlyIfOverlapped
  /\ \A r \in Runs : MintFits(r)

LEMMA StepGoes ==
  ASSUME TypeInv, EmailInv, NEW r \in Runs, Step(r)
  PROVE  /\ Going(r) /\ run[r].at \notin Over /\ Unwritten /\ Grows
         /\ \A q \in Runs : run'[q] \in RunType
         /\ faults' # faults => run'[r].slips # 0
<1>1. TypeInv' /\ EmailInv' /\ Grows
  BY TypeStep, EmailStep DEF Next
<1>2. Begin(r) \/ Quiet(r) \/ Looks(r) \/ Creates(r)
  BY StepKinds DEF EmailInv, RunInv
<1>3. CASE Begin(r)
  <2>1. run[r].at = "idle" /\ run[r] = Idle /\ run[r].slips = 0
    BY <1>3, FieldNames DEF Begin, At, EmailInv, RunInv
  <2>2. \A q \in Runs : q # r => run'[q] = run[q]
    BY <1>3 DEF Begin, Becomes, EmailInv
  <2>3. run'[r].at # "idle"
    <3>1. run'[r] = [Idle EXCEPT !.at = IF Setup(r) THEN "discover" ELSE "identify",
                                 !.stage = FirstStage(r), !.before = Ended]
      BY <1>3 DEF Begin, Becomes, EmailInv
    <3> QED BY <3>1, FieldNames
  <2>4. Shape(run'[r])
    BY <1>1 DEF EmailInv, RunInv
  <2>5. Going(r)
    BY <2>1, <2>2, <2>3, <2>4 DEF Going, Shape
  <2>6. faults' = faults
    BY <1>3 DEF Begin, Becomes
  <2> QED BY <1>1, <2>1, <2>5, <2>6, StepFrame DEF Over, TypeInv
<1>4. CASE ~Begin(r)
  <2>1. PICK s : Same(run[r], s) /\ s.at # "idle" /\ Now(r, s)
    BY <1>2, <1>4 DEF Quiet, Looks, Creates, Early, Now
  <2>2. run[r].at # "idle" /\ run[r].at \notin Over
    BY <1>2, <1>4 DEF Quiet, Looks, Creates, At, Over
  <2>3. faults' # faults => run'[r].slips # 0
    <3>1. run[r].slips \in Nat
      BY DEF EmailInv, RunInv, Shape
    <3> QED BY <2>1, <3>1, NowRuns DEF Now, Becomes
  <2> QED BY <1>1, <2>1, <2>2, <2>3, RunGoes, StepFrame DEF TypeInv
<1> QED BY <1>3, <1>4

(* What is on a network only grows, by the address that the run makes. *)
LEMMA MadeGrows ==
  ASSUME TypeInv, NEW r \in Runs, Step(r)
  PROVE  \/ made' = made
         \/ /\ Mint(r) /\ made' \in Seq(AddressType)
            /\ DOMAIN made' = (DOMAIN made) \cup {Len(made) + 1} /\ Len(made) + 1 \notin DOMAIN made
            /\ \A a \in DOMAIN made : made'[a] = made[a]
            /\ made'[Len(made) + 1] = [wallet |-> run[r].cur.wallet,
                 network |-> run[r].cur.network, by |-> r, slips |-> run[r].slips]
<1>1. CASE Mint(r)
  <2>1. PICK x : x = [wallet |-> run[r].cur.wallet, network |-> run[r].cur.network,
                      by |-> r, slips |-> run[r].slips]
    OBVIOUS
  <2>2. made \in Seq(AddressType) /\ made' = Append(made, x) /\ made' \in Seq(AddressType)
    BY <1>1, <2>1, MintType DEF TypeInv, PrimeTypes, Mint
  <2>3. /\ DOMAIN made' = (DOMAIN made) \cup {Len(made) + 1} /\ Len(made) + 1 \notin DOMAIN made
        /\ \A a \in DOMAIN made : made'[a] = made[a]
        /\ made'[Len(made) + 1] = x
    BY <2>2
  <2> QED BY <1>1, <2>1, <2>2, <2>3
<1>2. CASE ~Mint(r)
  BY <1>2 DEF Step, Begin, PickTask, Discovery, Discover, ReadUsers, ReadAssigned, AllAssigned,
       UserStep, Identify, InsertUser, CheckEmail, WriteUser, CreateUserFails,
       AssignStep, Find, Search, LookUp, AssetStep, UseWallet, CreateWallet,
       CreateWalletFails, ListAddresses, Check, MintFails, PutStep, PutRow, ReadMap,
       WriteMap, PutFails, Die, OnlyReads, prime
<1> QED BY <1>1, <1>2

(* A page is empty only if there is nothing to list. *)
LEMMA EmptyPage ==
  ASSUME NEW w, NEW n, {} \in Pages(w, n)
  PROVE  On(w, n) = {}
<1>1. Cardinality({}) = 0
  BY FS_EmptySet
<1>2. PageLimit \in Nat \ {0}
  BY ToolsAssumption
<1> QED BY <1>1, <1>2 DEF Pages

(* Leads to nothing that makes an address, but with a failed call. *)
Off(r) == \E s : Slips(r, s) \/ (Becomes(r, s) /\ ~Minting(r, s))

LEMMA SlipsOff ==
  ASSUME TypeInv, NEW r, NEW s, Slips(r, s)
  PROVE  faults' # faults
BY ToolsAssumption DEF TypeInv, Slips

LEMMA AfterPutOff ==
  ASSUME TypeInv, NEW r \in Runs
  PROVE  ~Minting(r, AfterPut(r, TRUE))
<1> DEFINE s == [run[r] EXCEPT !.at = "put", !.addrs = @ \ {Current(r)}, !.read = {},
                   !.stored = @ \/ TRUE,
                   !.gave = IF TRUE /\ run[r].stage = "assign" THEN @ \cup {Current(r)} ELSE @]
<1>1. run[r] \in RunType
  BY RunFacts
<1>2. s.at = "put" /\ s.stored = TRUE /\ Failed(s).at = "next" /\ Served(s).at = "next"
  BY <1>1 DEF RunType, Failed, Served
<1>3. AfterPut(r, TRUE) \in {s, Failed(s), Served(s)}
  BY <1>2 DEF AfterPut
<1> HIDE DEF s
<1> QED BY <1>2, <1>3 DEF Minting

LEMMA StepOff ==
  ASSUME TypeInv, EmailInv, NEW r \in Runs, Step(r), ~ListAddresses(r), ~Check(r)
  PROVE  Off(r)
<1>1. Shape(run[r])
  BY DEF EmailInv, RunInv
<1> DEFINE Goes0 == \E s : ~Minting(r, s) /\ Now(r, s)
<1> USE <1>1, FieldNames DEF Minting, GoTo, Shape, At, Now
<1>2. CASE Begin(r)
  <2>1. PICK s : /\ s = [Idle EXCEPT !.at = IF Setup(r) THEN "discover" ELSE "identify",
                                     !.stage = FirstStage(r), !.before = Ended]
                 /\ Becomes(r, s)
    BY <1>2 DEF Begin
  <2>2. s.at \in {"discover", "identify"}
    BY <2>1
  <2> QED BY <2>1, <2>2 DEF Off
<1>3. ASSUME PickTask(r) PROVE Goes0
  BY <1>3 DEF PickTask, FirstCall
<1>4. ASSUME Discovery(r) PROVE Goes0
  BY <1>4 DEF Discovery, Discover, ReadUsers, ReadAssigned, AllAssigned
<1>5. ASSUME UserStep(r) PROVE Goes0
  <2>1. ASSUME NEW u PROVE Identified(r, u).at = "next"
    BY DEF Identified
  <2>2. NotCreated(r).at \in {"refetch", "dead"}
    BY DEF NotCreated
  <2> QED BY <1>5, <2>1, <2>2
          DEF UserStep, Identify, InsertUser, CheckEmail, WriteUser, CreateUserFails
<1>6. ASSUME AssignStep(r) PROVE Goes0
  BY <1>6 DEF AssignStep, Find, Search, LookUp, WhenOwned
<1>7. ASSUME UseWallet(r) \/ CreateWallet(r) \/ CreateWalletFails(r) PROVE Goes0
  BY <1>7 DEF UseWallet, CreateWallet, CreateWalletFails, Failed
<1>8. ASSUME Mint(r) \/ MintFails(r) PROVE Goes0
  BY <1>8 DEF Mint, MintFails, Failed
<1>9. CASE Goes0
  BY <1>9 DEF Off
<1>10. CASE PutStep(r)
  <2>1. PICK s : \/ Slips(r, s)
                 \/ Becomes(r, s) /\ (s = AfterPut(r, TRUE) \/ s.at = "write")
    BY <1>10 DEF PutStep, PutRow, ReadMap, WriteMap, PutFails
  <2> QED BY <2>1, AfterPutOff DEF Off
<1>11. CASE Die(r)
  BY <1>11 DEF Die, Off
<1> HIDE DEF Goes0
<1> QED BY <1>2, <1>3, <1>4, <1>5, <1>6, <1>7, <1>8, <1>9, <1>10, <1>11 DEF Step, AssetStep

(* A run that is about to make an address has listed, and found none. *)
LEMMA ToMint ==
  ASSUME TypeInv, EmailInv, NEW r \in Runs, Step(r),
         Minting(r, run[r])', run'[r].slips = 0
  PROVE  /\ made' = made /\ run'[r].cur = run[r].cur
         /\ \/ On(run[r].cur.wallet, run[r].cur.network) = {}
            \/ Minting(r, run[r])
<1>1. faults' = faults
  BY StepGoes
<1>2. \A s : ~Slips(r, s)
  BY <1>1, SlipsOff
<1>3. run[r] \in RunType /\ CurFits(r, run[r]) /\ DOMAIN run = Runs
  BY RunFacts DEF RunFits
<1>4. \A s : Becomes(r, s) => Minting(r, s)
  BY <1>3, StepGoes DEF Becomes, Minting, Setup, Unwritten
<1>5. ListAddresses(r) \/ Check(r)
  BY <1>2, <1>4, StepOff DEF Off
<1>6. made' = made
  BY <1>5 DEF ListAddresses, Check, OnlyReads, prime
<1>7. CASE Check(r)
  <2>1. CASE Setup(r)
    <3>1. Minting(r, run[r])
      BY <1>7, <2>1 DEF Check, Minting, At
    <3>2. Becomes(r, GoTo(r, "mint")) \/ Becomes(r, Served(run[r]))
      BY <1>2, <1>7, <2>1 DEF Check
    <3>3. ~Minting(r, Served(run[r]))
      BY <1>3 DEF Served, RunType, Minting
    <3>4. run'[r].cur = run[r].cur
      <4>1. run' = [run EXCEPT ![r] = GoTo(r, "mint")]
        BY <1>4, <3>2, <3>3 DEF Becomes
      <4> QED BY <1>3, <4>1 DEF GoTo, RunType
    <3> QED BY <1>6, <3>1, <3>4
  <2>2. CASE ~Setup(r)
    <3>1. PICK e : Becomes(r, [GoTo(r, "wallet") EXCEPT !.exists = e])
      BY <1>2, <1>7, <2>2 DEF Check
    <3>2. [GoTo(r, "wallet") EXCEPT !.exists = e].at = "wallet"
      BY <1>3 DEF GoTo, RunType
    <3> QED BY <1>4, <3>1, <3>2 DEF Minting
  <2> QED BY <2>1, <2>2
<1>8. CASE ListAddresses(r)
  <2>1. PICK page \in Pages(run[r].cur.wallet, run[r].cur.network) :
          LET addrs == ToStore(run[r], page)
          IN Becomes(r, IF addrs = {} THEN Unsynced(r, run[r])
                        ELSE [run[r] EXCEPT !.addrs = addrs, !.at = "put"])
    BY <1>2, <1>8 DEF ListAddresses
  <2>2. ToStore(run[r], page) = {} /\ Becomes(r, Unsynced(r, run[r]))
    <3>1. PICK addrs : addrs = ToStore(run[r], page)
      OBVIOUS
    <3>2. CASE addrs # {}
      <4>1. Becomes(r, [run[r] EXCEPT !.addrs = addrs, !.at = "put"])
        BY <2>1, <3>1, <3>2
      <4>2. ~Minting(r, [run[r] EXCEPT !.addrs = addrs, !.at = "put"])
        BY <1>3 DEF RunType, Minting
      <4> QED BY <1>4, <4>1, <4>2
    <3>3. CASE addrs = {}
      BY <2>1, <3>1, <3>3
    <3> QED BY <3>2, <3>3
  <2>3. Minting(r, Unsynced(r, run[r]))
    BY <1>4, <2>2
  <2>4. run[r].stage # "discover" /\ Unsynced(r, run[r]).cur = run[r].cur
    BY <1>3, <2>3 DEF Unsynced, Failed, Served, Minting, RunType
  <2>5. page = {}
    BY <2>2, <2>4 DEF ToStore
  <2>6. On(run[r].cur.wallet, run[r].cur.network) = {}
    BY <2>1, <2>5, EmptyPage
  <2>7. run'[r].cur = run[r].cur
    BY <1>3, <2>2, <2>4 DEF Becomes
  <2> QED BY <1>6, <2>6, <2>7
<1> QED BY <1>5, <1>7, <1>8

(* A run that makes an address overlaps with those that are about to. *)
LEMMA MintersOverlap ==
  ASSUME EmailInv, NEW r \in Runs, NEW q \in Runs, r # q,
         run[r].at \notin Over \cup {"idle"}, run[q].at \notin Over \cup {"idle"}
  PROVE  Overlapped(r, q)
BY DEF EmailInv, RunInv, Overlapped, At, Over

LEMMA MintFitsStep ==
  ASSUME MintInv, NEW r \in Runs, Step(r), NEW q \in Runs
  PROVE  MintFits(q)'
<1>1. /\ TypeInv /\ EmailInv /\ Going(r) /\ run[r].at \notin Over /\ Unwritten
      /\ run[q].slips \in Nat /\ MintFits(q) /\ Grows
  BY StepGoes DEF MintInv, EmailInv, RunInv, Shape
<1> SUFFICES ASSUME Minting(q, run[q])', run'[q].slips = 0,
                    NEW a \in On(run[q].cur.wallet, run[q].cur.network)'
             PROVE  (made[a].by \in Runs /\ Overlapped(made[a].by, q))'
  BY DEF MintFits, On
<1>2. CASE q = r
  <2>1. /\ made' = made /\ run'[r].cur = run[r].cur
        /\ \/ On(run[r].cur.wallet, run[r].cur.network) = {}
           \/ Minting(r, run[r])
    BY <1>1, <1>2, ToMint
  <2>2. a \in On(run[r].cur.wallet, run[r].cur.network)
    BY <1>2, <2>1 DEF On
  <2>3. run[r].slips = 0
    BY <1>1, <1>2 DEF Going, Shape
  <2>4. made[a].by \in Runs /\ Overlapped(made[a].by, r)
    BY <1>1, <1>2, <2>1, <2>2, <2>3 DEF MintFits
  <2> QED BY <1>1, <1>2, <2>1, <2>4, OverlapStays
<1>3. CASE q # r
  <2>1. run'[q] = run[q] /\ Minting(q, run[q])
    BY <1>1, <1>3 DEF Going, Minting, Setup, Unwritten
  <2>2. CASE a \in DOMAIN made
    <3>1. made'[a] = made[a]
      BY <1>1, <2>2 DEF Grows
    <3>2. a \in On(run[q].cur.wallet, run[q].cur.network)
      BY <2>1, <2>2, <3>1 DEF On
    <3>3. made[a].by \in Runs /\ Overlapped(made[a].by, q)
      BY <1>1, <2>1, <3>2 DEF MintFits
    <3> QED BY <1>1, <3>1, <3>3, OverlapStays
  <2>3. CASE a \notin DOMAIN made
    <3>1. Mint(r) /\ made'[a].by = r
      <4>1. a \in DOMAIN made'
        BY DEF On
      <4>2. PICK x : x = [wallet |-> run[r].cur.wallet, network |-> run[r].cur.network,
                          by |-> r, slips |-> run[r].slips]
        OBVIOUS
      <4>3. Mint(r) /\ made'[a] = x
        BY <1>1, <2>3, <4>1, <4>2, MadeGrows
      <4> QED BY <4>2, <4>3
    <3>2. run[r].at = "mint" /\ run[q].at \in {"mint", "check"}
      BY <2>1, <3>1 DEF Mint, At, Minting
    <3>3. Overlapped(r, q)
      BY <1>1, <1>3, <3>2, MintersOverlap DEF Over
    <3> QED BY <1>1, <3>1, <3>3, OverlapStays
  <2> QED BY <2>2, <2>3
<1> QED BY <1>2, <1>3

LEMMA MintStep == MintInv /\ [Next]_vars => MintInv'
<1>1. ASSUME MintInv, NEW r \in Runs, Step(r) PROVE MintInv'
  <2>1. /\ TypeInv /\ EmailInv /\ Going(r) /\ TypeInv' /\ EmailInv' /\ Grows
        /\ \A q \in Runs : MintFits(q)'
    BY <1>1, StepGoes, TypeStep, EmailStep, MintFitsStep DEF MintInv, Next
  <2>2. SecondAddressOnlyIfOverlapped'
    <3> SUFFICES ASSUME NEW j \in DOMAIN made', NEW i \in 1..(j - 1),
                        made'[i].wallet = made'[j].wallet, made'[i].network = made'[j].network,
                        made'[j].by \in Runs, made'[j].slips = 0
                 PROVE  (made[i].by \in Runs /\ Overlapped(made[i].by, made[j].by))'
      BY DEF SecondAddressOnlyIfOverlapped
    <3>1. made \in Seq(AddressType) /\ made' \in Seq(AddressType)
      BY <2>1 DEF TypeInv, PrimeTypes
    <3>2. CASE j \in DOMAIN made
      <4>1. i \in DOMAIN made /\ made'[i] = made[i] /\ made'[j] = made[j]
        <5>1. i \in DOMAIN made
          BY <3>1, <3>2
        <5> QED BY <2>1, <3>2, <5>1 DEF Grows
      <4>2. made[i].by \in Runs /\ Overlapped(made[i].by, made[j].by)
        BY <1>1, <3>2, <4>1 DEF MintInv, SecondAddressOnlyIfOverlapped
      <4> QED BY <2>1, <4>1, <4>2, OverlapStays
    <3>3. CASE j \notin DOMAIN made
      <4>1. /\ Mint(r) /\ DOMAIN made' = (DOMAIN made) \cup {Len(made) + 1}
            /\ \A a \in DOMAIN made : made'[a] = made[a]
            /\ made'[Len(made) + 1] = [wallet |-> run[r].cur.wallet,
                 network |-> run[r].cur.network, by |-> r, slips |-> run[r].slips]
        BY <1>1, <2>1, <3>3, MadeGrows
      <4>2. j = Len(made) + 1 /\ i \in DOMAIN made
        BY <3>1, <3>3, <4>1
      <4>3. /\ i \in On(run[r].cur.wallet, run[r].cur.network) /\ run[r].slips = 0
            /\ made'[j].by = r
        BY <4>1, <4>2 DEF On
      <4>4. made[i].by \in Runs /\ Overlapped(made[i].by, r)
        BY <1>1, <4>1, <4>3 DEF MintInv, MintFits, Minting, Mint, At
      <4> QED BY <2>1, <4>1, <4>2, <4>3, <4>4, OverlapStays
    <3> QED BY <3>2, <3>3
  <2> QED BY <2>1, <2>2 DEF MintInv
<1>2. ASSUME MintInv, UNCHANGED vars PROVE MintInv'
  <2>1. TypeInv' /\ EmailInv'
    BY <1>2, TypesKept, EmailStep DEF MintInv
  <2> QED BY <1>2, <2>1
          DEF MintInv, SecondAddressOnlyIfOverlapped, MintFits, Minting, On, Overlapped, At,
              Setup, vars, prime
<1> QED BY <1>1, <1>2 DEF Next

LEMMA MintStart == Init => MintInv
<1> SUFFICES ASSUME Init PROVE MintInv
  OBVIOUS
<1>1. TypeInv /\ EmailInv
  BY TypeStart, EmailStart
<1>2. \A r \in Runs : run[r].at = "idle"
  BY DEF Init, Idle
<1>3. \A a \in DOMAIN made : made[a].by \notin Runs
  BY StartAssumption, DirectoryAssumption, ToolsAssumption DEF Init
<1>4. SecondAddressOnlyIfOverlapped /\ \A r \in Runs : MintFits(r)
  BY <1>2, <1>3 DEF SecondAddressOnlyIfOverlapped, MintFits, Minting
<1> QED BY <1>1, <1>4 DEF MintInv

(* A tool makes an address only where there is none: two on one network of  *)
(* a wallet come from runs that overlapped, or from one with a failed call. *)
THEOREM SecondAddressesOverlap == Spec => []SecondAddressOnlyIfOverlapped
<1>1. MintInv => SecondAddressOnlyIfOverlapped
  BY DEF MintInv
<1> QED BY <1>1, MintStart, MintStep, PTL DEF Spec

-----------------------------------------------------------------------------
(* What is stored of an address, and what of it was assigned.               *)

(* Somebody has the address a of Prime's, for good. *)
Held(a) ==
  IF backend = "sqlite" THEN \E u \in Ids : \E e \in listed[u] : e.addr = a
  ELSE \E u \in Ids : DepositOf(a) \in keyed[u]

(* What a run that had ended before has given cannot have been found. *)
Unfound(r, a) ==
  \A q \in run[r].before : a \in run[q].gave => ~Findable(wallets[made[a].wallet])

GaveFits(r) ==
  /\ \A a \in run[r].gave : a \in DOMAIN made /\ Held(a)
  /\ run[r].slips = 0 => \A a \in run[r].gave : Unfound(r, a)
  /\ /\ run[r].slips = 0 /\ run[r].stage = "assign"
     /\ run[r].at \in {"search", "put", "write"}
     => Unfound(r, run[r].cur.addr)
  /\ At(r, "write") => backend = "formance"

Deposits(u) == {k \in keyed[u] : ~IsWithdrawal(k)}

(* A deposit address has one key, and what is listed has one. *)
KeysFit ==
  backend = "formance" => \A u \in Ids :
    /\ listed[u] \subseteq Deposits(u)
    /\ \A k \in Deposits(u) : k.addr \in DOMAIN made /\ k = DepositOf(k.addr)

Orderly == (\A r \in Runs : Faultless(r)) /\ \A r, q \in Runs : ~Overlapped(r, q)

(* While nothing fails or overlaps, the map that was read is the one that   *)
(* is overwritten.                                                          *)
ReadFits(r) ==
  At(r, "write") /\ run[r].stage # "register" =>
    /\ run[r].read \subseteq Deposits(run[r].cur.user)
    /\ Orderly => listed[run[r].cur.user] \subseteq run[r].read

MapFits ==
  backend = "formance" =>
    /\ Orderly => \A u \in Ids : Deposits(u) \subseteq listed[u]
    /\ \A r \in Runs : ReadFits(r)

EntryInv == TypeInv /\ EmailInv /\ KeysFit /\ MapFits /\ \A r \in Runs : GaveFits(r)

(* A step that neither stores nor assigns, nor is about to. *)
Calm(r) ==
  \E s : /\ Same(run[r], s) /\ s.gave = run[r].gave
         /\ s.at \in {"search", "put"} => s.stage # "assign"
         /\ s.at = "write" => s.stage = "register" /\ backend = "formance"
         /\ Now(r, s)

LEMMA MoreNames ==
  /\ {"at", "slips", "before", "stage", "gave", "cur", "addrs", "read"} \subseteq DOMAIN Idle
  /\ Idle.at = "idle" /\ Idle.slips = 0 /\ Idle.before = {} /\ Idle.gave = {}
BY DEF Idle

LEMMA RunShape ==
  ASSUME TypeInv, EmailInv, NEW r \in Runs
  PROVE  Shape(run[r])
BY DEF EmailInv, RunInv

LEMMA UnsyncedCalm ==
  ASSUME NEW r \in Runs, NEW s, Shape(s)
  PROVE  /\ Same(s, Unsynced(r, s)) /\ Unsynced(r, s).gave = s.gave
         /\ Unsynced(r, s).at \in {"next", "check", "mint"}
BY MoreNames DEF Shape, Same, Unsynced, Failed, Served

LEMMA StepCalm ==
  ASSUME TypeInv, EmailInv, NEW r \in Runs, Step(r),
         ~Begin(r), ~Find(r), ~Search(r), ~PutStep(r)
  PROVE  Calm(r)
<1>1. Shape(run[r])
  BY RunShape
<1> USE <1>1, MoreNames DEF Shape, Same, GoTo, Now, At
<1>2. CASE PickTask(r)
  BY <1>2 DEF PickTask, FirstCall, Calm
<1>3. CASE Discovery(r)
  BY <1>3 DEF Discovery, Discover, ReadUsers, ReadAssigned, AllAssigned, Calm
<1>4. CASE UserStep(r)
  <2>1. ASSUME NEW u
        PROVE  /\ Same(run[r], Identified(r, u)) /\ Identified(r, u).at = "next"
               /\ Identified(r, u).gave = run[r].gave
    BY DEF Identified
  <2>2. /\ Same(run[r], NotCreated(r)) /\ NotCreated(r).at \in {"refetch", "dead"}
        /\ NotCreated(r).gave = run[r].gave
    BY DEF NotCreated
  <2> QED BY <1>4, <2>1, <2>2
          DEF UserStep, Identify, InsertUser, CheckEmail, WriteUser, CreateUserFails, Calm
<1>5. CASE LookUp(r)
  <2>1. run[r].stage = "register"
    BY <1>5, LoopFacts DEF LookUp, CurFits, InLoop, Before, Places
  <2>2. backend \in {"sqlite", "formance"}
    BY ToolsAssumption DEF TypeInv
  <2> QED BY <1>5, <2>1, <2>2 DEF LookUp, Calm
<1>6. CASE UseWallet(r) \/ CreateWallet(r) \/ CreateWalletFails(r)
  BY <1>6 DEF UseWallet, CreateWallet, CreateWalletFails, Failed, Calm
<1>7. CASE ListAddresses(r)
  <2>1. run[r].stage # "assign"
    BY <1>7, LoopFacts DEF ListAddresses, CurFits, InLoop, Before, Places
  <2> QED BY <1>7, <2>1, UnsyncedCalm DEF ListAddresses, Calm
<1>8. CASE Check(r) \/ MintFails(r)
  BY <1>8 DEF Check, MintFails, Failed, Served, Calm
<1>9. CASE Mint(r)
  <2>1. run[r].stage = "generate"
    BY <1>9, LoopFacts DEF Mint, CurFits, InLoop, Before, Places
  <2> QED BY <1>9, <2>1 DEF Mint, Failed, Calm
<1>10. CASE Die(r)
  BY <1>10 DEF Die, Calm
<1> QED BY <1>2, <1>3, <1>4, <1>5, <1>6, <1>7, <1>8, <1>9, <1>10
        DEF Step, AssignStep, AssetStep

LEMMA CalmGoes ==
  ASSUME EmailInv, NEW r \in Runs, Calm(r)
  PROVE  /\ run'[r].gave = run[r].gave
         /\ run'[r].at \in {"search", "put"} => run'[r].stage # "assign"
         /\ run'[r].at = "write" => run'[r].stage = "register" /\ backend = "formance"
<1>1. PICK s : /\ Same(run[r], s) /\ s.gave = run[r].gave
               /\ s.at \in {"search", "put"} => s.stage # "assign"
               /\ s.at = "write" => s.stage = "register" /\ backend = "formance"
               /\ Now(r, s)
  BY DEF Calm
<1>2. DOMAIN s = DOMAIN Idle /\ DOMAIN run = Runs
  BY <1>1 DEF EmailInv, RunInv, Shape, Same
<1>3. CASE Becomes(r, s)
  <2>1. run'[r] = s
    BY <1>2, <1>3 DEF Becomes
  <2> QED BY <1>1, <2>1
<1>4. CASE Slips(r, s)
  <2>1. run'[r] = [s EXCEPT !.slips = @ + 1]
    BY <1>2, <1>4 DEF Slips
  <2>2. run'[r].gave = s.gave /\ run'[r].at = s.at /\ run'[r].stage = s.stage
    BY <1>2, <2>1, MoreNames
  <2> QED BY <1>1, <2>2
<1> QED BY <1>1, <1>3, <1>4 DEF Now

LEMMA StoreKept ==
  ASSUME NEW r \in Runs, Step(r), ~PutRow(r), ~WriteMap(r)
  PROVE  listed' = listed /\ keyed' = keyed
BY DEF Step, Begin, PickTask, Discovery, Discover, ReadUsers, ReadAssigned, AllAssigned,
       UserStep, Identify, InsertUser, CheckEmail, WriteUser, CreateUserFails,
       AssignStep, Find, Search, LookUp, AssetStep, UseWallet, CreateWallet,
       CreateWalletFails, ListAddresses, Check, Mint, MintFails, PutStep, ReadMap,
       PutFails, Die, OnlyReads, directory

LEMMA DepositKept ==
  ASSUME TypeInv, Grows, NEW a \in DOMAIN made
  PROVE  /\ a \in DOMAIN made' /\ DepositOf(a)' = DepositOf(a)
         /\ wallets'[made'[a].wallet] = wallets[made[a].wallet]
BY PrimeFacts DEF Grows, DepositOf

LEMMA DepositFacts ==
  ASSUME TypeInv, NEW a \in DOMAIN made
  PROVE  DepositOf(a).addr = a /\ ~IsWithdrawal(DepositOf(a))
BY PrimeFacts, DirectoryAssumption DEF Stored, IsWithdrawal

(* What a write of Formance does to the deposit addresses of a user. *)
LEMMA WriteFacts ==
  ASSUME TypeInv, KeysFit, NEW r \in Runs, WriteMap(r), backend = "formance",
         run[r].stage # "register", NEW u, u = run[r].cur.user, NEW e, e = Entry(r)
  PROVE  /\ u \in Ids /\ e.addr \in DOMAIN made /\ e = DepositOf(e.addr)
         /\ listed'[u] = run[r].read \cup {e} /\ Deposits(u)' = Deposits(u) \cup {e}
         /\ \A v \in Ids \ {u} : listed'[v] = listed[v] /\ keyed'[v] = keyed[v]
<1>1. /\ u \in Ids /\ e.addr \in DOMAIN made /\ e = DepositOf(e.addr)
  BY EntryFacts DEF WriteMap, At
<1>2. ~IsWithdrawal(e)
  BY <1>1, DepositFacts
<1>3. /\ listed' = [listed EXCEPT ![u] = run[r].read \cup {e}]
      /\ keyed' = [keyed EXCEPT ![u] = WithKey(keyed[u], e)]
  BY <1>2 DEF WriteMap, WriteMetadata
<1>4. listed \in [Ids -> SUBSET EntryType] /\ keyed \in [Ids -> SUBSET EntryType]
  BY DEF TypeInv
<1>5. /\ listed'[u] = run[r].read \cup {e} /\ keyed'[u] = WithKey(keyed[u], e)
      /\ \A v \in Ids \ {u} : listed'[v] = listed[v] /\ keyed'[v] = keyed[v]
  BY <1>1, <1>3, <1>4
<1>6. Deposits(u)' = Deposits(u) \cup {e}
  <2>1. Deposits(u)' = {k \in WithKey(keyed[u], e) : ~IsWithdrawal(k)}
    BY <1>5 DEF Deposits
  <2>2. \A k \in Deposits(u) : k.addr = e.addr => k = e
    BY <1>1 DEF KeysFit
  <2> QED BY <1>2, <2>1, <2>2 DEF WithKey, Deposits
<1> QED BY <1>1, <1>5, <1>6

(* A withdrawal address that is registered leaves the deposit addresses.    *)
LEMMA RegisterFacts ==
  ASSUME TypeInv, NEW r \in Runs, WriteMap(r), run[r].stage = "register"
  PROVE  listed' = listed /\ \A v \in Ids : Deposits(v)' = Deposits(v)
<1>1. run[r].cur.user \in Ids /\ IsWithdrawal(Entry(r))
  BY EntryFacts DEF WriteMap, At
<1>2. listed' = listed /\ keyed' = [keyed EXCEPT ![run[r].cur.user] = WithKey(@, Entry(r))]
  BY <1>1 DEF WriteMap, WriteMetadata
<1>3. keyed \in [Ids -> SUBSET EntryType]
  BY DEF TypeInv
<1>4. ASSUME NEW v \in Ids PROVE Deposits(v)' = Deposits(v)
  <2>1. keyed'[v] = IF v = run[r].cur.user THEN WithKey(keyed[v], Entry(r)) ELSE keyed[v]
    BY <1>1, <1>2, <1>3
  <2> QED BY <1>1, <2>1 DEF Deposits, WithKey
<1> QED BY <1>2, <1>4

LEMMA OnFormance ==
  ASSUME TypeInv, EmailInv, NEW r \in Runs, backend = "formance", PutRow(r)
  PROVE  FALSE
BY DEF PutRow

LEMMA KeysStep ==
  ASSUME EntryInv, NEW r \in Runs, Step(r)
  PROVE  KeysFit'
<1>1. TypeInv /\ EmailInv /\ KeysFit /\ MapFits /\ Grows /\ Unwritten
  BY StepGoes DEF EntryInv
<1> SUFFICES ASSUME backend = "formance", NEW u \in Ids
             PROVE  /\ listed'[u] \subseteq Deposits(u)'
                    /\ \A k \in Deposits(u)' :
                         k.addr \in DOMAIN made' /\ k = DepositOf(k.addr)'
  BY <1>1 DEF KeysFit, Unwritten
<1>2. ASSUME NEW k \in Deposits(u)
      PROVE  k.addr \in DOMAIN made' /\ k = DepositOf(k.addr)'
  <2>1. PICK a \in DOMAIN made : a = k.addr /\ k = DepositOf(a)
    BY <1>1 DEF KeysFit
  <2> QED BY <1>1, <2>1, DepositKept
<1>3. CASE ~WriteMap(r)
  <2>1. listed' = listed /\ Deposits(u)' = Deposits(u)
    BY <1>1, <1>3, StoreKept, OnFormance DEF Deposits
  <2> QED BY <1>1, <1>2, <2>1 DEF KeysFit
<1>4. CASE WriteMap(r) /\ run[r].stage = "register"
  BY <1>1, <1>2, <1>4, RegisterFacts DEF KeysFit
<1>5. CASE WriteMap(r) /\ run[r].stage # "register"
  <2>1. PICK e, c : e = Entry(r) /\ c = run[r].cur.user
    OBVIOUS
  <2>2. CASE u = c
    <3>1. /\ e.addr \in DOMAIN made /\ e = DepositOf(e.addr)
          /\ listed'[u] = run[r].read \cup {e} /\ Deposits(u)' = Deposits(u) \cup {e}
      BY <1>1, <1>5, <2>1, <2>2, WriteFacts
    <3>2. e.addr \in DOMAIN made' /\ e = DepositOf(e.addr)'
      <4>1. PICK a \in DOMAIN made : a = e.addr /\ e = DepositOf(a)
        BY <3>1
      <4> QED BY <1>1, <4>1, DepositKept
    <3>3. run[r].read \subseteq Deposits(u)
      BY <1>1, <1>5, <2>1, <2>2 DEF MapFits, ReadFits, WriteMap
    <3> QED BY <1>2, <3>1, <3>2, <3>3
  <2>3. CASE u # c
    <3>1. listed'[u] = listed[u] /\ keyed'[u] = keyed[u]
      BY <1>1, <1>5, <2>1, <2>3, WriteFacts
    <3>2. Deposits(u)' = Deposits(u)
      BY <3>1 DEF Deposits
    <3> QED BY <1>1, <1>2, <3>1, <3>2 DEF KeysFit
  <2> QED BY <2>2, <2>3
<1> QED BY <1>3, <1>4, <1>5

(* Nothing that was assigned or read goes away. *)
LEMMA DepositsGrow ==
  ASSUME EntryInv, NEW r \in Runs, Step(r), backend = "formance", NEW u \in Ids
  PROVE  Deposits(u) \subseteq Deposits(u)'
<1>1. TypeInv /\ EmailInv /\ KeysFit
  BY DEF EntryInv
<1>2. CASE ~WriteMap(r)
  BY <1>1, <1>2, StoreKept, OnFormance DEF Deposits
<1>3. CASE WriteMap(r) /\ run[r].stage = "register"
  BY <1>1, <1>3, RegisterFacts
<1>4. CASE WriteMap(r) /\ run[r].stage # "register"
  <2>1. PICK e, c : e = Entry(r) /\ c = run[r].cur.user
    OBVIOUS
  <2>2. /\ Deposits(c)' = Deposits(c) \cup {e}
        /\ \A v \in Ids \ {c} : keyed'[v] = keyed[v]
    BY <1>1, <1>4, <2>1, WriteFacts
  <2> QED BY <2>2 DEF Deposits
<1> QED BY <1>2, <1>3, <1>4

LEMMA OrderlyBefore ==
  ASSUME EntryInv, NEW r \in Runs, Step(r), Orderly'
  PROVE  Orderly /\ faults' = faults
<1>1. TypeInv /\ EmailInv /\ Going(r) /\ (faults' # faults => run'[r].slips # 0)
  BY StepGoes DEF EntryInv
<1>2. \A q \in Runs : run'[q].slips = 0
  BY DEF Orderly, Faultless
<1>3. \A q \in Runs : run[q].slips = 0
  BY <1>1, <1>2 DEF Going, EmailInv, RunInv, Shape
<1>4. \A p, q \in Runs : ~Overlapped(p, q)
  BY <1>1, OverlapStays DEF Orderly
<1> QED BY <1>1, <1>2, <1>3, <1>4 DEF Orderly, Faultless

LEMMA AfterPutFields ==
  ASSUME TypeInv, NEW r \in Runs, NEW ok \in BOOLEAN
  PROVE  LET t == AfterPut(r, ok)
         IN /\ t.at \in {"put", "next", "dead", "check", "mint"}
            /\ t.stage = run[r].stage /\ t.cur = run[r].cur /\ t.slips = run[r].slips
            /\ t.gave = IF ok /\ run[r].stage = "assign" THEN run[r].gave \cup {Current(r)}
                        ELSE run[r].gave
            /\ DOMAIN t = DOMAIN run[r]
<1> DEFINE s == [run[r] EXCEPT !.at = "put", !.addrs = @ \ {Current(r)}, !.read = {},
                   !.stored = @ \/ ok,
                   !.gave = IF ok /\ run[r].stage = "assign" THEN @ \cup {Current(r)} ELSE @]
           Continues(t) ==
             /\ t.at \in {"put", "next", "dead", "check", "mint"}
             /\ t.stage = s.stage /\ t.cur = s.cur /\ t.slips = s.slips /\ t.gave = s.gave
             /\ DOMAIN t = DOMAIN s
<1>1. run[r] \in RunType
  BY RunFacts
<1>2. /\ s.at = "put" /\ s.stage = run[r].stage /\ s.cur = run[r].cur /\ s.slips = run[r].slips
      /\ s.gave = IF ok /\ run[r].stage = "assign" THEN run[r].gave \cup {Current(r)}
                  ELSE run[r].gave
      /\ DOMAIN s = DOMAIN run[r]
  BY <1>1 DEF RunType
<1>3. AfterPut(r, ok) \in {s, Failed(s), [s EXCEPT !.at = "dead"], Served(s), Unsynced(r, s)}
  BY DEF AfterPut
<1>4. DOMAIN s = {"at", "stage", "user", "users", "left", "assigned", "places", "tasks", "cur",
                  "addrs", "read", "exists", "stored", "served", "had", "gave", "slips", "before"}
  BY <1>1, <1>2 DEF RunType
<1> HIDE DEF s
<1>5. ASSUME NEW t \in {s, Failed(s), [s EXCEPT !.at = "dead"], Served(s)} PROVE Continues(t)
  BY <1>2, <1>4, <1>5 DEF Failed, Served
<1>6. Continues(Unsynced(r, s))
  BY <1>2, <1>4 DEF Unsynced, Failed, Served
<1>7. Continues(AfterPut(r, ok))
  BY <1>3, <1>5, <1>6
<1> QED BY <1>2, <1>7

(* A step that stores, or does not after all. *)
LEMMA PutEnds ==
  ASSUME TypeInv, NEW r \in Runs, PutStep(r), ~ReadMap(r)
  PROVE  \E ok \in BOOLEAN :
           /\ ok => PutRow(r) \/ WriteMap(r)
           /\ run'[r].at \in {"put", "next", "dead", "check", "mint"}
           /\ run'[r].stage = run[r].stage /\ run'[r].cur = run[r].cur
           /\ run'[r].gave = IF ok /\ run[r].stage = "assign" THEN run[r].gave \cup {Current(r)}
                             ELSE run[r].gave
<1>1. PICK ok \in BOOLEAN :
        /\ ok => PutRow(r) \/ WriteMap(r)
        /\ Becomes(r, AfterPut(r, ok)) \/ Slips(r, AfterPut(r, ok))
  BY DEF PutStep, PutRow, WriteMap, PutFails
<1>2. PICK t : t = AfterPut(r, ok)
  OBVIOUS
<1>3. /\ t.at \in {"put", "next", "dead", "check", "mint"}
      /\ t.stage = run[r].stage /\ t.cur = run[r].cur
      /\ t.gave = IF ok /\ run[r].stage = "assign" THEN run[r].gave \cup {Current(r)}
                  ELSE run[r].gave
      /\ DOMAIN t = DOMAIN run[r]
  BY <1>2, AfterPutFields
<1>4. run[r] \in RunType /\ DOMAIN run = Runs
  BY RunFacts
<1>5. CASE Becomes(r, t)
  <2>1. run'[r] = t
    BY <1>4, <1>5 DEF Becomes
  <2> QED BY <1>1, <1>3, <2>1
<1>6. CASE Slips(r, t)
  <2>1. run'[r] = [t EXCEPT !.slips = @ + 1]
    BY <1>4, <1>6 DEF Slips
  <2>2. {"at", "stage", "cur", "gave"} \subseteq DOMAIN t
    BY <1>3, <1>4 DEF RunType
  <2>3. run'[r].at = t.at /\ run'[r].stage = t.stage /\ run'[r].cur = t.cur /\ run'[r].gave = t.gave
    BY <2>1, <2>2
  <2> QED BY <1>1, <1>3, <2>3
<1> QED BY <1>1, <1>2, <1>5, <1>6

LEMMA ToWrite ==
  ASSUME EntryInv, NEW r \in Runs, Step(r), run'[r].at = "write", run'[r].stage # "register"
  PROVE  ReadMap(r)
<1>1. TypeInv /\ EmailInv
  BY DEF EntryInv
<1>2. run[r] \in RunType /\ DOMAIN run = Runs
  BY <1>1, RunFacts
<1>3. CASE Begin(r)
  BY <1>2, <1>3, FieldNames DEF Begin, Becomes, Setup
<1>4. CASE Find(r) \/ Search(r)
  <2>1. PICK s : /\ DOMAIN s = DOMAIN Idle /\ s.at # "write"
                 /\ Now(r, s)
    BY <1>1, <1>4, RunShape, MoreNames DEF Find, WhenOwned, Search, GoTo, Now, Shape
  <2>2. run'[r].at = s.at
    <3>1. CASE Becomes(r, s)
      BY <1>2, <3>1 DEF Becomes
    <3>2. CASE Slips(r, s)
      BY <1>2, <2>1, <3>2, MoreNames DEF Slips
    <3> QED BY <2>1, <3>1, <3>2 DEF Now
  <2> QED BY <2>1, <2>2
<1>5. CASE PutStep(r) /\ ~ReadMap(r)
  BY <1>1, <1>5, PutEnds
<1> QED BY <1>1, <1>3, <1>4, <1>5, StepCalm, CalmGoes

(* The JSON map.  A run that writes while nothing overlaps is alone.        *)
LEMMA MapStep ==
  ASSUME EntryInv, NEW r \in Runs, Step(r), backend = "formance"
  PROVE  /\ Orderly' => \A u \in Ids : Deposits(u)' \subseteq listed'[u]
         /\ \A q \in Runs : ReadFits(q)'
<1>1. /\ TypeInv /\ EmailInv /\ KeysFit /\ MapFits /\ TypeInv'
      /\ \A q \in Runs : q # r => run'[q] = run[q]
  BY StepGoes, TypeStep DEF EntryInv, Going, Next
<1>2. ASSUME Orderly', NEW u \in Ids PROVE Deposits(u)' \subseteq listed'[u]
  <2>1. Orderly /\ Deposits(u) \subseteq listed[u]
    BY <1>1, <1>2, OrderlyBefore DEF MapFits
  <2>2. CASE ~WriteMap(r)
    BY <1>1, <2>1, <2>2, StoreKept, OnFormance DEF Deposits
  <2>3. CASE WriteMap(r) /\ run[r].stage = "register"
    BY <1>1, <2>1, <2>3, RegisterFacts
  <2>4. CASE WriteMap(r) /\ run[r].stage # "register"
    <3>1. PICK e, c : e = Entry(r) /\ c = run[r].cur.user
      OBVIOUS
    <3>2. /\ c \in Ids /\ listed'[c] = run[r].read \cup {e} /\ Deposits(c)' = Deposits(c) \cup {e}
          /\ \A v \in Ids \ {c} : listed'[v] = listed[v] /\ keyed'[v] = keyed[v]
      BY <1>1, <2>4, <3>1, WriteFacts
    <3>3. listed[c] \subseteq run[r].read
      BY <1>1, <2>1, <2>4, <3>1 DEF MapFits, ReadFits, WriteMap
    <3>4. CASE u = c
      BY <2>1, <3>2, <3>3, <3>4
    <3>5. CASE u # c
      BY <2>1, <3>2, <3>5 DEF Deposits
    <3> QED BY <3>4, <3>5
  <2> QED BY <2>2, <2>3, <2>4
<1>3. ASSUME NEW q \in Runs, q # r PROVE ReadFits(q)'
  <2>1. run'[q] = run[q]
    BY <1>1, <1>3
  <2> SUFFICES ASSUME run[q].at = "write", run[q].stage # "register", NEW c, c = run[q].cur.user
               PROVE  /\ run[q].read \subseteq Deposits(c)'
                      /\ Orderly' => listed'[c] \subseteq run[q].read
    BY <2>1 DEF ReadFits, At
  <2>2. /\ c \in Ids /\ run[q].read \subseteq Deposits(c)
        /\ Orderly => listed[c] \subseteq run[q].read
    BY <1>1, EntryFacts DEF MapFits, ReadFits, At
  <2>3. run[q].read \subseteq Deposits(c)'
    BY <2>2, DepositsGrow
  <2>4. ASSUME Orderly' PROVE listed'[c] \subseteq run[q].read
    <3>1. Orderly
      BY <2>4, OrderlyBefore
    <3>2. ~WriteMap(r)
      BY <1>1, <1>3, <3>1, MintersOverlap DEF WriteMap, At, Over, Orderly
    <3>3. listed' = listed
      BY <1>1, <3>2, StoreKept, OnFormance
    <3> QED BY <2>2, <3>1, <3>3
  <2> QED BY <2>3, <2>4
<1>4. ReadFits(r)'
  <2> SUFFICES ASSUME run'[r].at = "write", run'[r].stage # "register",
                      NEW c, c = run'[r].cur.user
               PROVE  /\ run'[r].read \subseteq Deposits(c)'
                      /\ Orderly' => listed'[c] \subseteq run'[r].read
    BY DEF ReadFits, At
  <2>1. ReadMap(r) /\ run[r] \in RunType /\ DOMAIN run = Runs /\ run[r].read = {}
    BY <1>1, ToWrite, RunFacts DEF ReadMap, At, RunFits, BaseFits
  <2>2. listed' = listed /\ keyed' = keyed
    BY <2>1 DEF ReadMap, OnlyReads, directory
  <2>3. CASE Becomes(r, [GoTo(r, "write") EXCEPT !.read = listed[run[r].cur.user]])
    <3>1. PICK m : m = listed[run[r].cur.user]
      OBVIOUS
    <3>2. run'[r] = [GoTo(r, "write") EXCEPT !.read = m]
      BY <2>1, <2>3, <3>1 DEF Becomes
    <3>3. run'[r].read = m /\ run'[r].cur = run[r].cur
      BY <2>1, <3>2 DEF GoTo, RunType
    <3>4. c \in Ids /\ listed[c] = m
      BY <1>1, <2>1, <3>1, <3>3, EntryFacts DEF ReadMap, At
    <3>5. m \subseteq Deposits(c)
      BY <1>1, <3>4 DEF KeysFit
    <3> QED BY <2>2, <3>3, <3>4, <3>5 DEF Deposits
  <2>4. CASE Slips(r, GoTo(r, "write"))
    <3>1. run'[r] = [GoTo(r, "write") EXCEPT !.slips = @ + 1]
      BY <2>1, <2>4 DEF Slips, GoTo, RunType
    <3>2. run'[r].read = {}
      BY <2>1, <3>1 DEF GoTo, RunType
    <3>3. ~Orderly'
      BY <1>1, <2>4, SlipsOff, OrderlyBefore
    <3> QED BY <3>2, <3>3
  <2> QED BY <2>1, <2>3, <2>4 DEF ReadMap
<1> QED BY <1>2, <1>3, <1>4

(* What is stored stays, whatever the backend. *)
LEMMA HeldStays ==
  ASSUME EntryInv, NEW r \in Runs, Step(r), NEW a \in DOMAIN made, Held(a)
  PROVE  Held(a)'
<1>1. TypeInv /\ EmailInv /\ Grows /\ Unwritten
  BY StepGoes DEF EntryInv
<1>2. CASE backend = "sqlite"
  <2>1. PICK u \in Ids : \E x \in listed[u] : x.addr = a
    BY <1>2 DEF Held
  <2> PICK e \in listed[u] : e.addr = a
    BY <2>1
  <2>2. e \in listed'[u]
    <3>1. CASE ~PutRow(r) /\ ~WriteMap(r)
      BY <3>1, StoreKept
    <3>2. CASE PutRow(r)
      BY <1>1, <3>2 DEF PutRow, InsertAddress, TypeInv
    <3>3. ~WriteMap(r)
      <4>1. SUFFICES ASSUME WriteMap(r) PROVE FALSE
        OBVIOUS
      <4>2. run[r].at = "write"
        BY <4>1 DEF WriteMap, At
      <4> QED BY <1>2, <4>2 DEF EntryInv, GaveFits, At
    <3> QED BY <3>1, <3>2, <3>3
  <2> QED BY <1>1, <1>2, <2>1, <2>2 DEF Held, Unwritten
<1>3. CASE backend # "sqlite"
  <2>1. backend = "formance"
    BY <1>1, <1>3, ToolsAssumption DEF TypeInv
  <2>2. PICK u \in Ids : DepositOf(a) \in keyed[u]
    BY <1>3 DEF Held
  <2> PICK k : k = DepositOf(a)
    OBVIOUS
  <2>3. k \in Deposits(u)'
    BY <1>1, <2>1, <2>2, DepositFacts, DepositsGrow DEF Deposits
  <2>4. k = DepositOf(a)'
    BY <1>1, <2>2, DepositKept
  <2> QED BY <1>1, <1>3, <2>3, <2>4 DEF Held, Unwritten, Deposits
<1> QED BY <1>2, <1>3

(* An address that nobody has was given by none that had ended before,      *)
(* unless it is one that cannot be found.                                   *)
LEMMA NobodysUnfound ==
  ASSUME EntryInv, NEW r \in Runs, NEW a, Owners(a) = {}
  PROVE  Unfound(r, a)
<1>1. TypeInv /\ EmailInv
  BY DEF EntryInv
<1> SUFFICES ASSUME NEW q \in run[r].before, a \in run[q].gave, Findable(wallets[made[a].wallet])
             PROVE  FALSE
  BY DEF Unfound
<1>2. a \in DOMAIN made /\ Held(a)
  BY <1>1 DEF EntryInv, GaveFits, EmailInv, RunInv
<1>3. DepositOf(a).addr = a /\ DepositOf(a).asset = wallets[made[a].wallet]
  BY <1>1, <1>2, PrimeFacts DEF Stored
<1> QED BY <1>2, <1>3 DEF Held, Owners, AllAddressesOf

(* What a run knows of those that had ended before stays. *)
LEMMA UnfoundStays ==
  ASSUME EntryInv, NEW r \in Runs, Step(r), NEW q \in Runs, q = r => run[r].at # "idle",
         NEW a, Unfound(q, a)
  PROVE  Unfound(q, a)'
<1>1. TypeInv /\ EmailInv /\ Going(r) /\ Grows /\ Unwritten /\ run[r].at \notin Over
  BY StepGoes DEF EntryInv
<1>2. run'[q].before = run[q].before
  BY <1>1 DEF Going
<1>3. ASSUME NEW p \in run[q].before, a \in run'[p].gave, Findable(wallets[made[a].wallet])'
      PROVE  FALSE
  <2>1. p \in Runs /\ run[p].at \in Over
    BY <1>1 DEF EmailInv, RunInv, Over
  <2>2. run'[p] = run[p]
    BY <1>1, <2>1 DEF Going
  <2>3. a \in DOMAIN made
    BY <1>3, <2>1, <2>2 DEF EntryInv, GaveFits
  <2>4. Findable(wallets[made[a].wallet])
    BY <1>1, <1>3, <2>3, DepositKept DEF Findable, Unwritten
  <2> QED BY <1>3, <2>2, <2>4 DEF Unfound
<1> QED BY <1>2, <1>3 DEF Unfound

(* What a step adds to what its run has given is stored by it. *)
LEMMA GivenHeld ==
  ASSUME EntryInv, NEW r \in Runs, Step(r), PutRow(r) \/ WriteMap(r), run[r].stage = "assign",
         NEW a, a = Current(r)
  PROVE  a = run[r].cur.addr /\ a \in DOMAIN made /\ Held(a)'
<1>1. TypeInv /\ EmailInv /\ KeysFit /\ Unwritten /\ Grows /\ run[r].at \in {"put", "write"}
  BY StepGoes DEF EntryInv, PutRow, WriteMap, At
<1>2. PICK e, c : e = Entry(r) /\ c = run[r].cur.user
  OBVIOUS
<1>3. /\ c \in Ids /\ a \in run[r].addrs /\ e.addr = a
      /\ a \in DOMAIN made /\ e = DepositOf(a)
  BY <1>1, <1>2, EntryFacts
<1>4. a = run[r].cur.addr
  <2>1. CurFits(r, run[r])
    BY <1>1, RunFacts DEF RunFits
  <2> QED BY <1>1, <1>3, <2>1 DEF CurFits
<1>5. CASE PutRow(r)
  <2>1. e \in listed'[c] /\ backend' = "sqlite"
    BY <1>1, <1>2, <1>3, <1>5 DEF PutRow, InsertAddress, TypeInv
  <2> QED BY <1>3, <1>4, <2>1 DEF Held
<1>6. CASE WriteMap(r)
  <2>1. backend = "formance" /\ backend' = backend
    BY <1>1, <1>6 DEF EntryInv, GaveFits, WriteMap, Unwritten
  <2>2. e \in Deposits(c)'
    BY <1>1, <1>2, <1>6, <2>1, WriteFacts
  <2>3. e = DepositOf(a)'
    BY <1>1, <1>3, DepositKept
  <2> QED BY <1>3, <1>4, <2>1, <2>2, <2>3 DEF Held, Deposits
<1> QED BY <1>5, <1>6

LEMMA FindSearch ==
  ASSUME EntryInv, NEW r \in Runs, Step(r), Find(r) \/ Search(r)
  PROVE  /\ run'[r].gave = run[r].gave /\ run'[r].stage = run[r].stage
         /\ run'[r].at # "write" /\ run'[r].cur.addr = run[r].cur.addr
         /\ run'[r].at = "search" /\ run'[r].slips = 0 => Owners(run[r].cur.addr) = {}
         /\ run'[r].at = "put" => run[r].at = "search"
<1>1. TypeInv /\ EmailInv /\ run[r] \in RunType /\ DOMAIN run = Runs
  BY RunFacts DEF EntryInv
<1>2. CASE Find(r)
  <2>1. PICK p \in {"search", "book", "dead", "next"} :
          \/ Becomes(r, GoTo(r, p)) /\ (p = "search" => Owners(run[r].cur.addr) = {})
          \/ Slips(r, GoTo(r, p))
    <3>1. ASSUME NEW u PROVE \E p \in {"dead", "next"} : WhenOwned(r, u) = GoTo(r, p)
      BY DEF WhenOwned
    <3>2. PICK free \in {"search", "book"} :
            \/ \E u \in Owners(run[r].cur.addr) : Becomes(r, WhenOwned(r, u))
            \/ Owners(run[r].cur.addr) = {} /\ Becomes(r, GoTo(r, free))
            \/ Slips(r, GoTo(r, free))
      BY <1>2 DEF Find
    <3>3. ASSUME NEW u \in Owners(run[r].cur.addr), Becomes(r, WhenOwned(r, u))
          PROVE  \E p \in {"dead", "next"} : Becomes(r, GoTo(r, p))
      BY <3>1, <3>3
    <3> QED BY <3>2, <3>3
  <2>2. CASE Becomes(r, GoTo(r, p)) /\ (p = "search" => Owners(run[r].cur.addr) = {})
    <3>1. run'[r] = GoTo(r, p)
      BY <1>1, <2>2 DEF Becomes
    <3> QED BY <1>1, <2>1, <2>2, <3>1 DEF GoTo, RunType
  <2>3. CASE Slips(r, GoTo(r, p))
    <3>1. run'[r] = [GoTo(r, p) EXCEPT !.slips = @ + 1]
      BY <1>1, <2>3 DEF Slips
    <3>2. run'[r].slips # 0
      BY <1>1, <3>1 DEF GoTo, RunType
    <3> QED BY <1>1, <2>1, <3>1, <3>2 DEF GoTo, RunType
  <2> QED BY <2>1, <2>2, <2>3
<1>3. CASE Search(r)
  <2>1. run[r].at = "search"
    BY <1>3 DEF Search, At
  <2>2. CASE Becomes(r, GoTo(r, "dead"))
    <3>1. run'[r] = GoTo(r, "dead")
      BY <1>1, <2>2 DEF Becomes
    <3> QED BY <1>1, <2>1, <3>1 DEF GoTo, RunType
  <2>3. ASSUME NEW as, NEW n, NEW c, NEW found,
               found = [GoTo(r, "put") EXCEPT !.addrs = as, !.cur.network = n, !.cur.asset = c],
               Becomes(r, found) \/ Slips(r, found)
        PROVE  /\ run'[r].gave = run[r].gave /\ run'[r].stage = run[r].stage
               /\ run'[r].at = "put" /\ run'[r].cur.addr = run[r].cur.addr
    <3>1. run'[r] \in {found, [found EXCEPT !.slips = @ + 1]}
      BY <1>1, <2>3 DEF Becomes, Slips
    <3>2. {"at", "addrs", "cur", "gave", "stage", "slips"} \subseteq DOMAIN run[r]
      BY <1>1 DEF RunType
    <3>3. run[r].cur \in TaskType
      BY <1>1 DEF RunType
    <3>4. {"network", "asset", "addr"} \subseteq DOMAIN run[r].cur
      BY <3>3 DEF TaskType
    <3>5. /\ run'[r].gave = run[r].gave /\ run'[r].stage = run[r].stage
          /\ run'[r].at = "put"
          /\ run'[r].cur = [run[r].cur EXCEPT !.network = n, !.asset = c]
      BY <2>3, <3>1, <3>2 DEF GoTo
    <3> QED BY <3>4, <3>5
  <2> QED BY <1>3, <2>1, <2>2, <2>3 DEF Search
<1> QED BY <1>2, <1>3

LEMMA ReadMapFields ==
  ASSUME EntryInv, NEW r \in Runs, ReadMap(r)
  PROVE  /\ run'[r].gave = run[r].gave /\ run'[r].stage = run[r].stage
         /\ run'[r].cur = run[r].cur /\ run[r].at = "put" /\ backend = "formance"
<1>1. TypeInv /\ run[r] \in RunType /\ DOMAIN run = Runs
  BY RunFacts DEF EntryInv
<1>2. PICK m : Becomes(r, [GoTo(r, "write") EXCEPT !.read = m]) \/ Slips(r, GoTo(r, "write"))
  BY DEF ReadMap
<1>3. CASE Becomes(r, [GoTo(r, "write") EXCEPT !.read = m])
  <2>1. run'[r] = [GoTo(r, "write") EXCEPT !.read = m]
    BY <1>1, <1>3 DEF Becomes
  <2> QED BY <1>1, <2>1 DEF GoTo, RunType, ReadMap, At
<1>4. CASE Slips(r, GoTo(r, "write"))
  <2>1. run'[r] = [GoTo(r, "write") EXCEPT !.slips = @ + 1]
    BY <1>1, <1>4 DEF Slips
  <2> QED BY <1>1, <2>1 DEF GoTo, RunType, ReadMap, At
<1> QED BY <1>2, <1>3, <1>4

LEMMA GaveGrows ==
  ASSUME EntryInv, NEW r \in Runs, Step(r), ~Begin(r), NEW a \in run'[r].gave
  PROVE  \/ a \in run[r].gave
         \/ (PutRow(r) \/ WriteMap(r)) /\ run[r].stage = "assign" /\ a = Current(r)
<1>1. TypeInv /\ EmailInv
  BY DEF EntryInv
<1>2. CASE Find(r) \/ Search(r)
  BY <1>2, FindSearch
<1>3. CASE ReadMap(r)
  BY <1>3, ReadMapFields
<1>4. CASE PutStep(r) /\ ~ReadMap(r)
  BY <1>1, <1>4, PutEnds
<1> QED BY <1>1, <1>2, <1>3, <1>4, StepCalm, CalmGoes

(* The address that a run has in hand was nobody's when it looked.          *)
LEMMA InHand ==
  ASSUME EntryInv, NEW r \in Runs, Step(r), ~Begin(r), run'[r].slips = 0,
         run'[r].at \in {"search", "put", "write"}, run'[r].stage = "assign"
  PROVE  /\ run'[r].cur.addr = run[r].cur.addr
         /\ Unfound(r, run[r].cur.addr)
<1>1. TypeInv /\ EmailInv /\ Going(r) /\ run[r].slips = 0
  BY StepGoes DEF EntryInv, EmailInv, RunInv, Shape, Going
<1>2. run[r].stage = "assign" /\ run[r].at \in {"search", "put", "write"}
        => Unfound(r, run[r].cur.addr)
  BY <1>1 DEF EntryInv, GaveFits
<1>3. CASE Find(r) \/ Search(r)
  <2>1. CASE run'[r].at = "search"
    BY <1>1, <1>3, <2>1, FindSearch, NobodysUnfound
  <2>2. CASE run'[r].at = "put"
    BY <1>2, <1>3, <2>2, FindSearch
  <2> QED BY <1>3, <2>1, <2>2, FindSearch
<1>4. CASE ReadMap(r)
  BY <1>2, <1>4, ReadMapFields
<1>5. CASE PutStep(r) /\ ~ReadMap(r)
  <2>1. run[r].at \in {"put", "write"}
    BY <1>1, <1>5 DEF PutStep, PutRow, WriteMap, PutFails, At
  <2>2. run'[r].stage = run[r].stage /\ run'[r].cur = run[r].cur
    BY <1>1, <1>5, PutEnds
  <2> QED BY <1>2, <2>1, <2>2
<1> QED BY <1>1, <1>3, <1>4, <1>5, StepCalm, CalmGoes

LEMMA ToWriteBackend ==
  ASSUME EntryInv, NEW r \in Runs, Step(r), run'[r].at = "write"
  PROVE  backend = "formance"
<1>1. TypeInv /\ EmailInv /\ run[r] \in RunType /\ DOMAIN run = Runs
  BY RunFacts DEF EntryInv
<1>2. CASE Begin(r)
  BY <1>1, <1>2, FieldNames DEF Begin, Becomes, Setup
<1>3. CASE Find(r) \/ Search(r)
  BY <1>3, FindSearch
<1>4. CASE ReadMap(r)
  BY <1>4, ReadMapFields
<1>5. CASE PutStep(r) /\ ~ReadMap(r)
  BY <1>1, <1>5, PutEnds
<1> QED BY <1>1, <1>2, <1>3, <1>4, <1>5, StepCalm, CalmGoes

LEMMA GaveStep ==
  ASSUME EntryInv, NEW r \in Runs, Step(r), NEW q \in Runs
  PROVE  GaveFits(q)'
<1>1. /\ TypeInv /\ EmailInv /\ Going(r) /\ Grows /\ Unwritten
      /\ DOMAIN run = Runs /\ GaveFits(q) /\ run[q].slips \in Nat
  BY StepGoes DEF EntryInv, EmailInv, RunInv, Shape
<1>2. \A a \in DOMAIN made : Held(a) => a \in DOMAIN made' /\ Held(a)'
  BY <1>1, HeldStays DEF Grows
<1>3. CASE q # r
  <2>1. run'[q] = run[q]
    BY <1>1, <1>3 DEF Going
  <2>2. \A a : Unfound(q, a) => Unfound(q, a)'
    BY <1>3, UnfoundStays
  <2>3. PICK c : c = run[q].cur.addr
    OBVIOUS
  <2>4. Unfound(q, run[q].cur.addr)' <=> Unfound(q, c)'
    BY <2>1, <2>3
  <2> QED BY <1>1, <1>2, <2>1, <2>2, <2>3, <2>4 DEF GaveFits, At, Unwritten
<1>4. CASE q = r /\ Begin(r)
  <2>1. run'[r] = [Idle EXCEPT !.at = IF Setup(r) THEN "discover" ELSE "identify",
                               !.stage = FirstStage(r), !.before = Ended]
    BY <1>1, <1>4 DEF Begin, Becomes
  <2>2. run'[r].at \in {"discover", "identify"} /\ run'[r].gave = {}
    BY <2>1, MoreNames
  <2> QED BY <1>4, <2>2 DEF GaveFits, At
<1>5. CASE q = r /\ ~Begin(r)
  <2>1. \A a : Unfound(r, a) => Unfound(r, a)'
    <3>1. run[r].at # "idle"
      BY <1>1, <1>5, StepKinds DEF Quiet, Looks, Creates, At, EmailInv, RunInv
    <3> QED BY <3>1, UnfoundStays
  <2>2. ASSUME NEW a \in run'[r].gave
        PROVE  a \in DOMAIN made' /\ Held(a)' /\ (run'[r].slips = 0 => Unfound(r, a)')
    <3>1. run'[r].slips = 0 => run[r].slips = 0
      BY <1>1, <1>5 DEF Going, Shape
    <3>2. CASE a \in run[r].gave
      BY <1>1, <1>2, <1>5, <2>1, <3>1, <3>2 DEF GaveFits
    <3>3. CASE (PutRow(r) \/ WriteMap(r)) /\ run[r].stage = "assign" /\ a = Current(r)
      <4>1. a = run[r].cur.addr /\ a \in DOMAIN made /\ Held(a)'
        BY <3>3, GivenHeld
      <4>2. run[r].at \in {"put", "write"}
        BY <3>3 DEF PutRow, WriteMap, At
      <4>3. run[r].slips = 0 => Unfound(r, a)
        BY <1>1, <1>5, <3>3, <4>1, <4>2 DEF GaveFits
      <4> QED BY <1>1, <2>1, <3>1, <4>1, <4>3 DEF Grows
    <3> QED BY <1>5, <2>2, <3>2, <3>3, GaveGrows
  <2>3. ASSUME run'[r].slips = 0, run'[r].stage = "assign",
               run'[r].at \in {"search", "put", "write"}
        PROVE  Unfound(r, run[r].cur.addr)'
    <3>1. PICK c : c = run[r].cur.addr
      OBVIOUS
    <3>2. c = run'[r].cur.addr /\ Unfound(r, c)
      BY <1>5, <2>3, <3>1, InHand
    <3> QED BY <2>1, <3>2
  <2>4. At(r, "write")' => backend' = "formance"
    BY <1>1, ToWriteBackend DEF At, Unwritten
  <2> QED BY <1>5, <2>2, <2>3, <2>4 DEF GaveFits
<1> QED BY <1>3, <1>4, <1>5

LEMMA EntryStep == EntryInv /\ [Next]_vars => EntryInv'
<1>1. ASSUME EntryInv, NEW r \in Runs, Step(r) PROVE EntryInv'
  <2>1. TypeInv' /\ EmailInv' /\ backend' = backend
    BY <1>1, StepGoes, TypeStep, EmailStep DEF EntryInv, Next, Unwritten
  <2>2. KeysFit' /\ \A q \in Runs : GaveFits(q)'
    BY <1>1, KeysStep, GaveStep
  <2>3. MapFits'
    BY <1>1, <2>1, MapStep DEF MapFits
  <2> QED BY <2>1, <2>2, <2>3 DEF EntryInv
<1>2. ASSUME EntryInv, UNCHANGED vars PROVE EntryInv'
  <2>1. TypeInv' /\ EmailInv'
    BY <1>2, TypesKept, EmailStep DEF EntryInv
  <2>2. /\ backend' = backend /\ listed' = listed /\ keyed' = keyed /\ run' = run
        /\ wallets' = wallets /\ made' = made /\ command' = command
    BY <1>2 DEF vars, directory, prime
  <2>3. KeysFit' /\ MapFits'
    BY <1>2, <2>2 DEF EntryInv, KeysFit, MapFits, ReadFits, Deposits, DepositOf, Orderly,
                      Faultless, Overlapped, At
  <2>4. \A q \in Runs : GaveFits(q)'
    BY <1>2, <2>2 DEF EntryInv, GaveFits, Held, Unfound, Findable, DepositOf, At
  <2> QED BY <2>1, <2>3, <2>4 DEF EntryInv
<1> QED BY <1>1, <1>2 DEF Next

LEMMA EntryStart == Init => EntryInv
<1> SUFFICES ASSUME Init PROVE EntryInv
  OBVIOUS
<1>1. TypeInv /\ EmailInv
  BY TypeStart, EmailStart
<1>2. \A r \in Runs : run[r].at = "idle" /\ run[r].gave = {}
  BY MoreNames DEF Init
<1>3. \A u \in Ids : listed[u] = {} /\ keyed[u] = {}
  BY DEF Init
<1>4. KeysFit /\ MapFits
  BY <1>2, <1>3 DEF KeysFit, MapFits, ReadFits, Deposits, At
<1>5. \A r \in Runs : GaveFits(r)
  BY <1>2 DEF GaveFits, At
<1> QED BY <1>1, <1>4, <1>5 DEF EntryInv

(* Formance's two forms of a deposit address match, whatever runs of the    *)
(* tools there are, but for what one of two runs that overlapped has        *)
(* overwritten, or a run did that took a map it could not read for empty.   *)
THEOREM MapAndKeys == Spec => []MapMatchesKeys
<1>1. EntryInv => MapMatchesKeys
  BY DEF EntryInv, KeysFit, MapFits, Deposits, Orderly, MapMatchesKeys
<1> QED BY <1>1, EntryStart, EntryStep, PTL DEF Spec

(* A deposit address is assigned to two users only by runs that overlapped, *)
(* or of which one had a failed call: a run that began when the other had   *)
(* ended finds what it assigned, if Formance's lookup can match it.         *)
THEOREM AssignedTwice == Spec => []AssignedTwiceOnlyIfOverlapped
<1>1. ASSUME EntryInv PROVE AssignedTwiceOnlyIfOverlapped
  <2> SUFFICES ASSUME NEW r \in Runs, NEW q \in Runs \ {r},
                      NEW a \in run[r].gave \cap run[q].gave,
                      Findable(wallets[made[a].wallet]), ~Overlapped(r, q),
                      run[r].slips = 0, run[q].slips = 0
               PROVE  FALSE
    BY DEF AssignedTwiceOnlyIfOverlapped, Faultless
  <2>1. run[r].at # "idle" /\ run[q].at # "idle"
    BY <1>1, MoreNames DEF EntryInv, EmailInv, RunInv, At
  <2>2. r \in run[q].before \/ q \in run[r].before
    BY <2>1 DEF Overlapped, At
  <2>3. Unfound(r, a) /\ Unfound(q, a)
    BY <1>1 DEF EntryInv, GaveFits
  <2> QED BY <2>2, <2>3 DEF Unfound
<1> QED BY <1>1, EntryStart, EntryStep, PTL DEF Spec

-----------------------------------------------------------------------------
(* What is counted as a success.                                            *)

(* Where the lookups of a user's addresses find them by their address. *)
Kept(u) == IF backend = "sqlite" THEN listed[u] ELSE keyed[u]

Fits(e, t) == e.asset = t.asset /\ (backend = "sqlite" => e.network = t.network)

(* The user of t has a deposit address for its asset; Prime has one. *)
Has(t) == \E e \in Kept(t.user) : ~IsWithdrawal(e) /\ Fits(e, t)
AtPrime(t) == \E a \in DOMAIN made : Fits(DepositOf(a), t)

KeptFits ==
  \A u \in Ids : \A e \in Kept(u) :
    ~IsWithdrawal(e) => e.addr \in DOMAIN made /\ e = DepositOf(e.addr)

Busy == {"wallet", "newWallet", "list", "check", "mint", "put", "write"}

(* The user has what the run has found or stored. *)
HandFits(s) ==
  s.stage = "generate" /\ s.at \in Busy /\ (s.exists \/ s.stored) => Has(s.cur)

Counted(r, s, clean) ==
  \A t \in s.served : t.user \in Ids /\ AtPrime(t) /\ (~Setup(r) \/ clean => Has(t))

ServeInv ==
  /\ EntryInv /\ KeptFits
  /\ \A r \in Runs : HandFits(run[r]) /\ Counted(r, run[r], run[r].slips = 0)

(* A step after which this is so again. *)
Serves(r) ==
  \E s : /\ {"at", "stage", "cur", "served", "exists", "stored", "slips"} \subseteq DOMAIN s
         /\ HandFits(s)'
         /\ \/ Becomes(r, s) /\ Counted(r, s, s.slips = 0)'
            \/ Slips(r, s) /\ s.slips = run[r].slips /\ Counted(r, s, FALSE)'

LEMMA ServesFits ==
  ASSUME ServeInv, NEW r \in Runs, Serves(r)
  PROVE  HandFits(run[r])' /\ Counted(r, run[r], run[r].slips = 0)'
<1>1. PICK s : /\ {"at", "stage", "cur", "served", "exists", "stored", "slips"} \subseteq DOMAIN s
               /\ HandFits(s)'
               /\ \/ Becomes(r, s) /\ Counted(r, s, s.slips = 0)'
                  \/ Slips(r, s) /\ s.slips = run[r].slips /\ Counted(r, s, FALSE)'
  BY DEF Serves
<1>2. DOMAIN run = Runs /\ run[r].slips \in Nat
  BY RunFacts DEF ServeInv, EntryInv, RunType
<1>3. CASE Becomes(r, s) /\ Counted(r, s, s.slips = 0)'
  <2>1. run'[r] = s
    BY <1>2, <1>3 DEF Becomes
  <2> QED BY <1>1, <1>3, <2>1 DEF HandFits, Counted
<1>4. CASE Slips(r, s) /\ s.slips = run[r].slips /\ Counted(r, s, FALSE)'
  <2>1. run'[r] = [s EXCEPT !.slips = @ + 1]
    BY <1>2, <1>4 DEF Slips
  <2>2. /\ run'[r].at = s.at /\ run'[r].stage = s.stage /\ run'[r].cur = s.cur
        /\ run'[r].served = s.served /\ run'[r].exists = s.exists /\ run'[r].stored = s.stored
        /\ run'[r].slips # 0
    BY <1>1, <1>2, <1>4, <2>1
  <2>3. HandFits(run[r])'
    BY <1>1, <2>2 DEF HandFits
  <2>4. Counted(r, run[r], run[r].slips = 0)'
    BY <1>4, <2>2 DEF Counted
  <2> QED BY <2>3, <2>4
<1> QED BY <1>1, <1>3, <1>4

(* What a user has, and what Prime has, stays. *)
LEMMA PrimeStays ==
  ASSUME ServeInv, NEW r \in Runs, Step(r), NEW t, AtPrime(t)
  PROVE  AtPrime(t)'
<1>1. TypeInv /\ Grows /\ Unwritten
  BY StepGoes DEF ServeInv, EntryInv
<1>2. PICK a \in DOMAIN made : Fits(DepositOf(a), t)
  BY DEF AtPrime
<1>3. a \in DOMAIN made' /\ DepositOf(a)' = DepositOf(a)
  BY <1>1, DepositKept
<1> QED BY <1>1, <1>2, <1>3 DEF AtPrime, Fits, Unwritten

LEMMA KeptGrows ==
  ASSUME EntryInv, NEW r \in Runs, Step(r), NEW u \in Ids, NEW e \in Kept(u), ~IsWithdrawal(e)
  PROVE  e \in Kept(u)'
<1>1. TypeInv /\ EmailInv /\ Unwritten
  BY StepGoes DEF EntryInv
<1>2. CASE backend = "sqlite"
  <2>1. ~WriteMap(r)
    BY <1>2 DEF EntryInv, GaveFits, WriteMap
  <2>2. CASE ~PutRow(r)
    BY <1>1, <1>2, <2>1, <2>2, StoreKept DEF Kept, Unwritten
  <2>3. CASE PutRow(r)
    BY <1>1, <1>2, <2>3 DEF Kept, Unwritten, PutRow, InsertAddress, TypeInv
  <2> QED BY <2>2, <2>3
<1>3. CASE backend # "sqlite"
  <2>1. backend = "formance"
    BY <1>1, <1>3, ToolsAssumption DEF TypeInv
  <2>2. e \in Deposits(u)'
    BY <1>3, <2>1, DepositsGrow DEF Kept, Deposits
  <2> QED BY <1>1, <1>3, <2>2 DEF Kept, Deposits, Unwritten
<1> QED BY <1>2, <1>3

LEMMA HasStays ==
  ASSUME ServeInv, NEW r \in Runs, Step(r), NEW t, t.user \in Ids, Has(t)
  PROVE  Has(t)'
<1>1. EntryInv /\ Unwritten
  BY StepGoes DEF ServeInv, EntryInv
<1>2. PICK e \in Kept(t.user) : ~IsWithdrawal(e) /\ Fits(e, t)
  BY DEF Has
<1>3. e \in Kept(t.user)'
  BY <1>1, <1>2, KeptGrows
<1> QED BY <1>1, <1>2, <1>3 DEF Has, Fits, Unwritten

LEMMA HasPrime ==
  ASSUME ServeInv, NEW t, t.user \in Ids, Has(t)
  PROVE  AtPrime(t)
<1>1. PICK e \in Kept(t.user) : ~IsWithdrawal(e) /\ Fits(e, t)
  BY DEF Has
<1>2. e.addr \in DOMAIN made /\ e = DepositOf(e.addr)
  BY <1>1 DEF ServeInv, KeptFits
<1> QED BY <1>1, <1>2 DEF AtPrime

LEMMA KeptStep ==
  ASSUME ServeInv, NEW r \in Runs, Step(r)
  PROVE  KeptFits'
<1>1. TypeInv /\ EmailInv /\ Unwritten /\ Grows /\ EntryInv /\ KeysFit'
  BY StepGoes, KeysStep DEF ServeInv, EntryInv
<1> SUFFICES ASSUME NEW u \in Ids, NEW e \in Kept(u)', ~IsWithdrawal(e)
             PROVE  e.addr \in DOMAIN made' /\ e = DepositOf(e.addr)'
  BY DEF KeptFits
<1>2. CASE backend = "sqlite"
  <2>1. ~WriteMap(r)
    BY <1>1, <1>2 DEF EntryInv, GaveFits, WriteMap
  <2>2. PICK a : a = e.addr
    OBVIOUS
  <2>3. CASE e \in listed[u]
    <3>1. a \in DOMAIN made /\ e = DepositOf(a)
      BY <1>2, <2>2, <2>3 DEF ServeInv, KeptFits, Kept
    <3> QED BY <1>1, <2>2, <3>1, DepositKept
  <2>4. CASE e \notin listed[u]
    <3>1. PutRow(r)
      BY <1>1, <1>2, <2>1, <2>4, StoreKept DEF Kept, Unwritten
    <3>2. e = Entry(r) /\ run[r].at = "put"
      BY <1>1, <1>2, <2>4, <3>1 DEF PutRow, InsertAddress, TypeInv, Kept, Unwritten, At
    <3>3. a = Current(r) /\ a \in DOMAIN made /\ e = DepositOf(a)
      BY <1>1, <2>2, <3>2, EntryFacts
    <3> QED BY <1>1, <2>2, <3>3, DepositKept
  <2> QED BY <2>3, <2>4
<1>3. CASE backend # "sqlite"
  <2>1. backend' = "formance"
    BY <1>1, <1>3, ToolsAssumption DEF TypeInv, Unwritten
  <2> QED BY <1>1, <2>1 DEF KeysFit, Deposits, Kept
<1> QED BY <1>2, <1>3

LEMMA HandNames ==
  /\ {"at", "stage", "cur", "served", "exists", "stored", "slips"} \subseteq DOMAIN Idle
  /\ Idle.served = {} /\ Idle.slips = 0
BY DEF Idle

LEMMA BusyUser ==
  ASSUME ServeInv, NEW r \in Runs, run[r].at \in Busy, run[r].stage = "generate"
  PROVE  /\ run[r].cur.user \in Ids
         /\ run[r].at \in {"check", "list", "mint"} =>
              run[r].cur.asset \in Assets /\ run[r].cur.network \in Networks
<1>1. TypeInv /\ CurFits(r, run[r]) /\ wallets \in Seq(Assets)
  BY RunFacts DEF ServeInv, EntryInv, RunFits, TypeInv, PrimeTypes
<1>2. \A t : Synced(t) => t.asset \in Assets /\ t.network \in Networks /\ t.user \in Ids
  BY <1>1 DEF Synced
<1> QED BY <1>1, <1>2 DEF CurFits, Wanted, Busy

(* A step that counts nothing, and finds and stores nothing. *)
Plain(r) ==
  \E s : /\ DOMAIN s = DOMAIN Idle /\ s.served = run[r].served /\ s.slips = run[r].slips
         /\ \/ s.at \notin Busy \/ s.stage # "generate" \/ (s.exists = FALSE /\ s.stored = FALSE)
            \/ /\ run[r].at \in Busy /\ s.stage = run[r].stage
               /\ s.exists = run[r].exists /\ s.stored = run[r].stored
               /\ s.cur.user = run[r].cur.user /\ s.cur.asset = run[r].cur.asset
               /\ s.cur.network = run[r].cur.network
         /\ Now(r, s)

LEMMA OldCounts ==
  ASSUME ServeInv, NEW r \in Runs, Step(r), NEW t \in run[r].served
  PROVE  /\ t.user \in Ids /\ AtPrime(t)' /\ Setup(r)' = Setup(r)
         /\ ~Setup(r) \/ run[r].slips = 0 => Has(t)'
<1>1. t.user \in Ids /\ AtPrime(t) /\ (~Setup(r) \/ run[r].slips = 0 => Has(t))
  BY DEF ServeInv, Counted
<1>2. Unwritten
  BY StepGoes DEF ServeInv, EntryInv
<1> QED BY <1>1, <1>2, PrimeStays, HasStays DEF Setup, Unwritten

LEMMA HandStays ==
  ASSUME ServeInv, NEW r \in Runs, Step(r), NEW s, run[r].at \in Busy, s.stage = run[r].stage,
         s.exists = run[r].exists, s.stored = run[r].stored,
         s.cur.user = run[r].cur.user, s.cur.asset = run[r].cur.asset,
         s.cur.network = run[r].cur.network
  PROVE  HandFits(s)'
<1>1. CASE s.stage = "generate" /\ (s.exists \/ s.stored)
  <2>1. Has(run[r].cur) /\ run[r].cur.user \in Ids
    BY <1>1, BusyUser DEF ServeInv, HandFits
  <2>2. Has(s.cur) /\ s.cur.user \in Ids
    BY <2>1 DEF Has, Fits
  <2>3. Has(s.cur)'
    <3>1. PICK c : c = s.cur
      OBVIOUS
    <3> QED BY <2>2, <3>1, HasStays
  <2> QED BY <2>3 DEF HandFits
<1>2. CASE ~(s.stage = "generate" /\ (s.exists \/ s.stored))
  BY <1>2 DEF HandFits
<1> QED BY <1>1, <1>2

LEMMA PlainServes ==
  ASSUME ServeInv, NEW r \in Runs, Step(r), Plain(r)
  PROVE  Serves(r)
<1>1. PICK s : /\ DOMAIN s = DOMAIN Idle /\ s.served = run[r].served /\ s.slips = run[r].slips
               /\ \/ s.at \notin Busy \/ s.stage # "generate" \/ (s.exists = FALSE /\ s.stored = FALSE)
                  \/ /\ run[r].at \in Busy /\ s.stage = run[r].stage
                     /\ s.exists = run[r].exists /\ s.stored = run[r].stored
                     /\ s.cur.user = run[r].cur.user /\ s.cur.asset = run[r].cur.asset
                     /\ s.cur.network = run[r].cur.network
               /\ Now(r, s)
  BY DEF Plain
<1>2. HandFits(s)'
  BY <1>1, HandStays DEF HandFits
<1>3. Counted(r, s, s.slips = 0)' /\ Counted(r, s, FALSE)'
  BY <1>1, OldCounts DEF Counted
<1> QED BY <1>1, <1>2, <1>3, HandNames DEF Serves, Now

LEMMA StepPlain ==
  ASSUME ServeInv, NEW r \in Runs, Step(r), ~ListAddresses(r), ~Check(r), ~(PutStep(r) /\ ~ReadMap(r))
  PROVE  Plain(r)
<1>1. Shape(run[r]) /\ TypeInv /\ EmailInv /\ DOMAIN run = Runs
  BY RunShape, RunFacts DEF ServeInv, EntryInv
<1> USE <1>1, HandNames DEF Shape, GoTo, Now, At, Busy
<1>2. CASE Begin(r)
  <2>1. run[r] = Idle
    BY <1>2 DEF Begin, EmailInv, RunInv
  <2> QED BY <1>2, <2>1 DEF Begin, Plain
<1>3. CASE PickTask(r)
  BY <1>3 DEF PickTask, FirstCall, Plain
<1>4. CASE Discovery(r)
  BY <1>4 DEF Discovery, Discover, ReadUsers, ReadAssigned, AllAssigned, Plain
<1>5. CASE UserStep(r)
  <2>1. ASSUME NEW u
        PROVE  /\ DOMAIN Identified(r, u) = DOMAIN Idle /\ Identified(r, u).at = "next"
               /\ Identified(r, u).served = run[r].served /\ Identified(r, u).slips = run[r].slips
    BY DEF Identified
  <2>2. /\ DOMAIN NotCreated(r) = DOMAIN Idle /\ NotCreated(r).at \in {"refetch", "dead"}
        /\ NotCreated(r).served = run[r].served /\ NotCreated(r).slips = run[r].slips
    BY DEF NotCreated
  <2> QED BY <1>5, <2>1, <2>2
          DEF UserStep, Identify, InsertUser, CheckEmail, WriteUser, CreateUserFails, Plain
<1>6. CASE AssignStep(r)
  <2>1. run[r].stage # "generate"
    BY <1>6, LoopFacts DEF AssignStep, Find, Search, LookUp, CurFits, InLoop, Before, Places
  <2> QED BY <1>6, <2>1 DEF AssignStep, Find, Search, LookUp, WhenOwned, Plain
<1>7. CASE UseWallet(r)
  <2>1. run[r].cur \in TaskType
    BY RunFacts DEF RunType
  <2>2. CASE \E w : Becomes(r, [GoTo(r, "list") EXCEPT !.cur.wallet = w])
    <3>1. PICK w : Becomes(r, [GoTo(r, "list") EXCEPT !.cur.wallet = w])
      BY <2>2
    <3>2. PICK s : s = [GoTo(r, "list") EXCEPT !.cur.wallet = w]
      OBVIOUS
    <3>3. /\ DOMAIN s = DOMAIN Idle /\ s.served = run[r].served /\ s.slips = run[r].slips
          /\ s.stage = run[r].stage /\ s.exists = run[r].exists /\ s.stored = run[r].stored
          /\ s.cur = [run[r].cur EXCEPT !.wallet = w]
      BY <3>2
    <3>4. /\ s.cur.user = run[r].cur.user /\ s.cur.asset = run[r].cur.asset
          /\ s.cur.network = run[r].cur.network
      BY <2>1, <3>3 DEF TaskType
    <3> QED BY <1>7, <3>1, <3>2, <3>3, <3>4 DEF UseWallet, Plain
  <2>3. CASE ~\E w : Becomes(r, [GoTo(r, "list") EXCEPT !.cur.wallet = w])
    BY <1>7, <2>3 DEF UseWallet, Failed, Plain
  <2> QED BY <2>2, <2>3
<1>8. CASE CreateWallet(r) \/ CreateWalletFails(r)
  <2>1. run[r].cur \in TaskType
    BY RunFacts DEF RunType
  <2>2. PICK w : w = Len(wallets) + 1
    OBVIOUS
  <2>3. CASE Becomes(r, [GoTo(r, "list") EXCEPT !.cur.wallet = w])
    <3>2. PICK s : s = [GoTo(r, "list") EXCEPT !.cur.wallet = w]
      OBVIOUS
    <3>3. /\ DOMAIN s = DOMAIN Idle /\ s.served = run[r].served /\ s.slips = run[r].slips
          /\ s.stage = run[r].stage /\ s.exists = run[r].exists /\ s.stored = run[r].stored
          /\ s.cur = [run[r].cur EXCEPT !.wallet = w]
      BY <3>2
    <3>4. /\ s.cur.user = run[r].cur.user /\ s.cur.asset = run[r].cur.asset
          /\ s.cur.network = run[r].cur.network
      BY <2>1, <3>3 DEF TaskType
    <3> QED BY <1>8, <2>3, <3>2, <3>3, <3>4 DEF CreateWallet, CreateWalletFails, Plain
  <2>4. CASE ~Becomes(r, [GoTo(r, "list") EXCEPT !.cur.wallet = w])
    BY <1>8, <2>2, <2>4 DEF CreateWallet, CreateWalletFails, Failed, Plain
  <2> QED BY <2>3, <2>4
<1>9. CASE Mint(r)
  <2>1. run[r].cur \in TaskType
    BY RunFacts DEF RunType
  <2>2. PICK a : a = Len(made) + 1
    OBVIOUS
  <2>3. CASE Becomes(r, [GoTo(r, "put") EXCEPT !.addrs = {a}, !.cur.addr = a])
    <3>2. PICK s : s = [GoTo(r, "put") EXCEPT !.addrs = {a}, !.cur.addr = a]
      OBVIOUS
    <3>3. /\ DOMAIN s = DOMAIN Idle /\ s.served = run[r].served /\ s.slips = run[r].slips
          /\ s.stage = run[r].stage /\ s.exists = run[r].exists /\ s.stored = run[r].stored
          /\ s.cur = [run[r].cur EXCEPT !.addr = a]
      BY <3>2
    <3>4. /\ s.cur.user = run[r].cur.user /\ s.cur.asset = run[r].cur.asset
          /\ s.cur.network = run[r].cur.network
      BY <2>1, <3>3 DEF TaskType
    <3> QED BY <1>9, <2>3, <3>2, <3>3, <3>4 DEF Mint, Plain
  <2>4. CASE ~Becomes(r, [GoTo(r, "put") EXCEPT !.addrs = {a}, !.cur.addr = a])
    BY <1>9, <2>2, <2>4 DEF Mint, Failed, Plain
  <2> QED BY <2>3, <2>4
<1>10. CASE MintFails(r) \/ Die(r)
  BY <1>10 DEF MintFails, Die, Failed, Plain
<1>11. CASE ReadMap(r)
  BY <1>11 DEF ReadMap, Plain
<1> QED BY <1>2, <1>3, <1>4, <1>5, <1>6, <1>7, <1>8, <1>9, <1>10, <1>11
        DEF Step, AssetStep

LEMMA ServedServes ==
  ASSUME ServeInv, NEW r \in Runs, Step(r), NEW s, DOMAIN s = DOMAIN Idle, s.at = "next",
         s.slips = run[r].slips, NEW c, c.user \in Ids,
         s.served = run[r].served \cup {[user |-> c.user, asset |-> c.asset, network |-> c.network]},
         AtPrime(c)',
         \/ Becomes(r, s) /\ (~Setup(r) \/ run[r].slips = 0 => Has(c)')
         \/ Slips(r, s) /\ (~Setup(r) => Has(c)')
  PROVE  Serves(r)
<1>1. PICK w : w = [user |-> c.user, asset |-> c.asset, network |-> c.network]
  OBVIOUS
<1>2. w.user \in Ids /\ AtPrime(w)' /\ (Has(c)' => Has(w)')
  BY <1>1 DEF AtPrime, Has, Fits
<1>3. HandFits(s)'
  BY DEF HandFits, Busy
<1>4. Setup(r)' = Setup(r)
  BY StepGoes DEF ServeInv, EntryInv, Setup, Unwritten
<1>5. CASE Becomes(r, s) /\ (~Setup(r) \/ run[r].slips = 0 => Has(c)')
  <2>1. Counted(r, s, s.slips = 0)'
    BY <1>1, <1>2, <1>4, <1>5, OldCounts DEF Counted
  <2> QED BY <1>3, <1>5, <2>1, HandNames DEF Serves
<1>6. CASE Slips(r, s) /\ (~Setup(r) => Has(c)')
  <2>1. Counted(r, s, FALSE)'
    BY <1>1, <1>2, <1>4, <1>6, OldCounts DEF Counted
  <2> QED BY <1>3, <1>6, <2>1, HandNames DEF Serves
<1> QED BY <1>5, <1>6

LEMMA ExistsHas ==
  ASSUME ServeInv, NEW c, c.user \in Ids, c.asset \in Assets, c.network \in Networks,
         AddressesOf(c.user, c.asset, c.network) # {}
  PROVE  Has(c)
<1>1. PICK e \in listed[c.user] : e.asset = c.asset /\ (backend = "sqlite" => e.network = c.network)
  BY DEF AddressesOf
<1>2. CASE backend = "sqlite"
  BY <1>1, <1>2, DirectoryAssumption DEF Has, Kept, Fits, IsWithdrawal
<1>3. CASE backend # "sqlite"
  <2>1. backend = "formance"
    BY <1>3, ToolsAssumption DEF ServeInv, EntryInv, TypeInv
  <2>2. e \in Deposits(c.user)
    BY <1>1, <2>1 DEF ServeInv, EntryInv, KeysFit
  <2> QED BY <1>1, <1>3, <2>2 DEF Has, Kept, Fits, Deposits
<1> QED BY <1>2, <1>3

LEMMA UnsyncedIs ==
  ASSUME NEW r \in Runs, NEW s, s.exists \in BOOLEAN
  PROVE  \/ Unsynced(r, s) = Failed(s) /\ s.stage = "discover"
         \/ Unsynced(r, s) = [s EXCEPT !.at = "check"] /\ Setup(r)
         \/ Unsynced(r, s) = Served(s) /\ s.stage # "discover" /\ ~Setup(r) /\ s.exists
         \/ Unsynced(r, s) = [s EXCEPT !.at = "mint"] /\ ~s.exists
BY DEF Unsynced

LEMMA UnsyncedServes ==
  ASSUME ServeInv, NEW r \in Runs, ListAddresses(r), NEW s, s = Unsynced(r, run[r]), Now(r, s)
  PROVE  Serves(r)
<1>1. Shape(run[r]) /\ Step(r) /\ run[r].at = "list"
  BY RunShape DEF ServeInv, EntryInv, Step, AssetStep, ListAddresses, At
<1> USE <1>1, HandNames DEF Shape
<1>2. run[r].stage \in {"discover", "generate"} /\ run[r].exists \in BOOLEAN
  BY RunFacts DEF ServeInv, EntryInv, RunFits, CurFits, RunType
<1>3. CASE run[r].stage = "generate" /\ ~Setup(r) /\ run[r].exists
  <2>1. PICK c : c = run[r].cur
    OBVIOUS
  <2>2. c.user \in Ids /\ Has(c)
    BY <1>3, <2>1, BusyUser DEF ServeInv, HandFits, Busy
  <2>3. Has(c)' /\ AtPrime(c)'
    BY <2>2, HasStays, HasPrime, PrimeStays
  <2>4. s = Served(run[r])
    BY <1>3 DEF Unsynced
  <2>5. /\ DOMAIN s = DOMAIN Idle /\ s.at = "next" /\ s.slips = run[r].slips
        /\ s.served = run[r].served \cup {[user |-> c.user, asset |-> c.asset, network |-> c.network]}
    BY <2>1, <2>4 DEF Served
  <2> QED BY <2>2, <2>3, <2>5, ServedServes DEF Now
<1>4. CASE ~(run[r].stage = "generate" /\ ~Setup(r) /\ run[r].exists)
  <2>1. \/ s = Failed(run[r]) \/ s = [run[r] EXCEPT !.at = "check"]
        \/ s = [run[r] EXCEPT !.at = "mint"]
    BY <1>2, <1>4, UnsyncedIs
  <2>2. Plain(r)
    BY <2>1 DEF Failed, Plain, Busy
  <2> QED BY <2>2, PlainServes
<1> QED BY <1>3, <1>4

LEMMA ListServes ==
  ASSUME ServeInv, NEW r \in Runs, ListAddresses(r)
  PROVE  Serves(r)
<1>1. Shape(run[r]) /\ Step(r) /\ run[r].at = "list"
  BY RunShape DEF ServeInv, EntryInv, Step, AssetStep, ListAddresses, At
<1>2. \/ \E addrs : Becomes(r, [run[r] EXCEPT !.addrs = addrs, !.at = "put"])
      \/ Now(r, Unsynced(r, run[r]))
  BY DEF ListAddresses, Now
<1>3. ASSUME NEW addrs, Becomes(r, [run[r] EXCEPT !.addrs = addrs, !.at = "put"])
      PROVE  Serves(r)
  <2>1. Plain(r)
    BY <1>1, <1>3, HandNames DEF Shape, Plain, Busy, Now
  <2> QED BY <1>1, <2>1, PlainServes
<1> QED BY <1>2, <1>3, UnsyncedServes

LEMMA CheckServes ==
  ASSUME ServeInv, NEW r \in Runs, Check(r)
  PROVE  Serves(r)
<1>1. /\ Shape(run[r]) /\ Step(r) /\ run[r].at = "check" /\ run[r].stage = "generate"
      /\ run[r].cur \in TaskType
  <2>1. CurFits(r, run[r]) /\ run[r] \in RunType
    BY RunFacts DEF ServeInv, EntryInv, RunFits
  <2> QED BY <2>1, RunShape DEF ServeInv, EntryInv, Step, AssetStep, Check, At, CurFits, RunType
<1> USE <1>1, HandNames DEF Shape
<1>2. PICK c : c = run[r].cur
  OBVIOUS
<1>3. /\ c.user \in Ids /\ c.asset \in Assets /\ c.network \in Networks
      /\ run[r].exists \/ run[r].stored => Has(c)
  BY <1>2, BusyUser DEF ServeInv, HandFits, Busy
<1>4. PICK exists \in BOOLEAN : exists <=> AddressesOf(c.user, c.asset, c.network) # {}
  OBVIOUS
<1>5. exists => Has(c)
  BY <1>3, <1>4, ExistsHas
<1>6. Has(c) => Has(c)' /\ AtPrime(c)'
  BY <1>3, HasStays, HasPrime, PrimeStays
<1>7. \/ Becomes(r, IF ~Setup(r) THEN [GoTo(r, "wallet") EXCEPT !.exists = exists]
                    ELSE IF exists THEN Served(run[r]) ELSE GoTo(r, "mint"))
      \/ Slips(r, Failed(run[r]))
  <2>1. (AddressesOf(run[r].cur.user, run[r].cur.asset, run[r].cur.network) # {}) = exists
    BY <1>2, <1>4
  <2> QED BY <2>1 DEF Check
<1>8. CASE Slips(r, Failed(run[r])) \/ (Setup(r) /\ ~exists /\ Becomes(r, GoTo(r, "mint")))
  <2>1. Plain(r)
    BY <1>8 DEF Failed, GoTo, Plain, Busy, Now
  <2> QED BY <2>1, PlainServes
<1>9. CASE Setup(r) /\ exists /\ Becomes(r, Served(run[r]))
  <2>1. PICK s : s = Served(run[r])
    OBVIOUS
  <2>2. /\ DOMAIN s = DOMAIN Idle /\ s.at = "next" /\ s.slips = run[r].slips
        /\ s.served = run[r].served \cup {[user |-> c.user, asset |-> c.asset, network |-> c.network]}
    BY <1>2, <2>1 DEF Served
  <2> QED BY <1>3, <1>5, <1>6, <1>9, <2>1, <2>2, ServedServes
<1>10. CASE ~Setup(r) /\ Becomes(r, [GoTo(r, "wallet") EXCEPT !.exists = exists])
  <2>1. PICK s : s = [GoTo(r, "wallet") EXCEPT !.exists = exists]
    OBVIOUS
  <2>2. /\ DOMAIN s = DOMAIN Idle /\ s.at = "wallet" /\ s.slips = run[r].slips
        /\ s.served = run[r].served /\ s.exists = exists /\ s.stored = run[r].stored
        /\ s.cur = c
    BY <1>2, <2>1 DEF GoTo
  <2>3. HandFits(s)'
    BY <1>3, <1>5, <1>6, <2>2 DEF HandFits
  <2>4. Counted(r, s, s.slips = 0)'
    BY <2>2, OldCounts DEF Counted
  <2> QED BY <1>10, <2>1, <2>2, <2>3, <2>4 DEF Serves
<1> QED BY <1>7, <1>8, <1>9, <1>10

(* What was stored, the user has. *)
LEMMA PutHas ==
  ASSUME ServeInv, NEW r \in Runs, Step(r), PutRow(r) \/ WriteMap(r),
         run[r].stage # "register", NEW c, c = run[r].cur
  PROVE  Has(c)'
<1>1. /\ TypeInv /\ EmailInv /\ KeysFit /\ EntryInv /\ Unwritten /\ run[r].at \in {"put", "write"}
  BY StepGoes DEF ServeInv, EntryInv, PutRow, WriteMap, At
<1>2. PICK e, u : e = Entry(r) /\ u = run[r].cur.user
  OBVIOUS
<1>3. u \in Ids /\ Current(r) \in DOMAIN made /\ e = DepositOf(Current(r))
  BY <1>1, <1>2, EntryFacts
<1>4. ~IsWithdrawal(e)
  BY <1>1, <1>3, DepositFacts
<1>5. u = c.user /\ e.asset = c.asset /\ e.network = c.network
  BY <1>2 DEF Entry, Stored
<1>6. e \in Kept(u)'
  <2>1. CASE PutRow(r)
    BY <1>1, <1>2, <1>3, <2>1 DEF PutRow, InsertAddress, TypeInv, Kept, Unwritten
  <2>2. CASE WriteMap(r)
    <3>1. backend = "formance" /\ backend' = backend
      BY <1>1, <2>2 DEF EntryInv, GaveFits, WriteMap, Unwritten
    <3>2. e \in Deposits(u)'
      BY <1>1, <1>2, <2>2, <3>1, WriteFacts
    <3> QED BY <3>1, <3>2 DEF Kept, Deposits
  <2> QED BY <2>1, <2>2
<1> QED BY <1>4, <1>5, <1>6 DEF Has, Fits

LEMMA PutPrime ==
  ASSUME ServeInv, NEW r \in Runs, Step(r), run[r].at \in {"put", "write"},
         run[r].stage # "register", NEW c, c = run[r].cur
  PROVE  AtPrime(c)'
<1>1. TypeInv
  BY DEF ServeInv, EntryInv
<1>2. Current(r) \in DOMAIN made /\ Entry(r) = DepositOf(Current(r))
  BY <1>1, EntryFacts
<1>3. Fits(Entry(r), c)
  BY DEF Entry, Stored, Fits
<1> QED BY <1>2, <1>3, PrimeStays DEF AtPrime

LEMMA AfterPutServes ==
  ASSUME ServeInv, NEW r \in Runs, Step(r), run[r].at \in {"put", "write"}, NEW ok \in BOOLEAN,
         \/ ok /\ Becomes(r, AfterPut(r, ok)) /\ (PutRow(r) \/ WriteMap(r))
         \/ ~ok /\ Slips(r, AfterPut(r, ok))
  PROVE  Serves(r)
<1>0. PICK b : b = [run[r] EXCEPT !.at = "put", !.addrs = @ \ {Current(r)}, !.read = {},
                   !.stored = @ \/ ok,
                   !.gave = IF ok /\ run[r].stage = "assign" THEN @ \cup {Current(r)} ELSE @]
  OBVIOUS
<1>1. /\ Shape(run[r]) /\ run[r] \in RunType /\ StageFits(r, run[r])
      /\ TypeInv /\ run[r].cur.user \in Ids
  BY RunShape, RunFacts, EntryFacts DEF ServeInv, EntryInv, RunFits, BaseFits
<1>2. /\ DOMAIN b = DOMAIN Idle /\ b.at = "put" /\ b.stage = run[r].stage /\ b.cur = run[r].cur
      /\ b.slips = run[r].slips /\ b.served = run[r].served /\ b.exists = run[r].exists
      /\ b.stored = (run[r].stored \/ ok) /\ b.exists \in BOOLEAN /\ b.stored \in BOOLEAN
  <2>1. run[r].exists \in BOOLEAN /\ run[r].stored \in BOOLEAN
    BY <1>1 DEF RunType
  <2> QED BY <1>0, <1>1, <2>1, HandNames DEF Shape
<1>3. b.stage \in {"discover", "assign", "register", "generate"}
  BY <1>1, <1>2 DEF StageFits, RunType
<1>4. \/ AfterPut(r, ok) \in {b, Failed(b), [b EXCEPT !.at = "dead"]}
      \/ /\ AfterPut(r, ok) = Served(b) /\ b.stage = "generate"
         /\ ok \/ Setup(r) \/ b.stored \/ b.exists
      \/ AfterPut(r, ok) = [b EXCEPT !.at = "mint"] /\ ~b.stored /\ ~b.exists
  <2>1. AfterPut(r, ok) =
          IF b.addrs # {} THEN b
          ELSE IF b.stage \in {"discover", "register"} THEN Failed(b)
          ELSE IF b.stage = "assign" THEN IF ok THEN Failed(b) ELSE [b EXCEPT !.at = "dead"]
          ELSE IF b.cur.addr # 0 THEN IF ok THEN Served(b) ELSE Failed(b)
          ELSE IF Setup(r) \/ b.stored THEN Served(b)
          ELSE Unsynced(r, b)
    BY <1>0 DEF AfterPut
  <2>2. CASE b.addrs # {}
    BY <2>1, <2>2
  <2>3. CASE b.addrs = {} /\ b.stage \in {"discover", "register", "assign"}
    BY <2>1, <2>3
  <2>4. CASE b.addrs = {} /\ b.stage = "generate" /\ b.cur.addr # 0
    BY <2>1, <2>4
  <2>5. CASE b.addrs = {} /\ b.stage = "generate" /\ b.cur.addr = 0 /\ (Setup(r) \/ b.stored)
    BY <2>1, <2>5
  <2>6. CASE b.addrs = {} /\ b.stage = "generate" /\ b.cur.addr = 0 /\ ~Setup(r) /\ ~b.stored
    <3>1. AfterPut(r, ok) = Unsynced(r, b)
      BY <2>1, <2>6
    <3> QED BY <1>2, <2>6, <3>1, UnsyncedIs
  <2> QED BY <1>3, <2>2, <2>3, <2>4, <2>5, <2>6
<1>5. PICK c : c = run[r].cur
  OBVIOUS
<1>6. ok /\ b.stage = "generate" => Has(c)'
  BY <1>2, <1>5, PutHas
<1>7. b.stage = "generate" => AtPrime(c)'
  BY <1>2, <1>5, PutPrime
<1>8. b.stage = "generate" /\ (b.exists \/ b.stored) => Has(c)'
  <2>1. b.stage = "generate" /\ (run[r].exists \/ run[r].stored) => Has(c)
    BY <1>2, <1>5 DEF ServeInv, HandFits, Busy
  <2> QED BY <1>1, <1>2, <1>5, <1>6, <2>1, HasStays
<1>9. PICK t : t = AfterPut(r, ok)
  OBVIOUS
<1>10. CASE t = b
  <2>1. HandFits(b)'
    BY <1>2, <1>5, <1>8 DEF HandFits
  <2>2. Counted(r, b, b.slips = 0)' /\ Counted(r, b, FALSE)'
    BY <1>2, OldCounts DEF Counted
  <2> QED BY <1>2, <1>9, <1>10, <2>1, <2>2, HandNames DEF Serves
<1>11. CASE \/ t \in {Failed(b), [b EXCEPT !.at = "dead"]}
            \/ t = [b EXCEPT !.at = "mint"] /\ ~b.stored /\ ~b.exists
  <2>1. Plain(r)
    BY <1>2, <1>9, <1>11, HandNames DEF Failed, Plain, Busy, Now
  <2> QED BY <2>1, PlainServes
<1>12. CASE t = Served(b) /\ b.stage = "generate" /\ (ok \/ Setup(r) \/ b.stored \/ b.exists)
  <2>1. /\ DOMAIN t = DOMAIN Idle /\ t.at = "next" /\ t.slips = run[r].slips
        /\ t.served = run[r].served \cup {[user |-> c.user, asset |-> c.asset, network |-> c.network]}
    BY <1>2, <1>5, <1>12, HandNames DEF Served
  <2>2. AtPrime(c)' /\ (ok \/ ~Setup(r) => Has(c)')
    BY <1>6, <1>7, <1>8, <1>12
  <2> QED BY <1>1, <1>5, <1>9, <2>1, <2>2, ServedServes
<1> QED BY <1>4, <1>9, <1>10, <1>11, <1>12

LEMMA PutServes ==
  ASSUME ServeInv, NEW r \in Runs, Step(r), PutStep(r), ~ReadMap(r)
  PROVE  Serves(r)
<1>1. run[r].at \in {"put", "write"}
  BY DEF PutStep, PutRow, WriteMap, PutFails, At
<1>2. \/ Becomes(r, AfterPut(r, TRUE)) /\ (PutRow(r) \/ WriteMap(r))
      \/ Slips(r, AfterPut(r, FALSE))
  BY DEF PutStep, PutRow, WriteMap, PutFails
<1> QED BY <1>1, <1>2, AfterPutServes

LEMMA ServeStep == ServeInv /\ [Next]_vars => ServeInv'
<1>1. ASSUME ServeInv, NEW r \in Runs, Step(r) PROVE ServeInv'
  <2>1. EntryInv' /\ KeptFits' /\ Serves(r)
    BY <1>1, EntryStep, KeptStep, StepPlain, PlainServes, ListServes, CheckServes, PutServes
       DEF ServeInv, Next
  <2>2. ASSUME NEW q \in Runs PROVE HandFits(run[q])' /\ Counted(q, run[q], run[q].slips = 0)'
    <3>1. CASE q = r
      BY <1>1, <2>1, <3>1, ServesFits
    <3>2. CASE q # r
      <4>1. run'[q] = run[q] /\ Setup(q)' = Setup(q)
        BY <1>1, <3>2, StepGoes DEF ServeInv, EntryInv, Going, Setup, Unwritten
      <4>2. PICK s : s = run[q]
        OBVIOUS
      <4>3. HandFits(s) /\ Counted(q, s, s.slips = 0)
        BY <1>1, <4>2 DEF ServeInv
      <4>4. HandFits(s)'
        <5>1. s.stage = "generate" /\ s.at \in Busy => s.cur.user \in Ids
          BY <1>1, <4>2, BusyUser
        <5> QED BY <1>1, <4>3, <5>1, HasStays DEF HandFits
      <4>5. Counted(q, s, s.slips = 0)'
        BY <1>1, <4>1, <4>3, HasStays, PrimeStays DEF Counted
      <4> QED BY <4>1, <4>2, <4>4, <4>5 DEF HandFits, Counted
    <3> QED BY <3>1, <3>2
  <2> QED BY <2>1, <2>2 DEF ServeInv
<1>2. ASSUME ServeInv, UNCHANGED vars PROVE ServeInv'
  <2>1. EntryInv'
    BY <1>2, EntryStep DEF ServeInv
  <2>2. /\ backend' = backend /\ listed' = listed /\ keyed' = keyed /\ run' = run
        /\ wallets' = wallets /\ made' = made /\ command' = command
    BY <1>2 DEF vars, directory, prime
  <2> QED BY <1>2, <2>1, <2>2
          DEF ServeInv, KeptFits, Kept, HandFits, Counted, Has, AtPrime, Fits, DepositOf, Setup
<1> QED BY <1>1, <1>2 DEF Next

LEMMA ServeStart == Init => ServeInv
<1> SUFFICES ASSUME Init PROVE ServeInv
  OBVIOUS
<1>1. EntryInv
  BY EntryStart
<1>2. \A r \in Runs : run[r].at = "idle" /\ run[r].served = {}
  BY MoreNames, HandNames DEF Init
<1>3. \A u \in Ids : Kept(u) = {}
  BY DEF Init, Kept
<1> QED BY <1>1, <1>2, <1>3 DEF ServeInv, KeptFits, HandFits, Counted, Busy

(* What a tool counts as a success has an address at Prime, and the user    *)
(* has one stored, unless it is a setup tool that had a failed call.        *)
THEOREM SuccessIsTrue == Spec => []SuccessMeansAddress
<1>1. ASSUME ServeInv PROVE SuccessMeansAddress
  <2> SUFFICES ASSUME NEW r \in Runs, NEW t \in run[r].served
               PROVE  /\ \E a \in DOMAIN made : Fits(DepositOf(a), t)
                      /\ ~Setup(r) \/ run[r].slips = 0 => \E e \in Kept(t.user) : Fits(e, t)
    BY DEF SuccessMeansAddress, Fits, DepositOf, Kept, Faultless
  <2> QED BY <1>1 DEF ServeInv, Counted, AtPrime, Has
<1> QED BY <1>1, ServeStart, ServeStep, PTL DEF Spec

-----------------------------------------------------------------------------
(* What the setup tool discovers.                                           *)

(* The addresses that a run without a failed call cannot miss. *)
Eligible(a) ==
  /\ made[a].network \in SetupNetworks
  /\ Cardinality(On(made[a].wallet, made[a].network)) <= PageLimit
  /\ Findable(wallets[made[a].wallet])

Looping == {"next", "list", "put", "write"}

(* It is still to be listed for the user that gets what is nobody's, or to  *)
(* be stored.                                                               *)
Covers(s, t, a) ==
  t.user = s.user /\ t.wallet = made[a].wallet /\ t.network = made[a].network

Pending(s, a) ==
  \/ \E t \in s.tasks : Covers(s, t, a)
  \/ s.at = "list" /\ Covers(s, s.cur, a)
  \/ s.at \in {"put", "write"} /\ a \in s.addrs

SyncFits(r, s) ==
  Setup(r) /\ s.slips = 0 =>
    /\ s.at = "discover" => s.had = 0 /\ s.assigned = {}
    /\ s.at = "refetch" => email[PlatformId] = PlatformEmail
    /\ \A a \in s.assigned \cap (1..s.had) : Held(a)
    /\ \A a \in 1..s.had : Eligible(a) =>
         /\ s.stage = "discover" /\ s.at \notin Looping =>
              <<made[a].wallet, made[a].network>> \in s.places
         /\ s.stage = "discover" /\ s.at \in Looping => Held(a) \/ Pending(s, a)
         /\ s.stage = "generate" => Held(a)

CoverInv == EntryInv /\ \A r \in Runs : SyncFits(r, run[r])

(* On a network of a wallet there are never fewer addresses. *)
LEMMA EligibleBefore ==
  ASSUME EntryInv, NEW r \in Runs, Step(r), NEW a \in DOMAIN made, Eligible(a)'
  PROVE  Eligible(a)
<1>1. TypeInv /\ Grows /\ Unwritten /\ made \in Seq(AddressType) /\ made' \in Seq(AddressType)
  BY StepGoes, TypeStep DEF EntryInv, TypeInv, PrimeTypes, Next
<1>2. made'[a] = made[a] /\ wallets'[made'[a].wallet] = wallets[made[a].wallet]
  BY <1>1, DepositKept DEF Grows
<1>3. PICK w, n : w = made[a].wallet /\ n = made[a].network
  OBVIOUS
<1>4. On(w, n) \subseteq On(w, n)' /\ On(w, n)' \subseteq 1..Len(made')
  BY <1>1 DEF On, Grows
<1>5. IsFiniteSet(1..Len(made'))
  BY <1>1, FS_Interval
<1>6. IsFiniteSet(On(w, n)')
  BY <1>4, <1>5, FS_Subset
<1>7. IsFiniteSet(On(w, n)) /\ Cardinality(On(w, n)) <= Cardinality(On(w, n)')
  BY <1>4, <1>6, FS_Subset
<1>8. Cardinality(On(w, n)) \in Nat /\ Cardinality(On(w, n)') \in Nat
  BY <1>6, <1>7, FS_CardinalityType
<1>9. made'[a].network \in SetupNetworks /\ Cardinality(On(w, n)') <= PageLimit
      /\ Findable(wallets[made[a].wallet])'
  BY <1>1, <1>2, <1>3 DEF Eligible
<1>10. Findable(wallets[made[a].wallet])
  BY <1>1, <1>2, <1>9 DEF Findable, Unwritten
<1> QED BY <1>2, <1>3, <1>7, <1>8, <1>9, <1>10, ToolsAssumption DEF Eligible

(* The platform's account stays. *)
LEMMA PlatformStays ==
  ASSUME EntryInv, NEW r \in Runs, Step(r), email[PlatformId] = PlatformEmail
  PROVE  email'[PlatformId] = PlatformEmail
<1>1. /\ TypeInv /\ EmailInv /\ Shape(run[r]) /\ email \in [Ids -> Emails \cup {NoEmail}]
      /\ Begin(r) \/ Quiet(r) \/ Looks(r) \/ Creates(r)
  BY StepKinds, RunShape DEF EntryInv, EmailInv
<1>2. CASE Creates(r)
  <2>1. email' = [email EXCEPT ![NewId(r)] = command[r].email]
    BY <1>2 DEF Creates
  <2>2. NewId(r) = PlatformId => command[r].email = PlatformEmail
    <3>1. PICK c \in Starts : c.command = command
      BY <1>1 DEF TypeInv
    <3> QED BY <3>1, ToolsAssumption DEF NewId, Setup
  <2> QED BY <1>1, <2>1, <2>2, ToolsAssumption
<1>3. CASE ~Creates(r)
  BY <1>1, <1>3 DEF Quiet, Looks, Begin, OnlyReads, directory
<1> QED BY <1>2, <1>3

(* Who has the platform's email is its account. *)
LEMMA PlatformFound ==
  ASSUME EntryInv, NEW r \in Runs, Setup(r), UsersWith(command[r].email) # {}
  PROVE  email[PlatformId] = PlatformEmail
<1>1. PICK c \in Starts : c.command = command
  BY DEF EntryInv, TypeInv
<1>2. command[r].email = PlatformEmail
  BY <1>1, ToolsAssumption DEF Setup
<1>3. PICK u \in Ids : email[u] = PlatformEmail
  BY <1>2 DEF UsersWith
<1>4. Origin(u)
  BY <1>3, DirectoryAssumption DEF EntryInv, EmailInv
<1>5. ASSUME u \in Runs, ~Setup(u) PROVE command[u].email # PlatformEmail
  <2>1. command[u].tool = "adduser"
    BY <1>1, <1>5, ToolsAssumption DEF Setup, CommandType
  <2> QED BY <1>1, <1>5, <2>1, StartAssumption
<1> QED BY <1>3, <1>4, <1>5 DEF Origin

(* What a run knows stays so while others, or it itself, go on. *)
LEMMA SyncStays ==
  ASSUME EntryInv, NEW r \in Runs, Step(r), NEW q \in Runs, NEW s, s.had \in Nat,
         s.had <= Len(made), SyncFits(q, s)
  PROVE  SyncFits(q, s)'
<1>1. TypeInv /\ Grows /\ Unwritten /\ made \in Seq(AddressType)
  BY StepGoes DEF EntryInv, TypeInv, PrimeTypes
<1>2. \A a \in 1..s.had : a \in DOMAIN made /\ made'[a] = made[a]
  BY <1>1 DEF Grows
<1>3. \A a \in 1..s.had : (Held(a) => Held(a)') /\ (Eligible(a)' => Eligible(a))
  BY <1>2, HeldStays, EligibleBefore
<1>4. \A a \in 1..s.had : Pending(s, a) => Pending(s, a)'
  BY <1>2 DEF Pending, Covers
<1>5. Setup(q)' = Setup(q)
  BY <1>1 DEF Setup, Unwritten
<1> QED BY <1>2, <1>3, <1>4, <1>5, PlatformStays DEF SyncFits

LEMMA SyncNames ==
  /\ {"at", "stage", "slips", "had", "assigned", "places", "tasks", "cur", "addrs", "user", "read"}
       \subseteq DOMAIN Idle
  /\ Idle.had = 0 /\ Idle.assigned = {} /\ Idle.slips = 0
BY DEF Idle

LEMMA SteadyNames == {"at", "stage", "had", "assigned"} \subseteq DOMAIN Idle
BY DEF Idle

(* A step that leaves the discovery as it is. *)
Steady(r) ==
  \E s : /\ DOMAIN s = DOMAIN Idle
         /\ s.stage = run[r].stage /\ s.had = run[r].had /\ s.assigned = run[r].assigned
         /\ s.at \notin {"discover", "refetch"}
         /\ Now(r, s)

LEMMA StepSteady ==
  ASSUME EntryInv, NEW r \in Runs, Step(r),
         ~Begin(r), ~PickTask(r), ~Discovery(r), ~UserStep(r)
  PROVE  Steady(r)
<1>1. Shape(run[r]) /\ TypeInv /\ EmailInv
  BY RunShape DEF EntryInv
<1> USE <1>1, SteadyNames DEF Shape, GoTo, Now
<1>2. CASE AssignStep(r)
  BY <1>2 DEF AssignStep, Find, Search, LookUp, WhenOwned, Steady
<1>3. CASE UseWallet(r) \/ CreateWallet(r) \/ CreateWalletFails(r)
  BY <1>3 DEF UseWallet, CreateWallet, CreateWalletFails, Failed, Steady
<1>4. ASSUME NEW s, DOMAIN s = DOMAIN Idle
      PROVE  /\ DOMAIN Unsynced(r, s) = DOMAIN Idle /\ Unsynced(r, s).stage = s.stage
             /\ Unsynced(r, s).had = s.had /\ Unsynced(r, s).assigned = s.assigned
             /\ Unsynced(r, s).at \in {"next", "check", "mint"}
  BY <1>4 DEF Unsynced, Failed, Served
<1>5. CASE ListAddresses(r)
  BY <1>4, <1>5 DEF ListAddresses, Steady
<1>6. CASE Check(r) \/ MintFails(r) \/ Mint(r)
  BY <1>6 DEF Check, MintFails, Mint, Failed, Served, Steady
<1>7. CASE ReadMap(r)
  BY <1>7 DEF ReadMap, Steady
<1>8. CASE Die(r)
  BY <1>8 DEF Die, Steady
<1>9. CASE PutStep(r) /\ ~ReadMap(r)
  <2>1. PICK ok \in BOOLEAN : Now(r, AfterPut(r, ok))
    BY <1>9 DEF PutStep, PutRow, WriteMap, PutFails
  <2>2. PICK b : b = [run[r] EXCEPT !.at = "put", !.addrs = @ \ {Current(r)}, !.read = {},
                   !.stored = @ \/ ok,
                   !.gave = IF ok /\ run[r].stage = "assign" THEN @ \cup {Current(r)} ELSE @]
    OBVIOUS
  <2>3. /\ DOMAIN b = DOMAIN Idle /\ b.at = "put" /\ b.stage = run[r].stage
        /\ b.had = run[r].had /\ b.assigned = run[r].assigned
    BY <2>2
  <2>4. AfterPut(r, ok) \in {b, Failed(b), [b EXCEPT !.at = "dead"], Served(b), Unsynced(r, b)}
    BY <2>2 DEF AfterPut
  <2>5. PICK t : t = AfterPut(r, ok)
    OBVIOUS
  <2>6. /\ DOMAIN t = DOMAIN Idle /\ t.stage = b.stage /\ t.had = b.had /\ t.assigned = b.assigned
        /\ t.at \notin {"discover", "refetch"}
    <3>1. CASE t = Unsynced(r, b)
      BY <1>4, <2>3, <3>1
    <3>2. CASE t \in {b, Failed(b), [b EXCEPT !.at = "dead"], Served(b)}
      BY <2>3, <3>2 DEF Failed, Served
    <3> QED BY <2>4, <2>5, <3>1, <3>2
  <2> QED BY <2>1, <2>3, <2>5, <2>6 DEF Steady
<1> QED BY <1>2, <1>3, <1>5, <1>6, <1>7, <1>8, <1>9 DEF Step, AssetStep, PutStep

LEMMA SteadyFields ==
  ASSUME EntryInv, NEW r \in Runs, Steady(r)
  PROVE  /\ run'[r].stage = run[r].stage /\ run'[r].had = run[r].had
         /\ run'[r].assigned = run[r].assigned /\ run'[r].at \notin {"discover", "refetch"}
<1>1. PICK s : /\ DOMAIN s = DOMAIN Idle /\ Now(r, s)
               /\ s.stage = run[r].stage /\ s.had = run[r].had /\ s.assigned = run[r].assigned
               /\ s.at \notin {"discover", "refetch"}
  BY DEF Steady
<1>2. DOMAIN run = Runs
  BY RunFacts DEF EntryInv
<1>3. CASE Becomes(r, s)
  <2>1. run'[r] = s
    BY <1>2, <1>3 DEF Becomes
  <2> QED BY <1>1, <2>1
<1>4. CASE Slips(r, s)
  <2>1. run'[r] = [s EXCEPT !.slips = @ + 1]
    BY <1>2, <1>4 DEF Slips
  <2> QED BY <1>1, <2>1, SyncNames
<1> QED BY <1>1, <1>3, <1>4 DEF Now

(* Of a run that had no failed call yet: how it goes on without one. *)
LEMMA NoSlip ==
  ASSUME EntryInv, NEW r \in Runs, Step(r), run'[r].slips = 0
  PROVE  /\ \A s : ~Slips(r, s)
         /\ run[r].slips = 0 /\ run[r] \in RunType /\ RunFits(r, run[r]) /\ DOMAIN run = Runs
<1>1. TypeInv /\ EmailInv /\ Going(r) /\ (faults' # faults => run'[r].slips # 0)
  BY StepGoes DEF EntryInv
<1>2. \A s : ~Slips(r, s)
  BY <1>1, SlipsOff
<1>3. run[r].slips = 0
  BY <1>1 DEF Going, EmailInv, RunInv, Shape
<1> QED BY <1>1, <1>2, <1>3, RunFacts

(* The listing of a network of a wallet for the user that gets what is      *)
(* nobody's.                                                                *)
LEMMA ListFinds ==
  ASSUME EntryInv, NEW r \in Runs, Setup(r), run[r].stage = "discover", SyncFits(r, run[r]),
         run[r].slips = 0, NEW page \in Pages(run[r].cur.wallet, run[r].cur.network),
         NEW a \in 1..run[r].had, Eligible(a), Covers(run[r], run[r].cur, a)
  PROVE  Held(a) \/ a \in ToStore(run[r], page)
<1>1. /\ TypeInv /\ run[r].had <= Len(made) /\ made \in Seq(AddressType)
      /\ run[r].had \in Nat
  BY RunFacts DEF EntryInv, RunFits, BaseFits, TypeInv, PrimeTypes, RunType
<1>2. a \in On(run[r].cur.wallet, run[r].cur.network)
  BY <1>1 DEF On, Covers
<1>3. page = On(run[r].cur.wallet, run[r].cur.network)
  BY DEF Pages, Eligible, Covers
<1>4. a \in run[r].assigned => Held(a)
  BY DEF SyncFits
<1> QED BY <1>2, <1>3, <1>4 DEF ToStore

LEMMA SyncList ==
  ASSUME CoverInv, NEW r \in Runs, ListAddresses(r), Setup(r), run[r].stage = "discover",
         run'[r].slips = 0
  PROVE  SyncFits(r, run'[r])
<1>1. /\ EntryInv /\ Step(r) /\ SyncFits(r, run[r]) /\ run[r].at = "list" /\ run[r].had \in Nat
      /\ run[r] \in RunType /\ DOMAIN run = Runs /\ run[r].slips = 0 /\ \A s : ~Slips(r, s)
  <2>1. EntryInv /\ Step(r) /\ SyncFits(r, run[r]) /\ run[r].at = "list"
    BY DEF CoverInv, Step, AssetStep, ListAddresses, At
  <2> QED BY <2>1, NoSlip DEF RunType
<1>2. PICK page \in Pages(run[r].cur.wallet, run[r].cur.network) :
        Becomes(r, IF ToStore(run[r], page) = {} THEN Unsynced(r, run[r])
                   ELSE [run[r] EXCEPT !.addrs = ToStore(run[r], page), !.at = "put"])
  BY <1>1 DEF ListAddresses
<1>3. Unsynced(r, run[r]) = [run[r] EXCEPT !.at = "next"]
  BY DEF Unsynced, Failed
<1>4. PICK addrs : addrs = ToStore(run[r], page)
  OBVIOUS
<1>5. run'[r] = IF addrs = {} THEN [run[r] EXCEPT !.at = "next"]
                ELSE [run[r] EXCEPT !.addrs = addrs, !.at = "put"]
  BY <1>1, <1>2, <1>3, <1>4 DEF Becomes
<1>6. PICK s : s = run'[r]
  OBVIOUS
<1>7. /\ s.stage = "discover" /\ s.had = run[r].had /\ s.assigned = run[r].assigned
      /\ s.tasks = run[r].tasks /\ s.user = run[r].user
      /\ IF addrs = {} THEN s.at = "next" ELSE s.at = "put" /\ s.addrs = addrs
  BY <1>1, <1>5, <1>6 DEF RunType
<1>8. ASSUME NEW a \in 1..run[r].had, Eligible(a) PROVE Held(a) \/ Pending(s, a)
  <2>1. Held(a) \/ Pending(run[r], a)
    BY <1>1, <1>8 DEF SyncFits, Looping
  <2>2. CASE \E t \in run[r].tasks : Covers(run[r], t, a)
    BY <1>7, <2>2 DEF Pending, Covers
  <2>3. CASE Covers(run[r], run[r].cur, a)
    BY <1>1, <1>4, <1>7, <1>8, <2>3, ListFinds DEF Pending
  <2> QED BY <1>1, <2>1, <2>2, <2>3 DEF Pending
<1>9. \A a \in s.assigned \cap (1..s.had) : Held(a)
  BY <1>1, <1>7 DEF SyncFits
<1> QED BY <1>6, <1>7, <1>8, <1>9 DEF SyncFits, Looping

LEMMA SyncPick ==
  ASSUME CoverInv, NEW r \in Runs, PickTask(r), Setup(r), run'[r].slips = 0
  PROVE  SyncFits(r, run'[r])
<1>1. /\ EntryInv /\ Step(r) /\ SyncFits(r, run[r]) /\ run[r].at = "next" /\ run[r].had \in Nat
      /\ run[r] \in RunType /\ DOMAIN run = Runs /\ run[r].slips = 0 /\ \A s : ~Slips(r, s)
      /\ run[r].stage \in {"none", "discover", "generate"}
  <2>1. EntryInv /\ Step(r) /\ SyncFits(r, run[r]) /\ run[r].at = "next"
    BY DEF CoverInv, Step, PickTask, At
  <2>2. RunFits(r, run[r])
    BY <2>1, NoSlip
  <2> QED BY <2>1, <2>2, NoSlip DEF RunType, RunFits, BaseFits, StageFits
<1>2. \A a \in run[r].assigned \cap (1..run[r].had) : Held(a)
  BY <1>1 DEF SyncFits
<1>3. CASE run[r].tasks # {}
  <2>1. PICK t, p : t = NextTask(r) /\ p = FirstCall(r)
    OBVIOUS
  <2>2. t \in run[r].tasks
    BY <1>3, <2>1, NextTaskFacts
  <2>3. run'[r] = [run[r] EXCEPT !.at = p, !.cur = t, !.tasks = @ \ {t}, !.addrs = {},
                                 !.exists = FALSE, !.stored = FALSE]
    BY <1>1, <1>3, <2>1 DEF PickTask, Becomes
  <2>4. PICK s : s = run'[r]
    OBVIOUS
  <2>5. /\ s.stage = run[r].stage /\ s.had = run[r].had /\ s.assigned = run[r].assigned
        /\ s.tasks = run[r].tasks \ {t} /\ s.user = run[r].user /\ s.cur = t /\ s.at = p
    BY <1>1, <2>3, <2>4 DEF RunType
  <2>6. p \in {"list", "wallet", "check", "find"} /\ (s.stage = "discover" => p = "list")
    BY <2>1, <2>5 DEF FirstCall
  <2>7. ASSUME NEW a \in 1..run[r].had, Eligible(a), s.stage = "discover"
        PROVE  Held(a) \/ Pending(s, a)
    <3>1. Held(a) \/ Pending(run[r], a)
      BY <1>1, <2>5, <2>7 DEF SyncFits, Looping
    <3>2. CASE Pending(run[r], a)
      <4>1. PICK o \in run[r].tasks : Covers(run[r], o, a)
        BY <1>1, <3>2 DEF Pending
      <4> QED BY <2>5, <2>6, <2>7, <4>1 DEF Pending, Covers
    <3> QED BY <3>1, <3>2
  <2>8. ASSUME NEW a \in 1..run[r].had, Eligible(a), s.stage = "generate" PROVE Held(a)
    BY <1>1, <2>5, <2>8 DEF SyncFits
  <2> QED BY <1>2, <2>4, <2>5, <2>6, <2>7, <2>8 DEF SyncFits, Looping
<1>4. CASE run[r].tasks = {}
  <2>1. PICK p, st : /\ run'[r] = [run[r] EXCEPT !.at = p, !.stage = st, !.tasks = {},
                                                  !.cur = NoTask]
                     /\ p \in {"users", "next", "done"}
                     /\ run[r].stage = "discover" => st = "generate"
                     /\ run[r].stage # "discover" => st = run[r].stage
    BY <1>1, <1>4 DEF PickTask, Becomes
  <2>2. PICK s : s = run'[r]
    OBVIOUS
  <2>3. /\ s.stage = st /\ s.had = run[r].had /\ s.assigned = run[r].assigned /\ s.at = p
    BY <1>1, <2>1, <2>2 DEF RunType
  <2>4. ASSUME NEW a \in 1..run[r].had, Eligible(a), run[r].stage \in {"discover", "generate"}
        PROVE  Held(a)
    BY <1>1, <1>4, <2>4 DEF SyncFits, Looping, Pending
  <2>5. st # "discover" /\ (st = "generate" => run[r].stage \in {"discover", "generate"})
    BY <1>1, <2>1
  <2> QED BY <1>2, <2>1, <2>2, <2>3, <2>4, <2>5 DEF SyncFits
<1> QED BY <1>3, <1>4

LEMMA SyncReadMap ==
  ASSUME CoverInv, NEW r \in Runs, ReadMap(r), Setup(r), run[r].stage = "discover",
         run'[r].slips = 0
  PROVE  SyncFits(r, run'[r])
<1>1. /\ EntryInv /\ Step(r) /\ SyncFits(r, run[r]) /\ run[r].at = "put" /\ run[r] \in RunType
      /\ DOMAIN run = Runs /\ run[r].slips = 0 /\ \A s : ~Slips(r, s)
  <2>1. EntryInv /\ Step(r) /\ SyncFits(r, run[r]) /\ run[r].at = "put"
    BY DEF CoverInv, Step, PutStep, ReadMap, At
  <2> QED BY <2>1, NoSlip
<1>2. PICK m : Becomes(r, [GoTo(r, "write") EXCEPT !.read = m])
  BY <1>1 DEF ReadMap
<1>3. run'[r] = [GoTo(r, "write") EXCEPT !.read = m]
  BY <1>1, <1>2 DEF Becomes
<1>4. PICK s : s = run'[r]
  OBVIOUS
<1>5. /\ s.at = "write" /\ s.stage = "discover" /\ s.had = run[r].had
      /\ s.assigned = run[r].assigned /\ s.tasks = run[r].tasks /\ s.user = run[r].user
      /\ s.addrs = run[r].addrs
  BY <1>1, <1>3, <1>4 DEF GoTo, RunType
<1>6. ASSUME NEW a \in 1..run[r].had, Eligible(a) PROVE Held(a) \/ Pending(s, a)
  BY <1>1, <1>5, <1>6 DEF SyncFits, Looping, Pending, Covers
<1>7. \A a \in s.assigned \cap (1..s.had) : Held(a)
  BY <1>1, <1>5 DEF SyncFits
<1> QED BY <1>4, <1>5, <1>6, <1>7 DEF SyncFits, Looping

(* What is stored is held. *)
LEMMA StoredHeld ==
  ASSUME EntryInv, NEW r \in Runs, Step(r), PutRow(r) \/ WriteMap(r),
         run[r].stage # "register", NEW a, a = Current(r)
  PROVE  Held(a)'
<1>1. TypeInv /\ EmailInv /\ KeysFit /\ Unwritten /\ Grows /\ run[r].at \in {"put", "write"}
  BY StepGoes DEF EntryInv, PutRow, WriteMap, At
<1>2. PICK e, c : e = Entry(r) /\ c = run[r].cur.user
  OBVIOUS
<1>3. c \in Ids /\ e.addr = a /\ a \in DOMAIN made /\ e = DepositOf(a)
  BY <1>1, <1>2, EntryFacts
<1>4. CASE PutRow(r)
  <2>1. e \in listed'[c] /\ backend' = "sqlite"
    BY <1>1, <1>2, <1>3, <1>4 DEF PutRow, InsertAddress, TypeInv
  <2> QED BY <1>3, <2>1 DEF Held
<1>5. CASE WriteMap(r)
  <2>1. backend = "formance" /\ backend' = backend
    BY <1>1, <1>5 DEF EntryInv, GaveFits, WriteMap, Unwritten
  <2>2. e \in Deposits(c)'
    BY <1>1, <1>2, <1>5, <2>1, WriteFacts
  <2>3. e = DepositOf(a)'
    BY <1>1, <1>3, DepositKept
  <2> QED BY <1>3, <2>1, <2>2, <2>3 DEF Held, Deposits
<1> QED BY <1>4, <1>5

LEMMA SyncPut ==
  ASSUME CoverInv, NEW r \in Runs, PutStep(r), ~ReadMap(r), Setup(r),
         run[r].stage = "discover", run'[r].slips = 0
  PROVE  SyncFits(r, run[r])'
<1>1. /\ EntryInv /\ Step(r) /\ SyncFits(r, run[r]) /\ run[r].at \in {"put", "write"}
      /\ run[r] \in RunType /\ DOMAIN run = Runs /\ run[r].slips = 0 /\ \A s : ~Slips(r, s)
  <2>1. EntryInv /\ Step(r) /\ SyncFits(r, run[r]) /\ run[r].at \in {"put", "write"}
    BY DEF CoverInv, Step, PutStep, PutRow, WriteMap, PutFails, At
  <2> QED BY <2>1, NoSlip
<1>2. /\ PutRow(r) \/ WriteMap(r)
      /\ Becomes(r, AfterPut(r, TRUE))
  BY <1>1 DEF PutStep, PutRow, WriteMap, PutFails
<1>3. PICK b : b = [run[r] EXCEPT !.at = "put", !.addrs = @ \ {Current(r)}, !.read = {},
                   !.stored = @ \/ TRUE,
                   !.gave = IF TRUE /\ run[r].stage = "assign" THEN @ \cup {Current(r)} ELSE @]
  OBVIOUS
<1>4. PICK c : c = Current(r)
  OBVIOUS
<1>5. /\ b.at = "put" /\ b.stage = "discover" /\ b.had = run[r].had
      /\ b.assigned = run[r].assigned /\ b.tasks = run[r].tasks /\ b.user = run[r].user
      /\ b.addrs = run[r].addrs \ {c}
      /\ {"at", "stage", "had", "assigned", "tasks", "user", "addrs"} \subseteq DOMAIN b
  BY <1>1, <1>3, <1>4 DEF RunType
<1>6. AfterPut(r, TRUE) = IF b.addrs # {} THEN b ELSE [b EXCEPT !.at = "next"]
  BY <1>3, <1>5 DEF AfterPut, Failed
<1>7. PICK s : s = run'[r]
  OBVIOUS
<1>8. s = IF b.addrs # {} THEN b ELSE [b EXCEPT !.at = "next"]
  BY <1>1, <1>2, <1>6, <1>7 DEF Becomes
<1>9. /\ s.stage = "discover" /\ s.had = run[r].had /\ s.assigned = run[r].assigned
      /\ s.tasks = run[r].tasks /\ s.user = run[r].user /\ s.addrs = run[r].addrs \ {c}
      /\ s.at = IF s.addrs # {} THEN "put" ELSE "next"
  BY <1>5, <1>8
<1>10. Held(c)'
  BY <1>1, <1>2, <1>4, StoredHeld
<1>11. /\ TypeInv /\ Grows /\ Unwritten /\ made \in Seq(AddressType)
       /\ run[r].had \in Nat /\ run[r].had <= Len(made)
  BY <1>1, StepGoes, RunFacts DEF EntryInv, TypeInv, PrimeTypes, RunFits, BaseFits, RunType
<1>12. \A a \in 1..run[r].had : a \in DOMAIN made /\ made'[a] = made[a]
  BY <1>11 DEF Grows
<1>13. \A a \in 1..run[r].had : (Held(a) => Held(a)') /\ (Eligible(a)' => Eligible(a))
  BY <1>1, <1>12, HeldStays, EligibleBefore
<1>14. ASSUME NEW a \in 1..run[r].had, Eligible(a)' PROVE Held(a)' \/ Pending(s, a)'
  <2>1. Held(a) \/ Pending(run[r], a)
    BY <1>1, <1>13, <1>14 DEF SyncFits, Looping
  <2>2. CASE \E t \in run[r].tasks : Covers(run[r], t, a)
    BY <1>9, <1>12, <2>2 DEF Pending, Covers
  <2>3. CASE a \in run[r].addrs
    BY <1>9, <1>10, <2>3 DEF Pending
  <2> QED BY <1>1, <1>13, <2>1, <2>2, <2>3 DEF Pending
<1>15. \A a \in s.assigned \cap (1..s.had) : Held(a)'
  BY <1>1, <1>9, <1>13 DEF SyncFits
<1>16. SyncFits(r, s)'
  BY <1>9, <1>14, <1>15 DEF SyncFits, Looping
<1> QED BY <1>7, <1>16

LEMMA SyncDiscovery ==
  ASSUME CoverInv, NEW r \in Runs, Discovery(r), run'[r].slips = 0
  PROVE  SyncFits(r, run'[r])
<1>1. /\ EntryInv /\ Step(r) /\ SyncFits(r, run[r]) /\ TypeInv /\ EmailInv /\ Setup(r)
      /\ run[r] \in RunType /\ DOMAIN run = Runs /\ run[r].slips = 0 /\ \A s : ~Slips(r, s)
      /\ RunFits(r, run[r])
  <2>1. EntryInv /\ Step(r) /\ SyncFits(r, run[r]) /\ TypeInv /\ EmailInv
    BY DEF CoverInv, EntryInv, Step
  <2>2. run[r].at \in {"discover", "users", "assigned"} /\ RunFits(r, run[r])
    BY <2>1, RunFacts DEF Discovery, Discover, ReadUsers, ReadAssigned, AllAssigned, At
  <2>3. Setup(r)
    BY <2>2 DEF RunFits, BaseFits, StageFits
  <2> QED BY <2>1, <2>2, <2>3, NoSlip
<1>2. /\ run[r].at \in {"discover", "assigned"} => run[r].stage = "discover"
      /\ run[r].left \subseteq Ids /\ run[r].had \in Nat
  BY <1>1 DEF RunFits, BaseFits, StageFits, FirstStage, RunType, Setup
<1>3. PICK s : s = run'[r]
  OBVIOUS
<1>4. \A t : Becomes(r, t) => s = t
  BY <1>1, <1>3 DEF Becomes
<1>5. CASE Discover(r)
  <2>1. run[r].had = 0 /\ run[r].assigned = {} /\ run[r].at = "discover"
    BY <1>1, <1>5 DEF SyncFits, Discover, At
  <2>2. CASE s = [GoTo(r, "users") EXCEPT !.stage = "generate"]
    <3>1. s.at = "users" /\ s.had = 0 /\ s.assigned = {}
      BY <1>1, <2>1, <2>2 DEF GoTo, RunType
    <3> QED BY <1>3, <3>1 DEF SyncFits
  <2>3. CASE s = [GoTo(r, "users") EXCEPT !.places = (DOMAIN wallets) \X SetupNetworks,
                                          !.had = Len(made)]
    <3>1. /\ s.at = "users" /\ s.had = Len(made) /\ s.assigned = {} /\ s.stage = "discover"
          /\ s.places = (DOMAIN wallets) \X SetupNetworks
      BY <1>1, <1>2, <2>1, <2>3 DEF GoTo, RunType
    <3>2. ASSUME NEW a \in 1..Len(made), Eligible(a)
          PROVE  <<made[a].wallet, made[a].network>> \in s.places
      <4>1. a \in DOMAIN made
        BY <1>1 DEF TypeInv, PrimeTypes
      <4> QED BY <1>1, <3>1, <3>2, <4>1, PrimeFacts DEF Eligible
    <3> QED BY <1>3, <3>1, <3>2 DEF SyncFits, Looping
  <2> QED BY <1>1, <1>4, <1>5, <2>2, <2>3 DEF Discover
<1>6. ASSUME s.at \in {"users", "assigned", "identify", "next"}, s.had = run[r].had,
             s.stage = run[r].stage, s.places = run[r].places,
             s.stage = "discover" => s.at # "next" /\ run[r].at \notin Looping,
             \A a \in s.assigned \cap (1..s.had) : Held(a)
      PROVE  SyncFits(r, s)
  BY <1>1, <1>6 DEF SyncFits, Looping
<1>7. \A a \in run[r].assigned \cap (1..run[r].had) : Held(a)
  BY <1>1 DEF SyncFits
<1>8. CASE ReadUsers(r)
  <2>1. run[r].at = "users"
    BY <1>8 DEF ReadUsers, At
  <2>2. /\ s.had = run[r].had /\ s.stage = run[r].stage /\ s.places = run[r].places
        /\ s.assigned = run[r].assigned
        /\ s.at = IF run[r].stage = "discover" THEN "assigned" ELSE "next"
    <3>1. run[r] \in RunType
      BY <1>1
    <3>2. CASE run[r].stage = "discover"
      <4>1. PICK us : s = [GoTo(r, "assigned") EXCEPT !.users = us, !.left = us]
        BY <1>4, <1>8, <3>2 DEF ReadUsers
      <4> QED BY <3>1, <3>2, <4>1 DEF GoTo, RunType
    <3>3. CASE run[r].stage # "discover"
      <4>1. PICK ts : s = [GoTo(r, "next") EXCEPT !.tasks = ts]
        BY <1>4, <1>8, <3>3 DEF ReadUsers
      <4> QED BY <3>1, <3>3, <4>1 DEF GoTo, RunType
    <3> QED BY <3>2, <3>3
  <2> QED BY <1>3, <1>6, <1>7, <2>1, <2>2 DEF Looping
<1>9. CASE ReadAssigned(r)
  <2>1. PICK u : u \in run[r].left /\ s = [run[r] EXCEPT !.left = @ \ {u},
                                                       !.assigned = @ \cup AllAddressesOf(u)]
    <3>1. PICK v : v = CHOOSE o \in run[r].left : TRUE
      OBVIOUS
    <3>2. v \in run[r].left
      BY <1>9, <3>1 DEF ReadAssigned
    <3>3. Becomes(r, [run[r] EXCEPT !.left = @ \ {v}, !.assigned = @ \cup AllAddressesOf(v)])
      <4>1. \A t : ~Slips(r, t)
        BY <1>1
      <4> QED BY <1>9, <3>1, <4>1 DEF ReadAssigned
    <3> QED BY <1>4, <3>2, <3>3
  <2>2. /\ s.had = run[r].had /\ s.stage = run[r].stage /\ s.places = run[r].places
        /\ s.assigned = run[r].assigned \cup AllAddressesOf(u) /\ s.at = run[r].at
        /\ run[r].at = "assigned"
    BY <1>1, <1>9, <2>1 DEF RunType, ReadAssigned, At
  <2>3. ASSUME NEW a \in AllAddressesOf(u) PROVE Held(a)
    <3>1. PICK e \in listed[u] : a = e.addr /\ u \in Ids
      BY <1>2, <2>1 DEF AllAddressesOf
    <3>2. CASE backend = "sqlite"
      BY <3>1, <3>2 DEF Held
    <3>3. CASE backend # "sqlite"
      <4>1. backend = "formance"
        BY <1>1, <3>3, ToolsAssumption DEF TypeInv
      <4>2. e \in Deposits(u)
        BY <1>1, <3>1, <4>1 DEF EntryInv, KeysFit
      <4>3. e = DepositOf(a)
        BY <1>1, <3>1, <4>1, <4>2 DEF EntryInv, KeysFit
      <4> QED BY <3>1, <3>3, <4>2, <4>3 DEF Held, Deposits
    <3> QED BY <3>2, <3>3
  <2> QED BY <1>3, <1>6, <1>7, <2>2, <2>3 DEF Looping
<1>10. CASE AllAssigned(r)
  <2>1. /\ s.had = run[r].had /\ s.stage = run[r].stage /\ s.places = run[r].places
        /\ s.assigned = run[r].assigned /\ s.at = "identify" /\ run[r].at = "assigned"
    BY <1>1, <1>4, <1>10 DEF AllAssigned, GoTo, RunType, At
  <2> QED BY <1>3, <1>6, <1>7, <2>1 DEF Looping
<1> QED BY <1>5, <1>8, <1>9, <1>10 DEF Discovery

LEMMA IdentifiedFits ==
  ASSUME CoverInv, NEW r \in Runs, Setup(r), run[r].stage = "discover", run[r].slips = 0,
         run[r].at \in {"identify", "refetch", "create", "createNow"}, NEW u \in Ids
  PROVE  SyncFits(r, Identified(r, u))
<1>1. SyncFits(r, run[r]) /\ run[r] \in RunType
  BY RunFacts DEF CoverInv, EntryInv
<1>2. PICK tasks : tasks = SyncTasks(r, u)
  OBVIOUS
<1>3. PICK s : s = Identified(r, u)
  OBVIOUS
<1>4. /\ s.at = "next" /\ s.stage = "discover" /\ s.had = run[r].had
      /\ s.assigned = run[r].assigned /\ s.user = u /\ s.tasks = tasks
  BY <1>1, <1>2, <1>3 DEF Identified, RunType
<1>5. ASSUME NEW a \in 1..run[r].had, Eligible(a) PROVE Pending(s, a)
  <2>1. PICK p \in run[r].places : p[1] = made[a].wallet /\ p[2] = made[a].network
    BY <1>1, <1>5 DEF SyncFits, Looping
  <2>2. PICK t : t = Task(u, wallets[p[1]], p[2], p[1], 0)
    OBVIOUS
  <2>3. t \in tasks
    BY <1>2, <2>1, <2>2, DirectoryAssumption DEF SyncTasks
  <2>4. Covers(s, t, a)
    BY <1>4, <2>1, <2>2 DEF Covers, Task
  <2> QED BY <1>4, <2>3, <2>4 DEF Pending
<1>6. \A a \in s.assigned \cap (1..s.had) : Held(a)
  BY <1>1, <1>4 DEF SyncFits
<1>7. SyncFits(r, s)
  BY <1>4, <1>5, <1>6 DEF SyncFits, Looping
<1> QED BY <1>3, <1>7

LEMMA SyncUser ==
  ASSUME CoverInv, NEW r \in Runs, UserStep(r), Setup(r), run'[r].slips = 0
  PROVE  SyncFits(r, run'[r])
<1>1. /\ EntryInv /\ Step(r) /\ SyncFits(r, run[r]) /\ TypeInv
      /\ run[r] \in RunType /\ DOMAIN run = Runs /\ run[r].slips = 0 /\ \A s : ~Slips(r, s)
      /\ run[r].at \in {"identify", "refetch", "create", "createNow"}
      /\ run[r].stage = "discover"
  <2>1. EntryInv /\ Step(r) /\ SyncFits(r, run[r]) /\ TypeInv
    BY DEF CoverInv, EntryInv, Step
  <2>2. run[r].at \in {"identify", "refetch", "create", "createNow"} /\ RunFits(r, run[r])
    BY <2>1, RunFacts
       DEF UserStep, Identify, InsertUser, CheckEmail, WriteUser, CreateUserFails, At
  <2>3. run[r].stage = "discover"
    BY <2>2 DEF RunFits, BaseFits, StageFits, FirstStage, Setup
  <2> QED BY <2>1, <2>2, <2>3, NoSlip
<1>2. \A s : Becomes(r, s) => run'[r] = s
  BY <1>1 DEF Becomes
<1>3. ASSUME NEW u \in Ids, Becomes(r, Identified(r, u)) PROVE SyncFits(r, run'[r])
  BY <1>1, <1>2, <1>3, IdentifiedFits
<1>4. ASSUME NEW p \in {"create", "createNow", "refetch"}, Becomes(r, GoTo(r, p)),
             p = "refetch" => email[PlatformId] = PlatformEmail
      PROVE  SyncFits(r, run'[r])
  <2>1. PICK s : s = run'[r]
    OBVIOUS
  <2>2. /\ s.at = p /\ s.stage = "discover" /\ s.had = run[r].had
        /\ s.assigned = run[r].assigned /\ s.places = run[r].places
    BY <1>1, <1>2, <1>4, <2>1 DEF GoTo, RunType
  <2>3. SyncFits(r, s)
    BY <1>1, <1>4, <2>2 DEF SyncFits, Looping
  <2> QED BY <2>1, <2>3
<1>5. NewId(r) \in Ids
  BY <1>1, CommandTypes
<1>6. NotCreated(r) = GoTo(r, "refetch")
  BY DEF NotCreated
<1>7. UsersWith(command[r].email) # {} => email[PlatformId] = PlatformEmail
  BY <1>1, PlatformFound
<1>8. CASE Identify(r)
  <2>1. CASE \E u \in UsersWith(command[r].email) : Becomes(r, Identified(r, u))
    BY <1>3, <2>1 DEF UsersWith
  <2>2. CASE /\ UsersWith(command[r].email) = {}
             /\ Becomes(r, IF At(r, "refetch") THEN Identified(r, NoUser) ELSE GoTo(r, "create"))
    <3>1. PICK c \in Starts : c.command = command
      BY <1>1 DEF TypeInv
    <3>2. command[r].email = PlatformEmail /\ PlatformId \in Ids
      BY <3>1, ToolsAssumption DEF Setup
    <3>3. email[PlatformId] # PlatformEmail
      BY <2>2, <3>2 DEF UsersWith
    <3>4. ~At(r, "refetch")
      BY <1>1, <3>3 DEF SyncFits, At
    <3> QED BY <1>4, <2>2, <3>4
  <2> QED BY <1>1, <1>8, <2>1, <2>2 DEF Identify
<1>9. CASE InsertUser(r)
  <2>1. CASE CanInsertUser(command[r].email)
    BY <1>1, <1>3, <1>5, <1>9, <2>1 DEF InsertUser
  <2>2. CASE ~CanInsertUser(command[r].email)
    BY <1>1, <1>4, <1>6, <1>7, <1>9, <2>2 DEF InsertUser, CanInsertUser
  <2> QED BY <2>1, <2>2
<1>10. CASE CheckEmail(r)
  <2>1. CASE UsersWith(command[r].email) = {}
    BY <1>1, <1>4, <1>10, <2>1 DEF CheckEmail
  <2>2. CASE UsersWith(command[r].email) # {}
    BY <1>1, <1>4, <1>6, <1>7, <1>10, <2>2 DEF CheckEmail
  <2> QED BY <2>1, <2>2
<1>11. CASE WriteUser(r)
  BY <1>1, <1>3, <1>5, <1>11 DEF WriteUser
<1>12. CASE CreateUserFails(r)
  BY <1>1, <1>12 DEF CreateUserFails
<1> QED BY <1>8, <1>9, <1>10, <1>11, <1>12 DEF UserStep

LEMMA SyncBegin ==
  ASSUME EntryInv, NEW r \in Runs, Begin(r)
  PROVE  SyncFits(r, run'[r])
<1>1. DOMAIN run = Runs
  BY RunFacts DEF EntryInv
<1>2. PICK p, st, b : /\ p = (IF Setup(r) THEN "discover" ELSE "identify")
                      /\ st = FirstStage(r) /\ b = Ended
  OBVIOUS
<1>3. PICK s : s = run'[r]
  OBVIOUS
<1>4. s = [Idle EXCEPT !.at = p, !.stage = st, !.before = b]
  BY <1>1, <1>2, <1>3 DEF Begin, Becomes
<1>5. s.at # "refetch" /\ s.had = 0 /\ s.assigned = {}
  BY <1>2, <1>4 DEF Idle
<1>6. SyncFits(r, s)
  BY <1>5 DEF SyncFits
<1> QED BY <1>3, <1>6

(* Which steps there are while the setup tool discovers. *)
LEMMA SyncKinds ==
  ASSUME EntryInv, NEW r \in Runs, Step(r), Setup(r), run[r].stage = "discover",
         run'[r].slips = 0
  PROVE  \/ Begin(r) \/ PickTask(r) \/ Discovery(r) \/ UserStep(r)
         \/ ListAddresses(r) \/ PutStep(r)
<1>1. CurFits(r, run[r]) /\ \A s : ~Slips(r, s)
  BY NoSlip DEF RunFits
<1>2. run[r].at \notin {"find", "search", "book", "wallet", "newWallet", "check", "mint"}
  BY <1>1 DEF CurFits
<1> QED BY <1>1, <1>2
        DEF Step, AssignStep, Find, Search, LookUp, AssetStep, UseWallet, CreateWallet,
            CreateWalletFails, Check, Mint, MintFails, Die, At

(* A step of the run itself. *)
LEMMA SyncOwn ==
  ASSUME CoverInv, NEW r \in Runs, Step(r), Setup(r), run'[r].slips = 0
  PROVE  SyncFits(r, run'[r]) \/ SyncFits(r, run[r])'
<1>1. EntryInv /\ SyncFits(r, run[r]) /\ run[r].slips = 0
  BY NoSlip DEF CoverInv
<1>2. CASE Begin(r) \/ PickTask(r) \/ Discovery(r) \/ UserStep(r)
  BY <1>1, <1>2, SyncBegin, SyncPick, SyncDiscovery, SyncUser
<1>3. CASE run[r].stage = "discover" /\ (ListAddresses(r) \/ PutStep(r))
  BY <1>3, SyncList, SyncReadMap, SyncPut
<1>4. CASE run[r].stage # "discover" /\ ~Begin(r) /\ ~PickTask(r) /\ ~Discovery(r) /\ ~UserStep(r)
  <2>1. PICK s : s = run'[r]
    OBVIOUS
  <2>2. /\ s.stage = run[r].stage /\ s.had = run[r].had /\ s.assigned = run[r].assigned
        /\ s.at \notin {"discover", "refetch"}
    BY <1>1, <1>4, <2>1, StepSteady, SteadyFields
  <2>3. SyncFits(r, s)
    BY <1>1, <1>4, <2>2 DEF SyncFits
  <2> QED BY <2>1, <2>3
<1> QED BY <1>1, <1>2, <1>3, <1>4, SyncKinds

(* It had no more addresses than there are. *)
LEMMA HadBefore ==
  ASSUME EntryInv, NEW r \in Runs, Step(r)
  PROVE  run'[r] \in RunType /\ run'[r].had <= Len(made)
<1>1. /\ TypeInv /\ EmailInv /\ TypeInv' /\ run'[r] \in RunType
      /\ run[r].had <= Len(made) /\ run'[r].had <= Len(made')
  <2>1. TypeInv /\ EmailInv /\ TypeInv'
    BY TypeStep DEF EntryInv, Next
  <2>2. run[r].had <= Len(made)
    BY <2>1 DEF TypeInv, RunFits, BaseFits
  <2>3. run'[r].had <= Len(made')
    BY <2>1 DEF TypeInv, RunFits, BaseFits
  <2> QED BY <2>1, <2>2, <2>3, StepGoes
<1>2. CASE Mint(r)
  <2>1. run[r].at = "mint"
    BY <1>2 DEF Mint, At
  <2>2. ~Begin(r) /\ ~PickTask(r) /\ ~Discovery(r) /\ ~UserStep(r)
    BY <2>1 DEF Begin, PickTask, Discovery, Discover, ReadUsers, ReadAssigned, AllAssigned,
                UserStep, Identify, InsertUser, CheckEmail, WriteUser, CreateUserFails, At
  <2>3. run'[r].had = run[r].had
    BY <2>2, StepSteady, SteadyFields
  <2> QED BY <1>1, <2>3
<1> QED BY <1>1, <1>2, MadeGrows

LEMMA CoverStep == CoverInv /\ [Next]_vars => CoverInv'
<1>1. ASSUME CoverInv, NEW r \in Runs, Step(r) PROVE CoverInv'
  <2>1. /\ EntryInv /\ EntryInv' /\ TypeInv /\ EmailInv /\ TypeInv' /\ Going(r) /\ Unwritten
        /\ Grows /\ made \in Seq(AddressType)
    BY <1>1, EntryStep, StepGoes DEF CoverInv, EntryInv, Next, TypeInv, PrimeTypes
  <2>2. ASSUME NEW q \in Runs, q # r PROVE SyncFits(q, run[q])'
    <3>1. PICK s : s = run[q]
      OBVIOUS
    <3>2. run'[q] = s /\ SyncFits(q, s) /\ s \in RunType /\ s.had <= Len(made)
      BY <1>1, <2>1, <2>2, <3>1, RunFacts DEF CoverInv, Going, RunFits, BaseFits
    <3>3. SyncFits(q, s)'
      BY <1>1, <2>1, <3>2, SyncStays DEF RunType
    <3> QED BY <3>2, <3>3
  <2>3. SyncFits(r, run[r])'
    <3>1. PICK s : s = run'[r]
      OBVIOUS
    <3>2. CASE ~Setup(r) \/ s.slips # 0
      BY <2>1, <3>1, <3>2 DEF SyncFits, Setup, Unwritten
    <3>3. CASE SyncFits(r, s)
      <4>1. s.had <= Len(made) /\ s.had \in Nat
        BY <1>1, <2>1, <3>1, HadBefore DEF RunType
      <4>2. SyncFits(r, s)'
        BY <1>1, <2>1, <3>3, <4>1, SyncStays
      <4> QED BY <3>1, <4>2
    <3> QED BY <1>1, <3>1, <3>2, <3>3, SyncOwn
  <2> QED BY <2>1, <2>2, <2>3 DEF CoverInv
<1>2. ASSUME CoverInv, UNCHANGED vars PROVE CoverInv'
  <2>1. EntryInv'
    BY <1>2, EntryStep DEF CoverInv
  <2>2. /\ backend' = backend /\ listed' = listed /\ keyed' = keyed /\ email' = email
        /\ run' = run /\ wallets' = wallets /\ made' = made /\ command' = command
    BY <1>2 DEF vars, directory, prime
  <2>3. \A a : /\ Held(a)' <=> Held(a)
               /\ Eligible(a)' <=> Eligible(a)
    BY <2>2 DEF Held, Eligible, DepositOf, On, Findable
  <2>4. \A q \in Runs : \A a : Pending(run[q], a)' <=> Pending(run[q], a)
    BY <2>2 DEF Pending, Covers
  <2>5. \A q \in Runs : SyncFits(q, run[q])'
    BY <1>2, <2>2, <2>3, <2>4 DEF CoverInv, SyncFits, Setup
  <2> QED BY <2>1, <2>5 DEF CoverInv
<1> QED BY <1>1, <1>2 DEF Next

LEMMA CoverStart == Init => CoverInv
<1> SUFFICES ASSUME Init PROVE CoverInv
  OBVIOUS
<1>1. \A r \in Runs : run[r].at = "idle" /\ run[r].had = 0 /\ run[r].assigned = {}
  BY DEF Init, Idle
<1>2. \A r \in Runs : SyncFits(r, run[r])
  BY <1>1 DEF SyncFits
<1> QED BY <1>2, EntryStart DEF CoverInv

(* A setup run without a failed call leaves no address of Prime's unowned   *)
(* that it could have seen and that can be looked up, whatever other runs   *)
(* create, assign and store meanwhile.                                      *)
THEOREM SetupIsComplete == Spec => []SetupCovers
<1>1. ASSUME CoverInv PROVE SetupCovers
  <2> SUFFICES ASSUME NEW r \in Runs, Setup(r), run[r].slips = 0, run[r].stage = "generate",
                      NEW a \in 1..run[r].had, Eligible(a)
               PROVE  Owners(a) # {}
    BY DEF SetupCovers, Faultless, Eligible
  <2>1. /\ TypeInv /\ made \in Seq(AddressType) /\ run[r] \in RunType
        /\ run[r].had <= Len(made) /\ SyncFits(r, run[r])
    BY <1>1, RunFacts DEF CoverInv, EntryInv, TypeInv, PrimeTypes, RunFits, BaseFits
  <2>2. a \in DOMAIN made /\ Held(a)
    BY <2>1 DEF SyncFits, RunType
  <2>3. DepositOf(a).addr = a /\ DepositOf(a).asset = wallets[made[a].wallet]
    BY <2>1, <2>2, PrimeFacts DEF Stored
  <2> QED BY <2>2, <2>3 DEF Held, Owners, AllAddressesOf, Eligible
<1> QED BY <1>1, CoverStart, CoverStep, PTL DEF Spec
=============================================================================
