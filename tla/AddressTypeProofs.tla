--------------------------- MODULE AddressTypeProofs ---------------------------
(* Theorems about AddressTools, for any number of runs of the setup and user *)
(* tools: how an email can come to have two users, and the types: what a run *)
(* has in hand fits what it is about to do with it.                          *)
EXTENDS AddressTools, TLAPS

-----------------------------------------------------------------------------
(* The inductive invariant. *)

(* Where a user comes from: a run of the user tool makes one of its own id. *)
Origin(u) ==
  \/ u \in Known /\ email[u] # PlatformEmail
  \/ u = PlatformId /\ email[u] = PlatformEmail
  \/ u \in Runs /\ ~Setup(u) /\ email[u] = command[u].email /\ ~At(u, "idle")

(* What a run that is about to create its user knows: who else has the      *)
(* email got it while the run was under way, unless looking for it failed.  *)
Looked(r) ==
  /\ ~Setup(r)
  /\ (At(r, "create") /\ run[r].slips = 0) \/ (At(r, "createNow") /\ run[r].slips < 2)
  => \A v \in UsersWith(command[r].email) : v \in Runs /\ Overlapped(r, v)

Shape(s) == DOMAIN s = DOMAIN Idle /\ s.slips \in Nat

RunInv(r) ==
  /\ Shape(run[r]) /\ (At(r, "idle") => run[r] = Idle)
  /\ \A q \in run[r].before : q \in Runs /\ run[q].at \in {"done", "dead"}
  /\ At(r, "createNow") => backend = "formance"
  /\ Looked(r)

EmailInv ==
  /\ email \in [Ids -> Emails \cup {NoEmail}] /\ DOMAIN run = Runs
  /\ \E s \in Starts : s.backend = backend /\ s.command = command
  /\ \A u \in Ids : email[u] # NoEmail => Origin(u)
  /\ \A r \in Runs : RunInv(r)
  /\ OneUserPerEmail

-----------------------------------------------------------------------------
(* Steps of one run. *)

(* t continues s, before a failure is counted. *)
Same(s, t) == DOMAIN t = DOMAIN s /\ t.before = s.before /\ t.slips = s.slips

Early == {"idle", "create", "createNow"}
Over == {"done", "dead"}

Now(r, s) == Becomes(r, s) \/ Slips(r, s)

(* A step that neither creates a user nor looks for one that it will create. *)
Quiet(r) ==
  /\ email' = email /\ run[r].at \notin Over \cup {"idle"}
  /\ \E s : Same(run[r], s) /\ s.at \notin Early /\ Now(r, s)

(* A step to "create" or "createNow". *)
Looks(r) ==
  /\ email' = email
  /\ \E s : /\ Same(run[r], s)
            /\ \/ s.at = "create" /\ At(r, "identify")
               \/ s.at = "createNow" /\ At(r, "create") /\ backend = "formance"
            /\ \/ Becomes(r, s) /\ UsersWith(command[r].email) = {}
               \/ Slips(r, s)

Creates(r) ==
  /\ email' = [email EXCEPT ![NewId(r)] = command[r].email]
  /\ \/ At(r, "create") /\ UsersWith(command[r].email) = {}
     \/ At(r, "createNow")
  /\ \E s : Same(run[r], s) /\ s.at \notin Early /\ Now(r, s)

LEMMA FieldNames ==
  /\ {"at", "slips", "before"} \subseteq DOMAIN Idle
  /\ Idle.at = "idle" /\ Idle.slips = 0 /\ Idle.before = {}
BY DEF Idle

LEMMA UnsyncedGoes ==
  ASSUME NEW r \in Runs, NEW s, Shape(s)
  PROVE  Same(s, Unsynced(r, s)) /\ Unsynced(r, s).at \notin Early
BY FieldNames DEF Shape, Same, Unsynced, Failed, Served, Early

LEMMA AfterPutGoes ==
  ASSUME NEW r \in Runs, Shape(run[r]), NEW ok \in BOOLEAN
  PROVE  Same(run[r], AfterPut(r, ok)) /\ AfterPut(r, ok).at \notin Early
<1> DEFINE s == [run[r] EXCEPT !.at = "put", !.addrs = @ \ {Current(r)}, !.read = {},
                   !.stored = @ \/ ok,
                   !.gave = IF ok /\ run[r].stage = "assign" THEN @ \cup {Current(r)} ELSE @]
<1>1. Same(run[r], s) /\ Shape(s) /\ s.at = "put"
  BY FieldNames DEF Shape, Same
<1>2. AfterPut(r, ok) \in {s, Failed(s), [s EXCEPT !.at = "dead"], Served(s), Unsynced(r, s)}
  BY DEF AfterPut
<1> HIDE DEF s
<1>3. ASSUME NEW t \in {s, Failed(s), [s EXCEPT !.at = "dead"], Served(s)}
      PROVE  Same(s, t) /\ t.at \notin Early
  BY <1>1, <1>3, FieldNames DEF Shape, Same, Failed, Served, Early
<1>4. ASSUME NEW t, t = Unsynced(r, s) PROVE Same(s, t) /\ t.at \notin Early
  BY <1>1, <1>4, UnsyncedGoes
<1> QED BY <1>1, <1>2, <1>3, <1>4 DEF Same

LEMMA StepKinds ==
  ASSUME NEW r \in Runs, Shape(run[r]), Step(r)
  PROVE  Begin(r) \/ Quiet(r) \/ Looks(r) \/ Creates(r)
<1> USE FieldNames DEF Shape, Same, Now, Early, Over, At, GoTo, OnlyReads, directory
<1>1. CASE PickTask(r)
  BY <1>1 DEF PickTask, Quiet, FirstCall
<1>2. CASE Discover(r)
  BY <1>2 DEF Discover, Quiet
<1>3. CASE ReadUsers(r)
  BY <1>3 DEF ReadUsers, Quiet
<1>4. CASE ReadAssigned(r) \/ AllAssigned(r)
  BY <1>4 DEF ReadAssigned, AllAssigned, Quiet
<1>5. ASSUME NEW u PROVE Same(run[r], Identified(r, u)) /\ Identified(r, u).at = "next"
  BY DEF Identified
<1>6. Same(run[r], NotCreated(r)) /\ NotCreated(r).at \notin Early
  BY DEF NotCreated
<1>7. CASE Identify(r)
  BY <1>5, <1>7 DEF Identify, Quiet, Looks
<1>8. CASE InsertUser(r)
  BY <1>5, <1>6, <1>8 DEF InsertUser, CanInsertUser, AddUser, Quiet, Creates
<1>9. CASE CheckEmail(r)
  BY <1>6, <1>9 DEF CheckEmail, Quiet, Looks
<1>10. CASE WriteUser(r)
  BY <1>5, <1>6, <1>10 DEF WriteUser, AddUser, Creates
<1>11. CASE CreateUserFails(r)
  BY <1>6, <1>11 DEF CreateUserFails, Quiet
<1>12. CASE AssignStep(r)
  BY <1>12 DEF AssignStep, Find, WhenOwned, Search, LookUp, Quiet
<1>13. CASE UseWallet(r) \/ CreateWallet(r) \/ CreateWalletFails(r)
  BY <1>13 DEF UseWallet, CreateWallet, CreateWalletFails, Failed, Quiet
<1>14. CASE ListAddresses(r)
  BY <1>14, UnsyncedGoes DEF ListAddresses, Quiet
<1>15. CASE Check(r) \/ Mint(r) \/ MintFails(r)
  BY <1>15 DEF Check, Mint, MintFails, Failed, Served, Quiet
<1>16. CASE PutRow(r) \/ WriteMap(r) \/ PutFails(r)
  BY <1>16, AfterPutGoes DEF PutRow, WriteMap, PutFails, Quiet
<1>17. CASE ReadMap(r)
  BY <1>17 DEF ReadMap, Quiet
<1>18. CASE Die(r)
  BY <1>18 DEF Die, Quiet
<1> QED BY <1>1, <1>2, <1>3, <1>4, <1>7, <1>8, <1>9, <1>10, <1>11, <1>12, <1>13, <1>14,
           <1>15, <1>16, <1>17, <1>18
        DEF Step, Discovery, UserStep, AssetStep, PutStep

-----------------------------------------------------------------------------
(* What a step leaves of the others. *)

LEMMA CommandFacts ==
  ASSUME EmailInv, NEW r \in Runs
  PROVE  /\ command[r].email \in Emails /\ command[r].email # NoEmail
         /\ Setup(r) <=> command[r].email = PlatformEmail
         /\ NewId(r) \in Ids /\ r \in Ids /\ r \notin Known /\ r # PlatformId
<1>1. PICK s \in Starts : backend = s.backend /\ command = s.command
  BY DEF EmailInv
<1>2. command[r] \in CommandType
  BY <1>1, ToolsAssumption
<1>3. command[r].tool \in {"setup", "adduser"} /\ command[r].email \in Emails
  BY <1>2 DEF CommandType
<1> QED BY <1>1, <1>3, ToolsAssumption, StartAssumption, DirectoryAssumption
        DEF Setup, NewId

LEMMA NowRuns ==
  ASSUME EmailInv, NEW r \in Runs, NEW s, Same(run[r], s), Now(r, s)
  PROVE  /\ DOMAIN run' = Runs /\ \A q \in Runs : q # r => run'[q] = run[q]
         /\ Shape(run'[r]) /\ run'[r].before = run[r].before /\ run'[r].at = s.at
         /\ run'[r].slips >= run[r].slips
         /\ Slips(r, s) => run'[r].slips = run[r].slips + 1
<1>1. /\ DOMAIN run = Runs /\ Shape(run[r]) /\ run[r].slips \in Nat
      /\ DOMAIN s = DOMAIN Idle /\ s.slips = run[r].slips /\ s.before = run[r].before
  BY DEF EmailInv, RunInv, Shape, Same
<1>2. CASE Becomes(r, s) /\ ~Slips(r, s)
  <2>1. run' = [run EXCEPT ![r] = s]
    BY <1>2 DEF Becomes
  <2>2. DOMAIN run' = Runs /\ run'[r] = s /\ \A q \in Runs : q # r => run'[q] = run[q]
    BY <1>1, <2>1
  <2> QED BY <1>1, <1>2, <2>2 DEF Shape
<1>3. CASE Slips(r, s)
  <2>1. run' = [run EXCEPT ![r] = [s EXCEPT !.slips = s.slips + 1]]
    BY <1>1, <1>3, FieldNames DEF Slips
  <2>2. /\ DOMAIN run' = Runs /\ run'[r] = [s EXCEPT !.slips = s.slips + 1]
        /\ \A q \in Runs : q # r => run'[q] = run[q]
    BY <1>1, <2>1
  <2>3. /\ DOMAIN run'[r] = DOMAIN Idle /\ run'[r].before = s.before /\ run'[r].at = s.at
        /\ run'[r].slips = s.slips + 1
    BY <1>1, <2>2, FieldNames
  <2> QED BY <1>1, <1>3, <2>2, <2>3 DEF Shape
<1> QED BY <1>2, <1>3 DEF Now

(* Two runs that were under way together stay so. *)
Going(r) ==
  /\ \A q \in Runs : q # r => run'[q] = run[q]
  /\ run'[r].at # "idle" /\ Shape(run'[r]) /\ run'[r].slips >= run[r].slips
  /\ run[r].at # "idle" => run'[r].before = run[r].before

LEMMA OverlapStays ==
  ASSUME EmailInv, NEW r \in Runs, Going(r), NEW p \in Runs, NEW q \in Runs, Overlapped(p, q)
  PROVE  Overlapped(p, q)'
<1>1. /\ run[p].at # "idle" /\ run[q].at # "idle" /\ p # q
      /\ p \notin run[q].before /\ q \notin run[p].before
  BY DEF Overlapped, At
<1>2. /\ run'[p].at # "idle" /\ run'[p].before = run[p].before
      /\ run'[q].at # "idle" /\ run'[q].before = run[q].before
  BY <1>1 DEF Going
<1> QED BY <1>1, <1>2 DEF Overlapped, At

LEMMA OriginStays ==
  ASSUME EmailInv, NEW r \in Runs, Going(r), command' = command, NEW u \in Ids,
         Origin(u), email'[u] = email[u]
  PROVE  Origin(u)'
BY DEF Going, Origin, Setup, At

(* Of two users of an email, when neither is new. *)
TwoUsers(u, v) ==
  email[u] = email[v] /\ email[u] # NoEmail =>
    /\ backend = "formance" /\ PlatformId \notin {u, v}
    /\ \/ \E r \in {u, v} \cap Runs : run[r].slips >= 2
       \/ {u, v} \subseteq Runs /\ Overlapped(u, v)

LEMMA TwoStay ==
  ASSUME EmailInv, NEW r \in Runs, Going(r), backend' = backend,
         NEW u \in Ids, NEW v \in Ids \ {u}, email'[u] = email[u], email'[v] = email[v]
  PROVE  TwoUsers(u, v)'
<1>1. TwoUsers(u, v)
  BY DEF EmailInv, OneUserPerEmail, TwoUsers
<1>2. ASSUME NEW q \in Runs, run[q].slips >= 2 PROVE run'[q].slips >= 2
  <2>1. run[q].slips \in Nat /\ run[r].slips \in Nat
    BY DEF EmailInv, RunInv, Shape
  <2>2. CASE q # r
    BY <1>2, <2>2 DEF Going
  <2>3. CASE q = r
    <3>1. run'[q].slips >= run[q].slips
      BY <2>3 DEF Going
    <3>2. run'[q].slips \in Nat
      BY <2>3 DEF Going, Shape
    <3> QED BY <1>2, <2>1, <3>1, <3>2
  <2> QED BY <2>2, <2>3
<1>3. u \in Runs /\ v \in Runs /\ Overlapped(u, v) => Overlapped(u, v)'
  BY OverlapStays
<1> QED BY <1>1, <1>2, <1>3 DEF TwoUsers

(* A run that ended stays so; one that goes on had not ended. *)
LEMMA BeforeStays ==
  ASSUME EmailInv, NEW r \in Runs, Going(r), run[r].at \notin Over
  PROVE  \A q \in Runs : \A p \in run[q].before : p \in Runs /\ run'[p].at \in Over
BY DEF EmailInv, RunInv, Going, Over

-----------------------------------------------------------------------------
(* The steps. *)

Unwritten == UNCHANGED <<backend, command>>

(* What a run knows is still true after a step of another run, which creates *)
(* nobody with its email or overlaps with it.                                *)
LEMMA LookedStays ==
  ASSUME EmailInv, NEW r \in Runs, Going(r), Unwritten, NEW q \in Runs, q # r,
         At(q, "create") \/ At(q, "createNow") =>
           \A v \in Ids : email'[v] = command[q].email =>
             email[v] = email'[v] \/ (v \in Runs /\ Overlapped(q, v)')
  PROVE  Looked(q)'
<1>1. run'[q] = run[q] /\ Looked(q)
  BY DEF Going, EmailInv, RunInv
<1>2. ASSUME NEW v \in Runs, Overlapped(q, v) PROVE Overlapped(q, v)'
  BY <1>2, OverlapStays
<1> QED BY <1>1, <1>2 DEF Looked, Unwritten, UsersWith, Setup, At

LEMMA StepFrame ==
  ASSUME NEW r \in Runs, Step(r)
  PROVE  Unwritten
BY DEF Step, Begin, PickTask, Discovery, Discover, ReadUsers, ReadAssigned, AllAssigned,
       UserStep, Identify, InsertUser, CheckEmail, WriteUser, CreateUserFails,
       AssignStep, Find, Search, LookUp, AssetStep, UseWallet, CreateWallet,
       CreateWalletFails, ListAddresses, Check, Mint, MintFails, PutStep, PutRow, ReadMap,
       WriteMap, PutFails, Die, OnlyReads, Unwritten

(* The parts of the invariant that do not depend on whose the email is. *)
LEMMA QuietParts ==
  ASSUME EmailInv, NEW r \in Runs, Going(r), Unwritten, DOMAIN run' = Runs, email' = email,
         run[r].at \notin Over,
         \A q \in run'[r].before : q \in Runs /\ run'[q].at \in Over,
         At(r, "createNow")' => backend = "formance", Looked(r)'
  PROVE  EmailInv'
<1>1. \A q \in Runs : RunInv(q)'
  <2> SUFFICES ASSUME NEW q \in Runs PROVE RunInv(q)'
    OBVIOUS
  <2>1. CASE q = r
    BY <2>1 DEF RunInv, Unwritten, Over, Going, At
  <2>2. CASE q # r
    <3>1. run'[q] = run[q] /\ RunInv(q)
      BY <2>2 DEF Going, EmailInv
    <3>2. \A p \in run'[q].before : p \in Runs /\ run'[p].at \in Over
      BY <3>1, BeforeStays
    <3>3. Looked(q)'
      BY <2>2, LookedStays
    <3> QED BY <3>1, <3>2, <3>3 DEF RunInv, Unwritten, Over, At
  <2> QED BY <2>1, <2>2
<1>2. \A u \in Ids : email'[u] # NoEmail => Origin(u)'
  BY OriginStays DEF EmailInv, Unwritten
<1>3. OneUserPerEmail'
  BY TwoStay DEF OneUserPerEmail, TwoUsers, Unwritten
<1> QED BY <1>1, <1>2, <1>3 DEF EmailInv, Unwritten

LEMMA BeginInv ==
  ASSUME EmailInv, NEW r \in Runs, Begin(r)
  PROVE  EmailInv'
<1>1. PICK s : /\ s = [Idle EXCEPT !.at = IF Setup(r) THEN "discover" ELSE "identify",
                                   !.stage = FirstStage(r), !.before = Ended]
               /\ Becomes(r, s)
  BY DEF Begin
<1>2. /\ DOMAIN s = DOMAIN Idle /\ s.slips = 0 /\ s.before = Ended
      /\ s.at \in {"discover", "identify"}
  BY <1>1, FieldNames
<1>3. /\ DOMAIN run = Runs /\ run[r].at = "idle"
      /\ Shape(run[r])
  BY DEF Begin, At, EmailInv, RunInv
<1>4. run' = [run EXCEPT ![r] = s]
  BY <1>1 DEF Becomes
<1>5. Unwritten /\ email' = email /\ DOMAIN run' = Runs /\ run'[r] = s /\ Shape(run'[r])
  BY <1>2, <1>3, <1>4 DEF Begin, OnlyReads, directory, Unwritten, Shape
<1>6. \A q \in run'[r].before : q \in Runs /\ run'[q].at \in Over
  BY <1>2, <1>3, <1>4, <1>5 DEF Ended, Over
<1>7. Looked(r)' /\ ~At(r, "createNow")'
  BY <1>2, <1>5 DEF Looked, At
<1>8. Going(r)
  <2>1. run[r].slips = 0
    BY <1>3, FieldNames DEF EmailInv, RunInv, At
  <2> QED BY <1>2, <1>3, <1>4, <1>5, <2>1 DEF Going
<1> QED BY <1>3, <1>5, <1>6, <1>7, <1>8, QuietParts DEF Over

LEMMA RunGoes ==
  ASSUME EmailInv, NEW r \in Runs, run[r].at # "idle",
         NEW s, Same(run[r], s), Now(r, s), s.at # "idle"
  PROVE  /\ Going(r) /\ DOMAIN run' = Runs /\ run'[r].at = s.at
         /\ run'[r].before = run[r].before
BY NowRuns DEF Going

LEMMA QuietInv ==
  ASSUME EmailInv, NEW r \in Runs, Quiet(r), Unwritten
  PROVE  EmailInv'
<1>1. PICK s : Same(run[r], s) /\ s.at \notin Early /\ Now(r, s)
  BY DEF Quiet
<1>2. /\ run[r].at # "idle" /\ run[r].at \notin Over /\ email' = email
      /\ s.at \notin {"idle", "create", "createNow"}
  BY <1>1 DEF Quiet, Early
<1>3. /\ Going(r) /\ DOMAIN run' = Runs /\ run'[r].at = s.at
      /\ run'[r].before = run[r].before
  BY <1>1, <1>2, RunGoes
<1>4. \A q \in run'[r].before : q \in Runs /\ run'[q].at \in Over
  BY <1>2, <1>3, BeforeStays
<1>5. Looked(r)' /\ ~At(r, "createNow")'
  BY <1>2, <1>3 DEF Looked, At
<1> QED BY <1>2, <1>3, <1>4, <1>5, QuietParts

LEMMA LooksInv ==
  ASSUME EmailInv, NEW r \in Runs, Looks(r), Unwritten
  PROVE  EmailInv'
<1>1. PICK s : /\ Same(run[r], s)
               /\ \/ s.at = "create" /\ At(r, "identify")
                  \/ s.at = "createNow" /\ At(r, "create") /\ backend = "formance"
               /\ \/ Becomes(r, s) /\ UsersWith(command[r].email) = {}
                  \/ Slips(r, s)
  BY DEF Looks
<1>2. /\ Now(r, s) /\ email' = email /\ s.at # "idle"
      /\ run[r].at # "idle" /\ run[r].at \notin Over
  BY <1>1 DEF Now, At, Looks, Over
<1>3. /\ Going(r) /\ DOMAIN run' = Runs /\ run'[r].at = s.at
      /\ run'[r].before = run[r].before
  BY <1>1, <1>2, RunGoes
<1>4. \A q \in run'[r].before : q \in Runs /\ run'[q].at \in Over
  BY <1>2, <1>3, BeforeStays
<1>5. UsersWith(command[r].email)' = UsersWith(command[r].email)
  BY <1>2 DEF UsersWith, Unwritten
<1>6. Looked(r)'
  <2>1. CASE UsersWith(command[r].email) = {}
    BY <1>5, <2>1 DEF Looked
  <2>2. CASE Slips(r, s)
    <3>0. run'[r].slips = run[r].slips + 1
      BY <1>1, <1>2, <2>2, NowRuns
    <3>1. run[r].slips \in Nat /\ Looked(r)
      BY DEF EmailInv, RunInv, Shape
    <3>2. CASE s.at = "create"
      BY <1>3, <3>0, <3>1, <3>2 DEF Looked, At
    <3>3. CASE s.at = "createNow" /\ At(r, "create")
      <4>1. run'[r].slips < 2 => run[r].slips = 0
        BY <3>0, <3>1
      <4>2. Looked(r)' <=>
              (~Setup(r) /\ run'[r].slips < 2 =>
                 \A v \in UsersWith(command[r].email) : v \in Runs /\ Overlapped(r, v)')
        BY <1>3, <1>5, <3>3 DEF Looked, At, Setup, Unwritten
      <4>3. \A v \in Runs : Overlapped(r, v) => Overlapped(r, v)'
        BY <1>3, OverlapStays
      <4> QED BY <3>1, <3>3, <4>1, <4>2, <4>3 DEF Looked
    <3> QED BY <1>1, <3>2, <3>3
  <2> QED BY <1>1, <2>1, <2>2
<1>7. At(r, "createNow")' => backend = "formance"
  BY <1>1, <1>3 DEF At
<1> QED BY <1>2, <1>3, <1>4, <1>6, <1>7, QuietParts

(* Whoever has the email of a new user already. *)
LEMMA NewUser ==
  ASSUME EmailInv, NEW r \in Runs, Creates(r), Going(r), NEW v \in Ids, v # NewId(r),
         email[v] = command[r].email
  PROVE  /\ backend = "formance" /\ NewId(r) = r /\ PlatformId \notin {r, v}
         /\ run'[r].slips >= 2 \/ (v \in Runs /\ Overlapped(r, v)')
<1>1. At(r, "createNow")
  BY DEF Creates, UsersWith
<1>2. backend = "formance" /\ Looked(r)
  BY <1>1 DEF EmailInv, RunInv
<1>3. Origin(v)
  BY CommandFacts DEF EmailInv
<1>4. ~Setup(r)
  <2>1. ASSUME Setup(r) PROVE FALSE
    <3>1. email[v] = PlatformEmail /\ v # PlatformId
      BY <2>1, CommandFacts DEF NewId
    <3> QED BY <1>3, <3>1, CommandFacts DEF Origin
  <2> QED BY <2>1
<1>5. v # PlatformId
  BY <1>3, <1>4, CommandFacts, ToolsAssumption DEF Origin
<1>6. NewId(r) = r /\ r # PlatformId
  BY <1>4, CommandFacts DEF NewId
<1>7. run'[r].slips >= 2 \/ (v \in Runs /\ Overlapped(r, v)')
  <2>1. run[r].slips \in Nat /\ run'[r].slips \in Nat /\ run'[r].slips >= run[r].slips
    BY DEF EmailInv, RunInv, Shape, Going
  <2>2. CASE run[r].slips < 2
    <3>1. v \in Runs /\ Overlapped(r, v)
      BY <1>1, <1>2, <1>4, <2>2 DEF Looked, UsersWith
    <3> QED BY <3>1, OverlapStays
  <2> QED BY <2>1, <2>2
<1> QED BY <1>2, <1>5, <1>6, <1>7

LEMMA CreatesInv ==
  ASSUME EmailInv, NEW r \in Runs, Creates(r), Unwritten
  PROVE  EmailInv'
<1>1. PICK s : Same(run[r], s) /\ s.at \notin Early /\ Now(r, s)
  BY DEF Creates
<1>2. /\ run[r].at \in {"create", "createNow"}
      /\ run[r].at # "idle" /\ run[r].at \notin Over
      /\ s.at \notin {"idle", "create", "createNow"}
  BY <1>1 DEF Creates, Early, At, Over
<1>3. /\ Going(r) /\ DOMAIN run' = Runs /\ run'[r].at = s.at
      /\ run'[r].before = run[r].before
  BY <1>1, <1>2, RunGoes
<1>4. PICK n \in Ids : n = NewId(r)
  BY CommandFacts
<1>5. /\ email' \in [Ids -> Emails \cup {NoEmail}] /\ email'[n] = command[r].email
      /\ \A u \in Ids : u # n => email'[u] = email[u]
  BY <1>4, CommandFacts DEF Creates, EmailInv
<1>6. \A q \in Runs : RunInv(q)'
  <2> SUFFICES ASSUME NEW q \in Runs PROVE RunInv(q)'
    OBVIOUS
  <2>0. \A p \in run'[q].before : p \in Runs /\ run'[p].at \in Over
    BY <1>2, <1>3, BeforeStays DEF Going
  <2>1. CASE q = r
    BY <1>2, <1>3, <2>0, <2>1 DEF RunInv, Looked, Going, At, Over
  <2>2. CASE q # r
    <3>1. run'[q] = run[q] /\ RunInv(q)
      BY <1>3, <2>2 DEF Going, EmailInv
    <3>2. Looked(q)'
      <4>1. CASE Setup(q)
        BY <4>1 DEF Looked, Setup, Unwritten
      <4>2. CASE ~Setup(q)
        <5>1. ASSUME At(q, "create") \/ At(q, "createNow"), command[r].email = command[q].email
              PROVE  n \in Runs /\ Overlapped(q, n)'
          <6>1. n = r
            BY <1>4, <4>2, <5>1, CommandFacts DEF NewId
          <6>2. r \notin run[q].before /\ q \notin run[r].before
            BY <1>2, <5>1 DEF EmailInv, RunInv, At, Over
          <6> QED BY <1>2, <1>3, <2>2, <3>1, <5>1, <6>1, <6>2 DEF Overlapped, At
        <5> QED BY <1>3, <1>5, <2>2, <5>1, LookedStays
      <4> QED BY <4>1, <4>2
    <3> QED BY <2>0, <3>1, <3>2 DEF RunInv, Unwritten, Over, At
  <2> QED BY <2>1, <2>2
<1>7. \A u \in Ids : email'[u] # NoEmail => Origin(u)'
  <2>1. ASSUME NEW u \in Ids, u # n, email'[u] # NoEmail PROVE Origin(u)'
    BY <1>3, <1>5, <2>1, OriginStays DEF EmailInv, Unwritten
  <2>2. Origin(n)'
    BY <1>2, <1>3, <1>4, <1>5, CommandFacts DEF Origin, NewId, Setup, Unwritten, At
  <2> QED BY <2>1, <2>2
<1>8. OneUserPerEmail'
  <2>1. ASSUME NEW u \in Ids, NEW v \in Ids \ {u}, u # n, v # n PROVE TwoUsers(u, v)'
    BY <1>3, <1>5, <2>1, TwoStay DEF Unwritten
  <2>2. ASSUME NEW v \in Ids \ {n} PROVE TwoUsers(n, v)' /\ TwoUsers(v, n)'
    <3>1. email'[v] = email[v]
      BY <1>5
    <3>2. ASSUME email[v] = command[r].email
          PROVE  /\ backend' = "formance" /\ n \in Runs /\ PlatformId \notin {n, v}
                 /\ run'[n].slips >= 2 \/ (v \in Runs /\ Overlapped(n, v)')
      BY <1>3, <1>4, <3>2, NewUser DEF Unwritten
    <3>3. Overlapped(n, v)' => Overlapped(v, n)'
      BY DEF Overlapped
    <3> QED BY <1>5, <3>1, <3>2, <3>3 DEF TwoUsers
  <2> QED BY <2>1, <2>2 DEF OneUserPerEmail, TwoUsers
<1> QED BY <1>3, <1>5, <1>6, <1>7, <1>8 DEF EmailInv, Unwritten

LEMMA EmailStart == Init => EmailInv
<1> SUFFICES ASSUME Init PROVE EmailInv
  OBVIOUS
<1>1. PICK s \in Starts :
        /\ backend = s.backend /\ command = s.command
        /\ email = [u \in Ids |-> IF u \in DOMAIN s.users THEN s.users[u] ELSE NoEmail]
  BY DEF Init
<1>2. /\ \A u \in DOMAIN s.users : u \in Known /\ s.users[u] \in Emails \ {PlatformEmail}
      /\ \A u, v \in DOMAIN s.users : s.users[u] = s.users[v] => u = v
  BY ToolsAssumption, StartAssumption DEF Known
<1>3. \A r \in Runs : run[r] = Idle
  BY DEF Init
<1>4. email \in [Ids -> Emails \cup {NoEmail}] /\ DOMAIN run = Runs
  BY <1>1, <1>2 DEF Init
<1>5. \A u \in Ids : email[u] # NoEmail => Origin(u)
  BY <1>1, <1>2 DEF Origin
<1>6. \A r \in Runs : RunInv(r)
  BY <1>3, FieldNames DEF RunInv, Shape, Looked, At
<1>7. OneUserPerEmail
  BY <1>1, <1>2 DEF OneUserPerEmail
<1> QED BY <1>1, <1>4, <1>5, <1>6, <1>7 DEF EmailInv

LEMMA EmailStep == EmailInv /\ [Next]_vars => EmailInv'
<1> SUFFICES ASSUME EmailInv, [Next]_vars PROVE EmailInv'
  OBVIOUS
<1>1. ASSUME NEW r \in Runs, Step(r) PROVE EmailInv'
  <2>1. Begin(r) \/ Quiet(r) \/ Looks(r) \/ Creates(r)
    BY <1>1, StepKinds DEF EmailInv, RunInv
  <2>2. Unwritten
    BY <1>1, StepFrame
  <2> QED BY <2>1, <2>2, BeginInv, QuietInv, LooksInv, CreatesInv
<1>2. CASE UNCHANGED vars
  BY <1>2 DEF vars, directory, EmailInv, Origin, Setup, At, RunInv, Shape, Looked, UsersWith,
              Overlapped, OneUserPerEmail
<1> QED BY <1>1, <1>2 DEF Next

(* An email has one user on SQLite, and on Formance unless two runs of the  *)
(* user tool were under way together or one was refused both its looks; the *)
(* platform's account is always one.                                        *)
THEOREM EmailsHaveOneUser == Spec => []OneUserPerEmail
<1>1. EmailInv => OneUserPerEmail
  BY DEF EmailInv
<1> QED BY <1>1, EmailStart, EmailStep, PTL DEF Spec

-----------------------------------------------------------------------------
(* The types of a run, and what fits where it is. *)

Places ==
  {"idle", "discover", "users", "assigned", "identify", "refetch", "create", "createNow",
   "next", "list", "find", "search", "book", "wallet", "newWallet", "check", "mint",
   "put", "write", "done", "dead"}

TaskType ==
  [user : Ids \cup {NoUser}, asset : Assets \cup {Generic}, network : Networks \cup {External},
   wallet : Nat, addr : Addresses]

RunType ==
  [at : Places, stage : {"none", "discover", "assign", "register", "generate"},
   user : Ids \cup {NoUser}, users : SUBSET Ids, left : SUBSET Ids,
   assigned : SUBSET Addresses, places : SUBSET (Nat \X Networks), tasks : SUBSET TaskType,
   cur : TaskType, addrs : SUBSET Addresses, read : SUBSET EntryType,
   exists : BOOLEAN, stored : BOOLEAN,
   served : SUBSET [user : Ids \cup {NoUser}, asset : Assets \cup {Generic},
                    network : Networks \cup {External}],
   had : Nat, gave : SUBSET Addresses, slips : Nat, before : SUBSET Runs]

(* An asset of assets.yaml; one whose wallet is known; an address of the    *)
(* command line.                                                            *)
Wanted(t) == t.asset \in Assets /\ t.network \in Networks /\ t.user \in Ids

Synced(t) ==
  /\ t.wallet \in DOMAIN wallets /\ wallets[t.wallet] = t.asset
  /\ t.network \in Networks /\ t.user \in Ids

Given(s, t) == t.user = s.user /\ s.user \in Ids /\ t.network = External

(* How the address a of Prime's is stored for whoever it is stored for.     *)
DepositOf(a) == Stored(wallets[made[a].wallet], made[a].network, a)

TasksFit(r, s) ==
  /\ s.at \in {"idle", "discover", "users", "assigned", "identify", "refetch", "create",
               "createNow"} => s.tasks = {}
  /\ \A t \in s.tasks :
       /\ s.stage = "discover" => Synced(t)
       /\ s.stage = "generate" => Wanted(t)
       /\ s.stage \in {"assign", "register"} => Given(s, t)

StageFits(r, s) ==
  /\ s.at \in {"discover", "assigned", "identify", "refetch", "create", "createNow"} =>
       s.stage = FirstStage(r)
  /\ s.at \in {"discover", "users", "assigned", "refetch"} => Setup(r)
  /\ s.stage \in {"none", "generate"} \cup (IF Setup(r) THEN {"discover"} ELSE {"assign", "register"})
  /\ s.at # "idle" => s.stage # "none"
  /\ ~Setup(r) /\ s.at \notin {"idle", "identify", "create", "createNow", "dead"} => s.user \in Ids

CurFits(r, s) ==
  /\ s.at \in {"find", "search", "book"} =>
       s.stage \in {"assign", "register"} /\ Given(s, s.cur)
  /\ s.at = "search" => s.stage = "assign"
  /\ s.at = "book" => s.stage = "register"
  /\ s.at \in {"wallet", "newWallet", "check"} => s.stage = "generate" /\ Wanted(s.cur)
  /\ s.at \in {"list", "mint"} \/ (s.at = "check" /\ Setup(r)) =>
       s.stage \in {"discover", "generate"} /\ Synced(s.cur)
  /\ s.at = "mint" => s.stage = "generate"
  /\ s.at \in {"put", "write"} =>
       /\ s.addrs # {} /\ s.cur.user \in Ids
       /\ s.stage = "register" => s.cur.network = External
       /\ s.stage # "register" =>
            \A a \in s.addrs :
              a \in DOMAIN made /\ Stored(s.cur.asset, s.cur.network, a) = DepositOf(a)
       /\ s.stage \in {"discover", "generate"} => Synced(s.cur)
       /\ s.stage = "assign" => s.addrs = {s.cur.addr}

BaseFits(r, s) ==
  /\ TasksFit(r, s) /\ StageFits(r, s)
  /\ s.places \subseteq (DOMAIN wallets) \X Networks
  /\ s.left \subseteq s.users /\ s.had <= Len(made)
  /\ s.at \notin {"write", "dead"} => s.read = {}
  /\ s.at = "idle" => s = Idle

RunFits(r, s) == BaseFits(r, s) /\ CurFits(r, s)

PrimeTypes ==
  /\ wallets \in Seq(Assets) /\ made \in Seq(AddressType)
  /\ \A a \in DOMAIN made : made[a].wallet \in DOMAIN wallets

TypeInv ==
  /\ \E s \in Starts : s.backend = backend /\ s.command = command
  /\ email \in [Ids -> Emails \cup {NoEmail}]
  /\ listed \in [Ids -> SUBSET EntryType] /\ keyed \in [Ids -> SUBSET EntryType]
  /\ PrimeTypes /\ faults \in 0..MaxFaults
  /\ run \in [Runs -> RunType]
  /\ \A r \in Runs : RunFits(r, run[r]) /\ run[r].slips <= faults

-----------------------------------------------------------------------------
(* The types. *)

Good(r, s) == s \in RunType /\ s.at # "idle" /\ RunFits(r, s)

Grows ==
  /\ \A w \in DOMAIN wallets : w \in DOMAIN wallets' /\ wallets'[w] = wallets[w]
  /\ \A a \in DOMAIN made : a \in DOMAIN made' /\ made'[a] = made[a]
  /\ Len(made) <= Len(made')

LEMMA CommandTypes ==
  ASSUME TypeInv, NEW r \in Runs
  PROVE  /\ command[r].deposits \subseteq Addresses /\ command[r].withdrawals \subseteq Addresses
         /\ r \in Ids /\ NewId(r) \in Ids /\ FirstStage(r) \in {"discover", "assign"}
         /\ Setup(r) <=> FirstStage(r) = "discover"
<1>1. PICK s \in Starts : backend = s.backend /\ command = s.command
  BY DEF TypeInv
<1>2. command[r] \in CommandType
  BY <1>1, ToolsAssumption
<1> QED BY <1>1, <1>2, ToolsAssumption DEF CommandType, Setup, NewId, FirstStage

LEMMA BaseStays ==
  ASSUME TypeInv, Grows, PrimeTypes', command' = command,
         NEW r \in Runs, NEW s \in RunType, BaseFits(r, s)
  PROVE  BaseFits(r, s)'
<1>1. made \in Seq(AddressType) /\ made' \in Seq(AddressType)
  BY DEF TypeInv, PrimeTypes
<1>2. \A t : Synced(t) => Synced(t)'
  BY DEF Synced, Grows
<1>3. TasksFit(r, s)'
  BY <1>2 DEF BaseFits, TasksFit, Wanted, Given
<1>4. StageFits(r, s)'
  BY DEF BaseFits, StageFits, FirstStage, Setup
<1>5. s.places \subseteq ((DOMAIN wallets) \X Networks)'
  BY DEF BaseFits, Grows
<1>6. s.had <= Len(made)'
  BY <1>1 DEF BaseFits, Grows, RunType
<1> QED BY <1>3, <1>4, <1>5, <1>6 DEF BaseFits

LEMMA GoodStays ==
  ASSUME TypeInv, Grows, PrimeTypes', command' = command,
         NEW r \in Runs, NEW s \in RunType, RunFits(r, s)
  PROVE  RunFits(r, s)'
<1>1. \A t : Synced(t) => Synced(t)'
  BY DEF Synced, Grows
<1>2. \A a \in DOMAIN made : DepositOf(a)' = DepositOf(a) /\ a \in DOMAIN made'
  BY DEF DepositOf, Grows, TypeInv, PrimeTypes
<1>3. CurFits(r, s)'
  BY <1>1, <1>2 DEF RunFits, CurFits, Wanted, Given, Setup
<1> QED BY <1>3, BaseStays DEF RunFits

LEMMA Goes ==
  ASSUME TypeInv, NEW r \in Runs, NEW s, Good(r, s)', s.slips = run[r].slips, Now(r, s),
         Unwritten, Grows, PrimeTypes',
         email' \in [Ids -> Emails \cup {NoEmail}],
         listed' \in [Ids -> SUBSET EntryType], keyed' \in [Ids -> SUBSET EntryType]
  PROVE  TypeInv'
<1>1. s \in RunType /\ s.at # "idle" /\ RunFits(r, s)'
  BY DEF Good
<1>2. /\ run \in [Runs -> RunType] /\ run[r] \in RunType /\ run[r].slips \in Nat
      /\ faults \in 0..MaxFaults /\ MaxFaults \in Nat
      /\ \A q \in Runs : RunFits(q, run[q]) /\ run[q].slips <= faults /\ run[q].slips \in Nat
  BY ToolsAssumption DEF TypeInv, RunType
<1>3. ASSUME NEW q \in Runs, q # r, run'[q] = run[q]
      PROVE  run'[q] \in RunType /\ RunFits(q, run[q])'
  <2>1. PICK t : t = run[q]
    OBVIOUS
  <2>2. RunFits(q, t)'
    BY <1>2, <2>1, GoodStays DEF Unwritten
  <2> QED BY <1>2, <1>3, <2>1, <2>2
<1>4. CASE Becomes(r, s)
  <2>1. /\ run' = [run EXCEPT ![r] = s] /\ faults' = faults /\ run'[r] = s
        /\ \A q \in Runs : q # r => run'[q] = run[q]
    BY <1>2, <1>4 DEF Becomes
  <2>2. RunFits(r, run[r])'
    BY <1>1, <2>1
  <2>3. \A q \in Runs : RunFits(q, run[q])' /\ run'[q].slips <= faults'
    BY <1>2, <1>3, <2>1, <2>2
  <2>4. run' \in [Runs -> RunType]
    BY <1>1, <1>2, <2>1
  <2>5. \E c \in Starts : c.backend = backend' /\ c.command = command'
    BY DEF TypeInv, Unwritten
  <2> QED BY <1>2, <2>1, <2>3, <2>4, <2>5 DEF TypeInv
<1>5. CASE Slips(r, s)
  <2>1. PICK t : t = [s EXCEPT !.slips = @ + 1]
    OBVIOUS
  <2>2. /\ run' = [run EXCEPT ![r] = t] /\ faults' = faults + 1 /\ faults < MaxFaults
        /\ run'[r] = t /\ \A q \in Runs : q # r => run'[q] = run[q]
    BY <1>2, <1>5, <2>1 DEF Slips
  <2>3. t \in RunType /\ t.slips = s.slips + 1
    BY <1>1, <1>2, <2>1 DEF RunType
  <2>4. RunFits(r, t)'
    BY <1>1, <2>1 DEF RunType, RunFits, BaseFits, TasksFit, StageFits, CurFits, Given
  <2>5. RunFits(r, run[r])'
    BY <2>2, <2>4
  <2>6. ASSUME NEW q \in Runs PROVE RunFits(q, run[q])' /\ run'[q].slips <= faults'
    <3>1. CASE q # r
      BY <1>2, <1>3, <2>2, <3>1
    <3>2. CASE q = r
      BY <1>2, <2>2, <2>3, <2>5, <3>2
    <3> QED BY <3>1, <3>2
  <2>7. run' \in [Runs -> RunType]
    BY <1>1, <1>2, <2>2, <2>3
  <2>8. \E c \in Starts : c.backend = backend' /\ c.command = command'
    BY DEF TypeInv, Unwritten
  <2> QED BY <1>2, <2>2, <2>6, <2>7, <2>8 DEF TypeInv
<1> QED BY <1>4, <1>5 DEF Now

LEMMA RunFacts ==
  ASSUME TypeInv, NEW r \in Runs
  PROVE  run[r] \in RunType /\ RunFits(r, run[r]) /\ DOMAIN run = Runs
BY DEF TypeInv

Goal(r) == \E s : Good(r, s) /\ s.slips = run[r].slips /\ Now(r, s)

LEMMA GoalGoes ==
  ASSUME TypeInv, NEW r \in Runs, Goal(r), prime' = prime, Unwritten,
         email' \in [Ids -> Emails \cup {NoEmail}],
         listed' \in [Ids -> SUBSET EntryType], keyed' \in [Ids -> SUBSET EntryType]
  PROVE  TypeInv' /\ Grows
<1>1. PICK s : Good(r, s) /\ s.slips = run[r].slips /\ Now(r, s)
  BY DEF Goal
<1>2. Grows /\ PrimeTypes'
  BY DEF Grows, PrimeTypes, TypeInv, prime
<1>3. Good(r, s)'
  BY <1>1, <1>2, GoodStays DEF Good, Unwritten
<1> QED BY <1>1, <1>2, <1>3, Goes

Before == {"discover", "users", "assigned", "identify", "refetch", "create", "createNow"}
Stops == {"next", "done", "dead"}

LEMMA AlongGood ==
  ASSUME TypeInv, NEW r \in Runs, run[r].at \in {"discover", "users", "assigned"},
         NEW s \in RunType, s.at \in {"users", "assigned"}, s.tasks = {},
         s.stage \in {"discover", "generate"}, s.at = "assigned" => s.stage = "discover",
         s.places \subseteq (DOMAIN wallets) \X Networks, s.left \subseteq s.users,
         s.had <= Len(made), s.read = run[r].read
  PROVE  Good(r, s)
<1>1. run[r] \in RunType /\ RunFits(r, run[r])
  BY RunFacts
<1>2. Setup(r) /\ FirstStage(r) = "discover" /\ run[r].read = {}
  BY <1>1, CommandTypes DEF RunFits, BaseFits, StageFits
<1>3. TasksFit(r, s) /\ StageFits(r, s) /\ CurFits(r, s)
  BY <1>2 DEF TasksFit, StageFits, CurFits
<1> QED BY <1>2, <1>3 DEF Good, RunFits, BaseFits

LEMMA AlongFacts ==
  ASSUME TypeInv, NEW r \in Runs, run[r].at \in {"discover", "users", "assigned"}
  PROVE  /\ run[r] \in RunType /\ run[r].tasks = {} /\ run[r].left \subseteq run[r].users
         /\ run[r].places \subseteq (DOMAIN wallets) \X Networks /\ run[r].had <= Len(made)
         /\ run[r].stage \in {"discover", "generate"}
         /\ run[r].at # "users" => run[r].stage = "discover"
BY RunFacts, CommandTypes DEF RunFits, BaseFits, StageFits, TasksFit

LEMMA DiscoverGoal ==
  ASSUME TypeInv, NEW r \in Runs, Discover(r)
  PROVE  Goal(r)
<1>1. run[r].at = "discover" /\ run[r] \in RunType
  BY RunFacts DEF Discover, At
<1>2. SetupNetworks \subseteq Networks /\ wallets \in Seq(Assets)
  BY ToolsAssumption DEF TypeInv, PrimeTypes
<1>3. PICK places \in SUBSET (Nat \X Networks) : places = (DOMAIN wallets) \X SetupNetworks
  <2>1. (DOMAIN wallets) \X SetupNetworks \subseteq Nat \X Networks
    BY <1>2
  <2> QED BY <2>1
<1>4. PICK had \in Nat : had = Len(made)
  BY DEF TypeInv, PrimeTypes
<1> DEFINE s == GoTo(r, "users")
           t == [s EXCEPT !.stage = "generate"]
           u == [s EXCEPT !.places = places, !.had = had]
<1>5. /\ t \in RunType /\ t.at = "users" /\ t.stage = "generate" /\ t.slips = run[r].slips
      /\ t.tasks = run[r].tasks /\ t.left = run[r].left /\ t.users = run[r].users
      /\ t.places = run[r].places /\ t.had = run[r].had /\ t.read = run[r].read
  BY ZenonT(40), <1>1 DEF GoTo, RunType, Places
<1>6. /\ u \in RunType /\ u.at = "users" /\ u.stage = run[r].stage /\ u.slips = run[r].slips
      /\ u.tasks = run[r].tasks /\ u.left = run[r].left /\ u.users = run[r].users
      /\ u.places = places /\ u.had = had /\ u.read = run[r].read
  BY ZenonT(40), <1>1 DEF GoTo, RunType, Places
<1>7. Now(r, t) \/ Now(r, u)
  BY <1>3, <1>4 DEF Discover, Now
<1> HIDE DEF t, u
<1>8. Good(r, t)
  BY <1>1, <1>5, AlongFacts, AlongGood
<1>9. places \subseteq (DOMAIN wallets) \X Networks /\ had <= Len(made)
  BY <1>2, <1>3, <1>4
<1>10. Good(r, u)
  BY <1>1, <1>6, <1>9, AlongFacts, AlongGood
<1> QED BY <1>5, <1>6, <1>7, <1>8, <1>10 DEF Goal

LEMMA ReadUsersGoal ==
  ASSUME TypeInv, NEW r \in Runs, ReadUsers(r)
  PROVE  Goal(r)
<1>1. run[r] \in RunType /\ RunFits(r, run[r]) /\ run[r].at = "users"
  BY RunFacts DEF ReadUsers, At
<1>2. Configs \subseteq Assets \X Networks /\ RealUsers \subseteq Ids
  BY ToolsAssumption DEF RealUsers
<1>3. Setup(r) /\ run[r].stage \in {"discover", "generate"} /\ run[r].tasks = {}
  BY <1>1 DEF RunFits, BaseFits, StageFits, TasksFit
<1>4. CASE run[r].stage = "discover"
  <2> DEFINE s == [GoTo(r, "assigned") EXCEPT !.users = RealUsers, !.left = RealUsers]
  <2>1. /\ s \in RunType /\ s.at = "assigned" /\ s.stage = run[r].stage
        /\ s.slips = run[r].slips /\ s.tasks = run[r].tasks /\ s.left = s.users
        /\ s.places = run[r].places /\ s.had = run[r].had /\ s.read = run[r].read
    BY ZenonT(40), <1>1, <1>2 DEF GoTo, RunType, Places
  <2>2. Now(r, s)
    BY <1>4 DEF ReadUsers, Now
  <2> HIDE DEF s
  <2>3. Good(r, s)
    BY <1>1, <1>4, <2>1, AlongFacts, AlongGood
  <2> QED BY <2>1, <2>2, <2>3 DEF Goal
<1>5. CASE run[r].stage = "generate"
  <2> DEFINE s == [GoTo(r, "next") EXCEPT !.tasks = ConfigTasks(RealUsers)]
  <2>1. ConfigTasks(RealUsers) \subseteq TaskType
    BY <1>2 DEF ConfigTasks, Task, TaskType, Addresses
  <2>2. \A t \in ConfigTasks(RealUsers) : Wanted(t)
    BY <1>2 DEF ConfigTasks, Task, Wanted
  <2> HIDE DEF ConfigTasks
  <2>3. s \in RunType /\ s.slips = run[r].slips /\ s.at = "next"
    BY ZenonT(40), <1>1, <2>1 DEF GoTo, RunType, Places
  <2>4. TasksFit(r, s)
    BY <1>1, <1>5, <2>2 DEF TasksFit, GoTo, RunType
  <2>5. StageFits(r, s)
    BY <1>1, <1>3, <1>5 DEF StageFits, GoTo, RunType
  <2>6. CurFits(r, s)
    BY <2>3 DEF CurFits
  <2>7. RunFits(r, s)
    BY <1>1, <2>3, <2>4, <2>5, <2>6 DEF RunFits, BaseFits, GoTo, RunType
  <2>8. Now(r, s)
    BY <1>5 DEF ReadUsers, Now
  <2> QED BY <2>3, <2>7, <2>8 DEF Goal, Good
<1> QED BY <1>3, <1>4, <1>5

LEMMA ReadAssignedGoal ==
  ASSUME TypeInv, NEW r \in Runs, ReadAssigned(r)
  PROVE  Goal(r)
<1>1. run[r] \in RunType /\ run[r].at = "assigned"
  BY RunFacts DEF ReadAssigned, At
<1>2. PICK u : u = CHOOSE v \in run[r].left : TRUE
  OBVIOUS
<1>3. u \in run[r].left /\ run[r].left \subseteq Ids
  BY <1>1, <1>2 DEF ReadAssigned, RunType
<1>4. AllAddressesOf(u) \subseteq Addresses
  BY <1>3 DEF AllAddressesOf, TypeInv, EntryType
<1> DEFINE s == [run[r] EXCEPT !.left = @ \ {u}]
           t == [s EXCEPT !.assigned = @ \cup AllAddressesOf(u)]
<1>5. /\ s \in RunType /\ s.at = "assigned" /\ s.stage = run[r].stage
      /\ s.slips = run[r].slips /\ s.tasks = run[r].tasks
      /\ s.left \subseteq run[r].left /\ s.users = run[r].users
      /\ s.places = run[r].places /\ s.had = run[r].had /\ s.read = run[r].read
  BY <1>1 DEF RunType
<1>6. /\ t \in RunType /\ t.at = "assigned" /\ t.stage = run[r].stage
      /\ t.slips = run[r].slips /\ t.tasks = run[r].tasks
      /\ t.left \subseteq run[r].left /\ t.users = run[r].users
      /\ t.places = run[r].places /\ t.had = run[r].had /\ t.read = run[r].read
  BY <1>1, <1>4 DEF RunType
<1>7. Now(r, s) \/ Now(r, t)
  BY <1>2 DEF ReadAssigned, Now
<1> HIDE DEF s, t
<1>8. Good(r, s) /\ Good(r, t)
  BY <1>1, <1>5, <1>6, AlongFacts, AlongGood
<1> QED BY <1>5, <1>6, <1>7, <1>8 DEF Goal

LEMMA EarlyGood ==
  ASSUME TypeInv, NEW r \in Runs,
         run[r].at \in {"assigned", "identify", "refetch", "create", "createNow"},
         NEW p \in {"identify", "refetch", "create", "createNow"}, p = "refetch" => Setup(r)
  PROVE  Good(r, GoTo(r, p)) /\ GoTo(r, p).slips = run[r].slips
<1> DEFINE s == GoTo(r, p)
<1>1. run[r] \in RunType /\ RunFits(r, run[r])
  BY RunFacts
<1>2. s \in RunType /\ s.slips = run[r].slips /\ s.at = p
  BY <1>1 DEF GoTo, RunType, Places
<1>3. TasksFit(r, s)
  BY <1>1 DEF RunFits, BaseFits, TasksFit, GoTo, RunType
<1>4. StageFits(r, s)
  BY <1>1, <1>2 DEF RunFits, BaseFits, StageFits, GoTo, RunType
<1>5. CurFits(r, s)
  BY <1>2 DEF CurFits
<1>6. RunFits(r, s)
  BY <1>1, <1>2, <1>3, <1>4, <1>5 DEF RunFits, BaseFits, GoTo, RunType
<1> QED BY <1>2, <1>6 DEF Good

LEMMA DeadGood ==
  ASSUME TypeInv, NEW r \in Runs, run[r].at # "idle"
  PROVE  Good(r, GoTo(r, "dead")) /\ GoTo(r, "dead").slips = run[r].slips
<1> DEFINE s == GoTo(r, "dead")
<1>1. run[r] \in RunType /\ RunFits(r, run[r])
  BY RunFacts
<1>2. s \in RunType /\ s.slips = run[r].slips /\ s.at = "dead"
  BY <1>1 DEF GoTo, RunType, Places
<1>3. TasksFit(r, s)
  BY <1>1 DEF RunFits, BaseFits, TasksFit, Given, GoTo, RunType
<1>4. StageFits(r, s)
  BY <1>1, <1>2 DEF RunFits, BaseFits, StageFits, GoTo, RunType
<1>5. CurFits(r, s)
  BY <1>2 DEF CurFits
<1>6. RunFits(r, s)
  BY <1>1, <1>2, <1>3, <1>4, <1>5 DEF RunFits, BaseFits, GoTo, RunType
<1> QED BY <1>2, <1>6 DEF Good

LEMMA IdentifiedGood ==
  ASSUME TypeInv, NEW r \in Runs, run[r].at \in {"identify", "refetch", "create", "createNow"},
         NEW u \in Ids \cup {NoUser}, u = NoUser => Setup(r)
  PROVE  Good(r, Identified(r, u)) /\ Identified(r, u).slips = run[r].slips
<1>1. /\ run[r] \in RunType /\ RunFits(r, run[r]) /\ run[r].stage = FirstStage(r)
      /\ run[r].places \subseteq (DOMAIN wallets) \X Networks
      /\ run[r].users \cup ({u} \ {NoUser}) \subseteq Ids
  BY RunFacts DEF RunFits, BaseFits, StageFits, RunType
<1>2. wallets \in Seq(Assets)
  BY DEF TypeInv, PrimeTypes
<1>3. \A p \in run[r].places :
        p[1] \in DOMAIN wallets /\ p[1] \in Nat /\ wallets[p[1]] \in Assets /\ p[2] \in Networks
  BY <1>1, <1>2
<1>4. \A t \in SyncTasks(r, u) : t \in TaskType /\ Synced(t)
  BY <1>1, <1>3 DEF SyncTasks, Task, TaskType, Synced, Addresses
<1>5. \A t \in AddressTasks(u, command[r].deposits) :
        t \in TaskType /\ t.user = u /\ t.network = External
  BY CommandTypes DEF AddressTasks, Task, TaskType
<1>6. PICK tasks : tasks = IF Setup(r) THEN SyncTasks(r, u)
                           ELSE AddressTasks(u, command[r].deposits)
  OBVIOUS
<1> DEFINE s == [run[r] EXCEPT !.at = "next", !.user = u, !.tasks = tasks]
<1>7. s = Identified(r, u)
  BY <1>6 DEF Identified
<1>8. tasks \subseteq TaskType
  BY <1>4, <1>5, <1>6
<1>9. s \in RunType /\ s.slips = run[r].slips /\ s.at = "next" /\ s.user = u
      /\ s.tasks = tasks /\ s.stage = FirstStage(r)
  <2>1. run[r] \in RunType
    BY <1>1
  <2>2. s \in RunType
    BY ZenonT(40), <1>8, <2>1 DEF RunType, Places
  <2>3. /\ s.slips = run[r].slips /\ s.at = "next" /\ s.user = u
        /\ s.tasks = tasks /\ s.stage = run[r].stage
    BY <2>1 DEF RunType
  <2> QED BY <1>1, <2>2, <2>3
<1>10. TasksFit(r, s)
  BY <1>4, <1>5, <1>6, <1>9, CommandTypes DEF TasksFit, Given
<1>11. StageFits(r, s)
  BY <1>1, <1>9, CommandTypes DEF RunFits, BaseFits, StageFits
<1>12. CurFits(r, s)
  BY <1>9 DEF CurFits
<1>13. RunFits(r, s)
  BY <1>1, <1>9, <1>10, <1>11, <1>12 DEF RunFits, BaseFits, RunType
<1> HIDE DEF s
<1> QED BY <1>7, <1>9, <1>13 DEF Good

LEMMA UserGoal ==
  ASSUME TypeInv, NEW r \in Runs, UserStep(r) \/ AllAssigned(r)
  PROVE  Goal(r)
<1> USE DEF At, Now, Goal
<1>1. CASE AllAssigned(r)
  BY <1>1, EarlyGood DEF AllAssigned
<1>2. ASSUME run[r].at \in {"identify", "refetch", "create", "createNow"}
      PROVE  Good(r, NotCreated(r)) /\ NotCreated(r).slips = run[r].slips
  <2>1. CASE Setup(r)
    BY <1>2, <2>1, EarlyGood DEF NotCreated
  <2>2. CASE ~Setup(r)
    BY <1>2, <2>2, DeadGood DEF NotCreated
  <2> QED BY <2>1, <2>2
<1>3. CASE Identify(r)
  <2>1. run[r].at \in {"identify", "refetch"} /\ (At(r, "refetch") => Setup(r))
    BY <1>3, RunFacts DEF Identify, RunFits, BaseFits, StageFits
  <2>2. CASE \E u \in UsersWith(command[r].email) : Becomes(r, Identified(r, u))
    <3>1. PICK u \in Ids : Becomes(r, Identified(r, u))
      BY <2>2 DEF UsersWith
    <3> QED BY <2>1, <3>1, IdentifiedGood, DirectoryAssumption
  <2>3. CASE At(r, "refetch") /\ Now(r, Identified(r, NoUser))
    BY <2>1, <2>3, IdentifiedGood
  <2>4. CASE Now(r, GoTo(r, "create"))
    BY <2>1, <2>4, EarlyGood
  <2> QED BY <1>3, <2>2, <2>3, <2>4 DEF Identify
<1>4. CASE InsertUser(r)
  <2>1. NewId(r) \in Ids /\ At(r, "create")
    BY <1>4, CommandTypes DEF InsertUser
  <2>2. Now(r, Identified(r, NewId(r))) \/ Now(r, NotCreated(r))
    BY <1>4 DEF InsertUser
  <2> QED BY <1>2, <2>1, <2>2, IdentifiedGood, DirectoryAssumption
<1>5. CASE CheckEmail(r)
  BY <1>2, <1>5, EarlyGood DEF CheckEmail
<1>6. CASE WriteUser(r)
  <2>1. NewId(r) \in Ids /\ At(r, "createNow")
    BY <1>6, CommandTypes DEF WriteUser
  <2>2. Now(r, Identified(r, NewId(r))) \/ Now(r, NotCreated(r))
    BY <1>6 DEF WriteUser
  <2> QED BY <1>2, <2>1, <2>2, IdentifiedGood, DirectoryAssumption
<1>7. CASE CreateUserFails(r)
  BY <1>2, <1>7 DEF CreateUserFails
<1> QED BY <1>1, <1>3, <1>4, <1>5, <1>6, <1>7 DEF UserStep

(* What the loops keep of a run. *)
Keeps(s, t) ==
  /\ t.tasks \subseteq s.tasks /\ t.stage = s.stage /\ t.user = s.user /\ t.users = s.users
  /\ t.left = s.left /\ t.places = s.places /\ t.had = s.had /\ t.slips = s.slips

InLoop == Places \ ({"idle", "dead"} \cup Before)

LEMMA KeepsBase ==
  ASSUME TypeInv, NEW r \in Runs, run[r].at \in InLoop,
         NEW s \in RunType, Keeps(run[r], s), s.at \in InLoop \cup {"dead"},
         s.at \notin {"write", "dead"} => s.read = {}
  PROVE  BaseFits(r, s) /\ s.at # "idle"
<1>1. run[r] \in RunType /\ RunFits(r, run[r])
  BY RunFacts
<1>2. TasksFit(r, s)
  BY <1>1 DEF RunFits, BaseFits, TasksFit, Given, Keeps, InLoop, Before
<1>3. StageFits(r, s)
  BY <1>1 DEF RunFits, BaseFits, StageFits, Keeps, InLoop, Before
<1> QED BY <1>1, <1>2, <1>3 DEF RunFits, BaseFits, Keeps, InLoop

LEMMA KeepsGood ==
  ASSUME TypeInv, NEW r \in Runs, run[r].at \in InLoop,
         NEW s \in RunType, Keeps(run[r], s), s.at \in InLoop \cup {"dead"},
         CurFits(r, s), s.at \notin {"write", "dead"} => s.read = {}
  PROVE  Good(r, s)
BY KeepsBase DEF Good, RunFits

LEMMA StopFits ==
  ASSUME NEW r, NEW s, s.at \in Stops
  PROVE  CurFits(r, s)
BY DEF CurFits, Stops

LEMMA NextTaskFacts ==
  ASSUME NEW r, run[r].tasks # {}
  PROVE  NextTask(r) \in run[r].tasks
<1> DEFINE P(t) == t.user = run[r].user =>
             \A o \in run[r].tasks :
               <<o.wallet, o.network>> = <<t.wallet, t.network>> => o.user = t.user
<1>1. \E t \in run[r].tasks : P(t)
  <2>1. CASE \E t \in run[r].tasks : t.user # run[r].user
    BY <2>1
  <2>2. CASE \A t \in run[r].tasks : t.user = run[r].user
    BY <2>2
  <2> QED BY <2>1, <2>2
<1> QED BY <1>1 DEF NextTask

LEMMA PickGoal ==
  ASSUME TypeInv, NEW r \in Runs, PickTask(r)
  PROVE  Goal(r)
<1>1. /\ run[r] \in RunType /\ RunFits(r, run[r]) /\ run[r].at = "next"
      /\ run[r].read = {} /\ run[r].stage # "none"
  BY RunFacts DEF PickTask, At, RunFits, BaseFits, StageFits
<1>2. ~Setup(r) => run[r].user \in Ids
  BY <1>1 DEF RunFits, BaseFits, StageFits
<1>3. CASE run[r].tasks # {}
  <2>1. PICK t : t = NextTask(r)
    OBVIOUS
  <2>2. t \in run[r].tasks /\ t \in TaskType
    BY <1>1, <1>3, <2>1, NextTaskFacts DEF RunType
  <2>3. PICK at : at = FirstCall(r)
    OBVIOUS
  <2>4. at \in {"list", "wallet", "check", "find"}
    BY <2>3 DEF FirstCall
  <2> DEFINE s == [run[r] EXCEPT !.at = at, !.cur = t, !.tasks = @ \ {t}, !.addrs = {},
                                 !.exists = FALSE, !.stored = FALSE]
  <2>5. Now(r, s)
    BY <1>3, <2>1, <2>3 DEF PickTask, Now
  <2>6. s \in RunType /\ s.at = at /\ s.cur = t /\ s.read = run[r].read
    <3>1. run[r] \in RunType /\ at \in Places
      BY <1>1, <2>4 DEF Places
    <3>2. s \in RunType
      BY <2>2, <3>1 DEF RunType
    <3> QED BY <3>1, <3>2 DEF RunType
  <2>7. Keeps(run[r], s)
    BY <1>1 DEF Keeps, RunType
  <2> HIDE DEF s
  <2>8. CurFits(r, s)
    <3>1. /\ run[r].stage = "discover" => Synced(t)
          /\ run[r].stage = "generate" => Wanted(t)
          /\ run[r].stage \in {"assign", "register"} => Given(run[r], t)
      BY <1>1, <2>2 DEF RunFits, BaseFits, TasksFit
    <3>2. run[r].stage \in {"discover", "generate", "assign", "register"}
      BY <1>1 DEF RunType
    <3> QED BY <2>3, <2>4, <2>6, <2>7, <3>1, <3>2 DEF CurFits, Keeps, Given, FirstCall
  <2>9. Good(r, s)
    BY <1>1, <2>4, <2>6, <2>7, <2>8, KeepsGood DEF InLoop, Before, Places
  <2> QED BY <2>5, <2>7, <2>9 DEF Goal, Keeps
<1>4. ASSUME run[r].tasks = {}, NEW at \in {"users", "next", "done"},
             NEW stage \in {"discover", "assign", "register", "generate"},
             NEW tasks \in SUBSET TaskType,
             Setup(r) => stage \in {"discover", "generate"},
             ~Setup(r) => stage # "discover",
             at = "users" => tasks = {} /\ Setup(r),
             stage = "discover" => tasks = {},
             stage = "generate" => \A t \in tasks : Wanted(t),
             stage \in {"assign", "register"} => \A t \in tasks : Given(run[r], t),
             Becomes(r, [run[r] EXCEPT !.at = at, !.stage = stage, !.tasks = tasks,
                                       !.cur = NoTask])
      PROVE  Goal(r)
  <2> DEFINE s == [run[r] EXCEPT !.at = at, !.stage = stage, !.tasks = tasks, !.cur = NoTask]
  <2>0. NoTask \in TaskType
    BY DEF NoTask, Task, TaskType, Addresses
  <2>1. /\ s \in RunType /\ s.at = at /\ s.stage = stage /\ s.tasks = tasks
        /\ s.read = run[r].read /\ s.user = run[r].user /\ s.users = run[r].users
        /\ s.left = run[r].left /\ s.places = run[r].places /\ s.had = run[r].had
        /\ s.slips = run[r].slips
    <3>1. run[r] \in RunType /\ at \in Places
      BY <1>1 DEF Places
    <3>2. s \in RunType
      BY <2>0, <3>1 DEF RunType
    <3> QED BY <3>1, <3>2 DEF RunType
  <2>2. Now(r, s)
    BY <1>4 DEF Now
  <2> HIDE DEF s
  <2>3. TasksFit(r, s)
    BY <1>4, <2>1 DEF TasksFit, Given
  <2>4. StageFits(r, s)
    BY <1>2, <1>4, <2>1 DEF StageFits
  <2>5. CurFits(r, s)
    BY <1>4, <2>1 DEF CurFits
  <2>6. RunFits(r, s)
    BY <1>1, <2>1, <2>3, <2>4, <2>5 DEF RunFits, BaseFits
  <2> QED BY <2>1, <2>2, <2>6 DEF Goal, Good
<1>5. CASE run[r].tasks = {}
  <2> DEFINE Next1(at, stage, tasks) ==
        [run[r] EXCEPT !.at = at, !.stage = stage, !.tasks = tasks, !.cur = NoTask]
  <2>1. CASE run[r].stage = "discover"
    <3>1. Becomes(r, Next1("users", "generate", {}))
      BY <1>5, <2>1 DEF PickTask
    <3>2. Setup(r)
      BY <1>1, <2>1 DEF RunFits, BaseFits, StageFits
    <3> QED BY <1>4, <1>5, <3>1, <3>2
  <2>2. CASE run[r].stage = "assign"
    <3>1. PICK tasks : tasks = AddressTasks(run[r].user, command[r].withdrawals)
      OBVIOUS
    <3>2. ~Setup(r)
      BY <1>1, <2>2 DEF RunFits, BaseFits, StageFits
    <3>3. tasks \in SUBSET TaskType /\ \A t \in tasks : Given(run[r], t)
      BY <1>2, <3>1, <3>2, CommandTypes DEF AddressTasks, Task, TaskType, Given
    <3>4. Becomes(r, Next1("next", "register", tasks))
      BY <1>5, <2>2, <3>1 DEF PickTask
    <3> HIDE DEF Next1
    <3> QED BY <1>4, <1>5, <3>2, <3>3, <3>4 DEF Next1
  <2>3. CASE run[r].stage = "register" /\ command[r].deposits = {}
    <3>1. PICK tasks : tasks = ConfigTasks({run[r].user})
      OBVIOUS
    <3>2. ~Setup(r)
      BY <1>1, <2>3 DEF RunFits, BaseFits, StageFits
    <3>3. tasks \in SUBSET TaskType /\ \A t \in tasks : Wanted(t)
      BY <1>2, <3>1, <3>2, ToolsAssumption DEF ConfigTasks, Task, TaskType, Wanted, Addresses
    <3>4. Becomes(r, Next1("next", "generate", tasks))
      BY <1>5, <2>3, <3>1 DEF PickTask
    <3> QED BY <1>4, <1>5, <3>2, <3>3, <3>4
  <2>4. CASE ~ \/ run[r].stage = "discover" \/ run[r].stage = "assign"
               \/ run[r].stage = "register" /\ command[r].deposits = {}
    <3>1. Becomes(r, Next1("done", run[r].stage, {}))
      BY <1>5, <2>4 DEF PickTask
    <3>2. /\ run[r].stage \in {"register", "generate"}
          /\ Setup(r) => run[r].stage = "generate"
      BY <1>1, <2>4 DEF RunFits, BaseFits, StageFits, RunType
    <3> QED BY <1>4, <1>5, <3>1, <3>2
  <2> QED BY <2>1, <2>2, <2>3, <2>4
<1> QED BY <1>3, <1>5

(* A move of the loops that changes nothing but the place. *)
LEMMA MoveGood ==
  ASSUME TypeInv, NEW r \in Runs, run[r].at \in InLoop, run[r].read = {},
         NEW p \in InLoop \cup {"dead"}, CurFits(r, GoTo(r, p))
  PROVE  Good(r, GoTo(r, p)) /\ GoTo(r, p).slips = run[r].slips
<1> DEFINE s == GoTo(r, p)
<1>1. run[r] \in RunType /\ p \in Places
  BY RunFacts DEF InLoop, Places
<1>2. s \in RunType
  BY <1>1 DEF GoTo, RunType
<1>3. Keeps(run[r], s) /\ s.at = p /\ s.read = run[r].read
  BY <1>1 DEF Keeps, GoTo, RunType
<1>4. CurFits(r, s)
  OBVIOUS
<1> HIDE DEF s
<1>5. Good(r, s)
  BY <1>2, <1>3, <1>4, KeepsGood
<1> USE DEF s
<1> QED BY <1>3, <1>5 DEF Keeps

(* Where a run is and what it has in hand there. *)
LEMMA LoopFacts ==
  ASSUME TypeInv, NEW r \in Runs, run[r].at \in InLoop
  PROVE  /\ run[r] \in RunType /\ CurFits(r, run[r])
         /\ run[r].at # "write" => run[r].read = {}
BY RunFacts DEF RunFits, BaseFits, InLoop

LEMMA PrimeFacts ==
  ASSUME TypeInv, NEW a \in DOMAIN made
  PROVE  /\ a \in Addresses /\ made[a].wallet \in DOMAIN wallets
         /\ made[a].network \in Networks /\ wallets[made[a].wallet] \in Assets
         /\ DepositOf(a) = Stored(wallets[made[a].wallet], made[a].network, a)
<1>1. /\ wallets \in Seq(Assets) /\ made \in Seq(AddressType)
      /\ made[a].wallet \in DOMAIN wallets
  BY DEF TypeInv, PrimeTypes
<1>2. a \in Nat /\ made[a] \in AddressType
  BY <1>1
<1>3. wallets[made[a].wallet] \in Assets
  BY <1>1
<1>4. made[a].network \in Networks
  BY <1>2 DEF AddressType
<1> QED BY <1>1, <1>2, <1>3, <1>4 DEF Addresses, DepositOf

LEMMA AssignGoal ==
  ASSUME TypeInv, NEW r \in Runs, AssignStep(r)
  PROVE  Goal(r)
<1>1. run[r].at \in {"find", "search", "book"}
  BY DEF AssignStep, Find, Search, LookUp, At
<1>2. run[r].at \in InLoop
  BY <1>1 DEF InLoop, Before, Places
<1>3. /\ run[r] \in RunType /\ run[r].read = {} /\ run[r].cur \in TaskType
      /\ run[r].stage \in {"assign", "register"} /\ Given(run[r], run[r].cur)
      /\ run[r].at = "search" => run[r].stage = "assign"
      /\ run[r].at = "book" => run[r].stage = "register"
  BY <1>1, <1>2, LoopFacts DEF CurFits, RunType
<1>4. ASSUME NEW p \in {"next", "dead"}
      PROVE  Good(r, GoTo(r, p)) /\ GoTo(r, p).slips = run[r].slips
  <2>1. GoTo(r, p).at = p
    BY <1>3 DEF GoTo, RunType
  <2>2. p \in InLoop \cup {"dead"} /\ CurFits(r, GoTo(r, p))
    BY <2>1, StopFits DEF InLoop, Before, Places, Stops
  <2> QED BY <1>2, <1>3, <2>2, MoveGood
<1>5. CASE Find(r)
  <2>1. PICK p : p = IF run[r].stage = "assign" THEN "search" ELSE "book"
    OBVIOUS
  <2>2. /\ GoTo(r, p).at = p /\ GoTo(r, p).stage = run[r].stage
        /\ GoTo(r, p).cur = run[r].cur /\ GoTo(r, p).user = run[r].user
    BY <1>3 DEF GoTo, RunType
  <2>3. CurFits(r, GoTo(r, p))
    BY <1>3, <2>1, <2>2 DEF CurFits, Given
  <2>4. p \in InLoop
    BY <2>1 DEF InLoop, Before, Places
  <2>5. Good(r, GoTo(r, p)) /\ GoTo(r, p).slips = run[r].slips
    BY <1>2, <1>3, <2>3, <2>4, MoveGood
  <2>6. Now(r, GoTo(r, "next")) \/ Now(r, GoTo(r, "dead")) \/ Now(r, GoTo(r, p))
    BY <1>5, <2>1 DEF Find, WhenOwned, Now
  <2> QED BY <1>4, <2>5, <2>6 DEF Goal
<1>6. CASE Search(r)
  <2> DEFINE a == run[r].cur.addr
  <2>1. CASE Becomes(r, GoTo(r, "dead"))
    BY <1>4, <2>1 DEF Goal, Now
  <2>2. CASE a \in DOMAIN made
    <3>1. PICK b, network, asset :
            b = a /\ network = made[a].network /\ asset = wallets[made[a].wallet]
      OBVIOUS
    <3>2. /\ b \in Addresses /\ network \in Networks /\ asset \in Assets
          /\ b \in DOMAIN made /\ DepositOf(b) = Stored(asset, network, b)
      BY <2>2, <3>1, PrimeFacts
    <3> DEFINE s == [GoTo(r, "put") EXCEPT !.addrs = {b}, !.cur.network = network,
                                           !.cur.asset = asset]
    <3>3. CASE Becomes(r, s) \/ Slips(r, s)
      <4>1. s \in RunType
        <5>1. /\ run[r] \in RunType /\ "put" \in Places
              /\ network \in Networks \cup {External} /\ asset \in Assets \cup {Generic}
          BY <1>3, <3>2 DEF Places
        <5>2. GoTo(r, "put") \in RunType
          BY <5>1 DEF GoTo, RunType
        <5>3. PICK q \in RunType : q = GoTo(r, "put")
          BY <5>2
        <5>4. PICK t \in RunType : t = [q EXCEPT !.addrs = {b}]
          <6>1. [q EXCEPT !.addrs = {b}] \in RunType
            BY <3>2 DEF RunType
          <6> QED BY <6>1
        <5>5. PICK v \in RunType : v = [t EXCEPT !.cur.network = network]
          <6>1. [t EXCEPT !.cur.network = network] \in RunType
            BY ZenonT(40), <5>1 DEF RunType, TaskType
          <6> QED BY <6>1
        <5>6. [v EXCEPT !.cur.asset = asset] \in RunType
          BY ZenonT(40), <5>1 DEF RunType, TaskType
        <5>7. s = [v EXCEPT !.cur.asset = asset]
          BY <5>3, <5>4, <5>5 DEF RunType, TaskType
        <5> QED BY <5>6, <5>7
      <4>2. /\ s.at = "put" /\ s.addrs = {b} /\ s.cur.addr = run[r].cur.addr
            /\ s.cur.user = run[r].cur.user /\ s.cur.asset = asset /\ s.cur.network = network
            /\ s.read = run[r].read
        BY <1>3 DEF GoTo, RunType, TaskType
      <4>3. Keeps(run[r], s)
        BY <1>3 DEF Keeps, GoTo, RunType
      <4>4. Now(r, s)
        BY <3>3 DEF Now
      <4> HIDE DEF s
      <4>5. CurFits(r, s)
        BY <1>1, <1>3, <1>6, <3>1, <3>2, <4>2, <4>3 DEF CurFits, Keeps, Given, Search, At
      <4>6. Good(r, s)
        BY <1>2, <1>3, <4>1, <4>2, <4>3, <4>5, KeepsGood DEF InLoop, Before, Places
      <4> QED BY <4>3, <4>4, <4>6 DEF Goal, Keeps
    <3> QED BY <1>6, <2>1, <3>1, <3>3 DEF Search
  <2> QED BY <1>6, <2>1, <2>2 DEF Search
<1>7. CASE LookUp(r)
  <2>1. PICK a, p : a = run[r].cur.addr /\ p = (IF backend = "sqlite" THEN "put" ELSE "write")
    OBVIOUS
  <2> DEFINE s == [GoTo(r, p) EXCEPT !.addrs = {a}]
  <2>2. a \in Addresses /\ p \in {"put", "write"}
    BY <1>3, <2>1 DEF TaskType
  <2>3. ASSUME NEW t \in RunType, t.at = p, t.addrs = {a}, t.cur.addr = run[r].cur.addr,
               t.cur.user = run[r].cur.user, t.cur.network = run[r].cur.network,
               t.read = run[r].read, Keeps(run[r], t), Now(r, t)
        PROVE  Goal(r)
    <3>1. CurFits(r, t)
      BY <1>3, <1>7, <2>2, <2>3 DEF CurFits, Keeps, Given, LookUp, At
    <3>2. Good(r, t)
      BY <1>2, <1>3, <2>2, <2>3, <3>1, KeepsGood DEF InLoop, Before, Places
    <3> QED BY <2>3, <3>2 DEF Goal, Keeps
  <2>4. p \in Places /\ GoTo(r, p) \in RunType
    BY <1>3, <2>2 DEF GoTo, RunType, Places
  <2>5. s \in RunType
    BY <2>2, <2>4 DEF RunType
  <2>6. /\ s.at = p /\ s.addrs = {a} /\ s.cur = run[r].cur /\ s.read = run[r].read
        /\ Keeps(run[r], s)
    BY <1>3 DEF GoTo, RunType, Keeps
  <2>7. ASSUME NEW asset \in Assets \cup {Generic}
        PROVE  /\ [s EXCEPT !.cur.asset = asset] \in RunType
               /\ [s EXCEPT !.cur.asset = asset].at = p
               /\ [s EXCEPT !.cur.asset = asset].addrs = {a}
               /\ [s EXCEPT !.cur.asset = asset].cur.addr = run[r].cur.addr
               /\ [s EXCEPT !.cur.asset = asset].cur.user = run[r].cur.user
               /\ [s EXCEPT !.cur.asset = asset].cur.network = run[r].cur.network
               /\ [s EXCEPT !.cur.asset = asset].read = run[r].read
               /\ Keeps(run[r], [s EXCEPT !.cur.asset = asset])
    <3> HIDE DEF s
    <3> QED BY <2>5, <2>6, <2>7 DEF RunType, TaskType, Keeps
  <2>8. \/ Now(r, s)
        \/ \E asset \in Assets \cup {Generic} : Now(r, [s EXCEPT !.cur.asset = asset])
    <3>1. \A b \in DOMAIN Book : Book[b] \in Assets
      BY ToolsAssumption
    <3> QED BY <1>7, <2>1, <3>1 DEF LookUp, Now
  <2>9. CASE Now(r, s)
    <3> HIDE DEF s
    <3> QED BY <2>3, <2>5, <2>6, <2>9
  <2>10. ASSUME NEW asset \in Assets \cup {Generic}, Now(r, [s EXCEPT !.cur.asset = asset])
         PROVE  Goal(r)
    <3> PICK t : t = [s EXCEPT !.cur.asset = asset]
      OBVIOUS
    <3> HIDE DEF s
    <3>1. t \in RunType /\ Now(r, t) /\ Keeps(run[r], t)
      BY <2>7, <2>10
    <3>2. /\ t.at = p /\ t.addrs = {a} /\ t.cur.addr = run[r].cur.addr
          /\ t.cur.user = run[r].cur.user /\ t.cur.network = run[r].cur.network
          /\ t.read = run[r].read
      BY <2>7
    <3> QED BY <2>3, <3>1, <3>2
  <2> QED BY <2>8, <2>9, <2>10
<1> QED BY <1>5, <1>6, <1>7 DEF AssignStep

LEMMA StopGood ==
  ASSUME TypeInv, NEW r \in Runs, run[r].at \in InLoop,
         NEW s \in RunType, Keeps(run[r], s), s.read = {},
         NEW t \in {Failed(s), Served(s), [s EXCEPT !.at = "dead"]}
  PROVE  Good(r, t) /\ t.slips = run[r].slips
<1>1. CASE t = Failed(s)
  <2>1. Failed(s) \in RunType
    BY DEF Failed, RunType, Places
  <2>2. /\ Failed(s).at = "next" /\ Failed(s).read = s.read /\ Keeps(run[r], Failed(s))
    BY DEF Failed, RunType, Keeps
  <2> QED BY <1>1, <2>1, <2>2, StopFits, KeepsGood DEF InLoop, Before, Places, Stops, Keeps
<1>2. CASE t = Served(s)
  <2>1. PICK x : x = [user |-> s.cur.user, asset |-> s.cur.asset, network |-> s.cur.network]
    OBVIOUS
  <2>2. x \in [user : Ids \cup {NoUser}, asset : Assets \cup {Generic},
               network : Networks \cup {External}]
    BY <2>1 DEF RunType, TaskType
  <2>3. Served(s) = [s EXCEPT !.at = "next", !.served = @ \cup {x}]
    BY <2>1 DEF Served
  <2>4. Served(s) \in RunType
    <3>1. PICK served \in SUBSET [user : Ids \cup {NoUser}, asset : Assets \cup {Generic},
                                   network : Networks \cup {External}] :
            served = s.served \cup {x}
      BY <2>2 DEF RunType
    <3>2. [s EXCEPT !.at = "next", !.served = served] \in RunType
      BY ZenonT(40) DEF RunType, Places
    <3> QED BY <2>3, <3>1, <3>2
  <2>5. /\ Served(s).at = "next" /\ Served(s).read = s.read /\ Keeps(run[r], Served(s))
    BY DEF Served, RunType, Keeps
  <2>6. CurFits(r, Served(s)) /\ Served(s).at \in InLoop
    BY <2>5, StopFits DEF InLoop, Before, Places, Stops
  <2> QED BY <1>2, <2>4, <2>5, <2>6, KeepsGood DEF Keeps
<1>3. CASE t = [s EXCEPT !.at = "dead"]
  <2> DEFINE u == [s EXCEPT !.at = "dead"]
  <2>1. u \in RunType
    BY DEF RunType, Places
  <2>2. u.at = "dead" /\ u.read = s.read /\ Keeps(run[r], u)
    BY DEF RunType, Keeps
  <2>3. t = u
    BY <1>3
  <2> HIDE DEF u
  <2>4. CurFits(r, u) /\ u.at \in InLoop \cup {"dead"}
    BY <2>2, StopFits DEF Stops
  <2>5. Good(r, u)
    BY <2>1, <2>2, <2>4, KeepsGood
  <2> QED BY <2>2, <2>3, <2>5 DEF Keeps
<1> QED BY <1>1, <1>2, <1>3

LEMMA UnsyncedGood ==
  ASSUME TypeInv, NEW r \in Runs, run[r].at \in InLoop,
         NEW s \in RunType, Keeps(run[r], s), s.read = {},
         s.stage \in {"discover", "generate"}, Synced(s.cur)
  PROVE  Good(r, Unsynced(r, s)) /\ Unsynced(r, s).slips = run[r].slips
<1>1. CASE Unsynced(r, s) \in {Failed(s), Served(s)}
  BY <1>1, StopGood
<1>2. ASSUME NEW p \in {"check", "mint"}, p = "check" => Setup(r), s.stage = "generate",
             Unsynced(r, s) = [s EXCEPT !.at = p]
      PROVE  Good(r, Unsynced(r, s)) /\ Unsynced(r, s).slips = run[r].slips
  <2> DEFINE t == [s EXCEPT !.at = p]
  <2>1. p \in Places /\ p \in InLoop
    BY DEF Places, InLoop, Before
  <2>2. t \in RunType
    BY <2>1 DEF RunType
  <2>3. /\ t.at = p /\ t.read = s.read /\ t.stage = s.stage /\ t.cur = s.cur
        /\ Keeps(run[r], t)
    BY DEF RunType, Keeps
  <2> HIDE DEF t
  <2>4. Wanted(s.cur)
    BY DEF Synced, Wanted, TypeInv, PrimeTypes
  <2>5. CurFits(r, t)
    BY <1>2, <2>3, <2>4 DEF CurFits
  <2>6. Good(r, t)
    BY <2>1, <2>2, <2>3, <2>5, KeepsGood
  <2>7. t = Unsynced(r, s)
    BY <1>2 DEF t
  <2> QED BY <2>3, <2>6, <2>7 DEF Keeps
<1> QED BY <1>1, <1>2 DEF Unsynced

LEMMA KeptFacts ==
  ASSUME TypeInv, NEW r \in Runs
  PROVE  Keeps(run[r], run[r])
BY DEF Keeps

LEMMA WalletGoal ==
  ASSUME TypeInv, NEW r \in Runs, UseWallet(r) \/ CreateWalletFails(r)
  PROVE  Goal(r)
<1>1. run[r].at \in {"wallet", "newWallet"} /\ run[r].at \in InLoop
  BY DEF UseWallet, CreateWalletFails, At, InLoop, Before, Places
<1>2. run[r] \in RunType /\ run[r].read = {} /\ run[r].stage = "generate" /\ Wanted(run[r].cur)
  BY <1>1, LoopFacts DEF CurFits
<1>3. CASE Now(r, Failed(run[r]))
  BY <1>1, <1>2, <1>3, KeptFacts, StopGood DEF Goal
<1>4. ASSUME NEW w \in WalletsOf(run[r].cur.asset),
             Becomes(r, [GoTo(r, "list") EXCEPT !.cur.wallet = w])
      PROVE  Goal(r)
  <2> DEFINE s == [GoTo(r, "list") EXCEPT !.cur.wallet = w]
  <2>1. w \in DOMAIN wallets /\ wallets[w] = run[r].cur.asset /\ w \in Nat
    BY DEF WalletsOf, TypeInv, PrimeTypes
  <2>2. PICK q \in RunType : q = GoTo(r, "list")
    <3>1. GoTo(r, "list") \in RunType
      BY <1>2 DEF GoTo, RunType, Places
    <3> QED BY <3>1
  <2>3. [q EXCEPT !.cur.wallet = w] \in RunType
    BY <2>1 DEF RunType, TaskType
  <2>4. s \in RunType
    BY <2>2, <2>3
  <2>5. /\ s.at = "list" /\ s.stage = run[r].stage /\ s.cur.wallet = w
        /\ s.cur.asset = run[r].cur.asset /\ s.cur.network = run[r].cur.network
        /\ s.cur.user = run[r].cur.user /\ s.read = run[r].read /\ Keeps(run[r], s)
    BY <1>2 DEF GoTo, RunType, TaskType, Keeps
  <2>6. Now(r, s)
    BY <1>4 DEF Now
  <2> HIDE DEF s
  <2>7. CurFits(r, s)
    BY <1>2, <2>1, <2>5 DEF CurFits, Synced, Wanted
  <2>8. Good(r, s)
    BY <1>1, <1>2, <2>4, <2>5, <2>7, KeepsGood DEF InLoop, Before, Places
  <2> QED BY <2>5, <2>6, <2>8 DEF Goal, Keeps
<1>5. CASE Becomes(r, GoTo(r, "newWallet"))
  <2>1. /\ GoTo(r, "newWallet").at = "newWallet" /\ GoTo(r, "newWallet").stage = run[r].stage
        /\ GoTo(r, "newWallet").cur = run[r].cur
    BY <1>2 DEF GoTo, RunType
  <2>2. CurFits(r, GoTo(r, "newWallet"))
    BY <1>2, <2>1 DEF CurFits
  <2>3. "newWallet" \in InLoop
    BY DEF InLoop, Before, Places
  <2> QED BY <1>1, <1>2, <1>5, <2>2, <2>3, MoveGood DEF Goal, Now
<1> QED BY <1>3, <1>4, <1>5 DEF UseWallet, CreateWalletFails, Now

LEMMA ListGoal ==
  ASSUME TypeInv, NEW r \in Runs, ListAddresses(r)
  PROVE  Goal(r)
<1>1. run[r].at = "list" /\ run[r].at \in InLoop
  BY DEF ListAddresses, At, InLoop, Before, Places
<1>2. /\ run[r] \in RunType /\ run[r].read = {} /\ Synced(run[r].cur)
      /\ run[r].stage \in {"discover", "generate"}
  BY <1>1, LoopFacts DEF CurFits
<1>3. CASE Now(r, Unsynced(r, run[r]))
  BY <1>1, <1>2, <1>3, KeptFacts, UnsyncedGood DEF Goal
<1>4. ASSUME NEW page \in Pages(run[r].cur.wallet, run[r].cur.network),
             NEW addrs, addrs = ToStore(run[r], page), addrs # {},
             Becomes(r, [run[r] EXCEPT !.addrs = addrs, !.at = "put"])
      PROVE  Goal(r)
  <2> DEFINE s == [run[r] EXCEPT !.addrs = addrs, !.at = "put"]
  <2>1. addrs \subseteq On(run[r].cur.wallet, run[r].cur.network)
    BY <1>4 DEF Pages, ToStore
  <2>2. ASSUME NEW a \in addrs
        PROVE  /\ a \in DOMAIN made /\ a \in Addresses
               /\ Stored(run[r].cur.asset, run[r].cur.network, a) = DepositOf(a)
    BY <1>2, <2>1, PrimeFacts DEF On, Synced
  <2>3. s \in RunType
    <3>1. addrs \in SUBSET Addresses /\ "put" \in Places
      BY <2>2 DEF Places
    <3> QED BY <1>2, <3>1 DEF RunType
  <2>4. /\ s.at = "put" /\ s.addrs = addrs /\ s.cur = run[r].cur /\ s.stage = run[r].stage
        /\ s.read = run[r].read /\ Keeps(run[r], s)
    BY <1>2 DEF RunType, Keeps
  <2>5. Now(r, s)
    BY <1>4 DEF Now
  <2> HIDE DEF s
  <2>6. CurFits(r, s)
    BY <1>2, <1>4, <2>2, <2>4 DEF CurFits, Synced
  <2>7. Good(r, s)
    BY <1>1, <1>2, <2>3, <2>4, <2>6, KeepsGood DEF InLoop, Before, Places
  <2> QED BY <2>4, <2>5, <2>7 DEF Goal, Keeps
<1> QED BY <1>3, <1>4 DEF ListAddresses, Now

LEMMA CheckGoal ==
  ASSUME TypeInv, NEW r \in Runs, Check(r) \/ MintFails(r)
  PROVE  Goal(r)
<1>1. run[r].at \in {"check", "mint"} /\ run[r].at \in InLoop
  BY DEF Check, MintFails, At, InLoop, Before, Places
<1>2. /\ run[r] \in RunType /\ run[r].read = {} /\ run[r].stage = "generate"
      /\ run[r].at = "check" => Wanted(run[r].cur)
      /\ run[r].at = "check" /\ Setup(r) => Synced(run[r].cur)
  BY <1>1, LoopFacts DEF CurFits
<1>3. CASE Now(r, Failed(run[r])) \/ Now(r, Served(run[r]))
  BY <1>1, <1>2, <1>3, KeptFacts, StopGood DEF Goal
<1>4. CASE Check(r) /\ Setup(r) /\ Becomes(r, GoTo(r, "mint"))
  <2>1. /\ GoTo(r, "mint").at = "mint" /\ GoTo(r, "mint").stage = run[r].stage
        /\ GoTo(r, "mint").cur = run[r].cur
    BY <1>2 DEF GoTo, RunType
  <2>2. CurFits(r, GoTo(r, "mint"))
    BY <1>2, <1>4, <2>1 DEF CurFits, Check, At
  <2>3. "mint" \in InLoop
    BY DEF InLoop, Before, Places
  <2> QED BY <1>1, <1>2, <1>4, <2>2, <2>3, MoveGood DEF Goal, Now
<1>5. ASSUME Check(r), ~Setup(r), NEW exists \in BOOLEAN,
             Becomes(r, [GoTo(r, "wallet") EXCEPT !.exists = exists])
      PROVE  Goal(r)
  <2> DEFINE s == [GoTo(r, "wallet") EXCEPT !.exists = exists]
  <2>1. s \in RunType
    <3>1. PICK q \in RunType : q = GoTo(r, "wallet")
      <4>1. GoTo(r, "wallet") \in RunType
        BY <1>2 DEF GoTo, RunType, Places
      <4> QED BY <4>1
    <3>2. [q EXCEPT !.exists = exists] \in RunType
      BY DEF RunType
    <3> QED BY <3>1, <3>2
  <2>2. /\ s.at = "wallet" /\ s.cur = run[r].cur /\ s.stage = run[r].stage
        /\ s.read = run[r].read /\ Keeps(run[r], s)
    BY <1>2 DEF GoTo, RunType, Keeps
  <2>3. Now(r, s)
    BY <1>5 DEF Now
  <2> HIDE DEF s
  <2>4. CurFits(r, s)
    BY <1>2, <1>5, <2>2 DEF CurFits, Check, At
  <2>5. Good(r, s)
    BY <1>1, <1>2, <2>1, <2>2, <2>4, KeepsGood DEF InLoop, Before, Places
  <2> QED BY <2>2, <2>3, <2>5 DEF Goal, Keeps
<1> QED BY <1>3, <1>4, <1>5 DEF Check, MintFails, Now

(* What is kept of a run after one address was stored, or not. *)
LEMMA AfterGood ==
  ASSUME TypeInv, NEW r \in Runs, run[r].at \in {"put", "write"}, NEW ok \in BOOLEAN
  PROVE  Good(r, AfterPut(r, ok)) /\ AfterPut(r, ok).slips = run[r].slips
<1> DEFINE a == Current(r)
           s == [run[r] EXCEPT !.at = "put", !.addrs = @ \ {Current(r)}, !.read = {},
                   !.stored = @ \/ ok,
                   !.gave = IF ok /\ run[r].stage = "assign" THEN @ \cup {Current(r)} ELSE @]
<1>1. run[r].at \in InLoop /\ run[r] \in RunType /\ CurFits(r, run[r])
  BY LoopFacts DEF InLoop, Before, Places
<1>2. /\ run[r].addrs # {} /\ run[r].addrs \subseteq Addresses /\ run[r].cur.user \in Ids
      /\ run[r].stage = "register" => run[r].cur.network = External
      /\ run[r].stage # "register" =>
           \A x \in run[r].addrs :
             x \in DOMAIN made
             /\ Stored(run[r].cur.asset, run[r].cur.network, x) = DepositOf(x)
      /\ run[r].stage \in {"discover", "generate"} => Synced(run[r].cur)
      /\ run[r].stage = "assign" => run[r].addrs = {run[r].cur.addr}
  BY <1>1 DEF CurFits, RunType
<1>3. a \in run[r].addrs
  BY <1>2 DEF Current
<1>4. s \in RunType
  <2>1. PICK b \in Addresses : b = a
    BY <1>2, <1>3
  <2>2. PICK gave \in SUBSET Addresses :
          gave = IF ok /\ run[r].stage = "assign" THEN run[r].gave \cup {b} ELSE run[r].gave
    BY <1>1 DEF RunType
  <2>3. PICK addrs \in SUBSET Addresses, stored \in BOOLEAN :
          addrs = run[r].addrs \ {b} /\ stored = (run[r].stored \/ ok)
    BY <1>1 DEF RunType
  <2>4. [run[r] EXCEPT !.at = "put", !.addrs = addrs, !.read = {}, !.stored = stored,
                       !.gave = gave] \in RunType
    <3>1. run[r] \in RunType /\ "put" \in Places
      BY <1>1 DEF Places
    <3> QED BY <3>1 DEF RunType
  <2>5. s = [run[r] EXCEPT !.at = "put", !.addrs = addrs, !.read = {}, !.stored = stored,
                           !.gave = gave]
    BY <1>1, <2>1, <2>2, <2>3 DEF RunType
  <2> QED BY <2>4, <2>5
<1>5. /\ s.at = "put" /\ s.addrs = run[r].addrs \ {a} /\ s.read = {} /\ s.cur = run[r].cur
      /\ s.stage = run[r].stage /\ Keeps(run[r], s)
  BY <1>1 DEF RunType, Keeps
<1>6. AfterPut(r, ok) =
        IF s.addrs # {} THEN s
        ELSE IF s.stage \in {"discover", "register"} THEN Failed(s)
        ELSE IF s.stage = "assign" THEN IF ok THEN Failed(s) ELSE [s EXCEPT !.at = "dead"]
        ELSE IF s.cur.addr # 0 THEN IF ok THEN Served(s) ELSE Failed(s)
        ELSE IF Setup(r) \/ s.stored THEN Served(s)
        ELSE Unsynced(r, s)
  BY DEF AfterPut
<1>7. run[r].stage \in {"discover", "register", "assign", "generate"}
  BY <1>1, RunFacts DEF RunFits, BaseFits, StageFits, RunType, InLoop
<1> HIDE DEF s, a
<1>8. CASE AfterPut(r, ok) = s /\ s.addrs # {}
  <2>1. CurFits(r, s)
    BY <1>2, <1>3, <1>5, <1>8 DEF CurFits
  <2> QED BY <1>1, <1>4, <1>5, <1>8, <2>1, KeepsGood DEF InLoop, Before, Places, Keeps
<1>9. CASE AfterPut(r, ok) \in {Failed(s), Served(s), [s EXCEPT !.at = "dead"]}
  BY <1>1, <1>4, <1>5, <1>9, StopGood
<1>10. CASE AfterPut(r, ok) = Unsynced(r, s) /\ s.stage = "generate"
  BY <1>1, <1>2, <1>4, <1>5, <1>10, UnsyncedGood
<1> QED BY <1>5, <1>6, <1>7, <1>8, <1>9, <1>10

LEMMA PutGoal ==
  ASSUME TypeInv, NEW r \in Runs, PutStep(r)
  PROVE  Goal(r)
<1>1. run[r].at \in {"put", "write"}
  BY DEF PutStep, PutRow, ReadMap, WriteMap, PutFails, At
<1>2. CASE \E ok \in BOOLEAN : Now(r, AfterPut(r, ok))
  BY <1>1, <1>2, AfterGood DEF Goal
<1>3. CASE ReadMap(r)
  <2>1. /\ run[r].at = "put" /\ run[r].at \in InLoop /\ run[r] \in RunType
        /\ CurFits(r, run[r])
    BY <1>3, LoopFacts DEF ReadMap, At, InLoop, Before, Places
  <2>2. run[r].cur.user \in Ids
    BY <2>1 DEF CurFits
  <2>3. ASSUME NEW read \in SUBSET EntryType, Now(r, [GoTo(r, "write") EXCEPT !.read = read])
        PROVE  Goal(r)
    <3> DEFINE s == [GoTo(r, "write") EXCEPT !.read = read]
    <3>1. PICK q \in RunType : q = GoTo(r, "write")
      <4>1. GoTo(r, "write") \in RunType
        BY <2>1 DEF GoTo, RunType, Places
      <4> QED BY <4>1
    <3>2. [q EXCEPT !.read = read] \in RunType
      BY DEF RunType
    <3>3. s \in RunType
      BY <3>1, <3>2
    <3>4. /\ s.at = "write" /\ s.cur = run[r].cur /\ s.addrs = run[r].addrs
          /\ s.stage = run[r].stage /\ Keeps(run[r], s)
      BY <2>1 DEF GoTo, RunType, Keeps
    <3>5. Now(r, s)
      BY <2>3
    <3> HIDE DEF s
    <3>6. CurFits(r, s)
      BY <2>1, <3>4 DEF CurFits
    <3>7. Good(r, s)
      BY <2>1, <3>3, <3>4, <3>6, KeepsGood DEF InLoop, Before, Places
    <3> QED BY <3>4, <3>5, <3>7 DEF Goal, Keeps
  <2>4. CASE Becomes(r, [GoTo(r, "write") EXCEPT !.read = listed[run[r].cur.user]])
    <3>1. listed[run[r].cur.user] \in SUBSET EntryType
      BY <2>2 DEF TypeInv
    <3> QED BY <2>3, <2>4, <3>1 DEF Now
  <2>5. CASE Slips(r, GoTo(r, "write"))
    <3>1. "write" \in InLoop
      BY DEF InLoop, Before, Places
    <3>2. /\ GoTo(r, "write").at = "write" /\ GoTo(r, "write").cur = run[r].cur
          /\ GoTo(r, "write").addrs = run[r].addrs /\ GoTo(r, "write").stage = run[r].stage
      BY <2>1 DEF GoTo, RunType
    <3>3. CurFits(r, GoTo(r, "write"))
      BY <2>1, <3>2 DEF CurFits
    <3>4. run[r].read = {}
      BY <2>1, LoopFacts
    <3> QED BY <2>1, <2>5, <3>1, <3>3, <3>4, MoveGood DEF Goal, Now
  <2> QED BY <1>3, <2>4, <2>5 DEF ReadMap
<1> QED BY <1>2, <1>3 DEF PutStep, PutRow, WriteMap, PutFails, Now

(* The entry that is stored next. *)
LEMMA EntryFacts ==
  ASSUME TypeInv, NEW r \in Runs, run[r].at \in {"put", "write"}
  PROVE  /\ run[r].cur.user \in Ids /\ Current(r) \in run[r].addrs /\ Entry(r) \in EntryType
         /\ run[r].read \subseteq EntryType /\ Entry(r).addr = Current(r)
         /\ run[r].stage = "register" => IsWithdrawal(Entry(r))
         /\ run[r].stage # "register" =>
              Current(r) \in DOMAIN made /\ Entry(r) = DepositOf(Current(r))
<1>1. run[r] \in RunType /\ CurFits(r, run[r])
  BY LoopFacts DEF InLoop, Before, Places
<1>2. /\ run[r].addrs # {} /\ run[r].addrs \subseteq Addresses /\ run[r].cur.user \in Ids
      /\ run[r].cur.asset \in Assets \cup {Generic}
      /\ run[r].cur.network \in Networks \cup {External} /\ run[r].read \subseteq EntryType
      /\ run[r].stage = "register" => run[r].cur.network = External
      /\ run[r].stage # "register" =>
           \A x \in run[r].addrs :
             x \in DOMAIN made
             /\ Stored(run[r].cur.asset, run[r].cur.network, x) = DepositOf(x)
  BY <1>1 DEF CurFits, RunType, TaskType
<1>3. Current(r) \in run[r].addrs
  BY <1>2 DEF Current
<1>4. Entry(r) = Stored(run[r].cur.asset, run[r].cur.network, Current(r))
  BY DEF Entry
<1>5. Entry(r) \in EntryType /\ Entry(r).addr = Current(r) /\ Entry(r).network = run[r].cur.network
  BY <1>2, <1>3, <1>4 DEF EntryType, Stored
<1> QED BY <1>2, <1>3, <1>4, <1>5 DEF IsWithdrawal

LEMMA PutTypes ==
  ASSUME TypeInv, NEW r \in Runs, PutStep(r)
  PROVE  /\ listed' \in [Ids -> SUBSET EntryType] /\ keyed' \in [Ids -> SUBSET EntryType]
         /\ email' = email /\ prime' = prime /\ Unwritten
<1>1. run[r].at \in {"put", "write"}
  BY DEF PutStep, PutRow, ReadMap, WriteMap, PutFails, At
<1>2. /\ run[r].cur.user \in Ids /\ Entry(r) \in EntryType /\ run[r].read \subseteq EntryType
  BY <1>1, EntryFacts
<1>3. listed \in [Ids -> SUBSET EntryType] /\ keyed \in [Ids -> SUBSET EntryType]
  BY DEF TypeInv
<1>4. CASE PutRow(r)
  BY <1>2, <1>3, <1>4 DEF PutRow, InsertAddress, Unwritten
<1>5. CASE WriteMap(r)
  <2>1. /\ keyed' = [keyed EXCEPT ![run[r].cur.user] = WithKey(@, Entry(r))]
        /\ listed' = IF IsWithdrawal(Entry(r)) THEN listed
                      ELSE [listed EXCEPT ![run[r].cur.user] = run[r].read \cup {Entry(r)}]
    BY <1>5 DEF WriteMap, WriteMetadata
  <2>2. WithKey(keyed[run[r].cur.user], Entry(r)) \subseteq EntryType
    BY <1>2, <1>3 DEF WithKey
  <2>3. keyed' \in [Ids -> SUBSET EntryType]
    BY <1>2, <1>3, <2>1, <2>2
  <2>4. listed' \in [Ids -> SUBSET EntryType]
    BY <1>2, <1>3, <2>1
  <2> QED BY <1>5, <2>3, <2>4 DEF WriteMap, Unwritten
<1>6. CASE ReadMap(r) \/ PutFails(r)
  BY <1>3, <1>6 DEF ReadMap, PutFails, OnlyReads, directory, Unwritten
<1> QED BY <1>4, <1>5, <1>6 DEF PutStep

(* The steps that make something at Prime. *)
LEMMA CreateWalletType ==
  ASSUME TypeInv, NEW r \in Runs, CreateWallet(r)
  PROVE  TypeInv' /\ Grows
<1>1. run[r].at = "newWallet" /\ run[r].at \in InLoop
  BY DEF CreateWallet, At, InLoop, Before, Places
<1>2. run[r] \in RunType /\ run[r].read = {} /\ run[r].stage = "generate" /\ Wanted(run[r].cur)
  BY <1>1, LoopFacts DEF CurFits
<1>3. wallets \in Seq(Assets) /\ run[r].cur.asset \in Assets /\ made \in Seq(AddressType)
  BY <1>2 DEF Wanted, TypeInv, PrimeTypes
<1>4. wallets' = Append(wallets, run[r].cur.asset) /\ made' = made
  BY DEF CreateWallet
<1>5. PICK w \in Nat : w = Len(wallets) + 1
  BY <1>3
<1>6. /\ wallets' \in Seq(Assets) /\ w \in DOMAIN wallets' /\ wallets'[w] = run[r].cur.asset
      /\ \A v \in DOMAIN wallets : v \in DOMAIN wallets' /\ wallets'[v] = wallets[v]
  BY <1>3, <1>4, <1>5
<1>7. Grows
  BY <1>3, <1>4, <1>6 DEF Grows
<1>8. PrimeTypes'
  BY <1>4, <1>6 DEF PrimeTypes, TypeInv
<1>9. Unwritten /\ email' = email /\ listed' = listed /\ keyed' = keyed
  BY DEF CreateWallet, directory, Unwritten
<1>10. ASSUME NEW s, Good(r, s)', s.slips = run[r].slips, Now(r, s)
       PROVE  TypeInv'
  BY <1>7, <1>8, <1>9, <1>10, Goes DEF TypeInv
<1>11. CASE Now(r, Failed(run[r]))
  <2>1. PICK s : s = Failed(run[r])
    OBVIOUS
  <2>2. Good(r, s) /\ s.slips = run[r].slips
    BY <1>1, <1>2, <2>1, KeptFacts, StopGood
  <2>3. Good(r, s)'
    BY <1>7, <1>8, <1>9, <2>2, GoodStays DEF Good, Unwritten
  <2> QED BY <1>7, <1>10, <1>11, <2>1, <2>2, <2>3
<1>12. CASE Becomes(r, [GoTo(r, "list") EXCEPT !.cur.wallet = w])
  <2>1. PICK q \in RunType : q = GoTo(r, "list")
    <3>1. GoTo(r, "list") \in RunType
      BY <1>2 DEF GoTo, RunType, Places
    <3> QED BY <3>1
  <2>2. PICK cur \in TaskType : cur = [run[r].cur EXCEPT !.wallet = w]
    <3>1. run[r].cur \in TaskType
      BY <1>2 DEF RunType
    <3>2. [run[r].cur EXCEPT !.wallet = w] \in TaskType
      BY <3>1 DEF TaskType
    <3> QED BY <3>2
  <2>3. PICK s : s = [q EXCEPT !.cur = cur]
    OBVIOUS
  <2>4. s \in RunType
    <3>1. [q EXCEPT !.cur = cur] \in RunType
      BY DEF RunType
    <3> QED BY <2>3, <3>1
  <2>5. /\ s.at = "list" /\ s.stage = run[r].stage /\ s.cur = cur
        /\ s.read = run[r].read /\ Keeps(run[r], s)
    BY <1>2, <2>1, <2>3 DEF GoTo, RunType, Keeps
  <2>6. /\ cur.wallet = w /\ cur.asset = run[r].cur.asset /\ cur.network = run[r].cur.network
        /\ cur.user = run[r].cur.user
    BY <1>2, <2>2 DEF RunType, TaskType
  <2>7. Now(r, s)
    <3>1. s = [GoTo(r, "list") EXCEPT !.cur.wallet = w]
      BY <2>1, <2>2, <2>3 DEF GoTo, RunType, TaskType
    <3> QED BY <1>12, <3>1 DEF Now
  <2>8. CurFits(r, s)'
    BY <1>2, <1>6, <2>5, <2>6 DEF CurFits, Wanted, Synced
  <2>9. BaseFits(r, s) /\ s.at # "idle"
    BY <1>1, <1>2, <2>4, <2>5, KeepsBase DEF InLoop, Before, Places
  <2>10. BaseFits(r, s)'
    BY <1>7, <1>8, <1>9, <2>4, <2>9, BaseStays DEF Unwritten
  <2>11. Good(r, s)'
    BY <2>4, <2>8, <2>9, <2>10 DEF Good, RunFits
  <2> QED BY <1>7, <1>10, <2>5, <2>7, <2>11 DEF Keeps
<1> QED BY <1>5, <1>7, <1>11, <1>12 DEF CreateWallet, Now

LEMMA MintType ==
  ASSUME TypeInv, NEW r \in Runs, Mint(r)
  PROVE  TypeInv' /\ Grows
<1>1. run[r].at = "mint" /\ run[r].at \in InLoop
  BY DEF Mint, At, InLoop, Before, Places
<1>2. run[r] \in RunType /\ run[r].read = {} /\ run[r].stage = "generate" /\ Synced(run[r].cur)
  BY <1>1, LoopFacts DEF CurFits
<1>3. PICK x : x = [wallet |-> run[r].cur.wallet, network |-> run[r].cur.network,
                    by |-> r, slips |-> run[r].slips]
  OBVIOUS
<1>4. /\ wallets \in Seq(Assets) /\ made \in Seq(AddressType)
      /\ \A a \in DOMAIN made : made[a].wallet \in DOMAIN wallets
  BY DEF TypeInv, PrimeTypes
<1>5. x \in AddressType
  BY <1>2, <1>3 DEF Synced, AddressType, RunType, TaskType
<1>6. made' = Append(made, x) /\ wallets' = wallets
  BY <1>3 DEF Mint
<1>7. PICK a \in Nat : a = Len(made) + 1
  BY <1>4
<1>8. /\ made' \in Seq(AddressType) /\ a \in DOMAIN made' /\ made'[a] = x
      /\ \A b \in DOMAIN made : b \in DOMAIN made' /\ made'[b] = made[b]
      /\ \A b \in DOMAIN made' : b = a \/ b \in DOMAIN made
      /\ Len(made) <= Len(made')
  BY <1>4, <1>5, <1>6, <1>7
<1>9. Grows
  BY <1>6, <1>8 DEF Grows
<1>10. PrimeTypes'
  <2>1. x.wallet \in DOMAIN wallets
    BY <1>2, <1>3 DEF Synced
  <2> QED BY <1>4, <1>6, <1>8, <2>1 DEF PrimeTypes
<1>11. Unwritten /\ email' = email /\ listed' = listed /\ keyed' = keyed
  BY DEF Mint, directory, Unwritten
<1>12. ASSUME NEW s, Good(r, s)', s.slips = run[r].slips, Now(r, s)
       PROVE  TypeInv'
  BY <1>9, <1>10, <1>11, <1>12, Goes DEF TypeInv
<1>13. CASE Now(r, Failed(run[r]))
  <2>1. PICK s : s = Failed(run[r])
    OBVIOUS
  <2>2. Good(r, s) /\ s.slips = run[r].slips
    BY <1>1, <1>2, <2>1, KeptFacts, StopGood
  <2>3. Good(r, s)'
    BY <1>9, <1>10, <1>11, <2>2, GoodStays DEF Good, Unwritten
  <2> QED BY <1>9, <1>12, <1>13, <2>1, <2>2, <2>3
<1>14. CASE Becomes(r, [GoTo(r, "put") EXCEPT !.addrs = {a}, !.cur.addr = a])
  <2>1. PICK q \in RunType : q = GoTo(r, "put")
    <3>1. GoTo(r, "put") \in RunType
      BY <1>2 DEF GoTo, RunType, Places
    <3> QED BY <3>1
  <2>2. PICK cur \in TaskType : cur = [run[r].cur EXCEPT !.addr = a]
    <3>1. run[r].cur \in TaskType
      BY <1>2 DEF RunType
    <3>2. [run[r].cur EXCEPT !.addr = a] \in TaskType
      BY <3>1 DEF TaskType, Addresses
    <3> QED BY <3>2
  <2>3. PICK s : s = [q EXCEPT !.addrs = {a}, !.cur = cur]
    OBVIOUS
  <2>4. s \in RunType
    <3>1. {a} \in SUBSET Addresses
      BY DEF Addresses
    <3>2. [q EXCEPT !.addrs = {a}, !.cur = cur] \in RunType
      BY <3>1 DEF RunType
    <3> QED BY <2>3, <3>2
  <2>5. /\ s.at = "put" /\ s.stage = run[r].stage /\ s.cur = cur /\ s.addrs = {a}
        /\ s.read = run[r].read /\ Keeps(run[r], s)
    BY <1>2, <2>1, <2>3 DEF GoTo, RunType, Keeps
  <2>6. /\ cur.wallet = run[r].cur.wallet /\ cur.asset = run[r].cur.asset
        /\ cur.network = run[r].cur.network /\ cur.user = run[r].cur.user
    BY <1>2, <2>2 DEF RunType, TaskType
  <2>7. Now(r, s)
    <3>1. s = [GoTo(r, "put") EXCEPT !.addrs = {a}, !.cur.addr = a]
      BY <2>1, <2>2, <2>3 DEF GoTo, RunType, TaskType
    <3> QED BY <1>14, <3>1 DEF Now
  <2>8. Synced(cur) /\ Synced(cur)'
    BY <1>2, <1>6, <2>6 DEF Synced
  <2>9. Stored(cur.asset, cur.network, a) = DepositOf(a)'
    BY <1>3, <1>6, <1>8, <2>6, <2>8 DEF DepositOf, Synced
  <2>10. CurFits(r, s)'
    BY <1>2, <1>8, <2>5, <2>8, <2>9 DEF CurFits, Synced
  <2>11. BaseFits(r, s) /\ s.at # "idle"
    BY <1>1, <1>2, <2>4, <2>5, KeepsBase DEF InLoop, Before, Places
  <2>12. BaseFits(r, s)'
    BY <1>9, <1>10, <1>11, <2>4, <2>11, BaseStays DEF Unwritten
  <2>13. Good(r, s)'
    BY <2>4, <2>10, <2>11, <2>12 DEF Good, RunFits
  <2> QED BY <1>9, <1>12, <2>5, <2>7, <2>13 DEF Keeps
<1> QED BY <1>7, <1>9, <1>13, <1>14 DEF Mint, Now

LEMMA BeginGoal ==
  ASSUME TypeInv, NEW r \in Runs, Begin(r)
  PROVE  Goal(r)
<1>1. run[r] = Idle /\ run[r] \in RunType
  BY RunFacts DEF Begin, At, RunFits, BaseFits
<1>2. PICK at, stage, before :
        /\ at = (IF Setup(r) THEN "discover" ELSE "identify") /\ stage = FirstStage(r)
        /\ before = Ended
  OBVIOUS
<1>3. /\ stage \in {"discover", "assign"} /\ (Setup(r) <=> stage = "discover")
      /\ before \subseteq Runs
  BY <1>2, CommandTypes DEF Ended
<1> DEFINE s == [Idle EXCEPT !.at = at, !.stage = stage, !.before = before]
<1>4. Now(r, s)
  BY <1>2 DEF Begin, Now
<1>5. s \in RunType
  <2>1. PICK q \in RunType : q = Idle
    BY <1>1
  <2>2. at \in Places
    BY <1>2 DEF Places
  <2>3. [q EXCEPT !.at = at, !.stage = stage, !.before = before] \in RunType
    BY <1>3, <2>2 DEF RunType
  <2> QED BY <2>1, <2>3
<1>6. /\ s.at = at /\ s.stage = stage /\ s.tasks = {} /\ s.left = {} /\ s.places = {}
      /\ s.had = 0 /\ s.read = {} /\ s.slips = 0 /\ run[r].slips = 0
  BY <1>1 DEF Idle
<1> HIDE DEF s
<1>7. TasksFit(r, s) /\ CurFits(r, s)
  BY <1>2, <1>6 DEF TasksFit, CurFits
<1>8. StageFits(r, s)
  BY <1>2, <1>3, <1>6 DEF StageFits
<1>9. s.had <= Len(made)
  BY <1>6 DEF TypeInv, PrimeTypes
<1>10. Good(r, s)
  BY <1>2, <1>5, <1>6, <1>7, <1>8, <1>9 DEF Good, RunFits, BaseFits
<1> QED BY <1>4, <1>6, <1>10 DEF Goal

LEMMA UserTypes ==
  ASSUME TypeInv, NEW r \in Runs, UserStep(r)
  PROVE  /\ email' \in [Ids -> Emails \cup {NoEmail}]
         /\ listed' = listed /\ keyed' = keyed /\ prime' = prime /\ Unwritten
<1>1. PICK s \in Starts : backend = s.backend /\ command = s.command
  BY DEF TypeInv
<1>2. command[r].email \in Emails
  <2>1. command[r] \in CommandType
    BY <1>1, ToolsAssumption
  <2> QED BY <2>1 DEF CommandType
<1>3. email \in [Ids -> Emails \cup {NoEmail}]
  BY DEF TypeInv
<1> QED BY <1>2, <1>3
        DEF UserStep, Identify, InsertUser, CheckEmail, WriteUser, CreateUserFails, AddUser,
            OnlyReads, directory, Unwritten

LEMMA TypeStep ==
  ASSUME TypeInv, NEW r \in Runs, Step(r)
  PROVE  TypeInv' /\ Grows
<1>1. ASSUME Goal(r), OnlyReads PROVE TypeInv' /\ Grows
  BY <1>1, GoalGoes DEF OnlyReads, directory, Unwritten, TypeInv
<1>2. CASE Begin(r) \/ PickTask(r)
  BY <1>1, <1>2, BeginGoal, PickGoal DEF Begin, PickTask
<1>3. CASE Discovery(r)
  BY <1>1, <1>3, DiscoverGoal, ReadUsersGoal, ReadAssignedGoal, UserGoal
  DEF Discovery, Discover, ReadUsers, ReadAssigned, AllAssigned
<1>4. CASE UserStep(r)
  BY <1>4, UserGoal, UserTypes, GoalGoes DEF TypeInv
<1>5. CASE AssignStep(r)
  BY <1>1, <1>5, AssignGoal DEF AssignStep, Find, Search, LookUp
<1>6. CASE AssetStep(r)
  <2>1. CASE UseWallet(r) \/ CreateWalletFails(r)
    BY <1>1, <2>1, WalletGoal DEF UseWallet, CreateWalletFails
  <2>2. CASE ListAddresses(r)
    BY <1>1, <2>2, ListGoal DEF ListAddresses
  <2>3. CASE Check(r) \/ MintFails(r)
    BY <1>1, <2>3, CheckGoal DEF Check, MintFails
  <2> QED BY <1>6, <2>1, <2>2, <2>3, CreateWalletType, MintType DEF AssetStep
<1>7. CASE PutStep(r)
  BY <1>7, PutGoal, PutTypes, GoalGoes DEF TypeInv
<1>8. CASE Die(r)
  BY <1>1, <1>8, DeadGood DEF Die, Goal, Now
<1> QED BY <1>2, <1>3, <1>4, <1>5, <1>6, <1>7, <1>8 DEF Step

LEMMA TypeStart == Init => TypeInv
<1> SUFFICES ASSUME Init PROVE TypeInv
  OBVIOUS
<1>1. PICK s \in Starts :
        /\ backend = s.backend /\ command = s.command
        /\ email = [u \in Ids |-> IF u \in DOMAIN s.users THEN s.users[u] ELSE NoEmail]
  BY DEF Init
<1>2. email \in [Ids -> Emails \cup {NoEmail}]
  BY <1>1, ToolsAssumption
<1>3. listed \in [Ids -> SUBSET EntryType] /\ keyed \in [Ids -> SUBSET EntryType]
  BY DEF Init
<1>4. PrimeTypes
  BY ToolsAssumption, StartAssumption DEF Init, PrimeTypes
<1>5. Idle \in RunType
  BY DEF Idle, RunType, NoTask, Task, TaskType, Places, Addresses
<1>6. run \in [Runs -> RunType] /\ \A r \in Runs : run[r] = Idle
  BY <1>5 DEF Init
<1>7. faults = 0 /\ MaxFaults \in Nat
  BY ToolsAssumption DEF Init
<1>8. Len(made) \in Nat
  BY <1>4 DEF PrimeTypes
<1>9. \A r \in Runs : RunFits(r, Idle)
  <2> SUFFICES ASSUME NEW r \in Runs PROVE RunFits(r, Idle)
    OBVIOUS
  <2>1. /\ Idle.at = "idle" /\ Idle.stage = "none" /\ Idle.tasks = {} /\ Idle.places = {}
        /\ Idle.left = {} /\ Idle.had = 0 /\ Idle.read = {}
    BY DEF Idle
  <2>2. TasksFit(r, Idle) /\ StageFits(r, Idle) /\ CurFits(r, Idle)
    BY <2>1 DEF TasksFit, StageFits, CurFits
  <2> QED BY <1>8, <2>1, <2>2 DEF RunFits, BaseFits
<1>10. Idle.slips = 0
  BY DEF Idle
<1> QED BY <1>1, <1>2, <1>3, <1>4, <1>6, <1>7, <1>9, <1>10 DEF TypeInv

LEMMA TypesKept == TypeInv /\ [Next]_vars => TypeInv'
<1>1. ASSUME TypeInv, UNCHANGED vars PROVE TypeInv'
  <2>1. Grows /\ PrimeTypes' /\ Unwritten
    BY <1>1 DEF Grows, PrimeTypes, TypeInv, vars, prime, Unwritten
  <2>2. ASSUME NEW q \in Runs PROVE RunFits(q, run[q])' /\ run'[q] = run[q]
    <3>1. PICK t : t = run[q]
      OBVIOUS
    <3>2. RunFits(q, t)'
      BY <1>1, <2>1, <3>1, RunFacts, GoodStays DEF Unwritten
    <3> QED BY <1>1, <3>1, <3>2 DEF vars
  <2> QED BY <1>1, <2>1, <2>2 DEF TypeInv, vars, directory
<1> QED BY <1>1, TypeStep DEF Next

(* Each variable keeps its type, and what a run has in hand fits what it is *)
(* about to do with it.                                                     *)
THEOREM ToolTypes == Spec => []TypeOK
<1>1. TypeInv => TypeOK
  <2> SUFFICES ASSUME TypeInv PROVE TypeOK
    OBVIOUS
  <2>1. ASSUME NEW a \in DOMAIN made
        PROVE  made[a] \in AddressType /\ made[a].wallet \in DOMAIN wallets
    BY DEF TypeInv, PrimeTypes
  <2>2. ASSUME NEW r \in Runs
        PROVE  /\ run[r].user \in Ids \cup {NoUser} /\ run[r].users \subseteq Ids
               /\ run[r].left \subseteq run[r].users /\ run[r].had <= Len(made)
               /\ run[r].addrs \cup run[r].assigned \cup run[r].gave \subseteq Addresses
               /\ run[r].read \subseteq EntryType /\ run[r].slips <= faults
               /\ ~At(r, "put") \/ (run[r].cur.user \in Ids /\ run[r].addrs # {})
    BY RunFacts DEF TypeInv, RunType, RunFits, BaseFits, CurFits, At
  <2> QED BY <2>1, <2>2 DEF TypeInv, PrimeTypes, TypeOK
<1> QED BY <1>1, TypeStart, TypesKept, PTL DEF Spec
=============================================================================
