-------------------------------- MODULE Sums --------------------------------
(***************************************************************************)
(* Lemmas about SumFunctionOnSet, the sum of a function's values over a     *)
(* finite set, in which the modules state what an account's history, its    *)
(* journal or a ledger adds up to.  The fold that defines it is a recursive *)
(* function; each lemma that needs an induction over the finite set takes a *)
(* smallest counterexample instead (SmallestSet).                           *)
(***************************************************************************)
EXTENDS Integers, FiniteSets, Functions, FiniteSetTheorems, TLAPS

(* A set of subsets of a finite set has a smallest member. *)
LEMMA SmallestSet ==
  ASSUME NEW S, IsFiniteSet(S), NEW T \in SUBSET (SUBSET S), T # {}
  PROVE  \E A \in T : \A B \in T : B \subseteq A => B = A
<1>1. T \subseteq FiniteSubsetsOf(S)
  BY FS_Subset DEF FiniteSubsetsOf
<1>2. IsWellFoundedOn(StrictSubsetOrdering(S), FiniteSubsetsOf(S))
  BY FS_StrictSubsetOrderingWellFounded
<1>3. PICK A \in T : \A B \in T : ~(<<B, A>> \in StrictSubsetOrdering(S))
  BY <1>1, <1>2, WFMin
<1>4. \A B \in T : <<B, A>> \in (SUBSET S) \X (SUBSET S)
  BY <1>3
<1>5. \A B \in T : B \subseteq A => B = A
  <2> SUFFICES ASSUME NEW B \in T, B \subseteq A, B # A PROVE FALSE
    OBVIOUS
  <2>1. <<B, A>> \in (SUBSET S) \X (SUBSET S) /\ <<B, A>>[1] = B /\ <<B, A>>[2] = A
    BY <1>4
  <2>2. <<B, A>> \in StrictSubsetOrdering(S)
    BY <2>1 DEF StrictSubsetOrdering
  <2> QED BY <1>3, <2>2
<1> QED BY <1>3, <1>5

-----------------------------------------------------------------------------
(* The recursive function behind the sum of f over S: g is a solution of    *)
(* its defining equation when g = Body(f, S, g).                            *)
Pick(s) == CHOOSE x \in s : TRUE

Body(f, S, g) ==
  [s \in SUBSET S |-> IF s = {} THEN 0 ELSE f[Pick(s)] + g[s \ {Pick(s)}]]

Partial(f, S) == CHOOSE g : g = Body(f, S, g)

LEMMA SumIsPartial ==
  ASSUME NEW f, NEW S
  PROVE  SumFunctionOnSet(f, S) = Partial(f, S)[S]
BY DEF SumFunctionOnSet, FoldFunctionOnSet, MapThenFoldSet, Partial, Body, Pick

LEMMA SolutionAt ==
  ASSUME NEW f, NEW S, NEW g, g = Body(f, S, g), NEW s \in SUBSET S
  PROVE  g[s] = IF s = {} THEN 0 ELSE f[Pick(s)] + g[s \ {Pick(s)}]
BY DEF Body

LEMMA PickType == \A s : s # {} => Pick(s) \in s
BY DEF Pick

(* Two solutions agree wherever both are defined and their functions agree. *)
LEMMA SolutionsAgree ==
  ASSUME NEW f, NEW g, NEW S, NEW T, NEW a, NEW b,
         IsFiniteSet(S), a = Body(f, S, a), b = Body(g, T, b),
         NEW s \in SUBSET S, s \in SUBSET T, \A x \in s : f[x] = g[x]
  PROVE  a[s] = b[s]
<1> DEFINE Bad == {t \in SUBSET s : a[t] # b[t]}
<1>1. IsFiniteSet(s)
  BY FS_Subset
<1>2. ASSUME Bad # {} PROVE FALSE
  <2>1. PICK t \in Bad : \A u \in Bad : u \subseteq t => u = t
    <3>1. Bad \in SUBSET (SUBSET s)
      OBVIOUS
    <3> HIDE DEF Bad
    <3> QED BY <1>1, <1>2, <3>1, SmallestSet
  <2>2. /\ a[t] = IF t = {} THEN 0 ELSE f[Pick(t)] + a[t \ {Pick(t)}]
        /\ b[t] = IF t = {} THEN 0 ELSE g[Pick(t)] + b[t \ {Pick(t)}]
    BY DEF Body
  <2>3. t # {}
    BY <2>2
  <2>4. Pick(t) \in t /\ f[Pick(t)] = g[Pick(t)]
    BY <2>3, PickType
  <2>5. t \ {Pick(t)} \notin Bad
    BY <2>1, <2>4
  <2>6. a[t \ {Pick(t)}] = b[t \ {Pick(t)}]
    BY <2>5
  <2> QED BY <2>2, <2>3, <2>4, <2>6
<1> QED BY <1>2

(* Over a finite set the equation has a solution. *)
LEMMA SolutionExists ==
  ASSUME NEW f, NEW S, IsFiniteSet(S)
  PROVE  Partial(f, S) = Body(f, S, Partial(f, S))
<1> DEFINE Bad == {s \in SUBSET S : ~ \E g : g = Body(f, s, g)}
<1>1. ASSUME Bad # {} PROVE FALSE
  <2>1. PICK A \in Bad : \A B \in Bad : B \subseteq A => B = A
    <3>1. Bad \in SUBSET (SUBSET S)
      OBVIOUS
    <3> HIDE DEF Bad
    <3> QED BY <1>1, <3>1, SmallestSet
  <2>2. \A B \in SUBSET A : B # A =>
          IsFiniteSet(B) /\ Partial(f, B) = Body(f, B, Partial(f, B))
    <3> SUFFICES ASSUME NEW B \in SUBSET A, B # A
                 PROVE  IsFiniteSet(B) /\ Partial(f, B) = Body(f, B, Partial(f, B))
      OBVIOUS
    <3>1. \E g : g = Body(f, B, g)
      BY <2>1
    <3> QED BY <3>1, FS_Subset DEF Partial
  <2> DEFINE g == [s \in SUBSET A |-> IF s = {} THEN 0 ELSE f[Pick(s)] +
                     Partial(f, s \ {Pick(s)})[s \ {Pick(s)}]]
  <2>3. ASSUME NEW t \in SUBSET A, t # A
        PROVE  g[t] = Partial(f, t)[t]
    <3> DEFINE u == t \ {Pick(t)}
    <3>1. Partial(f, t)[t] = IF t = {} THEN 0 ELSE f[Pick(t)] + Partial(f, t)[u]
      <4>1. Partial(f, t) = Body(f, t, Partial(f, t))
        BY <2>2, <2>3
      <4> QED BY <4>1, SolutionAt
    <3>2. CASE t = {}
      BY <3>1, <3>2
    <3>3. CASE t # {}
      <4>1. u \in SUBSET A /\ u # A /\ u \in SUBSET t
        BY <3>3, PickType
      <4> HIDE DEF u
      <4>2. Partial(f, t)[u] = Partial(f, u)[u]
        BY <2>2, <2>3, <4>1, SolutionsAgree
      <4> QED BY <3>1, <3>3, <4>2 DEF u
    <3> QED BY <3>2, <3>3
  <2>4. ASSUME NEW s \in SUBSET A, s # {}
        PROVE  g[s \ {Pick(s)}] = Partial(f, s \ {Pick(s)})[s \ {Pick(s)}]
    <3>1. s \ {Pick(s)} \in SUBSET A /\ s \ {Pick(s)} # A
      BY <2>4, PickType
    <3> HIDE DEF g
    <3> QED BY <2>3, <3>1
  <2>5. g = Body(f, A, g)
    BY <2>4 DEF Body
  <2> QED BY <2>1, <2>5
<1>2. \E g : g = Body(f, S, g)
  BY <1>1
<1> QED BY <1>2 DEF Partial

-----------------------------------------------------------------------------
LEMMA SumEmpty == ASSUME NEW f PROVE SumFunctionOnSet(f, {}) = 0
<1>1. Partial(f, {})[{}] = 0
  BY SolutionExists, SolutionAt, FS_EmptySet
<1> QED BY <1>1, SumIsPartial

(* Only the values on S matter. *)
LEMMA SumSame ==
  ASSUME NEW f, NEW g, NEW S, IsFiniteSet(S), \A x \in S : f[x] = g[x]
  PROVE  SumFunctionOnSet(f, S) = SumFunctionOnSet(g, S)
<1>1. Partial(f, S)[S] = Partial(g, S)[S]
  BY SolutionExists, SolutionsAgree
<1> QED BY <1>1, SumIsPartial

LEMMA SumPick ==
  ASSUME NEW f, NEW S, IsFiniteSet(S), S # {}
  PROVE  /\ Pick(S) \in S
         /\ SumFunctionOnSet(f, S) = f[Pick(S)] + SumFunctionOnSet(f, S \ {Pick(S)})
<1> DEFINE T == S \ {Pick(S)}
<1>1. Partial(f, S)[S] = f[Pick(S)] + Partial(f, S)[T]
  BY SolutionExists, SolutionAt
<1>2. IsFiniteSet(T) /\ T \in SUBSET S
  BY FS_RemoveElement
<1> HIDE DEF T
<1>3. Partial(f, S)[T] = Partial(f, T)[T]
  BY <1>2, SolutionExists, SolutionsAgree
<1> QED BY <1>1, <1>3, SumIsPartial, PickType DEF T

LEMMA SumType ==
  ASSUME NEW f, NEW S, IsFiniteSet(S), \A x \in S : f[x] \in Int
  PROVE  SumFunctionOnSet(f, S) \in Int
<1> DEFINE Bad == {s \in SUBSET S : SumFunctionOnSet(f, s) \notin Int}
<1>1. ASSUME Bad # {} PROVE FALSE
  <2>1. PICK A \in Bad : \A B \in Bad : B \subseteq A => B = A
    <3>1. Bad \in SUBSET (SUBSET S)
      OBVIOUS
    <3> HIDE DEF Bad
    <3> QED BY <1>1, <3>1, SmallestSet
  <2>2. A # {} /\ IsFiniteSet(A)
    <3>1. SumFunctionOnSet(f, {}) \in Int
      BY SumEmpty
    <3>2. SumFunctionOnSet(f, A) \notin Int
      BY <2>1
    <3> QED BY <3>1, <3>2, FS_Subset
  <2>3. /\ Pick(A) \in A
        /\ SumFunctionOnSet(f, A) = f[Pick(A)] + SumFunctionOnSet(f, A \ {Pick(A)})
    BY <2>2, SumPick
  <2>4. SumFunctionOnSet(f, A \ {Pick(A)}) \in Int
    BY <2>1, <2>3
  <2> QED BY <2>3, <2>4
<1> QED BY <1>1

(* A sum of naturals is one. *)
LEMMA SumNat ==
  ASSUME NEW f, NEW S, IsFiniteSet(S), \A x \in S : f[x] \in Nat
  PROVE  SumFunctionOnSet(f, S) \in Nat
<1> DEFINE Bad == {s \in SUBSET S : SumFunctionOnSet(f, s) \notin Nat}
<1>1. ASSUME Bad # {} PROVE FALSE
  <2>1. PICK A \in Bad : \A B \in Bad : B \subseteq A => B = A
    <3>1. Bad \in SUBSET (SUBSET S)
      OBVIOUS
    <3> HIDE DEF Bad
    <3> QED BY <1>1, <3>1, SmallestSet
  <2>2. A # {} /\ IsFiniteSet(A)
    <3>1. SumFunctionOnSet(f, {}) \in Nat
      BY SumEmpty
    <3>2. SumFunctionOnSet(f, A) \notin Nat
      BY <2>1
    <3> QED BY <3>1, <3>2, FS_Subset
  <2>3. /\ Pick(A) \in A
        /\ SumFunctionOnSet(f, A) = f[Pick(A)] + SumFunctionOnSet(f, A \ {Pick(A)})
    BY <2>2, SumPick
  <2>4. SumFunctionOnSet(f, A \ {Pick(A)}) \in Nat
    BY <2>1, <2>3
  <2> QED BY <2>3, <2>4
<1> QED BY <1>1

(* Any element may be taken out first. *)
LEMMA SumRemove ==
  ASSUME NEW f, NEW S, IsFiniteSet(S), \A x \in S : f[x] \in Int, NEW x \in S
  PROVE  SumFunctionOnSet(f, S) = f[x] + SumFunctionOnSet(f, S \ {x})
<1> DEFINE Sum(s) == SumFunctionOnSet(f, s)
           Bad == {s \in SUBSET S : \E y \in s : Sum(s) # f[y] + Sum(s \ {y})}
<1>0. \A s \in SUBSET S : Sum(s) \in Int /\ IsFiniteSet(s)
  BY FS_Subset, SumType
<1>p. \A s \in SUBSET S :
        s # {} => Pick(s) \in s /\ Sum(s) = f[Pick(s)] + Sum(s \ {Pick(s)})
  BY <1>0, SumPick
<1> HIDE DEF Sum
<1>1. ASSUME Bad # {} PROVE FALSE
  <2>1. PICK A \in Bad : \A B \in Bad : B \subseteq A => B = A
    <3>1. Bad \in SUBSET (SUBSET S)
      OBVIOUS
    <3> HIDE DEF Bad
    <3> QED BY <1>1, <3>1, SmallestSet
  <2>2. PICK y \in A : Sum(A) # f[y] + Sum(A \ {y})
    BY <2>1
  <2>3. PICK p \in A : Sum(A) = f[p] + Sum(A \ {p})
    BY <1>p, <2>2
  <2>4. p # y
    BY <2>2, <2>3
  <2> DEFINE X == Sum((A \ {p}) \ {y})
  <2>5. \A B \in SUBSET A : \A z \in B : B # A => Sum(B) = f[z] + Sum(B \ {z})
    BY <2>1
  <2>6. Sum(A \ {p}) = f[y] + X
    <3>1. A \ {p} \in SUBSET A /\ y \in A \ {p} /\ A \ {p} # A
      BY <2>4
    <3> QED BY <2>5, <3>1
  <2>7. Sum(A \ {y}) = f[p] + X
    <3>1. A \ {y} \in SUBSET A /\ p \in A \ {y} /\ A \ {y} # A
      BY <2>4
    <3>2. (A \ {y}) \ {p} = (A \ {p}) \ {y}
      OBVIOUS
    <3> QED BY <2>5, <3>1, <3>2
  <2>8. X \in Int /\ f[y] \in Int /\ f[p] \in Int
    BY <1>0
  <2> HIDE DEF X
  <2>9. Sum(A) = f[p] + (f[y] + X) /\ Sum(A) # f[y] + (f[p] + X)
    BY <2>2, <2>3, <2>6, <2>7
  <2> QED BY <2>8, <2>9
<1> QED BY <1>1 DEF Sum

LEMMA SumAdd ==
  ASSUME NEW f, NEW S, IsFiniteSet(S), NEW x, x \notin S,
         \A y \in S \cup {x} : f[y] \in Int
  PROVE  SumFunctionOnSet(f, S \cup {x}) = SumFunctionOnSet(f, S) + f[x]
<1>1. IsFiniteSet(S \cup {x}) /\ (S \cup {x}) \ {x} = S
  BY FS_AddElement
<1>2. SumFunctionOnSet(f, S \cup {x}) = f[x] + SumFunctionOnSet(f, S)
  BY <1>1, SumRemove
<1> QED BY <1>2, SumType

(* The sum over two disjoint sets is the sum of the sums. *)
LEMMA SumUnion ==
  ASSUME NEW f, NEW S, NEW T, IsFiniteSet(S), IsFiniteSet(T), S \cap T = {},
         \A x \in S \cup T : f[x] \in Int
  PROVE  SumFunctionOnSet(f, S \cup T) = SumFunctionOnSet(f, S) + SumFunctionOnSet(f, T)
<1> DEFINE Sum(s) == SumFunctionOnSet(f, s)
           Bad == {s \in SUBSET T : Sum(S \cup s) # Sum(S) + Sum(s)}
<1>0. /\ \A s \in SUBSET T : Sum(s) \in Int /\ IsFiniteSet(s) /\ IsFiniteSet(S \cup s)
      /\ Sum(S) \in Int /\ Sum({}) = 0
  <2>1. \A s \in SUBSET T : IsFiniteSet(s) /\ IsFiniteSet(S \cup s)
    BY FS_Subset, FS_Union
  <2> QED BY <2>1, SumType, SumEmpty
<1>1. ASSUME Bad # {} PROVE FALSE
  <2>1. PICK A \in Bad : \A B \in Bad : B \subseteq A => B = A
    <3>1. Bad \in SUBSET (SUBSET T)
      OBVIOUS
    <3> HIDE DEF Bad
    <3> QED BY <1>1, <3>1, SmallestSet
  <2>2. PICK y \in A : TRUE
    <3>1. Sum(S \cup {}) = Sum(S) + Sum({})
      <4>1. S \cup {} = S
        OBVIOUS
      <4> HIDE DEF Sum
      <4> QED BY <1>0, <4>1
    <3> QED BY <2>1, <3>1
  <2>3. Sum(A) = f[y] + Sum(A \ {y})
    BY <1>0, SumRemove
  <2>4. Sum(S \cup A) = f[y] + Sum(S \cup (A \ {y}))
    <3>1. (S \cup A) \ {y} = S \cup (A \ {y})
      OBVIOUS
    <3> QED BY <1>0, <3>1, SumRemove
  <2>5. Sum(S \cup (A \ {y})) = Sum(S) + Sum(A \ {y})
    BY <2>1
  <2>6. Sum(A \ {y}) \in Int /\ Sum(A) \in Int /\ f[y] \in Int
    BY <1>0
  <2> QED BY <1>0, <2>1, <2>3, <2>4, <2>5, <2>6
<1> QED BY <1>1
=============================================================================
