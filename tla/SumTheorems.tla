----------------------------- MODULE SumTheorems -----------------------------
(***************************************************************************)
(* What the sums over finite sets compute that the velocity operator is    *)
(* specified with: SumFunction of the community modules is a fold along an *)
(* order that CHOOSE picks, and the theorems below are what makes that     *)
(* order disappear.                                                        *)
(***************************************************************************)
EXTENDS Integers, Functions, FiniteSetTheorems, WellFoundedInduction, TLAPS

-----------------------------------------------------------------------------
(* Induction, with sets in the place of predicates. *)

Below == {pair \in Nat \X Nat : pair[1] < pair[2]}

\* A set of natural numbers that is not empty has a least element.
LEMMA LeastNatural ==
  ASSUME NEW T \in SUBSET Nat, T # {}
  PROVE  \E n \in T : \A m \in T : n <= m
<1>1. IsWellFoundedOn(Below, Nat)
  BY NatLessThanWellFounded DEF OpToRel, Below
<1>2. \E n \in T : \A m \in T : ~(<<m, n>> \in Below)
  BY <1>1, WFMin
<1>3. PICK n \in T : \A m \in T : ~(<<m, n>> \in Below)
  BY <1>2
<1>4. \A m \in T : ~(m < n)
  BY <1>3 DEF Below
<1> QED
  BY <1>4

\* Taking out an element makes a finite set smaller.
LEMMA OneLess ==
  ASSUME NEW s, IsFiniteSet(s), NEW x \in s
  PROVE  /\ IsFiniteSet(s \ {x})
         /\ Cardinality(s) \in Nat
         /\ Cardinality(s \ {x}) \in Nat
         /\ Cardinality(s \ {x}) = Cardinality(s) - 1
BY FS_RemoveElement, FS_CardinalityType

\* What passes from the sets with one element less to a set holds for every set.
LEMMA SubsetInduction ==
  ASSUME NEW S, IsFiniteSet(S), NEW P \in SUBSET SUBSET S,
         \A s \in SUBSET S : (\A x \in s : s \ {x} \in P) => s \in P
  PROVE  \A s \in SUBSET S : s \in P
<1> DEFINE T == {Cardinality(s) : s \in (SUBSET S) \ P}
<1> SUFFICES ASSUME T # {} PROVE FALSE
  OBVIOUS
<1>1. \A s \in SUBSET S : IsFiniteSet(s) /\ Cardinality(s) \in Nat
  BY FS_Subset, FS_CardinalityType
<1>2. T \in SUBSET Nat
  BY <1>1
<1>3. PICK n \in T : \A m \in T : n <= m
  <2> HIDE DEF T
  <2> QED
    BY <1>2, LeastNatural
<1>4. PICK s \in (SUBSET S) \ P : Cardinality(s) = n
  BY <1>3
<1>5. ASSUME NEW x \in s PROVE s \ {x} \in P
  <2>1. /\ Cardinality(s) \in Nat /\ Cardinality(s \ {x}) \in Nat
        /\ Cardinality(s \ {x}) = Cardinality(s) - 1
    BY <1>1, OneLess
  <2>2. Cardinality(s \ {x}) \notin T
    BY <1>3, <1>4, <2>1
  <2> QED
    BY <2>2
<1> QED
  BY <1>4, <1>5

-----------------------------------------------------------------------------
(* The fold. *)

Pick(s) == CHOOSE x \in s : TRUE

\* The sums over the subsets of S along the order of the choices.
IsSteps(f, D, iter) ==
  iter = [s \in D |-> IF s = {} THEN 0 ELSE f[Pick(s)] + iter[s \ {Pick(s)}]]

Steps(f, S) == CHOOSE iter : IsSteps(f, SUBSET S, iter)

LEMMA SumIsFold ==
  ASSUME NEW f
  PROVE  SumFunction(f) = Steps(f, DOMAIN f)[DOMAIN f]
BY DEF SumFunction, SumFunctionOnSet, FoldFunctionOnSet, MapThenFoldSet, Steps, IsSteps, Pick

LEMMA PickIsIn ==
  ASSUME NEW s, s # {}
  PROVE  Pick(s) \in s
BY DEF Pick

\* The fold exists: it is built up from the sets with few elements.
LEMMA StepsExist ==
  ASSUME NEW S, IsFiniteSet(S), NEW f
  PROVE  IsSteps(f, SUBSET S, Steps(f, S))
<1> DEFINE Small(n) == {s \in SUBSET S : Cardinality(s) <= n}
           Built(n) == \E iter : IsSteps(f, Small(n), iter)
           T == {n \in Nat : ~Built(n)}
<1>1. \A s \in SUBSET S : IsFiniteSet(s) /\ Cardinality(s) \in Nat
  BY FS_Subset, FS_CardinalityType
<1>2. Built(0)
  <2>1. \A s \in Small(0) : s = {}
    <3> SUFFICES ASSUME NEW s \in SUBSET S, Cardinality(s) <= 0 PROVE s = {}
      OBVIOUS
    <3>1. Cardinality(s) = 0
      BY <1>1
    <3> QED
      BY <1>1, <3>1, FS_EmptySet
  <2>2. IsSteps(f, Small(0), [s \in Small(0) |-> 0])
    BY <2>1 DEF IsSteps
  <2> QED
    BY <2>2
<1>3. ASSUME NEW n \in Nat, Built(n) PROVE Built(n + 1)
  <2>1. PICK iter : IsSteps(f, Small(n), iter)
    BY <1>3
  <2> DEFINE next == [s \in Small(n + 1) |->
                        IF s \in Small(n) THEN iter[s] ELSE f[Pick(s)] + iter[s \ {Pick(s)}]]
  <2>2. ASSUME NEW s \in Small(n + 1), s # {}
        PROVE  s \ {Pick(s)} \in Small(n)
    <3>1. Pick(s) \in s
      BY <2>2, PickIsIn
    <3>2. Cardinality(s) \in Nat /\ Cardinality(s \ {Pick(s)}) = Cardinality(s) - 1
      BY <1>1, <3>1, OneLess
    <3> QED
      BY <3>2
  <2>3. {} \in Small(n)
    BY FS_EmptySet
  <2>4. Small(n) \subseteq Small(n + 1)
    BY <1>1
  <2>5. \A s \in Small(n) : iter[s] = IF s = {} THEN 0 ELSE f[Pick(s)] + iter[s \ {Pick(s)}]
    BY <2>1 DEF IsSteps
  <2>6. ASSUME NEW s \in Small(n + 1)
        PROVE  next[s] = IF s = {} THEN 0 ELSE f[Pick(s)] + next[s \ {Pick(s)}]
    <3> HIDE DEF Small
    <3>1. CASE s = {}
      BY <2>3, <2>4, <2>5, <3>1
    <3>2. CASE s # {}
      <4>1. s \ {Pick(s)} \in Small(n) /\ next[s \ {Pick(s)}] = iter[s \ {Pick(s)}]
        BY <2>2, <2>4, <3>2
      <4>2. next[s] = f[Pick(s)] + iter[s \ {Pick(s)}]
        BY <2>5, <3>2
      <4> QED
        BY <3>2, <4>1, <4>2
    <3> QED
      BY <3>1, <3>2
  <2>7. IsSteps(f, Small(n + 1), next)
    <3> HIDE DEF Small
    <3>1. next = [s \in Small(n + 1) |-> next[s]]
      OBVIOUS
    <3> HIDE DEF next
    <3> QED
      BY <2>6, <3>1 DEF IsSteps
  <2> QED
    BY <2>7
<1>4. T = {}
  <2> SUFFICES ASSUME T # {} PROVE FALSE
    OBVIOUS
  <2> HIDE DEF Built
  <2>1. PICK n \in T : \A m \in T : n <= m
    BY LeastNatural
  <2>2. n \in Nat /\ n # 0 /\ ~Built(n)
    BY <1>2, <2>1
  <2>3. n - 1 \in Nat /\ n - 1 \notin T
    BY <2>1, <2>2
  <2>4. Built(n - 1)
    BY <2>3
  <2>5. Built((n - 1) + 1)
    BY <1>3, <2>3, <2>4
  <2> QED
    BY <2>2, <2>5
<1>5. Built(Cardinality(S))
  <2> HIDE DEF Built
  <2> QED
    BY <1>1, <1>4
<1>6. Small(Cardinality(S)) = SUBSET S
  BY FS_Subset
<1>7. \E iter : IsSteps(f, SUBSET S, iter)
  <2> HIDE DEF Small
  <2> QED
    BY <1>5, <1>6
<1> QED
  BY <1>7 DEF Steps

LEMMA StepsEquation ==
  ASSUME NEW S, IsFiniteSet(S), NEW f
  PROVE  /\ Steps(f, S)[{}] = 0
         /\ \A s \in SUBSET S : s # {} =>
              Steps(f, S)[s] = f[Pick(s)] + Steps(f, S)[s \ {Pick(s)}]
<1> DEFINE iter == Steps(f, S)
<1>1. iter = [s \in SUBSET S |-> IF s = {} THEN 0 ELSE f[Pick(s)] + iter[s \ {Pick(s)}]]
  BY StepsExist DEF IsSteps
<1> HIDE DEF iter
<1>2. \A s \in SUBSET S : iter[s] = IF s = {} THEN 0 ELSE f[Pick(s)] + iter[s \ {Pick(s)}]
  BY <1>1
<1>3. /\ iter[{}] = 0
      /\ \A s \in SUBSET S : s # {} => iter[s] = f[Pick(s)] + iter[s \ {Pick(s)}]
  BY <1>2
<1> QED
  BY <1>3 DEF iter

LEMMA StepsType ==
  ASSUME NEW S, IsFiniteSet(S), NEW f, \A x \in S : f[x] \in Int
  PROVE  \A s \in SUBSET S : Steps(f, S)[s] \in Int
<1> DEFINE iter == Steps(f, S)
           P == {s \in SUBSET S : iter[s] \in Int}
<1>1. /\ iter[{}] = 0
      /\ \A s \in SUBSET S : s # {} => iter[s] = f[Pick(s)] + iter[s \ {Pick(s)}]
  BY StepsEquation
<1> HIDE DEF iter
<1>2. ASSUME NEW s \in SUBSET S, \A x \in s : s \ {x} \in P
      PROVE  s \in P
  <2>1. CASE s = {}
    BY <1>1, <2>1
  <2>2. CASE s # {}
    <3>1. Pick(s) \in s
      BY <2>2, PickIsIn
    <3>2. f[Pick(s)] \in Int /\ iter[s \ {Pick(s)}] \in Int
      BY <1>2, <3>1
    <3>3. iter[s] = f[Pick(s)] + iter[s \ {Pick(s)}]
      BY <1>1, <2>2
    <3>4. iter[s] \in Int
      BY <3>2, <3>3
    <3> QED
      BY <3>4
  <2> QED
    BY <2>1, <2>2
<1>3. P \in SUBSET SUBSET S
  OBVIOUS
<1> HIDE DEF P
<1>4. \A s \in SUBSET S : s \in P
  BY <1>2, <1>3, SubsetInduction
<1> QED
  BY <1>4 DEF P, iter

\* The order does not matter: any element can be the first.
LEMMA StepsAnyFirst ==
  ASSUME NEW S, IsFiniteSet(S), NEW f, \A x \in S : f[x] \in Int
  PROVE  \A s \in SUBSET S : \A x \in s : Steps(f, S)[s] = f[x] + Steps(f, S)[s \ {x}]
<1> DEFINE iter == Steps(f, S)
           P == {s \in SUBSET S : \A x \in s : iter[s] = f[x] + iter[s \ {x}]}
<1>1. \A s \in SUBSET S : s # {} => iter[s] = f[Pick(s)] + iter[s \ {Pick(s)}]
  BY StepsEquation
<1>2. \A s \in SUBSET S : iter[s] \in Int
  BY StepsType
<1> HIDE DEF iter
<1>3. ASSUME NEW s \in SUBSET S, \A x \in s : s \ {x} \in P
      PROVE  s \in P
  <2> SUFFICES ASSUME NEW x \in s PROVE iter[s] = f[x] + iter[s \ {x}]
    OBVIOUS
  <2> DEFINE first == Pick(s)
  <2>1. first \in s /\ iter[s] = f[first] + iter[s \ {first}]
    BY <1>1, PickIsIn
  <2> HIDE DEF first
  <2>2. CASE x = first
    BY <2>1, <2>2
  <2>3. CASE x # first
    <3>1. s \ {first} \in P /\ x \in s \ {first} /\ s \ {x} \in P /\ first \in s \ {x}
      BY <1>3, <2>1, <2>3
    <3>2. iter[s \ {first}] = f[x] + iter[(s \ {first}) \ {x}]
      BY <3>1
    <3>3. iter[s \ {x}] = f[first] + iter[(s \ {x}) \ {first}]
      BY <3>1
    <3>4. (s \ {first}) \ {x} = (s \ {x}) \ {first} /\ (s \ {x}) \ {first} \in SUBSET S
      OBVIOUS
    <3>5. iter[(s \ {x}) \ {first}] \in Int /\ f[x] \in Int /\ f[first] \in Int
      BY <1>2, <2>1, <3>4
    <3>6. iter[s] = f[first] + (f[x] + iter[(s \ {x}) \ {first}])
      BY <2>1, <3>2, <3>4
    <3>7. f[first] + (f[x] + iter[(s \ {x}) \ {first}])
            = f[x] + (f[first] + iter[(s \ {x}) \ {first}])
      BY <3>5
    <3> QED
      BY <3>3, <3>6, <3>7
  <2> QED
    BY <2>2, <2>3
<1>4. P \in SUBSET SUBSET S
  OBVIOUS
<1> HIDE DEF P
<1>5. \A s \in SUBSET S : s \in P
  BY <1>3, <1>4, SubsetInduction
<1> QED
  BY <1>5 DEF P, iter

LEMMA StepsOneFirst ==
  ASSUME NEW S, IsFiniteSet(S), NEW f, \A y \in S : f[y] \in Int, NEW x \in S
  PROVE  Steps(f, S)[S] = f[x] + Steps(f, S)[S \ {x}]
BY StepsAnyFirst

\* A sum depends on the values at the elements that are summed only.
LEMMA StepsAgree ==
  ASSUME NEW S, IsFiniteSet(S), NEW U \in SUBSET S, NEW f, NEW g,
         \A x \in U : f[x] = g[x]
  PROVE  \A s \in SUBSET U : Steps(f, S)[s] = Steps(g, U)[s]
<1> DEFINE P == {s \in SUBSET U : Steps(f, S)[s] = Steps(g, U)[s]}
<1>1. IsFiniteSet(U)
  BY FS_Subset
<1>2. /\ Steps(f, S)[{}] = 0 /\ Steps(g, U)[{}] = 0
      /\ \A s \in SUBSET U : s # {} =>
           /\ Steps(f, S)[s] = f[Pick(s)] + Steps(f, S)[s \ {Pick(s)}]
           /\ Steps(g, U)[s] = g[Pick(s)] + Steps(g, U)[s \ {Pick(s)}]
  <2>1. /\ Steps(f, S)[{}] = 0
        /\ \A s \in SUBSET S : s # {} =>
             Steps(f, S)[s] = f[Pick(s)] + Steps(f, S)[s \ {Pick(s)}]
    BY StepsEquation
  <2>2. /\ Steps(g, U)[{}] = 0
        /\ \A s \in SUBSET U : s # {} =>
             Steps(g, U)[s] = g[Pick(s)] + Steps(g, U)[s \ {Pick(s)}]
    BY <1>1, StepsEquation
  <2> QED
    BY <2>1, <2>2
<1>3. ASSUME NEW s \in SUBSET U, \A x \in s : s \ {x} \in P
      PROVE  s \in P
  <2>1. CASE s = {}
    BY <1>2, <2>1
  <2>2. CASE s # {}
    <3>1. Pick(s) \in s
      BY <2>2, PickIsIn
    <3>2. f[Pick(s)] = g[Pick(s)] /\ Steps(f, S)[s \ {Pick(s)}] = Steps(g, U)[s \ {Pick(s)}]
      BY <1>3, <3>1
    <3> QED
      BY <1>2, <2>2, <3>2
  <2> QED
    BY <2>1, <2>2
<1>4. P \in SUBSET SUBSET U
  OBVIOUS
<1> HIDE DEF P
<1>5. \A s \in SUBSET U : s \in P
  BY <1>1, <1>3, <1>4, SubsetInduction
<1> QED
  BY <1>5 DEF P

-----------------------------------------------------------------------------
(* The theorems. *)

\* The sum of nothing.
THEOREM SumEmpty ==
  ASSUME NEW f, DOMAIN f = {}
  PROVE  SumFunction(f) = 0
BY SumIsFold, StepsEquation, FS_EmptySet

\* A sum of integers is one.
THEOREM SumType ==
  ASSUME NEW S, IsFiniteSet(S), NEW f \in [S -> Int]
  PROVE  SumFunction(f) \in Int
BY SumIsFold, StepsType

\* Any element can be taken out of a sum.
THEOREM SumTakeOut ==
  ASSUME NEW S, IsFiniteSet(S), NEW f \in [S -> Int], NEW x \in S
  PROVE  SumFunction(f) = f[x] + SumFunction([y \in S \ {x} |-> f[y]])
<1> DEFINE U == S \ {x}
           g == [y \in U |-> f[y]]
<1>1. SumFunction(f) = Steps(f, S)[S] /\ SumFunction(g) = Steps(g, U)[U]
  <2>1. DOMAIN f = S /\ DOMAIN g = U
    OBVIOUS
  <2> HIDE DEF g, U
  <2> QED
    BY <2>1, SumIsFold
<1>2. Steps(f, S)[S] = f[x] + Steps(f, S)[U]
  <2>1. \A y \in S : f[y] \in Int
    OBVIOUS
  <2> HIDE DEF g, U
  <2>2. Steps(f, S)[S] = f[x] + Steps(f, S)[S \ {x}]
    BY <2>1, StepsOneFirst
  <2> QED
    BY <2>2 DEF U
<1>3. Steps(f, S)[U] = Steps(g, U)[U]
  <2>1. U \in SUBSET S /\ \A y \in U : f[y] = g[y]
    OBVIOUS
  <2> HIDE DEF g, U
  <2> QED
    BY <2>1, StepsAgree
<1> QED
  BY <1>1, <1>2, <1>3

\* One more element: its value is added.
THEOREM SumAdd ==
  ASSUME NEW S, IsFiniteSet(S), NEW x, x \notin S, NEW f \in [S \cup {x} -> Int],
         NEW g \in [S -> Int], \A y \in S : f[y] = g[y]
  PROVE  SumFunction(f) = SumFunction(g) + f[x]
<1>1. IsFiniteSet(S \cup {x}) /\ x \in S \cup {x} /\ f[x] \in Int
  BY FS_AddElement
<1>2. SumFunction(f) = f[x] + SumFunction([y \in (S \cup {x}) \ {x} |-> f[y]])
  BY <1>1, SumTakeOut
<1>3. [y \in (S \cup {x}) \ {x} |-> f[y]] = g
  OBVIOUS
<1>4. SumFunction(g) \in Int
  BY SumType
<1> QED
  BY <1>1, <1>2, <1>3, <1>4

\* The sum of zeros.
THEOREM SumOfZeros ==
  ASSUME NEW S, IsFiniteSet(S)
  PROVE  SumFunction([x \in S |-> 0]) = 0
<1> DEFINE P == {s \in SUBSET S : SumFunction([x \in s |-> 0]) = 0}
<1>1. ASSUME NEW s \in SUBSET S, \A x \in s : s \ {x} \in P
      PROVE  s \in P
  <2>1. CASE s = {}
    <3>1. SumFunction([x \in s |-> 0]) = 0
      BY <2>1, SumEmpty
    <3> QED
      BY <3>1
  <2>2. CASE s # {}
    <3>1. PICK x \in s : TRUE
      BY <2>2
    <3>2. SumFunction([y \in s \ {x} |-> 0]) = 0
      BY <1>1, <3>1
    <3> DEFINE zeros == [y \in s |-> 0]
    <3>3. IsFiniteSet(s) /\ zeros \in [s -> Int] /\ zeros[x] = 0
      BY FS_Subset
    <3>4. [y \in s \ {x} |-> zeros[y]] = [y \in s \ {x} |-> 0]
      OBVIOUS
    <3> HIDE DEF zeros
    <3>5. SumFunction(zeros) = zeros[x] + SumFunction([y \in s \ {x} |-> zeros[y]])
      BY <3>1, <3>3, SumTakeOut
    <3>6. SumFunction(zeros) = 0
      BY <3>2, <3>3, <3>4, <3>5
    <3> QED
      BY <3>6 DEF zeros
  <2> QED
    BY <2>1, <2>2
<1>2. P \in SUBSET SUBSET S
  OBVIOUS
<1>3. S \in P
  <2> HIDE DEF P
  <2> QED
    BY <1>1, <1>2, SubsetInduction
<1> QED
  BY <1>3

\* A value that changes changes the sum by as much.
THEOREM SumChange ==
  ASSUME NEW S, IsFiniteSet(S), NEW x \in S, NEW f \in [S -> Int], NEW g \in [S -> Int],
         \A y \in S \ {x} : f[y] = g[y]
  PROVE  SumFunction(f) = SumFunction(g) + (f[x] - g[x])
<1>1. /\ SumFunction(f) = f[x] + SumFunction([y \in S \ {x} |-> f[y]])
      /\ SumFunction(g) = g[x] + SumFunction([y \in S \ {x} |-> g[y]])
  BY SumTakeOut
<1>2. [y \in S \ {x} |-> f[y]] = [y \in S \ {x} |-> g[y]]
  OBVIOUS
<1>3. SumFunction([y \in S \ {x} |-> g[y]]) \in Int
  <2>1. IsFiniteSet(S \ {x}) /\ [y \in S \ {x} |-> g[y]] \in [S \ {x} -> Int]
    BY FS_RemoveElement
  <2> QED
    BY <2>1, SumType
<1> QED
  BY <1>1, <1>2, <1>3
=============================================================================
