----------------------------- MODULE SumProofs ------------------------------
(***************************************************************************)
(* Proofs about the programs that add or count, for every value of the     *)
(* constants: the license manager, the Monte Carlo threads and the         *)
(* statistics threads.  They rest on facts about the sum of a function's   *)
(* values, as FoldFunction of the community modules defines it.  What a    *)
(* recursion over data computes is shown by induction with a set for the   *)
(* induction hypothesis (SetInduction, SubsetInduction), which the provers *)
(* can instantiate.                                                        *)
(***************************************************************************)
EXTENDS LicenseManager, SumListings, Sequences, FiniteSetTheorems,
        WellFoundedInduction, TLAPS

-----------------------------------------------------------------------------
(* Sums *)

(* A set of numbers with 0 and every successor is all of Nat. *)
LEMMA SetInduction ==
  ASSUME NEW A, 0 \in A, \A n \in Nat : n \in A => n + 1 \in A
  PROVE  Nat \subseteq A
<1> SUFFICES ASSUME Nat \ A # {} PROVE FALSE
  OBVIOUS
<1>1. PICK n \in Nat \ A : \A m \in Nat \ A : ~(m < n)
  <2>1. PICK n \in Nat \ A : \A m \in Nat \ A : ~(<<m, n>> \in OpToRel(<, Nat))
    BY Zenon, NatLessThanWellFounded, WFMin
  <2>2. ASSUME NEW m \in Nat, m < n PROVE <<m, n>> \in OpToRel(<, Nat)
    BY <2>2 DEF OpToRel
  <2> QED BY Zenon, <2>1, <2>2
<1>2. n # 0 /\ n - 1 \in Nat /\ n - 1 < n
  OBVIOUS
<1>3. n - 1 \in A
  BY <1>1, <1>2
<1> QED BY <1>2, <1>3

(* The element that the fold takes next. *)
Pick(T) == CHOOSE x \in T : TRUE

(* The recursion of MapThenFoldSet for a sum. *)
SumStep(f, it, T) == IF T = {} THEN 0 ELSE f[Pick(T)] + it[T \ {Pick(T)}]

SolvesSum(it, f, D) == it = [T \in SUBSET D |-> SumStep(f, it, T)]

PartialSum(f, D) == CHOOSE it : SolvesSum(it, f, D)

(* The sum of the values of f. *)
Total(f) == FoldFunction(+, 0, f)

(* The fold of the library is that recursion. *)
LEMMA TotalIsPartial ==
  ASSUME NEW D, NEW f \in [D -> Int]
  PROVE  Total(f) = PartialSum(f, D)[D]
<1>1. FoldFunction(+, 0, f) = PartialSum(f, DOMAIN f)[DOMAIN f]
  BY DEF FoldFunction, FoldFunctionOnSet, MapThenFoldSet, PartialSum, SolvesSum,
     SumStep, Pick
<1>2. DOMAIN f = D
  OBVIOUS
<1> QED BY Zenon, <1>1, <1>2 DEF Total

(* Induction over the subsets of a finite set, along Pick. *)
LEMMA SubsetInduction ==
  ASSUME NEW D, IsFiniteSet(D), NEW A, {} \in A,
         \A T \in SUBSET D : T # {} /\ T \ {Pick(T)} \in A => T \in A
  PROVE  SUBSET D \subseteq A
<1> DEFINE B == {n \in Nat : \A T \in SUBSET D : Cardinality(T) = n => T \in A}
<1>1. 0 \in B
  BY FS_Subset, FS_EmptySet
<1>2. ASSUME NEW n \in Nat, n \in B PROVE n + 1 \in B
  <2> SUFFICES ASSUME NEW T \in SUBSET D, Cardinality(T) = n + 1 PROVE T \in A
    OBVIOUS
  <2>1. IsFiniteSet(T) /\ T # {}
    BY FS_Subset, FS_EmptySet
  <2>2. Pick(T) \in T
    BY <2>1 DEF Pick
  <2>3. Cardinality(T \ {Pick(T)}) = Cardinality(T) - 1
    BY Zenon, <2>1, <2>2, FS_RemoveElement
  <2> QED BY <1>2, <2>1, <2>3
<1>3. Nat \subseteq B
  <2> HIDE DEF B
  <2> QED BY <1>1, <1>2, SetInduction
<1> QED BY <1>3, FS_Subset, FS_CardinalityType

(* The recursion has a solution. *)
LEMMA PartialExists ==
  ASSUME NEW D, IsFiniteSet(D), NEW f \in [D -> Int]
  PROVE  \E it : SolvesSum(it, f, D)
<1> DEFINE Small(n) == {T \in SUBSET D : Cardinality(T) <= n}
           Sol(it, n) == it = [T \in Small(n) |-> SumStep(f, it, T)]
           A == {n \in Nat : \E it : Sol(it, n)}
<1>0. ASSUME NEW T \in SUBSET D
      PROVE  /\ IsFiniteSet(T) /\ Cardinality(T) \in Nat
             /\ Cardinality(T) = 0 <=> T = {}
             /\ T # {} => /\ T \ {Pick(T)} \in SUBSET D
                          /\ Cardinality(T \ {Pick(T)}) = Cardinality(T) - 1
  BY Zenon, FS_Subset, FS_EmptySet, FS_RemoveElement, FS_CardinalityType
      DEF Pick
<1>1. 0 \in A
  <2> DEFINE zero == [T \in Small(0) |-> 0]
  <2>1. ASSUME NEW T \in Small(0) PROVE T = {}
    <3>1. Cardinality(T) \in Nat /\ (Cardinality(T) = 0 <=> T = {})
      BY Zenon, <1>0
    <3>2. Cardinality(T) <= 0
      OBVIOUS
    <3> HIDE DEF Small
    <3> QED BY <3>1, <3>2
  <2>2. ASSUME NEW T \in Small(0) PROVE SumStep(f, zero, T) = 0
    BY <2>1 DEF SumStep
  <2>3. Sol(zero, 0)
    <3> HIDE DEF Small
    <3> QED BY <2>2
  <2> HIDE DEF Sol, zero
  <2> QED BY <2>3
<1>2. ASSUME NEW n \in Nat, n \in A PROVE n + 1 \in A
  <2>1. PICK it : Sol(it, n)
    BY Zenon, <1>2
  <2> DEFINE new == [T \in Small(n + 1) |-> SumStep(f, it, T)]
  <2>2. ASSUME NEW T \in Small(n + 1)
        PROVE  SumStep(f, it, T) = SumStep(f, new, T)
    <3>1. CASE T = {}
      BY <3>1 DEF SumStep
    <3>2. CASE T # {}
      <4>1. T \ {Pick(T)} \in Small(n) /\ T \ {Pick(T)} \in Small(n + 1)
        BY <1>0, <3>2
      <4>2. new[T \ {Pick(T)}] = it[T \ {Pick(T)}]
        <5> HIDE DEF Small
        <5> QED BY <4>1, <2>1
      <4> HIDE DEF new
      <4> QED BY <4>2 DEF SumStep
    <3> QED BY <3>1, <3>2
  <2>3. Sol(new, n + 1)
    <3> HIDE DEF Small
    <3> QED BY <2>2
  <2> HIDE DEF Sol, new
  <2> QED BY <2>3
<1>3. Nat \subseteq A
  <2> HIDE DEF A
  <2> QED BY <1>1, <1>2, SetInduction
<1>4. Cardinality(D) \in Nat
  BY FS_CardinalityType
<1>5. Small(Cardinality(D)) = SUBSET D
  BY FS_Subset, <1>4
<1>6. PICK it : Sol(it, Cardinality(D))
  <2> HIDE DEF Sol
  <2> QED BY <1>3, <1>4
<1>7. SolvesSum(it, f, D)
  <2> HIDE DEF Small
  <2> QED BY <1>5, <1>6 DEF SolvesSum
<1> QED BY <1>7

(* What the recursion computes, for the empty set and for another one. *)
LEMMA PartialDef ==
  ASSUME NEW D, IsFiniteSet(D), NEW f \in [D -> Int]
  PROVE  /\ PartialSum(f, D)[{}] = 0
         /\ \A T \in SUBSET D : T # {} =>
              PartialSum(f, D)[T] = f[Pick(T)] + PartialSum(f, D)[T \ {Pick(T)}]
<1>1. SolvesSum(PartialSum(f, D), f, D)
  BY Zenon, PartialExists DEF PartialSum
<1> QED BY Zenon, <1>1 DEF SolvesSum, SumStep

(* Partial sums are integers. *)
LEMMA PartialType ==
  ASSUME NEW D, IsFiniteSet(D), NEW f \in [D -> Int]
  PROVE  \A T \in SUBSET D : PartialSum(f, D)[T] \in Int
<1> DEFINE A == {T \in SUBSET D : PartialSum(f, D)[T] \in Int}
<1>1. {} \in A
  BY PartialDef
<1>2. ASSUME NEW T \in SUBSET D, T # {}, T \ {Pick(T)} \in A PROVE T \in A
  <2>1. Pick(T) \in D
    BY <1>2 DEF Pick
  <2>2. PartialSum(f, D)[T] = f[Pick(T)] + PartialSum(f, D)[T \ {Pick(T)}]
    BY Zenon, <1>2, PartialDef
  <2> QED BY SMTT(30), <1>2, <2>1, <2>2
<1>3. SUBSET D \subseteq A
  <2> HIDE DEF A
  <2> QED BY SMTT(30), <1>1, <1>2, SubsetInduction
<1> QED BY <1>3

(* A sum of integers is one. *)
LEMMA TotalType ==
  ASSUME NEW D, IsFiniteSet(D), NEW f \in [D -> Int]
  PROVE  Total(f) \in Int
BY PartialType, TotalIsPartial

(* The sum of zeros. *)
LEMMA TotalZero ==
  ASSUME NEW D, IsFiniteSet(D)
  PROVE  Total([x \in D |-> 0]) = 0
<1> DEFINE f == [x \in D |-> 0]
           A == {T \in SUBSET D : PartialSum(f, D)[T] = 0}
<1>0. f \in [D -> Int] /\ DOMAIN f = D /\ \A x \in D : f[x] = 0
  OBVIOUS
<1> HIDE DEF f
<1>1. {} \in A
  BY <1>0, PartialDef
<1>2. ASSUME NEW T \in SUBSET D, T # {}, T \ {Pick(T)} \in A PROVE T \in A
  <2>1. Pick(T) \in D
    BY <1>2 DEF Pick
  <2>2. PartialSum(f, D)[T] = f[Pick(T)] + PartialSum(f, D)[T \ {Pick(T)}]
    BY SMTT(30), <1>0, <1>2, PartialDef
  <2> QED BY SMTT(30), <1>0, <1>2, <2>1, <2>2
<1>3. SUBSET D \subseteq A
  <2> HIDE DEF A
  <2> QED BY SMTT(30), <1>1, <1>2, SubsetInduction
<1>4. PartialSum(f, D)[D] = 0
  BY <1>3
<1> QED BY SMTT(30), <1>0, <1>4, TotalIsPartial DEF f

(* Changing one summand changes the sum by the same amount. *)
LEMMA TotalChange ==
  ASSUME NEW D, IsFiniteSet(D), NEW f \in [D -> Int], NEW g \in [D -> Int],
         NEW k \in D, \A x \in D \ {k} : g[x] = f[x]
  PROVE  Total(g) = Total(f) + (g[k] - f[k])
<1> DEFINE d(T) == IF k \in T THEN g[k] - f[k] ELSE 0
           A == {T \in SUBSET D : PartialSum(g, D)[T] = PartialSum(f, D)[T] + d(T)}
<1>1. {} \in A
  BY PartialDef
<1>2. ASSUME NEW T \in SUBSET D, T # {}, T \ {Pick(T)} \in A PROVE T \in A
  <2>1. Pick(T) \in D /\ Pick(T) \in T /\ T \ {Pick(T)} \in SUBSET D
    BY SMTT(30), <1>2 DEF Pick
  <2>2. /\ PartialSum(f, D)[T] = f[Pick(T)] + PartialSum(f, D)[T \ {Pick(T)}]
        /\ PartialSum(g, D)[T] = g[Pick(T)] + PartialSum(g, D)[T \ {Pick(T)}]
    BY Zenon, <1>2, PartialDef
  <2>3. PartialSum(f, D)[T \ {Pick(T)}] \in Int /\ PartialSum(f, D)[T] \in Int
    BY SMTT(30), <2>1, PartialType
  <2>4. PartialSum(g, D)[T \ {Pick(T)}] =
          PartialSum(f, D)[T \ {Pick(T)}] + d(T \ {Pick(T)})
    BY SMTT(30), <1>2
  <2>5. CASE Pick(T) = k
    BY SMTT(30), <2>1, <2>2, <2>3, <2>4, <2>5
  <2>6. CASE Pick(T) # k
    BY SMTT(30), <2>1, <2>2, <2>3, <2>4, <2>6
  <2> QED BY SMTT(30), <2>5, <2>6
<1>3. SUBSET D \subseteq A
  <2> HIDE DEF A
  <2> QED BY SMTT(30), <1>1, <1>2, SubsetInduction
<1>4. PartialSum(g, D)[D] = PartialSum(f, D)[D] + (g[k] - f[k])
  BY <1>3
<1> QED BY SMTT(30), <1>4, TotalIsPartial

(* Sums are monotone. *)
LEMMA TotalMonotone ==
  ASSUME NEW D, IsFiniteSet(D), NEW f \in [D -> Int], NEW g \in [D -> Int],
         \A x \in D : f[x] <= g[x]
  PROVE  Total(f) <= Total(g)
<1> DEFINE A == {T \in SUBSET D : PartialSum(f, D)[T] <= PartialSum(g, D)[T]}
<1>1. {} \in A
  BY PartialDef
<1>2. ASSUME NEW T \in SUBSET D, T # {}, T \ {Pick(T)} \in A PROVE T \in A
  <2>1. Pick(T) \in D /\ T \ {Pick(T)} \in SUBSET D
    BY <1>2 DEF Pick
  <2>2. /\ PartialSum(f, D)[T] = f[Pick(T)] + PartialSum(f, D)[T \ {Pick(T)}]
        /\ PartialSum(g, D)[T] = g[Pick(T)] + PartialSum(g, D)[T \ {Pick(T)}]
    BY Zenon, <1>2, PartialDef
  <2>3. /\ PartialSum(f, D)[T \ {Pick(T)}] \in Int
        /\ PartialSum(g, D)[T \ {Pick(T)}] \in Int
    BY SMTT(30), <2>1, PartialType
  <2> QED BY SMTT(30), <1>2, <2>1, <2>2, <2>3
<1>3. SUBSET D \subseteq A
  <2> HIDE DEF A
  <2> QED BY SMTT(30), <1>1, <1>2, SubsetInduction
<1>4. PartialSum(f, D)[D] <= PartialSum(g, D)[D]
  BY <1>3
<1> QED BY SMTT(30), <1>4, TotalIsPartial

-----------------------------------------------------------------------------
(* The license manager *)

(* What each thread holds, as functions. *)
HeldBy  == [u \in Users |-> Held(u)]
UnitsBy == [u \in Users |-> Units(u)]

(* A step of one thread, or main's that creates it. *)
UserAction(u) == Create(u) \/ Licence_user_thread_func(u)

(* The conservation laws as sums of these functions. *)
LEMMA ConservedTotals ==
  /\ LicensesLent <=> available_resources = MAX_RESOURCES - Total(HeldBy)
  /\ UnitsConserved <=> available_resources_sem = MAX_RESOURCES - Total(UnitsBy)
<1>1. SumOver(Held) = Total(HeldBy)
  BY Zenon DEF SumOver, Total, HeldBy
<1>2. SumOver(Units) = Total(UnitsBy)
  BY Zenon DEF SumOver, Total, UnitsBy
<1> QED BY Zenon, <1>1, <1>2 DEF LicensesLent, UnitsConserved

(* The same after a step. *)
LEMMA ConservedTotalsNext ==
  /\ LicensesLent' <=> available_resources' = MAX_RESOURCES - Total(HeldBy')
  /\ UnitsConserved' <=>
       available_resources_sem' = MAX_RESOURCES - Total(UnitsBy')
<1>1. SumOver(Held)' = Total(HeldBy)'
  BY Zenon DEF SumOver, Total, HeldBy
<1>2. SumOver(Units)' = Total(UnitsBy)'
  BY Zenon DEF SumOver, Total, UnitsBy
<1>3. Total(HeldBy)' = Total(HeldBy') /\ Total(UnitsBy)' = Total(UnitsBy')
  OBVIOUS
<1> QED BY Zenon, <1>1, <1>2, <1>3 DEF LicensesLent, UnitsConserved

(* A thread holds at least as many units as licenses, and no fewer than 0. *)
LEMMA UnitsCoverLicenses ==
  ASSUME TypeOK, InLoops
  PROVE  \A u \in Users : /\ Held(u) \in Int /\ Units(u) \in Int
                          /\ 0 <= Held(u) /\ Held(u) <= Units(u)
BY DEF TypeOK, InLoops, Held, Units

(* The sums are integers. *)
LEMMA SumsType ==
  ASSUME TypeOK, InLoops
  PROVE  /\ HeldBy \in [Users -> Int] /\ UnitsBy \in [Users -> Int]
         /\ Total(HeldBy) \in Int /\ Total(UnitsBy) \in Int
<1>1. HeldBy \in [Users -> Int] /\ UnitsBy \in [Users -> Int]
  BY UnitsCoverLicenses DEF HeldBy, UnitsBy
<1> QED BY Zenon, <1>1, TotalType, LicenseAssumption

(* A thread that has its units and no license yet finds enough of them: it *)
(* could hold that many more and all would still hold no more licenses     *)
(* than units, of which there are MAX_RESOURCES.                           *)
LEMMA EnoughLicenses ==
  ASSUME IInv
  PROVE  NeverRefused
<1> SUFFICES ASSUME NEW u \in Users, pc[u] = "decrease"
             PROVE  req_count[u] <= available_resources
  BY DEF NeverRefused
<1> DEFINE more == [HeldBy EXCEPT ![u] = req_count[u]]
<1>1. /\ HeldBy \in [Users -> Int] /\ UnitsBy \in [Users -> Int]
      /\ Total(HeldBy) \in Int /\ Total(UnitsBy) \in Int
  BY SumsType DEF IInv
<1>2. Held(u) = 0 /\ Units(u) = req_count[u] /\ req_count[u] \in Int
  BY DEF IInv, TypeOK, Held, Units
<1>3. /\ more \in [Users -> Int] /\ more[u] = req_count[u] /\ HeldBy[u] = 0
      /\ \A v \in Users \ {u} : more[v] = HeldBy[v]
  BY SMTT(30), <1>1, <1>2 DEF HeldBy
<1>4. \A v \in Users : more[v] <= UnitsBy[v]
  BY SMTT(30), UnitsCoverLicenses, <1>2 DEF IInv, HeldBy, UnitsBy
<1> HIDE DEF more
<1>5. Total(more) = Total(HeldBy) + (more[u] - HeldBy[u])
  BY SMTT(30), <1>1, <1>3, TotalChange, LicenseAssumption
<1>6. Total(more) <= Total(UnitsBy)
  BY SMTT(30), <1>1, <1>3, <1>4, TotalMonotone, LicenseAssumption
<1>7. Total(HeldBy) + req_count[u] <= Total(UnitsBy)
  BY SMTT(30), <1>1, <1>2, <1>3, <1>5, <1>6
<1>8. /\ available_resources_sem = MAX_RESOURCES - Total(UnitsBy)
      /\ available_resources = MAX_RESOURCES - Total(HeldBy)
      /\ available_resources_sem \in Nat
  BY ZenonT(30), ConservedTotals DEF IInv, TypeOK
<1> QED BY SMTT(30), <1>1, <1>2, <1>7, <1>8, LicenseAssumption

(* A step keeps every variable in its type. *)
LEMMA TypeStep ==
  ASSUME IInv, NEW u \in Users, UserAction(u)
  PROVE  TypeOK'
<1> USE DEF IInv, TypeOK, InLoops, Goto, sems
<1>1. CASE Create(u)
  BY <1>1 DEF Create
<1>2. CASE Ask(u)
  BY <1>2 DEF Ask
<1>3. CASE TakeTurn(u)
  BY <1>3 DEF TakeTurn
<1>4. CASE TakeUnit(u)
  BY <1>4 DEF TakeUnit
<1>5. CASE DecreaseLock(u)
  BY <1>5 DEF DecreaseLock
<1>6. CASE Decrease(u)
  BY SMTT(30), <1>6, EnoughLicenses, LicenseAssumption DEF Decrease,
      NeverRefused
<1>7. CASE PassTurn(u)
  BY <1>7 DEF PassTurn
<1>8. CASE IncreaseLock(u)
  BY SMTT(30), <1>8 DEF IncreaseLock
<1>9. CASE Increase(u)
  BY SMTT(30), <1>9 DEF Increase
<1>10. CASE PostUnit(u)
  BY SMTT(30), <1>10 DEF PostUnit
<1> HIDE DEF IInv, TypeOK, InLoops, Goto, sems
<1> QED BY Zenon, <1>1, <1>2, <1>3, <1>4, <1>5, <1>6, <1>7, <1>8, <1>9, <1>10
        DEF UserAction, Licence_user_thread_func

(* No thread is refused, and no loop counter leaves its loop. *)
LEMMA LoopStep ==
  ASSUME IInv, NEW u \in Users, UserAction(u)
  PROVE  InLoops'
<1> USE DEF IInv, TypeOK, InLoops, Goto, sems
<1>1. CASE Create(u)
  BY SMTT(30), <1>1 DEF Create
<1>2. CASE Ask(u)
  BY SMTT(30), <1>2 DEF Ask
<1>3. CASE TakeTurn(u)
  BY SMTT(30), <1>3 DEF TakeTurn
<1>4. CASE TakeUnit(u)
  BY SMTT(30), <1>4 DEF TakeUnit
<1>5. CASE DecreaseLock(u)
  BY SMTT(30), <1>5 DEF DecreaseLock
<1>6. CASE Decrease(u)
  BY SMTT(30), <1>6, EnoughLicenses, LicenseAssumption DEF Decrease,
      NeverRefused
<1>7. CASE PassTurn(u)
  BY SMTT(30), <1>7 DEF PassTurn
<1>8. CASE IncreaseLock(u)
  BY SMTT(30), <1>8 DEF IncreaseLock
<1>9. CASE Increase(u)
  BY SMTT(30), <1>9 DEF Increase
<1>10. CASE PostUnit(u)
  BY <1>10 DEF PostUnit
<1> HIDE DEF IInv, TypeOK, InLoops, Goto, sems
<1> QED BY Zenon, <1>1, <1>2, <1>3, <1>4, <1>5, <1>6, <1>7, <1>8, <1>9, <1>10
        DEF UserAction, Licence_user_thread_func

(* A step of one thread leaves alone what the others hold. *)
LEMMA OthersKeep ==
  ASSUME IInv, NEW u \in Users, UserAction(u)
  PROVE  \A v \in Users \ {u} : Held(v)' = Held(v) /\ Units(v)' = Units(v)
<1> USE DEF IInv, TypeOK, InLoops, Goto, sems, Held, Units
<1>1. CASE Create(u)
  BY SMTT(30), <1>1 DEF Create
<1>2. CASE Ask(u)
  BY SMTT(30), <1>2 DEF Ask
<1>3. CASE TakeTurn(u)
  BY SMTT(30), <1>3 DEF TakeTurn
<1>4. CASE TakeUnit(u)
  BY SMTT(30), <1>4 DEF TakeUnit
<1>5. CASE DecreaseLock(u)
  BY SMTT(30), <1>5 DEF DecreaseLock
<1>6. CASE Decrease(u)
  BY SMTT(30), <1>6, EnoughLicenses, LicenseAssumption DEF Decrease,
      NeverRefused
<1>7. CASE PassTurn(u)
  BY SMTT(30), <1>7 DEF PassTurn
<1>8. CASE IncreaseLock(u)
  BY SMTT(30), <1>8 DEF IncreaseLock
<1>9. CASE Increase(u)
  BY SMTT(30), <1>9 DEF Increase
<1>10. CASE PostUnit(u)
  BY SMTT(30), <1>10 DEF PostUnit
<1> HIDE DEF IInv, TypeOK, InLoops, Goto, sems, Held, Units
<1> QED BY Zenon, <1>1, <1>2, <1>3, <1>4, <1>5, <1>6, <1>7, <1>8, <1>9, <1>10
        DEF UserAction, Licence_user_thread_func

(* What leaves available_resources goes to the thread, and comes back. *)
LEMMA LicenseStep ==
  ASSUME IInv, NEW u \in Users, UserAction(u)
  PROVE  available_resources' = available_resources - (Held(u)' - Held(u))
<1> USE DEF IInv, TypeOK, InLoops, Goto, sems, Held
<1>1. CASE Create(u)
  BY SMTT(30), <1>1 DEF Create
<1>2. CASE Ask(u)
  BY SMTT(30), <1>2 DEF Ask
<1>3. CASE TakeTurn(u)
  BY SMTT(30), <1>3 DEF TakeTurn
<1>4. CASE TakeUnit(u)
  BY SMTT(30), <1>4 DEF TakeUnit
<1>5. CASE DecreaseLock(u)
  BY SMTT(30), <1>5 DEF DecreaseLock
<1>6. CASE Decrease(u)
  BY SMTT(30), <1>6, EnoughLicenses, LicenseAssumption DEF Decrease,
      NeverRefused
<1>7. CASE PassTurn(u)
  BY SMTT(30), <1>7 DEF PassTurn
<1>8. CASE IncreaseLock(u)
  BY SMTT(30), <1>8 DEF IncreaseLock
<1>9. CASE Increase(u)
  BY SMTT(30), <1>9 DEF Increase
<1>10. CASE PostUnit(u)
  BY SMTT(30), <1>10 DEF PostUnit
<1> HIDE DEF IInv, TypeOK, InLoops, Goto, sems, Held
<1> QED BY Zenon, <1>1, <1>2, <1>3, <1>4, <1>5, <1>6, <1>7, <1>8, <1>9, <1>10
        DEF UserAction, Licence_user_thread_func

(* What leaves the semaphore goes to the thread, unit by unit. *)
LEMMA UnitStep ==
  ASSUME IInv, NEW u \in Users, UserAction(u)
  PROVE  available_resources_sem' = available_resources_sem - (Units(u)' - Units(u))
<1> USE DEF IInv, TypeOK, InLoops, Goto, sems, Units
<1>1. CASE Create(u)
  BY SMTT(30), <1>1 DEF Create
<1>2. CASE Ask(u)
  BY SMTT(30), <1>2 DEF Ask
<1>3. CASE TakeTurn(u)
  BY SMTT(30), <1>3 DEF TakeTurn
<1>4. CASE TakeUnit(u)
  BY SMTT(30), <1>4 DEF TakeUnit
<1>5. CASE DecreaseLock(u)
  BY SMTT(30), <1>5 DEF DecreaseLock
<1>6. CASE Decrease(u)
  BY SMTT(30), <1>6, EnoughLicenses, LicenseAssumption DEF Decrease,
      NeverRefused
<1>7. CASE PassTurn(u)
  BY SMTT(30), <1>7 DEF PassTurn
<1>8. CASE IncreaseLock(u)
  BY SMTT(30), <1>8 DEF IncreaseLock
<1>9. CASE Increase(u)
  BY SMTT(30), <1>9 DEF Increase
<1>10. CASE PostUnit(u)
  BY <1>10 DEF PostUnit
<1> HIDE DEF IInv, TypeOK, InLoops, Goto, sems, Units
<1> QED BY Zenon, <1>1, <1>2, <1>3, <1>4, <1>5, <1>6, <1>7, <1>8, <1>9, <1>10
        DEF UserAction, Licence_user_thread_func

(* IInv holds in every state. *)
THEOREM IInvInvariant == Spec => []IInv
<1>1. Init => IInv
  <2> SUFFICES ASSUME Init PROVE IInv
    OBVIOUS
  <2>1. TypeOK /\ InLoops
    BY LicenseAssumption DEF Init, TypeOK, InLoops
  <2>2. HeldBy = [u \in Users |-> 0] /\ UnitsBy = [u \in Users |-> 0]
    BY DEF Init, HeldBy, UnitsBy, Held, Units
  <2>3. Total(HeldBy) = 0 /\ Total(UnitsBy) = 0
    BY Zenon, <2>2, TotalZero, LicenseAssumption
  <2> QED BY SMTT(30), <2>1, <2>3, ConservedTotals, LicenseAssumption
      DEF Init, IInv
<1>2. IInv /\ [Next]_vars => IInv'
  <2> SUFFICES ASSUME IInv, [Next]_vars PROVE IInv'
    OBVIOUS
  <2>1. ASSUME NEW u \in Users, UserAction(u) PROVE IInv'
    <3>1. TypeOK' /\ InLoops'
      BY SMTT(30), <2>1, TypeStep, LoopStep
    <3>2. /\ HeldBy \in [Users -> Int] /\ UnitsBy \in [Users -> Int]
          /\ Total(HeldBy) \in Int /\ Total(UnitsBy) \in Int
      BY SumsType DEF IInv
    <3>3. HeldBy' \in [Users -> Int] /\ UnitsBy' \in [Users -> Int]
      BY SMTT(30), <3>1 DEF TypeOK, InLoops, Held, Units, HeldBy, UnitsBy
    <3>4. /\ \A v \in Users \ {u} : HeldBy'[v] = HeldBy[v]
          /\ \A v \in Users \ {u} : UnitsBy'[v] = UnitsBy[v]
      BY SMTT(30), <2>1, OthersKeep DEF HeldBy, UnitsBy
    <3>5. /\ Total(HeldBy') = Total(HeldBy) + (HeldBy'[u] - HeldBy[u])
          /\ Total(UnitsBy') = Total(UnitsBy) + (UnitsBy'[u] - UnitsBy[u])
      <4>1. IsFiniteSet(Users)
        BY Zenon, LicenseAssumption
      <4>2. Total(HeldBy') = Total(HeldBy) + (HeldBy'[u] - HeldBy[u])
        BY Zenon, <3>2, <3>3, <3>4, <4>1, TotalChange
      <4>3. Total(UnitsBy') = Total(UnitsBy) + (UnitsBy'[u] - UnitsBy[u])
        BY Zenon, <3>2, <3>3, <3>4, <4>1, TotalChange
      <4> QED BY Zenon, <4>2, <4>3
    <3>6. /\ HeldBy'[u] = Held(u)' /\ HeldBy[u] = Held(u)
          /\ UnitsBy'[u] = Units(u)' /\ UnitsBy[u] = Units(u)
      BY DEF HeldBy, UnitsBy
    <3>7. /\ available_resources' = available_resources - (Held(u)' - Held(u))
          /\ available_resources_sem' =
               available_resources_sem - (Units(u)' - Units(u))
      BY SMTT(30), <2>1, LicenseStep, UnitStep
    <3>8. /\ available_resources \in Int /\ available_resources_sem \in Int
          /\ Held(u) \in Int /\ Held(u)' \in Int
          /\ Units(u) \in Int /\ Units(u)' \in Int
      BY SMTT(30), <3>1, <3>2, <3>3, <3>6 DEF IInv, TypeOK
    <3>9. MAX_RESOURCES \in Int
      BY LicenseAssumption
    <3>10. LicensesLent'
      <4>1. available_resources = MAX_RESOURCES - Total(HeldBy)
        BY SMTT(30), ConservedTotals DEF IInv
      <4>2. available_resources' = MAX_RESOURCES - Total(HeldBy')
        BY SMTT(30), <3>2, <3>5, <3>6, <3>7, <3>8, <3>9, <4>1
      <4> QED BY SMTT(30), <4>2, ConservedTotalsNext
    <3>11. UnitsConserved'
      <4>1. available_resources_sem = MAX_RESOURCES - Total(UnitsBy)
        BY SMTT(30), ConservedTotals DEF IInv
      <4>2. available_resources_sem' = MAX_RESOURCES - Total(UnitsBy')
        BY SMTT(30), <3>2, <3>5, <3>6, <3>7, <3>8, <3>9, <4>1
      <4> QED BY SMTT(30), <4>2, ConservedTotalsNext
    <3> QED BY SMTT(30), <3>1, <3>10, <3>11 DEF IInv
  <2>2. CASE UNCHANGED vars
    <3>1. TypeOK' /\ InLoops'
      BY <2>2 DEF vars, sems, IInv, TypeOK, InLoops
    <3>2. HeldBy' = HeldBy /\ UnitsBy' = UnitsBy
      BY <2>2 DEF vars, HeldBy, UnitsBy, Held, Units
    <3> QED BY SMTT(30), <2>2, <3>1, <3>2, ConservedTotals, ConservedTotalsNext
            DEF vars, sems, IInv
  <2> QED BY SMTT(30), <2>1, <2>2 DEF Next, UserAction
<1> QED BY <1>1, <1>2, PTL DEF Spec

(* available_resources stays between 0 and MAX_RESOURCES, as both          *)
(* functions assert, and no license is lost or made.                       *)
THEOREM LicensesAreConserved == Spec => []LicensesConserved
<1>1. IInv => LicensesConserved
  <2> SUFFICES ASSUME IInv PROVE LicensesConserved
    OBVIOUS
  <2> DEFINE none == [u \in Users |-> 0]
  <2>1. /\ HeldBy \in [Users -> Int] /\ UnitsBy \in [Users -> Int]
        /\ Total(HeldBy) \in Int /\ Total(UnitsBy) \in Int
    BY SumsType DEF IInv
  <2>2. /\ none \in [Users -> Int] /\ \A u \in Users : none[u] <= HeldBy[u]
        /\ \A u \in Users : HeldBy[u] <= UnitsBy[u]
    BY UnitsCoverLicenses DEF IInv, HeldBy, UnitsBy
  <2>3. Total(none) = 0
    BY SMTT(30), TotalZero, LicenseAssumption
  <2> HIDE DEF none
  <2>4. Total(none) <= Total(HeldBy) /\ Total(HeldBy) <= Total(UnitsBy)
    BY SMTT(30), <2>1, <2>2, TotalMonotone, LicenseAssumption
  <2>5. 0 <= Total(HeldBy) /\ Total(HeldBy) <= Total(UnitsBy)
    BY <2>3, <2>4
  <2>6. /\ available_resources_sem = MAX_RESOURCES - Total(UnitsBy)
        /\ available_resources = MAX_RESOURCES - Total(HeldBy)
        /\ available_resources_sem \in Nat
    BY Zenon, ConservedTotals DEF IInv, TypeOK
  <2>7. available_resources \in 0 .. MAX_RESOURCES
    BY SMTT(30), <2>1, <2>5, <2>6, LicenseAssumption
  <2> QED BY Zenon, <2>7 DEF LicensesConserved, IInv, LicensesLent
<1> QED BY <1>1, IInvInvariant, PTL

(* decrease_count never answers -1: a thread with its units finds enough   *)
(* licenses.                                                               *)
THEOREM NoThreadIsRefused == Spec => []NeverRefused
<1>1. IInv => NeverRefused
  BY EnoughLicenses
<1> QED BY <1>1, IInvInvariant, PTL

(* The semaphore and the units that the threads hold make MAX_RESOURCES. *)
THEOREM UnitsAreConserved == Spec => []UnitsConserved
<1>1. IInv => UnitsConserved
  BY DEF IInv
<1> QED BY <1>1, IInvInvariant, PTL

-----------------------------------------------------------------------------
(* The Monte Carlo threads, with the mutex *)

(* The sums of MonteCarlo are these sums. *)
LEMMA MonteCarloSum == \A f : M!FoldFunction(+, 0, f) = Total(f)
BY DEF M!FoldFunction, M!FoldFunctionOnSet, M!MapThenFoldSet, Total,
   FoldFunction, FoldFunctionOnSet, MapThenFoldSet

(* The points counted so far, before and after a step, as a sum. *)
LEMMA PointsAddedTotals ==
  /\ M!PointsAdded <=>
       /\ main # "exit" => shared.inside_circle_count = Total(M!AddedBy)
       /\ main # "wait" => \A t \in Threads : mc_pc[t] = "done"
       /\ shared.total_points = M!AllPoints
  /\ M!PointsAdded' <=>
       /\ main' # "exit" => shared'.inside_circle_count = Total(M!AddedBy')
       /\ main' # "wait" => \A t \in Threads : mc_pc'[t] = "done"
       /\ shared'.total_points = M!AllPoints
<1>1. M!FoldFunction(+, 0, M!AddedBy) = Total(M!AddedBy)
  BY Zenon, MonteCarloSum
<1>2. M!FoldFunction(+, 0, M!AddedBy)' = Total(M!AddedBy')
  BY DEF M!FoldFunction, M!FoldFunctionOnSet, M!MapThenFoldSet, Total,
     FoldFunction, FoldFunctionOnSet, MapThenFoldSet
<1> QED BY Zenon, <1>1, <1>2 DEF M!PointsAdded, M!AllPoints

(* They are integers. *)
LEMMA AddedByType ==
  /\ M!TypeOK => M!AddedBy \in [Threads -> Int] /\ Total(M!AddedBy) \in Int
  /\ M!TypeOK' => M!AddedBy' \in [Threads -> Int]
<1>1. M!TypeOK => M!AddedBy \in [Threads -> Int]
  BY SMTT(30), MonteCarloAssumption DEF M!TypeOK, M!AddedBy
<1>2. M!TypeOK' => M!AddedBy' \in [Threads -> Int]
  BY SMTT(30), MonteCarloAssumption DEF M!TypeOK, M!AddedBy
<1> QED BY Zenon, <1>1, <1>2, TotalType, MonteCarloAssumption

(* There is one addition. *)
LEMMA OneAddition ==
  /\ M!Additions[1] = "inside_circle_count" /\ Len(M!Additions) = 1
  /\ \A t \in Threads : mc_i[t] = 1 => M!Amount(t) = my_inside_count[t]
BY DEF M!Additions, M!Amount

(* Store is the addition. *)
LEMMA StoreEffect ==
  ASSUME M!IInv, NEW t \in Threads, M!Store(t)
  PROVE  /\ mc_pc[t] = "store" /\ mc_pc' = [mc_pc EXCEPT ![t] = "unlock"] /\ mc_mutex = t
         /\ shared' = [shared EXCEPT !.inside_circle_count =
                         shared.inside_circle_count + my_inside_count[t]]
         /\ mc_i' = [mc_i EXCEPT ![t] = 2]
         /\ UNCHANGED <<mc_mutex, my_inside_count, reg, main>>
<1>1. mc_pc[t] = "store" /\ mc_i[t] = 1
  BY DEF M!Store, M!Goto, M!IInv, M!TypeOK
<1>2. reg[t] = shared.inside_circle_count /\ mc_mutex = t
  BY SMTT(30), <1>1 DEF M!IInv, M!MutexHeld
<1>3. mc_i' = [mc_i EXCEPT ![t] = 2]
  BY SMTT(30), <1>1 DEF M!Store
<1>4. /\ mc_pc' = [mc_pc EXCEPT ![t] = IF mc_i[t] < Len(M!Additions) THEN "load" ELSE "unlock"]
      /\ shared' = [shared EXCEPT ![M!Additions[mc_i[t]]] = reg[t] + M!Amount(t)]
      /\ UNCHANGED <<mc_mutex, my_inside_count, reg, main>>
  BY SMTT(30) DEF M!Store, M!Goto
<1>5. /\ M!Additions[mc_i[t]] = "inside_circle_count" /\ ~(mc_i[t] < Len(M!Additions))
      /\ reg[t] + M!Amount(t) = shared.inside_circle_count + my_inside_count[t]
  BY SMTT(30), <1>1, <1>2, OneAddition
<1> QED BY Zenon, <1>1, <1>2, <1>3, <1>4, <1>5

(* A step keeps the types. *)
LEMMA MonteCarloType ==
  ASSUME M!IInv, M!Next
  PROVE  M!TypeOK'
<1>0. M!TypeOK
  BY SMTT(30) DEF M!IInv
<1>1. ASSUME NEW t \in Threads, M!CountPoints(t) \/ M!Lock(t) \/ M!Unlock(t)
      PROVE  M!TypeOK'
  BY SMTT(30), <1>0, <1>1 DEF M!TypeOK, M!CountPoints, M!Lock, M!Unlock, M!Goto
<1>2. ASSUME NEW t \in Threads, M!Load(t) PROVE M!TypeOK'
  <2>1. mc_i[t] = 1
    BY SMTT(30), <1>0, <1>2 DEF M!TypeOK, M!Load, M!Goto
  <2>2. shared[M!Additions[mc_i[t]]] \in Int
    BY Zenon, <1>0, <2>1, OneAddition DEF M!TypeOK
  <2> QED BY SMTT(30), <1>0, <1>2, <2>2 DEF M!TypeOK, M!Load, M!Goto
<1>3. ASSUME NEW t \in Threads, M!Store(t) PROVE M!TypeOK'
  <2>1. my_inside_count[t] \in Int
    BY SMTT(30), <1>0, MonteCarloAssumption DEF M!TypeOK
  <2>2. shared' \in [inside_circle_count : Int, total_points : Int]
    BY SMTT(30), <1>0, <1>3, <2>1, StoreEffect DEF M!TypeOK
  <2> QED BY SMTT(30), <1>0, <1>3, <2>2, StoreEffect DEF M!TypeOK
<1>4. CASE M!Join \/ M!PrintAndCleanup
  BY SMTT(30), <1>0, <1>4 DEF M!TypeOK, M!Join, M!PrintAndCleanup
<1> QED BY SMTT(30), <1>1, <1>2, <1>3, <1>4 DEF M!Next, M!Worker_thread_func

(* A step leaves the mutex with one thread at most. *)
LEMMA MonteCarloMutex ==
  ASSUME M!IInv, M!Next
  PROVE  M!MutexHeld'
<1>0. M!TypeOK /\ M!MutexHeld /\ NoThread \notin Threads
  BY SMTT(30), MonteCarloAssumption DEF M!IInv
<1>1. ASSUME NEW t \in Threads, M!CountPoints(t) \/ M!Lock(t) \/ M!Unlock(t)
      PROVE  M!MutexHeld'
  BY SMTT(30), <1>0, <1>1 DEF M!TypeOK, M!MutexHeld, M!CountPoints, M!Lock,
      M!Unlock,
      M!Goto
<1>2. ASSUME NEW t \in Threads, M!Load(t) PROVE M!MutexHeld'
  <2>1. mc_i[t] = 1
    BY SMTT(30), <1>0, <1>2 DEF M!TypeOK, M!Load, M!Goto
  <2>2. shared[M!Additions[mc_i[t]]] = shared.inside_circle_count
    BY Zenon, <1>0, <2>1, OneAddition
  <2> QED BY SMTT(30), <1>0, <1>2, <2>2 DEF M!TypeOK, M!MutexHeld, M!Load,
      M!Goto
<1>3. ASSUME NEW t \in Threads, M!Store(t) PROVE M!MutexHeld'
  BY SMTT(30), <1>0, <1>3, StoreEffect DEF M!TypeOK, M!MutexHeld
<1>4. CASE M!Join \/ M!PrintAndCleanup
  <2>1. \A t \in Threads : mc_pc[t] = "done"
    BY Zenon, <1>4, PointsAddedTotals DEF M!Join, M!PrintAndCleanup, M!IInv
  <2> QED BY SMTT(30), <1>0, <1>4, <2>1 DEF M!MutexHeld, M!Join,
      M!PrintAndCleanup
<1> QED BY <1>1, <1>2, <1>3, <1>4 DEF M!Next, M!Worker_thread_func

(* A step loses no thread's points. *)
LEMMA MonteCarloPoints ==
  ASSUME M!IInv, M!Next
  PROVE  M!PointsAdded'
<1>0. /\ M!TypeOK /\ M!TypeOK' /\ IsFiniteSet(Threads)
      /\ M!AddedBy \in [Threads -> Int] /\ M!AddedBy' \in [Threads -> Int]
      /\ main # "exit" => shared.inside_circle_count = Total(M!AddedBy)
      /\ main # "wait" => \A t \in Threads : mc_pc[t] = "done"
      /\ shared.total_points = M!AllPoints
  BY Zenon, MonteCarloType, AddedByType, PointsAddedTotals,
      MonteCarloAssumption DEF M!IInv
<1>1. ASSUME NEW t \in Threads,
             M!CountPoints(t) \/ M!Lock(t) \/ M!Load(t) \/ M!Unlock(t)
      PROVE  M!PointsAdded'
  <2>1. UNCHANGED <<shared, main>> /\ main = "wait"
    BY SMTT(30), <1>0, <1>1 DEF M!CountPoints, M!Lock, M!Load, M!Unlock, M!Goto
  <2>2. M!AddedBy' = M!AddedBy
    BY SMTT(30), <1>0, <1>1 DEF M!AddedBy, M!TypeOK, M!CountPoints, M!Lock,
        M!Load,
        M!Unlock, M!Goto
  <2> QED BY ZenonT(40), <1>0, <2>1, <2>2, PointsAddedTotals
<1>2. ASSUME NEW t \in Threads, M!Store(t) PROVE M!PointsAdded'
  <2>1. /\ \A u \in Threads \ {t} : M!AddedBy'[u] = M!AddedBy[u]
        /\ M!AddedBy'[t] - M!AddedBy[t] = my_inside_count[t]
    <3>1. /\ mc_pc[t] = "store" /\ mc_pc' = [mc_pc EXCEPT ![t] = "unlock"]
          /\ my_inside_count' = my_inside_count
      BY SMTT(30), <1>2, StoreEffect
    <3>2. my_inside_count[t] \in Int
      BY SMTT(30), <1>0, MonteCarloAssumption DEF M!TypeOK
    <3>3. mc_pc'[t] = "unlock" /\ \A u \in Threads \ {t} : mc_pc'[u] = mc_pc[u]
      BY SMTT(30), <1>0, <3>1 DEF M!TypeOK
    <3> QED BY SMTT(30), <3>1, <3>2, <3>3 DEF M!AddedBy
  <2>2. Total(M!AddedBy') = Total(M!AddedBy) + my_inside_count[t]
    <3>1. Total(M!AddedBy') = Total(M!AddedBy) + (M!AddedBy'[t] - M!AddedBy[t])
      BY SMTT(30), <1>0, <2>1, TotalChange
    <3> QED BY SMTT(30), <2>1, <3>1
  <2>3. main = "wait"
    BY SMTT(30), <1>0, <1>2, StoreEffect
  <2>4. /\ shared'.inside_circle_count =
             shared.inside_circle_count + my_inside_count[t]
        /\ shared'.total_points = shared.total_points /\ main' = main
    <3>1. shared \in [inside_circle_count : Int, total_points : Int]
      BY <1>0 DEF M!TypeOK
    <3>2. /\ shared' = [shared EXCEPT !.inside_circle_count =
                           shared.inside_circle_count + my_inside_count[t]]
          /\ main' = main
      BY SMTT(30), <1>2, StoreEffect
    <3> QED BY Zenon, <3>1, <3>2
  <2> QED BY Zenon, <1>0, <2>2, <2>3, <2>4, PointsAddedTotals
<1>3. CASE M!Join \/ M!PrintAndCleanup
  <2>1. UNCHANGED <<mc_pc, my_inside_count>> /\ \A t \in Threads : mc_pc[t] = "done"
    BY SMTT(30), <1>0, <1>3 DEF M!Join, M!PrintAndCleanup
  <2>2. M!AddedBy' = M!AddedBy
    BY SMTT(30), <2>1 DEF M!AddedBy
  <2>3. /\ main' # "exit" => main # "exit" /\ shared' = shared
        /\ shared'.total_points = shared.total_points
    BY SMTT(30), <1>0, <1>3 DEF M!Join, M!PrintAndCleanup, M!TypeOK
  <2> QED BY Zenon, <1>0, <2>1, <2>2, <2>3, PointsAddedTotals
<1> QED BY SMTT(30), <1>1, <1>2, <1>3 DEF M!Next, M!Worker_thread_func

(* The inductive invariant of problem 5.39. *)
THEOREM MonteCarloInvariant == M!Spec => []M!IInv
<1>1. M!Init => M!IInv
  <2> SUFFICES ASSUME M!Init PROVE M!IInv
    OBVIOUS
  <2>1. M!TypeOK
    <3>1. Cardinality(Threads) \in Nat
      BY SMTT(30), FS_CardinalityType, MonteCarloAssumption
    <3>2. M!AllPoints \in Int
      <4>1. \A a, b \in Nat : a * b \in Int
        OBVIOUS
      <4>2. M!Cardinality(Threads) = Cardinality(Threads)
        BY Zenon DEF M!Cardinality, Cardinality, M!IsFiniteSet, IsFiniteSet
      <4> QED BY Zenon, <3>1, <4>1, <4>2, MonteCarloAssumption DEF M!AllPoints
    <3> QED BY SMTT(30), <3>2, MonteCarloAssumption DEF M!Init, M!TypeOK
  <2>2. M!MutexHeld
    BY SMTT(30), MonteCarloAssumption DEF M!Init, M!MutexHeld
  <2>3. M!AddedBy = [t \in Threads |-> 0]
    BY DEF M!Init, M!AddedBy
  <2>4. Total(M!AddedBy) = 0
    BY Zenon, <2>3, TotalZero, MonteCarloAssumption
  <2>5. M!PointsAdded
    <3>1. /\ main = "wait" /\ shared.inside_circle_count = 0
          /\ shared.total_points = M!AllPoints
      BY DEF M!Init
    <3> QED BY Zenon, <2>4, <3>1, PointsAddedTotals
  <2> QED BY SMTT(30), <2>1, <2>2, <2>5 DEF M!IInv
<1>2. M!IInv /\ [M!Next]_(M!vars) => M!IInv'
  <2> SUFFICES ASSUME M!IInv, [M!Next]_(M!vars) PROVE M!IInv'
    OBVIOUS
  <2>1. CASE M!Next
    BY SMTT(30), <2>1, MonteCarloType, MonteCarloMutex, MonteCarloPoints
        DEF M!IInv
  <2>2. CASE UNCHANGED M!vars
    <3>1. M!TypeOK' /\ M!MutexHeld'
      BY SMTT(30), <2>2 DEF M!vars, M!IInv, M!TypeOK, M!MutexHeld
    <3>2. M!AddedBy' = M!AddedBy /\ UNCHANGED <<main, shared, mc_pc>>
      BY SMTT(30), <2>2 DEF M!vars, M!AddedBy
    <3>3. M!PointsAdded'
      BY Zenon, <3>2, PointsAddedTotals DEF M!IInv
    <3> QED BY SMTT(30), <3>1, <3>3 DEF M!IInv
  <2> QED BY SMTT(30), <2>1, <2>2
<1> QED BY <1>1, <1>2, PTL DEF M!Spec

(* Problem 5.39 prints the points of all its threads: the mutex lets no    *)
(* addition to inside_circle_count be lost.                                *)
THEOREM NoPointLost == M!Spec => []EveryPointCounted
<1>1. M!IInv => M!EveryPointCounted
  <2> SUFFICES ASSUME M!IInv, main = "print"
               PROVE  /\ shared.inside_circle_count = Total(my_inside_count)
                      /\ shared.total_points = M!AllPoints
    BY Zenon, MonteCarloSum DEF M!EveryPointCounted
  <2>1. \A t \in Threads : mc_pc[t] = "done"
    BY Zenon, PointsAddedTotals DEF M!IInv
  <2>2. M!AddedBy = my_inside_count
    BY <2>1 DEF M!IInv, M!TypeOK, M!AddedBy
  <2> QED BY Zenon, <2>2, PointsAddedTotals DEF M!IInv
<1>2. M!EveryPointCounted => EveryPointCounted
  BY DEF EveryPointCounted
<1> QED BY <1>1, <1>2, MonteCarloInvariant, PTL

-----------------------------------------------------------------------------
(* The statistics threads *)

(* What is left of a number in an int is an int, and an int is left as it  *)
(* is.                                                                     *)
LEMMA NarrowIsInt == \A x \in Int : S!Narrow(x) \in -(INT_MAX + 1) .. INT_MAX
BY IntAssumption DEF S!Narrow

LEMMA NarrowOfInt == \A x \in -(INT_MAX + 1) .. INT_MAX : S!Narrow(x) = x
BY IntAssumption DEF S!Narrow

(* The sums of Statistics are these sums. *)
LEMMA StatisticsSum == \A f : S!FoldFunction(+, 0, f) = Total(f)
BY DEF S!FoldFunction, S!FoldFunctionOnSet, S!MapThenFoldSet, Total,
   FoldFunction, FoldFunctionOnSet, MapThenFoldSet

LEMMA SumOfTotal ==
  ASSUME NEW x, NEW n
  PROVE  S!SumOf(x, n) <=>
           /\ x \in -(INT_MAX + 1) .. INT_MAX
           /\ Total(S!FirstValues(n)) <= INT_MAX => x = Total(S!FirstValues(n))
<1>1. S!FoldFunction(+, 0, S!FirstValues(n)) = Total(S!FirstValues(n))
  BY Zenon, StatisticsSum
<1> QED BY Zenon, <1>1 DEF S!SumOf

(* The values are positive ints. *)
LEMMA ValuesType ==
  ASSUME S!TypeOK
  PROVE  /\ S!val_buffer_len \in Nat /\ S!val_buffer_len = Len(val_buffer)
         /\ \A k \in 1 .. S!val_buffer_len :
              val_buffer[k] \in Int /\ 1 <= val_buffer[k] /\ val_buffer[k] <= INT_MAX
BY SMTT(30), StatisticsAssumption, IntAssumption DEF S!TypeOK, S!val_buffer_len

(* The sum of the first values, one by one. *)
LEMMA FirstValuesSum ==
  ASSUME S!TypeOK
  PROVE  /\ Total(S!FirstValues(0)) = 0
         /\ \A n \in 0 .. S!val_buffer_len :
              Total(S!FirstValues(n)) \in Int /\ 0 <= Total(S!FirstValues(n))
         /\ \A n \in 0 .. (S!val_buffer_len - 1) :
              Total(S!FirstValues(n + 1)) = Total(S!FirstValues(n)) + val_buffer[n + 1]
         /\ S!FirstValues(S!val_buffer_len) = val_buffer
<1> DEFINE L == 1 .. S!val_buffer_len
           zero == [k \in L |-> 0]
<1>1. /\ S!val_buffer_len \in Nat /\ \A k \in L : val_buffer[k] \in Nat
      /\ val_buffer = [k \in L |-> val_buffer[k]]
  BY SMTT(30), StatisticsAssumption, IntAssumption DEF S!TypeOK, S!val_buffer_len
<1>2. IsFiniteSet(L)
  <2>1. 1 \in Int /\ S!val_buffer_len \in Int
    BY <1>1
  <2> QED BY Zenon, <2>1, FS_Interval
<1>3. ASSUME NEW n \in Nat
      PROVE  /\ S!FirstValues(n) \in [L -> Int]
             /\ \A k \in L : S!FirstValues(n)[k] =
                               IF k <= n THEN val_buffer[k] ELSE 0
  BY <1>1 DEF S!FirstValues
<1>4. zero \in [L -> Int] /\ Total(zero) = 0
  <2>1. zero \in [L -> Int]
    OBVIOUS
  <2> HIDE DEF L
  <2> QED BY Zenon, <1>2, <2>1, TotalZero
<1>5. S!FirstValues(0) = zero
  BY SMTT(30), <1>1 DEF S!FirstValues
<1>6. S!FirstValues(S!val_buffer_len) = val_buffer
  BY SMTT(30), <1>1 DEF S!FirstValues
<1>7. ASSUME NEW n \in 0 .. S!val_buffer_len
      PROVE  Total(S!FirstValues(n)) \in Int /\ 0 <= Total(S!FirstValues(n))
  <2>1. S!FirstValues(n) \in [L -> Int] /\ \A k \in L : 0 <= S!FirstValues(n)[k]
    BY SMTT(30), <1>1, <1>3
  <2>2. \A k \in L : zero[k] <= S!FirstValues(n)[k]
    BY <2>1
  <2>3. Total(S!FirstValues(n)) \in Int
    BY Zenon, <1>2, <2>1, TotalType
  <2>4. Total(zero) <= Total(S!FirstValues(n))
    <3> HIDE DEF zero, L
    <3> QED BY Zenon, <1>2, <1>4, <2>1, <2>2, TotalMonotone
  <2> HIDE DEF zero, L
  <2> QED BY SMTT(30), <1>4, <2>3, <2>4
<1>8. ASSUME NEW n \in 0 .. (S!val_buffer_len - 1)
      PROVE  Total(S!FirstValues(n + 1)) = Total(S!FirstValues(n)) + val_buffer[n + 1]
  <2>1. n \in Nat /\ n + 1 \in Nat /\ n + 1 \in L
    BY SMTT(30), <1>1
  <2>2. S!FirstValues(n) \in [L -> Int] /\ S!FirstValues(n + 1) \in [L -> Int]
    BY SMTT(30), <1>3, <2>1
  <2>3. \A k \in L \ {n + 1} : S!FirstValues(n + 1)[k] = S!FirstValues(n)[k]
    BY SMTT(30), <1>3, <2>1
  <2>4. S!FirstValues(n + 1)[n + 1] - S!FirstValues(n)[n + 1] = val_buffer[n + 1]
    BY SMTT(30), <1>1, <1>3, <2>1
  <2>5. Total(S!FirstValues(n + 1)) = Total(S!FirstValues(n)) +
          (S!FirstValues(n + 1)[n + 1] - S!FirstValues(n)[n + 1])
    <3> HIDE DEF L
    <3> QED BY SMTT(30), <1>2, <2>1, <2>2, <2>3, TotalChange
  <2> HIDE DEF L
  <2> QED BY SMTT(30), <2>4, <2>5
<1> HIDE DEF zero, L
<1> QED BY SMTT(30), <1>4, <1>5, <1>6, <1>7, <1>8

(* As long as the values stay the same, the invariant says of the next     *)
(* state what it would say of its variables now.                           *)
LEMMA LoopValuesNext ==
  ASSUME UNCHANGED val_buffer,
         calc_pc'["avg_calc"] = "loop" =>
           S!SumOf(val'["avg_calc"], stat_i'["avg_calc"] - 1),
         calc_pc'["min_calc"] = "loop" =>
           S!LeastOf(val'["min_calc"], stat_i'["min_calc"] - 1),
         calc_pc'["max_calc"] = "loop" =>
           S!GreatestOf(val'["max_calc"], stat_i'["max_calc"] - 1)
  PROVE  S!LoopValues'
<1>1. /\ calc_pc'["min_calc"] = "loop" =>
           S!LeastOf(val["min_calc"], stat_i["min_calc"] - 1)'
      /\ calc_pc'["max_calc"] = "loop" =>
           S!GreatestOf(val["max_calc"], stat_i["max_calc"] - 1)'
  BY DEF S!LeastOf, S!GreatestOf
<1>2. calc_pc'["avg_calc"] = "loop" =>
        S!SumOf(val["avg_calc"], stat_i["avg_calc"] - 1)'
  <2> DEFINE G == S!FirstValues(stat_i["avg_calc"] - 1)
  <2>1. G' = S!FirstValues(stat_i'["avg_calc"] - 1)
    BY SMTT(30) DEF S!FirstValues, S!val_buffer_len
  <2>2. S!FoldFunction(+, 0, G)' = Total(G')
    BY DEF S!FoldFunction, S!FoldFunctionOnSet, S!MapThenFoldSet, Total,
       FoldFunction, FoldFunctionOnSet, MapThenFoldSet
  <2>3. calc_pc'["avg_calc"] = "loop" =>
          /\ val'["avg_calc"] \in -(INT_MAX + 1) .. INT_MAX
          /\ Total(G') <= INT_MAX => val'["avg_calc"] = Total(G')
    BY Zenon, <2>1, SumOfTotal
  <2> QED BY Zenon, <2>2, <2>3 DEF S!SumOf
<1> QED BY Zenon, <1>1, <1>2 DEF S!LoopValues

LEMMA ResultsNext ==
  ASSUME UNCHANGED val_buffer,
         calc_pc'["avg_calc"] = "exit" =>
           avg'[2] = S!val_buffer_len /\ S!SumOf(avg'[1], S!val_buffer_len),
         calc_pc'["min_calc"] = "exit" => S!LeastOf(min', S!val_buffer_len),
         calc_pc'["max_calc"] = "exit" => S!GreatestOf(max', S!val_buffer_len)
  PROVE  S!Results'
<1>0. S!val_buffer_len' = S!val_buffer_len
  BY DEF S!val_buffer_len
<1>1. /\ calc_pc'["min_calc"] = "exit" => S!LeastOf(min, S!val_buffer_len)'
      /\ calc_pc'["max_calc"] = "exit" => S!GreatestOf(max, S!val_buffer_len)'
  BY <1>0 DEF S!LeastOf, S!GreatestOf
<1>2. calc_pc'["avg_calc"] = "exit" => S!SumOf(avg[1], S!val_buffer_len)'
  <2> DEFINE G == S!FirstValues(S!val_buffer_len)
  <2>1. G' = G
    BY SMTT(30), <1>0 DEF S!FirstValues
  <2>2. S!FoldFunction(+, 0, G)' = Total(G')
    BY DEF S!FoldFunction, S!FoldFunctionOnSet, S!MapThenFoldSet, Total,
       FoldFunction, FoldFunctionOnSet, MapThenFoldSet
  <2>3. calc_pc'["avg_calc"] = "exit" =>
          /\ avg'[1] \in -(INT_MAX + 1) .. INT_MAX
          /\ Total(G') <= INT_MAX => avg'[1] = Total(G')
    BY Zenon, <2>1, SumOfTotal
  <2> QED BY Zenon, <2>2, <2>3 DEF S!SumOf
<1> QED BY Zenon, <1>0, <1>1, <1>2 DEF S!Results

(* A step keeps the types. *)
LEMMA StatisticsType ==
  ASSUME S!IInv, S!Next
  PROVE  S!TypeOK'
<1>0. S!TypeOK /\ S!ThreadsRun
  BY DEF S!IInv
<1>1. CASE S!ReadArguments
  <2>1. UNCHANGED <<avg, max, min, stat_i, val>>
    BY <1>1 DEF S!ReadArguments
  <2>2. CASE stat_main' = "refused" /\ UNCHANGED <<val_buffer, calc_pc>>
    BY SMTT(30), <1>0, <2>1, <2>2 DEF S!TypeOK, S!val_buffer_len
  <2>3. CASE ~(stat_main' = "refused" /\ UNCHANGED <<val_buffer, calc_pc>>)
    <3>1. PICK n \in 0 .. MAX_SAMPLE_SIZE : \E argv \in [1 .. n -> Arguments] :
            /\ n # 0 /\ \A k \in 1 .. n : ~(argv[k] <= 0)
            /\ stat_main' = "join" /\ val_buffer' = argv
            /\ calc_pc' = [f \in S!calc_funcs |-> "start"]
      BY <1>1, <2>3 DEF S!ReadArguments
    <3>2. val_buffer' \in [1 .. n -> 1 .. INT_MAX]
      <4>1. PICK argv \in [1 .. n -> Arguments] :
              (\A k \in 1 .. n : ~(argv[k] <= 0)) /\ val_buffer' = argv
        BY <3>1
      <4>2. \A a \in Arguments : ~(a <= 0) => a \in 1 .. INT_MAX
        BY SMTT(30), StatisticsAssumption, IntAssumption
      <4> QED BY Zenon, <4>1, <4>2
    <3>3. n \in Nat \ {0} /\ val_buffer' \in Seq(1 .. INT_MAX) /\ Len(val_buffer') = n
      BY SMTT(30), <3>1, <3>2, StatisticsAssumption, IntAssumption
    <3>4. stat_main' = "join" /\ calc_pc' = [f \in S!calc_funcs |-> "start"]
      BY SMTT(30), <3>1
    <3> QED BY SMTT(30), <1>0, <2>1, <3>3, <3>4 DEF S!TypeOK, S!val_buffer_len
  <2> QED BY SMTT(30), <2>2, <2>3
<1>2. ASSUME NEW f \in S!calc_funcs, S!Enter(f) PROVE S!TypeOK'
  <2>1. stat_main = "join" /\ val_buffer[1] \in Int
    <3>1. stat_main = "join"
      BY SMTT(30), <1>0, <1>2 DEF S!TypeOK, S!ThreadsRun, S!Enter
    <3>2. 1 \in 1 .. S!val_buffer_len
      BY SMTT(30), <1>0, <3>1, ValuesType DEF S!TypeOK
    <3> QED BY SMTT(30), <1>0, <3>1, <3>2, ValuesType
  <2> QED BY SMTT(30), <1>0, <1>2, <2>1 DEF S!TypeOK, S!Enter, S!val_buffer_len
<1>3. ASSUME NEW f \in S!calc_funcs, S!Iterate(f) PROVE S!TypeOK'
  <2>1. stat_i[f] \in 1 .. S!val_buffer_len
    BY SMTT(30), <1>0, <1>3, ValuesType DEF S!TypeOK, S!ThreadsRun, S!Iterate
  <2>2. val_buffer[stat_i[f]] \in Int /\ val[f] \in Int
    BY SMTT(30), <1>0, <2>1, ValuesType DEF S!TypeOK
  <2>3. S!Narrow(val[f] + val_buffer[stat_i[f]]) \in Int
    BY SMTT(30), <2>2, NarrowIsInt, StatisticsAssumption, IntAssumption
  <2>4. val' \in [S!calc_funcs -> Int]
    BY Zenon, <1>0, <1>3, <2>2, <2>3 DEF S!TypeOK, S!Iterate, S!calc_funcs
  <2>5. /\ stat_i' \in [S!calc_funcs -> Nat]
        /\ UNCHANGED <<val_buffer, avg, calc_pc, stat_main>>
    BY SMTT(30), <1>0, <1>3 DEF S!TypeOK, S!Iterate
  <2> QED BY SMTT(30), <1>0, <2>4, <2>5 DEF S!TypeOK, S!val_buffer_len
<1>4. ASSUME NEW f \in S!calc_funcs, S!StoreResult(f) PROVE S!TypeOK'
  BY SMTT(30), <1>0, <1>4 DEF S!TypeOK, S!StoreResult, S!val_buffer_len
<1>5. CASE S!Join
  BY SMTT(30), <1>0, <1>5 DEF S!TypeOK, S!Join, S!val_buffer_len
<1> QED BY SMTT(30), <1>1, <1>2, <1>3, <1>4, <1>5 DEF S!Next

(* A step keeps the threads between their creation and the joins. *)
LEMMA StatisticsThreads ==
  ASSUME S!IInv, S!Next
  PROVE  S!ThreadsRun'
<1>0. S!TypeOK /\ S!ThreadsRun
  BY DEF S!IInv
<1>1. CASE S!ReadArguments
  BY SMTT(30), <1>0, <1>1 DEF S!TypeOK, S!ThreadsRun, S!ReadArguments,
      S!val_buffer_len
<1>2. ASSUME NEW f \in S!calc_funcs, S!Enter(f) PROVE S!ThreadsRun'
  BY SMTT(30), <1>0, <1>2 DEF S!TypeOK, S!ThreadsRun, S!Enter, S!val_buffer_len
<1>3. ASSUME NEW f \in S!calc_funcs, S!Iterate(f) PROVE S!ThreadsRun'
  BY SMTT(30), <1>0, <1>3 DEF S!TypeOK, S!ThreadsRun, S!Iterate,
      S!val_buffer_len
<1>4. ASSUME NEW f \in S!calc_funcs, S!StoreResult(f) PROVE S!ThreadsRun'
  BY SMTT(30), <1>0, <1>4 DEF S!TypeOK, S!ThreadsRun, S!StoreResult,
      S!val_buffer_len
<1>5. CASE S!Join
  BY SMTT(30), <1>0, <1>5 DEF S!TypeOK, S!ThreadsRun, S!Join, S!val_buffer_len
<1> QED BY <1>1, <1>2, <1>3, <1>4, <1>5 DEF S!Next

(* A step keeps what the loops have found. *)
LEMMA StatisticsLoops ==
  ASSUME S!IInv, S!Next
  PROVE  S!LoopValues'
<1>0. /\ S!TypeOK /\ S!ThreadsRun /\ S!LoopValues
      /\ S!val_buffer_len \in Nat
      /\ {"avg_calc", "min_calc", "max_calc"} = S!calc_funcs
  BY ValuesType DEF S!IInv, S!calc_funcs
<1>1. CASE S!ReadArguments
  <2>1. \A f \in S!calc_funcs : calc_pc'[f] # "loop"
    BY SMTT(30), <1>0, <1>1 DEF S!ThreadsRun, S!ReadArguments
  <2> QED BY Zenon, <1>0, <2>1 DEF S!LoopValues
<1>2. ASSUME NEW f \in S!calc_funcs, UNCHANGED val_buffer,
             \A g \in S!calc_funcs \ {f} :
               /\ calc_pc'[g] = calc_pc[g]
               /\ val'[g] = val[g] /\ stat_i'[g] = stat_i[g],
             calc_pc'[f] = "loop" =>
               /\ f = "avg_calc" => S!SumOf(val'[f], stat_i'[f] - 1)
               /\ f = "min_calc" => S!LeastOf(val'[f], stat_i'[f] - 1)
               /\ f = "max_calc" => S!GreatestOf(val'[f], stat_i'[f] - 1)
      PROVE  S!LoopValues'
  <2>1. calc_pc'["avg_calc"] = "loop" =>
          S!SumOf(val'["avg_calc"], stat_i'["avg_calc"] - 1)
    BY Zenon, <1>0, <1>2 DEF S!LoopValues
  <2>2. calc_pc'["min_calc"] = "loop" =>
          S!LeastOf(val'["min_calc"], stat_i'["min_calc"] - 1)
    BY Zenon, <1>0, <1>2 DEF S!LoopValues
  <2>3. calc_pc'["max_calc"] = "loop" =>
          S!GreatestOf(val'["max_calc"], stat_i'["max_calc"] - 1)
    BY Zenon, <1>0, <1>2 DEF S!LoopValues
  <2> QED BY SMTT(30), <1>2, <2>1, <2>2, <2>3, LoopValuesNext
<1>3. ASSUME NEW f \in S!calc_funcs, S!Enter(f) PROVE S!LoopValues'
  <2>1. /\ UNCHANGED val_buffer
        /\ \A g \in S!calc_funcs \ {f} :
             /\ calc_pc'[g] = calc_pc[g]
             /\ val'[g] = val[g] /\ stat_i'[g] = stat_i[g]
        /\ stat_i'[f] = IF f = "avg_calc" THEN 1 ELSE 2
        /\ val'[f] = IF f = "avg_calc" THEN 0 ELSE val_buffer[1]
    BY SMTT(30), <1>0, <1>3 DEF S!TypeOK, S!Enter
  <2>2. 1 \in 1 .. S!val_buffer_len /\ val_buffer[1] \in Int
    <3>1. stat_main \in {"join", "print"}
      BY SMTT(30), <1>0, <1>3 DEF S!TypeOK, S!ThreadsRun, S!Enter
    <3>2. 1 \in 1 .. S!val_buffer_len
      BY SMTT(30), <1>0, <3>1 DEF S!TypeOK
    <3> QED BY SMTT(30), <1>0, <3>2, ValuesType
  <2>3. f = "avg_calc" => S!SumOf(val'[f], stat_i'[f] - 1)
    <3>1. 0 \in -(INT_MAX + 1) .. INT_MAX /\ 1 - 1 = 0
      BY SMTT(30), StatisticsAssumption, IntAssumption
    <3> QED BY Zenon, <1>0, <2>1, <3>1, FirstValuesSum, SumOfTotal
  <2>4. f # "avg_calc" => /\ S!LeastOf(val'[f], stat_i'[f] - 1)
                         /\ S!GreatestOf(val'[f], stat_i'[f] - 1)
    BY SMTT(30), <2>1, <2>2 DEF S!LeastOf, S!GreatestOf
  <2> QED BY SMTT(30), <1>2, <2>1, <2>3, <2>4
<1>4. ASSUME NEW f \in S!calc_funcs, S!Iterate(f) PROVE S!LoopValues'
  <2> DEFINE n == stat_i[f] - 1
             v == val_buffer[stat_i[f]]
  <2>1. /\ UNCHANGED val_buffer /\ calc_pc[f] = "loop"
        /\ \A g \in S!calc_funcs \ {f} :
             /\ calc_pc'[g] = calc_pc[g]
             /\ val'[g] = val[g] /\ stat_i'[g] = stat_i[g]
        /\ stat_i'[f] = stat_i[f] + 1
    BY SMTT(30), <1>0, <1>4 DEF S!TypeOK, S!Iterate
  <2>2. val'[f] = CASE f = "avg_calc" -> S!Narrow(val[f] + v)
                    [] f = "min_calc" -> IF val[f] > v THEN v ELSE val[f]
                    [] f = "max_calc" -> IF val[f] < v THEN v ELSE val[f]
    BY SMTT(30), <1>0, <1>4 DEF S!TypeOK, S!Iterate
  <2>3. /\ n \in 0 .. (S!val_buffer_len - 1) /\ n + 1 = stat_i[f] /\ v = val_buffer[n + 1]
        /\ stat_i'[f] - 1 = n + 1 /\ n + 1 \in 1 .. S!val_buffer_len
        /\ v \in Int /\ 1 <= v /\ v <= INT_MAX /\ val[f] \in Int
    <3>1. stat_i[f] \in 1 .. S!val_buffer_len
      BY <1>0, <1>4 DEF S!TypeOK, S!ThreadsRun, S!Iterate
    <3>2. v \in Int /\ 1 <= v /\ v <= INT_MAX
      BY Zenon, <1>0, <3>1, ValuesType
    <3>3. val[f] \in Int
      BY <1>0 DEF S!TypeOK
    <3>4. n + 1 = stat_i[f]
      BY <3>1
    <3>5. /\ n \in 0 .. (S!val_buffer_len - 1) /\ n + 1 \in 1 .. S!val_buffer_len
          /\ stat_i'[f] - 1 = n + 1
      BY SMTT(30), <1>0, <2>1, <3>1
    <3> QED BY Zenon, <3>2, <3>3, <3>4, <3>5
  <2> HIDE DEF n, v
  <2>4. ASSUME f = "avg_calc" PROVE S!SumOf(val'[f], n + 1)
    <3>1. val'[f] = S!Narrow(val[f] + v)
      BY SMTT(30), <2>2, <2>4
    <3>2. /\ Total(S!FirstValues(n + 1)) = Total(S!FirstValues(n)) + v
          /\ Total(S!FirstValues(n)) \in Int /\ 0 <= Total(S!FirstValues(n))
      <4>1. n \in 0 .. S!val_buffer_len
        BY SMTT(30), <1>0, <2>3
      <4> QED BY Zenon, <1>0, <2>3, <4>1, FirstValuesSum
    <3>3. /\ val[f] \in -(INT_MAX + 1) .. INT_MAX
          /\ Total(S!FirstValues(n)) <= INT_MAX => val[f] = Total(S!FirstValues(n))
      BY ZenonT(40), <1>0, <2>1, <2>4, SumOfTotal DEF S!LoopValues, n
    <3>4. val'[f] \in -(INT_MAX + 1) .. INT_MAX
      BY SMTT(30), <2>3, <3>1, NarrowIsInt
    <3>5. ASSUME Total(S!FirstValues(n + 1)) <= INT_MAX
          PROVE  val'[f] = Total(S!FirstValues(n + 1))
      <4>1. val[f] = Total(S!FirstValues(n))
        BY SMTT(30), <2>3, <3>2, <3>3, <3>5, StatisticsAssumption, IntAssumption
      <4>2. val[f] + v \in -(INT_MAX + 1) .. INT_MAX
        BY SMTT(30), <2>3, <3>2, <3>5, <4>1, StatisticsAssumption, IntAssumption
      <4>3. S!Narrow(val[f] + v) = val[f] + v
        BY Zenon, <4>2, NarrowOfInt
      <4> QED BY SMTT(30), <3>1, <3>2, <4>1, <4>3
    <3> QED BY Zenon, <3>4, <3>5, SumOfTotal
  <2>5. ASSUME f = "min_calc" PROVE S!LeastOf(val'[f], n + 1)
    <3>1. val'[f] = IF val[f] > v THEN v ELSE val[f]
      BY SMTT(30), <2>2, <2>5
    <3>2. S!LeastOf(val[f], n)
      BY Zenon, <1>0, <2>1, <2>5 DEF S!LoopValues, n
    <3>3. \A k \in 1 .. (n + 1) : val_buffer[k] \in Int /\ (k \in 1 .. n \/ k = n + 1)
      BY SMTT(30), <1>0, <2>3, ValuesType
    <3> QED BY SMTT(30), <1>0, <2>3, <3>1, <3>2, <3>3 DEF S!LeastOf
  <2>6. ASSUME f = "max_calc" PROVE S!GreatestOf(val'[f], n + 1)
    <3>1. val'[f] = IF val[f] < v THEN v ELSE val[f]
      BY SMTT(30), <2>2, <2>6
    <3>2. S!GreatestOf(val[f], n)
      BY ZenonT(40), <1>0, <2>1, <2>6 DEF S!LoopValues, n
    <3>3. \A k \in 1 .. (n + 1) : val_buffer[k] \in Int /\ (k \in 1 .. n \/ k = n + 1)
      BY <1>0, <2>3, ValuesType
    <3> QED BY SMTT(30), <1>0, <2>3, <3>1, <3>2, <3>3 DEF S!GreatestOf
  <2> QED BY SMTT(30), <1>2, <2>1, <2>3, <2>4, <2>5, <2>6
<1>5. ASSUME NEW f \in S!calc_funcs, S!StoreResult(f) PROVE S!LoopValues'
  <2>1. /\ UNCHANGED val_buffer /\ calc_pc'[f] = "exit"
        /\ \A g \in S!calc_funcs \ {f} :
             /\ calc_pc'[g] = calc_pc[g]
             /\ val'[g] = val[g] /\ stat_i'[g] = stat_i[g]
    BY SMTT(30), <1>0, <1>5 DEF S!TypeOK, S!StoreResult
  <2>2. calc_pc'[f] # "loop"
    BY <2>1
  <2> QED BY Zenon, <1>2, <2>1, <2>2
<1>6. CASE S!Join
  <2>1. UNCHANGED <<val_buffer, calc_pc, val, stat_i>>
    BY SMTT(30), <1>6 DEF S!Join
  <2> QED BY Zenon, <1>0, <2>1, LoopValuesNext DEF S!LoopValues
<1> QED BY <1>1, <1>3, <1>4, <1>5, <1>6 DEF S!Next

(* A step keeps the results of the threads that have exited. *)
LEMMA StatisticsResults ==
  ASSUME S!IInv, S!Next
  PROVE  S!Results'
<1>0. /\ S!TypeOK /\ S!ThreadsRun /\ S!LoopValues /\ S!Results
      /\ S!val_buffer_len \in Nat
      /\ {"avg_calc", "min_calc", "max_calc"} = S!calc_funcs
  BY ValuesType DEF S!IInv, S!calc_funcs
<1>1. CASE S!ReadArguments
  <2>1. \A f \in S!calc_funcs : calc_pc'[f] # "exit"
    BY SMTT(30), <1>0, <1>1 DEF S!ThreadsRun, S!ReadArguments
  <2> QED BY Zenon, <1>0, <2>1 DEF S!Results
<1>2. ASSUME UNCHANGED <<val_buffer, avg, min, max>>,
             \A f \in S!calc_funcs : calc_pc'[f] = "exit" => calc_pc[f] = "exit"
      PROVE  S!Results'
  <2>1. calc_pc'["avg_calc"] = "exit" =>
          avg'[2] = S!val_buffer_len /\ S!SumOf(avg'[1], S!val_buffer_len)
    BY Zenon, <1>0, <1>2 DEF S!Results
  <2>2. /\ calc_pc'["min_calc"] = "exit" => S!LeastOf(min', S!val_buffer_len)
        /\ calc_pc'["max_calc"] = "exit" => S!GreatestOf(max', S!val_buffer_len)
    BY Zenon, <1>0, <1>2 DEF S!Results
  <2> QED BY SMTT(30), <1>2, <2>1, <2>2, ResultsNext
<1>3. ASSUME NEW f \in S!calc_funcs, S!Enter(f) \/ S!Iterate(f) PROVE S!Results'
  <2>1. /\ UNCHANGED <<val_buffer, avg, min, max>>
        /\ \A g \in S!calc_funcs : calc_pc'[g] = "exit" => calc_pc[g] = "exit"
    BY SMTT(30), <1>0, <1>3 DEF S!TypeOK, S!Enter, S!Iterate
  <2> QED BY SMTT(30), <1>2, <2>1
<1>4. CASE S!Join
  BY SMTT(30), <1>2, <1>4 DEF S!Join
<1>5. ASSUME NEW f \in S!calc_funcs, S!StoreResult(f) PROVE S!Results'
  <2>1. /\ UNCHANGED val_buffer /\ calc_pc[f] = "loop"
        /\ \A g \in S!calc_funcs \ {f} : calc_pc'[g] = calc_pc[g]
    BY SMTT(30), <1>0, <1>5 DEF S!TypeOK, S!StoreResult
  <2>2. /\ avg' = IF f = "avg_calc" THEN <<val[f], S!val_buffer_len>> ELSE avg
        /\ min' = IF f = "min_calc" THEN val[f] ELSE min
        /\ max' = IF f = "max_calc" THEN val[f] ELSE max
    BY SMTT(30), <1>5 DEF S!StoreResult
  <2>3. stat_i[f] - 1 = S!val_buffer_len
    BY SMTT(30), <1>0, <1>5, <2>1 DEF S!TypeOK, S!ThreadsRun, S!StoreResult
  <2>4. calc_pc'["avg_calc"] = "exit" =>
          avg'[2] = S!val_buffer_len /\ S!SumOf(avg'[1], S!val_buffer_len)
    <3>1. CASE f = "avg_calc"
      <4>1. S!SumOf(val[f], S!val_buffer_len)
        BY Zenon, <1>0, <2>1, <2>3, <3>1 DEF S!LoopValues
      <4>2. avg'[1] = val[f] /\ avg'[2] = S!val_buffer_len
        BY SMTT(30), <2>2, <3>1
      <4> QED BY Zenon, <4>1, <4>2
    <3>2. CASE f # "avg_calc"
      <4>1. avg' = avg /\ calc_pc'["avg_calc"] = calc_pc["avg_calc"]
        BY SMTT(30), <1>0, <2>1, <2>2, <3>2
      <4> QED BY Zenon, <1>0, <4>1 DEF S!Results
    <3> QED BY SMTT(30), <3>1, <3>2
  <2>5. calc_pc'["min_calc"] = "exit" => S!LeastOf(min', S!val_buffer_len)
    <3>1. CASE f = "min_calc"
      BY Zenon, <1>0, <2>1, <2>2, <2>3, <3>1 DEF S!LoopValues
    <3>2. CASE f # "min_calc"
      <4>1. min' = min /\ calc_pc'["min_calc"] = calc_pc["min_calc"]
        BY SMTT(30), <1>0, <2>1, <2>2, <3>2
      <4> QED BY Zenon, <1>0, <4>1 DEF S!Results
    <3> QED BY SMTT(30), <3>1, <3>2
  <2>6. calc_pc'["max_calc"] = "exit" => S!GreatestOf(max', S!val_buffer_len)
    <3>1. CASE f = "max_calc"
      BY Zenon, <1>0, <2>1, <2>2, <2>3, <3>1 DEF S!LoopValues
    <3>2. CASE f # "max_calc"
      <4>1. max' = max /\ calc_pc'["max_calc"] = calc_pc["max_calc"]
        BY SMTT(30), <1>0, <2>1, <2>2, <3>2
      <4> QED BY Zenon, <1>0, <4>1 DEF S!Results
    <3> QED BY SMTT(30), <3>1, <3>2
  <2> QED BY SMTT(30), <2>1, <2>4, <2>5, <2>6, ResultsNext
<1> QED BY SMTT(30), <1>1, <1>3, <1>4, <1>5 DEF S!Next

(* The inductive invariant of problem 4.21. *)
THEOREM StatisticsInvariant == S!Spec => []S!IInv
<1>1. S!Init => S!IInv
  <2> SUFFICES ASSUME S!Init PROVE S!IInv
    OBVIOUS
  <2>1. S!TypeOK
    BY DEF S!Init, S!TypeOK, S!val_buffer_len
  <2>2. S!ThreadsRun
    BY DEF S!Init, S!ThreadsRun
  <2>3. \A f \in {"avg_calc", "min_calc", "max_calc"} : calc_pc[f] = "none"
    BY DEF S!Init, S!calc_funcs
  <2>4. S!LoopValues /\ S!Results
    BY Zenon, <2>3 DEF S!LoopValues, S!Results
  <2> QED BY SMTT(30), <2>1, <2>2, <2>4 DEF S!IInv
<1>2. S!IInv /\ [S!Next]_(S!vars) => S!IInv'
  <2> SUFFICES ASSUME S!IInv, [S!Next]_(S!vars) PROVE S!IInv'
    OBVIOUS
  <2>1. CASE S!Next
    BY SMTT(30), <2>1, StatisticsType, StatisticsThreads, StatisticsLoops,
        StatisticsResults
       DEF S!IInv
  <2>2. CASE UNCHANGED S!vars
    <3>1. /\ UNCHANGED <<val_buffer, avg, max, min>>
          /\ UNCHANGED <<stat_i, val, calc_pc, stat_main>>
      BY SMTT(30), <2>2 DEF S!vars
    <3>2. S!TypeOK' /\ S!ThreadsRun'
      BY <3>1 DEF S!IInv, S!TypeOK, S!ThreadsRun, S!val_buffer_len
    <3>3. S!LoopValues'
      BY Zenon, <3>1, LoopValuesNext DEF S!IInv, S!LoopValues
    <3>4. S!Results'
      BY ZenonT(40), <3>1, ResultsNext DEF S!IInv, S!Results
    <3> QED BY SMTT(30), <3>2, <3>3, <3>4 DEF S!IInv
  <2> QED BY <2>1, <2>2
<1> QED BY <1>1, <1>2, PTL DEF S!Spec

(* Problem 4.21 prints the least and the greatest of the values, and their *)
(* average exactly when their sum is an int.                               *)
THEOREM StatisticsPrinted == S!Spec => []StatisticsRight
<1>1. S!IInv => S!StatisticsRight
  <2> SUFFICES ASSUME S!IInv, stat_main = "print"
               PROVE  /\ min = S!Min(S!Range(val_buffer))
                      /\ max = S!Max(S!Range(val_buffer))
                      /\ avg[2] = S!val_buffer_len
                      /\ (avg[1] = Total(val_buffer)) <=>
                           (Total(val_buffer) <= INT_MAX)
    BY Zenon, StatisticsSum DEF S!StatisticsRight
  <2>1. /\ avg[2] = S!val_buffer_len /\ S!SumOf(avg[1], S!val_buffer_len)
        /\ S!LeastOf(min, S!val_buffer_len) /\ S!GreatestOf(max, S!val_buffer_len)
    BY Zenon DEF S!IInv, S!ThreadsRun, S!Results, S!calc_funcs
  <2>2. /\ S!val_buffer_len \in Nat /\ DOMAIN val_buffer = 1 .. S!val_buffer_len
        /\ \A k \in 1 .. S!val_buffer_len : val_buffer[k] \in Int
    BY SMTT(30), ValuesType DEF S!IInv, S!TypeOK
  <2>3. min = S!Min(S!Range(val_buffer))
    <3> DEFINE R == S!Range(val_buffer)
    <3>1. min \in R /\ (\A y \in R : min <= y) /\ R \subseteq Int
      BY SMTT(30), <2>1, <2>2 DEF S!LeastOf, S!Range
    <3> HIDE DEF R
    <3>2. S!Min(R) \in R /\ \A y \in R : S!Min(R) <= y
      BY Zenon, <3>1 DEF S!Min
    <3>3. \A z, w \in Int : z <= w /\ w <= z => z = w
      OBVIOUS
    <3> QED BY Zenon, <3>1, <3>2, <3>3 DEF R
  <2>4. max = S!Max(S!Range(val_buffer))
    <3> DEFINE R == S!Range(val_buffer)
    <3>1. max \in R /\ (\A y \in R : y <= max) /\ R \subseteq Int
      BY SMTT(30), <2>1, <2>2 DEF S!GreatestOf, S!Range
    <3> HIDE DEF R
    <3>2. S!Max(R) \in R /\ \A y \in R : y <= S!Max(R)
      BY Zenon, <3>1 DEF S!Max
    <3>3. \A z, w \in Int : z <= w /\ w <= z => z = w
      OBVIOUS
    <3> QED BY Zenon, <3>1, <3>2, <3>3 DEF R
  <2>5. (avg[1] = Total(val_buffer)) <=> (Total(val_buffer) <= INT_MAX)
    <3>1. S!FirstValues(S!val_buffer_len) = val_buffer
      BY FirstValuesSum DEF S!IInv
    <3>2. /\ avg[1] \in -(INT_MAX + 1) .. INT_MAX
          /\ Total(val_buffer) <= INT_MAX => avg[1] = Total(val_buffer)
      BY Zenon, <2>1, <3>1, SumOfTotal
    <3> QED BY SMTT(30), <3>2, StatisticsAssumption, IntAssumption
  <2> QED BY SMTT(30), <2>1, <2>3, <2>4, <2>5
<1>2. S!StatisticsRight => StatisticsRight
  BY DEF StatisticsRight
<1> QED BY <1>1, <1>2, StatisticsInvariant, PTL
=============================================================================
