------------------------------ MODULE Sums_Proofs ------------------------------
(***************************************************************************)
(* Facts about sums over finite sets, for the models in which sizes, bytes *)
(* or CPU times are added up.  The sum is a recursive function over the    *)
(* subsets of a set; that the recursion has a solution, and everything     *)
(* that follows by induction, rests on the well-foundedness of < and of    *)
(* strict inclusion: a set of counterexamples would have a least one.      *)
(***************************************************************************)
EXTENDS Sums, FiniteSetTheorems, TLAPS

(* The recursion behind Total. *)
SomeOf(s) == CHOOSE x \in s : TRUE

SumStep(f, g, s) == IF s = {} THEN 0 ELSE f[SomeOf(s)] + g[s \ {SomeOf(s)}]

SumOver(f, S) == CHOOSE g : g = [s \in SUBSET S |-> SumStep(f, g, s)]

(* Total is the value of that recursion at the whole set. *)
LEMMA TotalIsSum == ASSUME NEW f, NEW S PROVE Total(f, S) = SumOver(f, S)[S]
BY DEF Total, MapThenSumSet, MapThenFoldSet, SumOver, SumStep, SomeOf

(* Induction over the natural numbers, for a set of them. *)
LEMMA NumbersFromZero ==
  ASSUME NEW A \in SUBSET Nat, 0 \in A, \A n \in A : n + 1 \in A
  PROVE  A = Nat
<1> SUFFICES ASSUME Nat \ A # {} PROVE FALSE
  OBVIOUS
<1>1. PICK n \in Nat \ A : \A m \in Nat \ A : <<m, n>> \notin OpToRel(<, Nat)
  BY NatLessThanWellFounded, WFMin
<1>2. \A m \in Nat \ A : ~(m < n)
  BY <1>1 DEF OpToRel
<1>3. n # 0 /\ n - 1 \in Nat
  OBVIOUS
<1>4. n - 1 \in A
  BY <1>2, <1>3
<1> QED
  BY <1>4

(* Induction over the parts of a finite set, for a family of them. *)
LEMMA SetsFromParts ==
  ASSUME NEW S, IsFiniteSet(S), NEW F,
         \A T \in SUBSET S : (\A U \in SUBSET T : U # T => U \in F) => T \in F
  PROVE  S \in F
<1> DEFINE Bad == (SUBSET S) \ F
<1> SUFFICES ASSUME S \notin F PROVE FALSE
  OBVIOUS
<1>1. FiniteSubsetsOf(S) = SUBSET S
  BY FS_FiniteSubsetsOfFinite
<1>2. Bad # {} /\ Bad \subseteq FiniteSubsetsOf(S)
  BY <1>1
<1>3. IsWellFoundedOn(StrictSubsetOrdering(S), FiniteSubsetsOf(S))
  BY FS_StrictSubsetOrderingWellFounded
<1>4. PICK T \in Bad : \A U \in Bad : <<U, T>> \notin StrictSubsetOrdering(S)
  <2> HIDE DEF Bad
  <2> QED
    BY <1>2, <1>3, WFMin
<1>5. \A U \in SUBSET T : U # T => U \in F
  BY <1>4 DEF StrictSubsetOrdering
<1> QED
  BY <1>5

-------------------------------------------------------------------------------
(* A set that is not empty yields one of its members. *)
LEMMA SomeIsMember == ASSUME NEW s, s # {} PROVE SomeOf(s) \in s
BY DEF SomeOf

(* The recursive definition of the fold has a solution. *)
LEMMA SumExists ==
  ASSUME NEW f, NEW S, IsFiniteSet(S)
  PROVE  \E g : g = [s \in SUBSET S |-> SumStep(f, g, s)]
<1> DEFINE Small(n) == {s \in SUBSET S : Cardinality(s) <= n}
           A == {n \in Nat : \E g : g = [s \in Small(n) |-> SumStep(f, g, s)]}
<1>1. \A s \in SUBSET S : IsFiniteSet(s) /\ Cardinality(s) \in Nat
  BY FS_Subset, FS_CardinalityType
<1>2. 0 \in A
  <2> DEFINE g == [s \in Small(0) |-> 0]
  <2>1. \A s \in Small(0) : s = {}
    BY <1>1, FS_EmptySet
  <2>2. g = [s \in Small(0) |-> SumStep(f, g, s)]
    BY <2>1 DEF SumStep
  <2> QED
    BY <2>2
<1>3. ASSUME NEW n \in A PROVE n + 1 \in A
  <2>1. PICK g : g = [s \in Small(n) |-> SumStep(f, g, s)]
    BY <1>3
  <2> DEFINE h == [s \in Small(n + 1) |-> SumStep(f, g, s)]
  <2>2. ASSUME NEW s \in Small(n + 1), s # {} PROVE s \ {SomeOf(s)} \in Small(n)
    <3>1. Cardinality(s \ {SomeOf(s)}) = Cardinality(s) - 1
      BY <1>1, <2>2, SomeIsMember, FS_RemoveElement
    <3> QED
      BY <1>1, <3>1
  <2>3. Small(n) \subseteq Small(n + 1)
    BY <1>1
  <2>4. \A s \in Small(n) : h[s] = g[s]
    BY <2>1, <2>3
  <2>5. \A s \in Small(n + 1) : SumStep(f, g, s) = SumStep(f, h, s)
    BY <2>2, <2>4 DEF SumStep
  <2>6. h = [s \in Small(n + 1) |-> SumStep(f, h, s)]
    BY <2>5
  <2>7. \E k : k = [s \in Small(n + 1) |-> SumStep(f, k, s)]
    <3> HIDE DEF h, Small
    <3> QED
      BY <2>6
  <2>8. n + 1 \in Nat
    BY <1>3
  <2> HIDE DEF Small
  <2> QED
    BY <2>7, <2>8
<1>4. Cardinality(S) \in A
  <2> HIDE DEF A
  <2>1. A \subseteq Nat
    BY DEF A
  <2>2. A = Nat
    BY <1>2, <1>3, <2>1, NumbersFromZero
  <2> QED
    BY <2>2, FS_CardinalityType
<1>5. Small(Cardinality(S)) = SUBSET S
  BY FS_Subset
<1> QED
  BY <1>4, <1>5

(* So the function chosen is one. *)
LEMMA SumIsSolution ==
  ASSUME NEW f, NEW S, IsFiniteSet(S)
  PROVE  \A s \in SUBSET S : SumOver(f, S)[s] = SumStep(f, SumOver(f, S), s)
<1>1. SumOver(f, S) = [s \in SUBSET S |-> SumStep(f, SumOver(f, S), s)]
  BY SumExists DEF SumOver
<1> QED
  BY <1>1

(* The value at a set does not depend on the set it is taken from. *)
LEMMA SumIsLocal ==
  ASSUME NEW f, NEW S, IsFiniteSet(S), NEW T \in SUBSET S
  PROVE  SumOver(f, S)[T] = Total(f, T)
<1> DEFINE F == {s \in SUBSET T : SumOver(f, S)[s] = SumOver(f, T)[s]}
<1>1. IsFiniteSet(T)
  BY FS_Subset
<1>2. ASSUME NEW s \in SUBSET T, \A u \in SUBSET s : u # s => u \in F PROVE s \in F
  <2>1. SumOver(f, S)[s] = SumStep(f, SumOver(f, S), s) /\ SumOver(f, T)[s] = SumStep(f, SumOver(f, T), s)
    BY <1>1, SumIsSolution
  <2>2. CASE s = {}
    BY <2>1, <2>2 DEF SumStep
  <2>3. CASE s # {}
    <3>1. SomeOf(s) \in s
      BY <2>3, SomeIsMember
    <3>2. s \ {SomeOf(s)} \in F
      BY <1>2, <3>1
    <3> QED
      BY <2>1, <2>3, <3>2 DEF SumStep
  <2> QED
    BY <2>2, <2>3
<1>3. T \in F
  <2> HIDE DEF F
  <2> QED
    BY <1>1, <1>2, SetsFromParts
<1> QED
  BY <1>3, TotalIsSum

(* Sums satisfy the equation that they are defined by. *)
LEMMA TotalUnfolds ==
  ASSUME NEW f, NEW S, IsFiniteSet(S)
  PROVE  Total(f, S) = IF S = {} THEN 0 ELSE f[SomeOf(S)] + Total(f, S \ {SomeOf(S)})
<1>1. Total(f, S) = SumStep(f, SumOver(f, S), S)
  BY TotalIsSum, SumIsSolution
<1>2. S # {} => SumOver(f, S)[S \ {SomeOf(S)}] = Total(f, S \ {SomeOf(S)})
  BY SumIsLocal
<1> QED
  BY <1>1, <1>2 DEF SumStep
-------------------------------------------------------------------------------
(* A sum of integers is an integer. *)
LEMMA TotalIsInt ==
  ASSUME NEW f, NEW S, IsFiniteSet(S), \A x \in S : f[x] \in Int
  PROVE  Total(f, S) \in Int
<1> DEFINE F == {s \in SUBSET S : Total(f, s) \in Int}
<1>1. ASSUME NEW s \in SUBSET S, \A u \in SUBSET s : u # s => u \in F PROVE s \in F
  <2>1. IsFiniteSet(s)
    BY FS_Subset
  <2>2. s # {} => SomeOf(s) \in s /\ s \ {SomeOf(s)} \in F
    BY <1>1, SomeIsMember
  <2>3. s # {} => Total(f, s \ {SomeOf(s)}) \in Int
    BY <2>2
  <2>4. Total(f, s) \in Int
    <3> HIDE DEF F
    <3>1. Total(f, s) = IF s = {} THEN 0 ELSE f[SomeOf(s)] + Total(f, s \ {SomeOf(s)})
      BY <2>1, TotalUnfolds
    <3>2. CASE s = {}
      BY <3>1, <3>2
    <3>3. CASE s # {}
      <4>1. f[SomeOf(s)] \in Int
        BY <2>2, <3>3
      <4> QED
        BY <2>3, <3>1, <3>3, <4>1
    <3> QED
      BY <3>2, <3>3
  <2> QED
    BY <2>4
<1>2. S \in F
  <2> HIDE DEF F
  <2> QED
    BY <1>1, SetsFromParts
<1> QED
  BY <1>2

(* Whichever element is taken out, the sum loses its value. *)
LEMMA TotalWithout ==
  ASSUME NEW f, NEW S, IsFiniteSet(S), \A x \in S : f[x] \in Int, NEW e \in S
  PROVE  Total(f, S) = f[e] + Total(f, S \ {e})
<1> DEFINE F == {s \in SUBSET S : \A x \in s : Total(f, s) = f[x] + Total(f, s \ {x})}
<1>1. ASSUME NEW s \in SUBSET S, \A u \in SUBSET s : u # s => u \in F PROVE s \in F
  <2> SUFFICES ASSUME NEW x \in s PROVE Total(f, s) = f[x] + Total(f, s \ {x})
    OBVIOUS
  <2> DEFINE y == SomeOf(s)
  <2>1. IsFiniteSet(s) /\ y \in s
    BY FS_Subset, SomeIsMember
  <2>2. Total(f, s) = f[y] + Total(f, s \ {y})
    BY <2>1, TotalUnfolds
  <2> HIDE DEF y
  <2>3. CASE x # y
    <3>1. s \ {y} \in F /\ s \ {x} \in F
      BY <1>1, <2>1
    <3>2. Total(f, s \ {y}) = f[x] + Total(f, (s \ {y}) \ {x})
      BY <2>3, <3>1
    <3>3. Total(f, s \ {x}) = f[y] + Total(f, (s \ {x}) \ {y})
      BY <2>1, <2>3, <3>1
    <3>4. (s \ {x}) \ {y} = (s \ {y}) \ {x}
      OBVIOUS
    <3>5. IsFiniteSet((s \ {y}) \ {x}) /\ \A z \in (s \ {y}) \ {x} : f[z] \in Int
      BY <2>1, FS_Subset
    <3>6. Total(f, (s \ {y}) \ {x}) \in Int /\ f[x] \in Int /\ f[y] \in Int
      BY <2>1, <3>5, TotalIsInt
    <3> QED
      <4>1. Total(f, s \ {x}) = f[y] + Total(f, (s \ {y}) \ {x})
        BY <3>3, <3>4, Zenon
      <4> QED
        BY <2>2, <3>2, <3>6, <4>1
  <2> QED
    BY <2>2, <2>3
<1>2. S \in F
  <2> HIDE DEF F
  <2> QED
    BY <1>1, SetsFromParts
<1> QED
  BY <1>2

(* The sum of nothing is 0. *)
LEMMA TotalOfNone == ASSUME NEW f PROVE Total(f, {}) = 0
BY FS_EmptySet, TotalUnfolds

(* Larger values do not make a sum smaller. *)
LEMMA TotalGrows ==
  ASSUME NEW f, NEW g, NEW S, IsFiniteSet(S),
         \A x \in S : f[x] \in Int /\ g[x] \in Int /\ f[x] <= g[x]
  PROVE  Total(f, S) <= Total(g, S)
<1> DEFINE F == {s \in SUBSET S : Total(f, s) <= Total(g, s)}
<1>1. ASSUME NEW s \in SUBSET S, \A u \in SUBSET s : u # s => u \in F PROVE s \in F
  <2>1. IsFiniteSet(s)
    BY FS_Subset
  <2>2. CASE s = {}
    BY <2>2, TotalOfNone
  <2>3. CASE s # {}
    <3>1. PICK x \in s : TRUE
      BY <2>3
    <3>2. s \ {x} \in F
      BY <1>1, <3>1
    <3>3. IsFiniteSet(s \ {x})
      BY <2>1, FS_Subset
    <3>4. Total(f, s \ {x}) \in Int /\ Total(g, s \ {x}) \in Int
      BY <3>3, TotalIsInt
    <3>5. /\ Total(f, s) = f[x] + Total(f, s \ {x})
          /\ Total(g, s) = g[x] + Total(g, s \ {x})
      BY <2>1, <3>1, TotalWithout
    <3>6. Total(f, s) <= Total(g, s)
      BY <3>1, <3>2, <3>4, <3>5
    <3> QED
      BY <3>6
  <2> QED
    BY <2>2, <2>3
<1>2. S \in F
  <2> HIDE DEF F
  <2> QED
    BY <1>1, SetsFromParts
<1> QED
  BY <1>2

(* Values that agree give sums that agree. *)
LEMMA TotalAgrees ==
  ASSUME NEW f, NEW g, NEW S, IsFiniteSet(S), \A x \in S : f[x] \in Int /\ f[x] = g[x]
  PROVE  Total(f, S) = Total(g, S)
<1>1. Total(f, S) <= Total(g, S) /\ Total(g, S) <= Total(f, S)
  BY TotalGrows
<1>2. Total(f, S) \in Int /\ Total(g, S) \in Int
  BY TotalIsInt
<1> QED
  BY <1>1, <1>2

(* The sum over two sets that have nothing in common. *)
LEMMA TotalOfBoth ==
  ASSUME NEW f, NEW S, NEW T, IsFiniteSet(S), IsFiniteSet(T), S \cap T = {},
         \A x \in S \cup T : f[x] \in Int
  PROVE  Total(f, S \cup T) = Total(f, S) + Total(f, T)
<1> DEFINE F == {s \in SUBSET S : Total(f, s \cup T) = Total(f, s) + Total(f, T)}
<1>0. Total(f, T) \in Int
  BY TotalIsInt
<1>1. ASSUME NEW s \in SUBSET S, \A u \in SUBSET s : u # s => u \in F PROVE s \in F
  <2>1. IsFiniteSet(s) /\ IsFiniteSet(s \cup T)
    BY FS_Subset, FS_Union
  <2>2. CASE s = {}
    BY <1>0, <2>2, TotalOfNone
  <2>3. CASE s # {}
    <3>1. PICK x \in s : TRUE
      BY <2>3
    <3>2. s \ {x} \in F
      BY <1>1, <3>1
    <3>3. IsFiniteSet(s \ {x})
      BY <2>1, FS_Subset
    <3>4. Total(f, s \ {x}) \in Int
      BY <3>3, TotalIsInt
    <3>5. Total(f, s) = f[x] + Total(f, s \ {x})
      BY <2>1, <3>1, TotalWithout
    <3>6. Total(f, s \cup T) = f[x] + Total(f, (s \cup T) \ {x})
      BY <2>1, <3>1, TotalWithout
    <3>7. (s \cup T) \ {x} = (s \ {x}) \cup T
      BY <3>1
    <3>8. Total(f, s \cup T) = Total(f, s) + Total(f, T)
      <4>1. Total(f, s \cup T) = f[x] + Total(f, (s \ {x}) \cup T)
        BY <3>6, <3>7, Zenon
      <4>2. Total(f, (s \ {x}) \cup T) = Total(f, s \ {x}) + Total(f, T)
        BY <3>2
      <4>3. f[x] \in Int
        BY <3>1
      <4> QED
        BY <1>0, <3>4, <3>5, <4>1, <4>2, <4>3
    <3> QED
      BY <3>8
  <2> QED
    BY <2>2, <2>3
<1>2. S \in F
  <2> HIDE DEF F
  <2> QED
    BY <1>1, SetsFromParts
<1> QED
  BY <1>2

(* A sum of natural numbers is a natural number. *)
LEMMA TotalIsNat ==
  ASSUME NEW f, NEW S, IsFiniteSet(S), \A x \in S : f[x] \in Nat
  PROVE  Total(f, S) \in Nat
<1> DEFINE zero == [x \in S |-> 0]
           F == {s \in SUBSET S : Total(zero, s) = 0}
<1>1. ASSUME NEW s \in SUBSET S, \A u \in SUBSET s : u # s => u \in F PROVE s \in F
  <2>1. IsFiniteSet(s)
    BY FS_Subset
  <2>2. s # {} => SomeOf(s) \in s /\ s \ {SomeOf(s)} \in F
    BY <1>1, SomeIsMember
  <2>3. Total(zero, s) = 0
    <3>1. s # {} => zero[SomeOf(s)] = 0 /\ Total(zero, s \ {SomeOf(s)}) = 0
      BY <2>2
    <3> HIDE DEF zero
    <3> QED
      BY <2>1, <3>1, TotalUnfolds
  <2> QED
    BY <2>3
<1>2. S \in F
  <2> HIDE DEF F
  <2> QED
    BY <1>1, SetsFromParts
<1>3. \A x \in S : zero[x] \in Int /\ zero[x] <= f[x]
  OBVIOUS
<1> HIDE DEF zero
<1>4. Total(zero, S) <= Total(f, S) /\ Total(f, S) \in Int
  BY <1>3, TotalGrows, TotalIsInt
<1> QED
  BY <1>2, <1>4

(* More elements do not make a sum of natural numbers smaller. *)
LEMMA TotalOfPart ==
  ASSUME NEW f, NEW S, IsFiniteSet(S), \A x \in S : f[x] \in Nat, NEW T \in SUBSET S
  PROVE  Total(f, T) <= Total(f, S)
<1>1. IsFiniteSet(T) /\ IsFiniteSet(S \ T)
  BY FS_Subset
<1>2. Total(f, T) \in Nat /\ Total(f, S \ T) \in Nat
  BY <1>1, TotalIsNat
<1>3. T \cup (S \ T) = S /\ T \cap (S \ T) = {}
  OBVIOUS
<1>4. Total(f, T \cup (S \ T)) = Total(f, T) + Total(f, S \ T)
  BY <1>1, <1>3, TotalOfBoth
<1>5. Total(f, S) = Total(f, T) + Total(f, S \ T)
  BY <1>3, <1>4, Zenon
<1> QED
  BY <1>2, <1>5

(* Parts of a set that have nothing in common sum up to no more than it. *)
LEMMA TotalOfParts ==
  ASSUME NEW f, NEW S, IsFiniteSet(S), \A x \in S : f[x] \in Nat,
         NEW K, IsFiniteSet(K), NEW M, \A k \in K : M[k] \subseteq S,
         \A j, k \in K : j # k => M[j] \cap M[k] = {}
  PROVE  Total([k \in K |-> Total(f, M[k])], K) <= Total(f, S)
<1> DEFINE sum == [k \in K |-> Total(f, M[k])]
           Rest(s) == {x \in S : \E k \in s : x \in M[k]}
           F == {s \in SUBSET K : Total(sum, s) <= Total(f, Rest(s))}
<1>1. \A s : IsFiniteSet(Rest(s)) /\ Total(f, Rest(s)) \in Nat
  <2> TAKE s
  <2>1. Rest(s) \subseteq S
    OBVIOUS
  <2> HIDE DEF Rest
  <2>2. IsFiniteSet(Rest(s))
    BY <2>1, FS_Subset
  <2> QED
    BY <2>1, <2>2, TotalIsNat
<1>2. \A k \in K : sum[k] \in Nat /\ IsFiniteSet(M[k]) /\ sum[k] = Total(f, M[k])
  <2> TAKE k \in K
  <2>1. IsFiniteSet(M[k])
    BY FS_Subset
  <2>2. Total(f, M[k]) \in Nat
    BY <2>1, TotalIsNat
  <2> QED
    BY <2>1, <2>2
<1> HIDE DEF sum
<1>3. ASSUME NEW s \in SUBSET K, \A u \in SUBSET s : u # s => u \in F PROVE s \in F
  <2>1. IsFiniteSet(s)
    BY FS_Subset
  <2>2. CASE s = {}
    <3>1. Total(sum, s) = 0
      BY <2>2, TotalOfNone
    <3>2. Total(f, Rest(s)) \in Nat
      BY <1>1
    <3> QED
      BY <3>1, <3>2
  <2>3. CASE s # {}
    <3>1. PICK k \in s : TRUE
      BY <2>3
    <3>2. Total(sum, s \ {k}) <= Total(f, Rest(s \ {k}))
      BY <1>3, <3>1
    <3>3. IsFiniteSet(s \ {k}) /\ \A j \in s \ {k} : sum[j] \in Int
      BY <1>2, <2>1, FS_Subset
    <3>4. Total(sum, s \ {k}) \in Int
      BY <3>3, TotalIsInt
    <3>5. Total(sum, s) = sum[k] + Total(sum, s \ {k})
      BY <1>2, <2>1, <3>1, TotalWithout
    <3>6. Rest(s) = M[k] \cup Rest(s \ {k}) /\ M[k] \cap Rest(s \ {k}) = {}
      BY <3>1
    <3>7. M[k] \cup Rest(s \ {k}) \subseteq S
      BY <3>1
    <3>8. Total(f, Rest(s)) = Total(f, M[k]) + Total(f, Rest(s \ {k}))
      <4>1. IsFiniteSet(M[k]) /\ IsFiniteSet(Rest(s \ {k}))
        BY <1>1, <1>2, <3>1
      <4>2. \A x \in M[k] \cup Rest(s \ {k}) : f[x] \in Int
        BY <3>7
      <4> HIDE DEF Rest
      <4>3. Total(f, M[k] \cup Rest(s \ {k})) = Total(f, M[k]) + Total(f, Rest(s \ {k}))
        BY <3>6, <4>1, <4>2, TotalOfBoth
      <4> QED
        BY <3>6, <4>3, Zenon
    <3>9. Total(sum, s) <= Total(f, Rest(s))
      <4>1. Total(f, Rest(s \ {k})) \in Nat /\ sum[k] \in Nat /\ sum[k] = Total(f, M[k])
        BY <1>1, <1>2, <3>1
      <4> HIDE DEF Rest
      <4> QED
        BY <3>2, <3>4, <3>5, <3>8, <4>1
    <3> QED
      BY <3>9
  <2> QED
    BY <2>2, <2>3
<1>4. K \in F
  <2> HIDE DEF F
  <2> QED
    BY <1>3, SetsFromParts
<1>5. Rest(K) \in SUBSET S
  OBVIOUS
<1>6. Total(sum, K) <= Total(f, Rest(K)) /\ Total(f, Rest(K)) <= Total(f, S)
  <2>1. Total(sum, K) <= Total(f, Rest(K))
    BY <1>4
  <2> HIDE DEF Rest
  <2> QED
    BY <1>5, <2>1, TotalOfPart
<1>7. Total(sum, K) \in Int /\ Total(f, Rest(K)) \in Int /\ Total(f, S) \in Int
  BY <1>1, <1>2, TotalIsInt
<1>8. Total(sum, K) <= Total(f, S)
  <2> HIDE DEF Rest
  <2> QED
    BY <1>6, <1>7
<1> QED
  BY <1>8 DEF sum
===============================================================================
