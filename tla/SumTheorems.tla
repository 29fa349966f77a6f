----------------------------- MODULE SumTheorems -----------------------------
(***************************************************************************)
(* What SumFunctionOnSet adds up, whatever order it takes: the facts about *)
(* sums that the proofs about the components need.                         *)
(***************************************************************************)
EXTENDS Integers, FiniteSets, Functions, FiniteSetTheorems, WellFoundedInduction, TLAPS

-----------------------------------------------------------------------------
(* Induction, for a set of numbers.                                        *)

LEMMA HasFirst ==
  ASSUME NEW I \in SUBSET Nat, I # {}
  PROVE  \E i \in I : \A j \in I : i <= j
<1> DEFINE Less == {ss \in Nat \X Nat : ss[1] < ss[2]}
<1>1. IsWellFoundedOn(Less, Nat)
  BY NatLessThanWellFounded DEF OpToRel
<1>2. \E i \in I : \A j \in I : ~(<<j, i>> \in Less)
  <2> HIDE DEF Less
  <2> QED
    BY <1>1, WFMin
<1>3. ASSUME NEW i \in I, NEW j \in I, ~(<<j, i>> \in Less) PROVE i <= j
  BY <1>3
<1> QED
  BY <1>2, <1>3

LEMMA SetInduction ==
  ASSUME NEW T, 0 \in T, \A n \in Nat : n \in T => n + 1 \in T
  PROVE  Nat \subseteq T
<1> SUFFICES ASSUME Nat \ T # {} PROVE FALSE
  OBVIOUS
<1>1. PICK i \in Nat \ T : \A j \in Nat \ T : i <= j
  BY HasFirst
<1>2. i # 0 /\ i - 1 \in Nat
  BY <1>1
<1>3. i - 1 \in T
  BY <1>1, <1>2
<1> QED
  BY <1>1, <1>2, <1>3

-----------------------------------------------------------------------------
(* The recursive function exists.                                          *)

Element(s) == CHOOSE x \in s : TRUE

IsSum(f, w, D) ==
  f = [s \in D |-> IF s = {} THEN 0 ELSE w[Element(s)] + f[s \ {Element(s)}]]

LEMMA SumIsChosen ==
  ASSUME NEW w, NEW S
  PROVE  SumFunctionOnSet(w, S) = (CHOOSE h : IsSum(h, w, SUBSET S))[S]
  BY DEF SumFunctionOnSet, FoldFunctionOnSet, MapThenFoldSet, IsSum, Element

Small(S, n) == {s \in SUBSET S : Cardinality(s) <= n}

LEMMA ElementIn ==
  ASSUME NEW s, s # {}
  PROVE  Element(s) \in s
  BY DEF Element

LEMMA Smaller ==
  ASSUME NEW S, IsFiniteSet(S), NEW n \in Nat, NEW s \in Small(S, n + 1), s # {}
  PROVE  s \ {Element(s)} \in Small(S, n)
<1>1. IsFiniteSet(s) /\ Cardinality(s) \in Nat /\ Cardinality(s) <= n + 1 /\ s \subseteq S
  BY FS_Subset, FS_CardinalityType DEF Small
<1>2. Cardinality(s \ {Element(s)}) = Cardinality(s) - 1
  BY <1>1, ElementIn, FS_RemoveElement
<1> QED
  BY <1>1, <1>2 DEF Small

LEMMA SumExists ==
  ASSUME NEW w, NEW S, IsFiniteSet(S)
  PROVE  \E f : IsSum(f, w, SUBSET S)
<1> DEFINE T == {n \in Nat : \E f : IsSum(f, w, Small(S, n))}
<1>1. 0 \in T
  <2> DEFINE f == [s \in Small(S, 0) |-> 0]
  <2>1. \A s \in Small(S, 0) : s = {}
    <3> TAKE s \in Small(S, 0)
    <3>1. IsFiniteSet(s) /\ Cardinality(s) \in Nat /\ Cardinality(s) <= 0
      BY FS_Subset, FS_CardinalityType DEF Small
    <3> QED
      BY <3>1, FS_EmptySet
  <2>2. IsSum(f, w, Small(S, 0))
    BY <2>1 DEF IsSum
  <2> QED
    BY <2>2
<1>2. ASSUME NEW n \in Nat, n \in T PROVE n + 1 \in T
  <2>1. PICK f : IsSum(f, w, Small(S, n))
    BY <1>2
  <2> DEFINE g == [s \in Small(S, n + 1) |->
                     IF s = {} THEN 0 ELSE w[Element(s)] + f[s \ {Element(s)}]]
  <2>2. ASSUME NEW t \in Small(S, n) PROVE t \in Small(S, n + 1) /\ g[t] = f[t]
    <3>1. t \in Small(S, n + 1)
      <4>1. IsFiniteSet(t) /\ Cardinality(t) \in Nat /\ Cardinality(t) <= n
        BY FS_Subset, FS_CardinalityType DEF Small
      <4> QED
        BY <4>1 DEF Small
    <3>2. f[t] = IF t = {} THEN 0 ELSE w[Element(t)] + f[t \ {Element(t)}]
      BY <2>1 DEF IsSum
    <3> QED
      BY <3>1, <3>2
  <2> HIDE DEF g
  <2>3. ASSUME NEW s \in Small(S, n + 1), s # {}
        PROVE  f[s \ {Element(s)}] = g[s \ {Element(s)}]
    BY <2>2, <2>3, Smaller
  <2>4. g = [s \in Small(S, n + 1) |->
               IF s = {} THEN 0 ELSE w[Element(s)] + g[s \ {Element(s)}]]
    BY <2>3 DEF g
  <2>5. IsSum(g, w, Small(S, n + 1))
    BY <2>4 DEF IsSum
  <2> QED
    BY <2>5
<1>3. Nat \subseteq T
  <2> HIDE DEF T
  <2> QED
    BY <1>1, <1>2, SetInduction
<1>4. Cardinality(S) \in T
  BY <1>3, FS_CardinalityType
<1>5. Small(S, Cardinality(S)) = SUBSET S
  BY FS_Subset DEF Small
<1> QED
  BY <1>4, <1>5

Agree(v, w, S) == \A x \in S : v[x] = w[x]

(* It is the same whatever set it started with, and for weights that agree. *)
LEMMA SumIsUnique ==
  ASSUME NEW S, NEW U, NEW v, NEW w, NEW f, NEW g,
         IsSum(f, v, SUBSET S), IsSum(g, w, SUBSET U),
         IsFiniteSet(S), S \subseteq U, Agree(v, w, S)
  PROVE  f[S] = g[S]
<1> DEFINE T == {n \in Nat : \A s \in Small(S, n) : f[s] = g[s]}
<1>1. \A s \in SUBSET S :
        /\ f[s] = IF s = {} THEN 0 ELSE v[Element(s)] + f[s \ {Element(s)}]
        /\ g[s] = IF s = {} THEN 0 ELSE w[Element(s)] + g[s \ {Element(s)}]
  BY DEF IsSum
<1>2. 0 \in T
  <2> SUFFICES ASSUME NEW s \in Small(S, 0) PROVE f[s] = g[s]
    OBVIOUS
  <2>1. IsFiniteSet(s) /\ Cardinality(s) \in Nat /\ Cardinality(s) <= 0 /\ s \in SUBSET S
    BY FS_Subset, FS_CardinalityType DEF Small
  <2>2. s = {}
    BY <2>1, FS_EmptySet
  <2> QED
    BY <1>1, <2>1, <2>2
<1>3. ASSUME NEW n \in Nat, n \in T PROVE n + 1 \in T
  <2> SUFFICES ASSUME NEW s \in Small(S, n + 1) PROVE f[s] = g[s]
    OBVIOUS
  <2>1. s \in SUBSET S
    BY DEF Small
  <2>2. CASE s = {}
    BY <1>1, <2>1, <2>2
  <2>3. CASE s # {}
    <3>1. s \ {Element(s)} \in Small(S, n) /\ Element(s) \in S
      BY <2>1, <2>3, Smaller, ElementIn
    <3>2. f[s \ {Element(s)}] = g[s \ {Element(s)}] /\ v[Element(s)] = w[Element(s)]
      BY <1>3, <3>1 DEF Agree
    <3> QED
      BY <1>1, <2>1, <2>3, <3>2
  <2> QED
    BY <2>2, <2>3
<1>4. Nat \subseteq T
  <2> HIDE DEF T
  <2> QED
    BY <1>2, <1>3, SetInduction
<1>5. Cardinality(S) \in T /\ S \in Small(S, Cardinality(S))
  BY <1>4, FS_CardinalityType DEF Small
<1> QED
  BY <1>5

LEMMA SumIsSame ==
  ASSUME NEW S, NEW U, NEW w, NEW f, NEW g,
         IsSum(f, w, SUBSET S), IsSum(g, w, SUBSET U), IsFiniteSet(S), S \subseteq U
  PROVE  f[S] = g[S]
<1>1. Agree(w, w, S)
  BY DEF Agree
<1> QED
  BY <1>1, SumIsUnique

-----------------------------------------------------------------------------
(* Sums.                                                                   *)

Sum(w, S) == SumFunctionOnSet(w, S)

(* Only the weights of the members matter.                                 *)
LEMMA SumSame ==
  ASSUME NEW S, NEW v, NEW w, IsFiniteSet(S), \A x \in S : v[x] = w[x]
  PROVE  Sum(v, S) = Sum(w, S)
<1> DEFINE f == CHOOSE h : IsSum(h, v, SUBSET S)
           g == CHOOSE h : IsSum(h, w, SUBSET S)
<1>1. IsSum(f, v, SUBSET S) /\ IsSum(g, w, SUBSET S)
  BY SumExists
<1>2. Sum(v, S) = f[S] /\ Sum(w, S) = g[S]
  BY SumIsChosen DEF Sum
<1> HIDE DEF f, g
<1>3. f[S] = g[S]
  <2>1. S \subseteq S /\ Agree(v, w, S)
    BY DEF Agree
  <2> QED
    BY <1>1, <2>1, SumIsUnique
<1> QED
  BY <1>2, <1>3

LEMMA SumOfNone ==
  ASSUME NEW w
  PROVE  Sum(w, {}) = 0
<1> DEFINE f == CHOOSE h : IsSum(h, w, SUBSET {})
<1>1. IsSum(f, w, SUBSET {})
  BY SumExists, FS_EmptySet
<1>2. Sum(w, {}) = f[{}]
  BY SumIsChosen DEF Sum
<1> HIDE DEF f
<1> QED
  BY <1>1, <1>2 DEF IsSum

LEMMA SumOfElement ==
  ASSUME NEW w, NEW S, IsFiniteSet(S), S # {}
  PROVE  Sum(w, S) = w[Element(S)] + Sum(w, S \ {Element(S)})
<1> DEFINE R == S \ {Element(S)}
           f == CHOOSE h : IsSum(h, w, SUBSET S)
           g == CHOOSE h : IsSum(h, w, SUBSET R)
<1>1. IsFiniteSet(R)
  BY FS_RemoveElement
<1>2. IsSum(f, w, SUBSET S) /\ IsSum(g, w, SUBSET R)
  BY <1>1, SumExists
<1>3. Sum(w, S) = f[S] /\ Sum(w, R) = g[R]
  BY SumIsChosen DEF Sum
<1>4. R \subseteq S
  OBVIOUS
<1>5. f[S] = w[Element(S)] + f[R]
  BY <1>2 DEF IsSum
<1> HIDE DEF f, g, R
<1>6. g[R] = f[R]
  BY <1>1, <1>2, <1>4, SumIsSame
<1> QED
  BY <1>3, <1>5, <1>6 DEF R

LEMMA SumType ==
  ASSUME NEW w, NEW S, IsFiniteSet(S), \A x \in S : w[x] \in Int
  PROVE  Sum(w, S) \in Int
<1> DEFINE T == {n \in Nat : \A s \in Small(S, n) : Sum(w, s) \in Int}
<1>1. 0 \in T
  <2> SUFFICES ASSUME NEW s \in Small(S, 0) PROVE Sum(w, s) \in Int
    OBVIOUS
  <2>1. IsFiniteSet(s) /\ Cardinality(s) \in Nat /\ Cardinality(s) <= 0
    BY FS_Subset, FS_CardinalityType DEF Small
  <2>2. s = {}
    BY <2>1, FS_EmptySet
  <2> QED
    BY <2>2, SumOfNone
<1>2. ASSUME NEW n \in Nat, n \in T PROVE n + 1 \in T
  <2> SUFFICES ASSUME NEW s \in Small(S, n + 1) PROVE Sum(w, s) \in Int
    OBVIOUS
  <2>1. CASE s = {}
    BY <2>1, SumOfNone
  <2>2. CASE s # {}
    <3>1. s \ {Element(s)} \in Small(S, n) /\ Element(s) \in S /\ IsFiniteSet(s)
      BY <2>2, Smaller, ElementIn, FS_Subset DEF Small
    <3>2. Sum(w, s \ {Element(s)}) \in Int /\ w[Element(s)] \in Int
      BY <1>2, <3>1
    <3> QED
      BY <2>2, <3>1, <3>2, SumOfElement
  <2> QED
    BY <2>1, <2>2
<1>3. Nat \subseteq T
  <2> HIDE DEF T
  <2> QED
    BY <1>1, <1>2, SetInduction
<1>4. Cardinality(S) \in T /\ S \in Small(S, Cardinality(S))
  BY <1>3, FS_CardinalityType DEF Small
<1> QED
  BY <1>4

(* Any member can be taken out.                                            *)
LEMMA SumRemove ==
  ASSUME NEW w, NEW S, IsFiniteSet(S), \A x \in S : w[x] \in Int, NEW x \in S
  PROVE  Sum(w, S) = w[x] + Sum(w, S \ {x})
<1> DEFINE T == {n \in Nat : \A s \in Small(S, n) : \A y \in s :
                               Sum(w, s) = w[y] + Sum(w, s \ {y})}
<1>1. 0 \in T
  <2> SUFFICES ASSUME NEW s \in Small(S, 0) PROVE s = {}
    OBVIOUS
  <2>1. IsFiniteSet(s) /\ Cardinality(s) \in Nat /\ Cardinality(s) <= 0
    BY FS_Subset, FS_CardinalityType DEF Small
  <2> QED
    BY <2>1, FS_EmptySet
<1>2. ASSUME NEW n \in Nat, n \in T PROVE n + 1 \in T
  <2> SUFFICES ASSUME NEW s \in Small(S, n + 1), NEW y \in s
               PROVE  Sum(w, s) = w[y] + Sum(w, s \ {y})
    OBVIOUS
  <2> DEFINE e == Element(s)
  <2>1. s \ {e} \in Small(S, n) /\ e \in s /\ IsFiniteSet(s) /\ s \subseteq S
    BY Smaller, ElementIn, FS_Subset DEF Small
  <2>2. Sum(w, s) = w[e] + Sum(w, s \ {e})
    BY <2>1, SumOfElement
  <2> HIDE DEF e
  <2>3. CASE y = e
    BY <2>2, <2>3
  <2>4. CASE y # e
    <3>1. Sum(w, s \ {e}) = w[y] + Sum(w, (s \ {e}) \ {y})
      BY <1>2, <2>1, <2>4
    <3>2. s \ {y} \in Small(S, n) /\ e \in s \ {y}
      <4>1. /\ Cardinality(s \ {y}) = Cardinality(s) - 1
            /\ Cardinality(s \ {e}) = Cardinality(s) - 1
        BY <2>1, FS_RemoveElement
      <4> QED
        BY <2>1, <2>4, <4>1 DEF Small
    <3>3. Sum(w, s \ {y}) = w[e] + Sum(w, (s \ {y}) \ {e})
      BY <1>2, <3>2
    <3>4. (s \ {e}) \ {y} = (s \ {y}) \ {e}
      OBVIOUS
    <3>5. IsFiniteSet((s \ {e}) \ {y})
      BY <2>1, FS_RemoveElement
    <3> DEFINE rest == Sum(w, (s \ {e}) \ {y})
    <3>6. rest \in Int /\ w[e] \in Int /\ w[y] \in Int
      BY <2>1, <3>5, SumType
    <3>7. Sum(w, s \ {y}) = w[e] + rest
      BY <3>3, <3>4
    <3>8. Sum(w, s) = w[e] + (w[y] + rest)
      BY <2>2, <3>1
    <3> HIDE DEF rest
    <3> QED
      BY <3>6, <3>7, <3>8
  <2> QED
    BY <2>3, <2>4
<1>3. Nat \subseteq T
  <2> HIDE DEF T
  <2> QED
    BY <1>1, <1>2, SetInduction
<1>4. Cardinality(S) \in T /\ S \in Small(S, Cardinality(S))
  BY <1>3, FS_CardinalityType DEF Small
<1> QED
  BY <1>4

LEMMA SumAdd ==
  ASSUME NEW w, NEW S, IsFiniteSet(S), NEW x, x \notin S,
         \A y \in S \cup {x} : w[y] \in Int
  PROVE  Sum(w, S \cup {x}) = Sum(w, S) + w[x]
<1>1. IsFiniteSet(S \cup {x}) /\ (S \cup {x}) \ {x} = S
  BY FS_AddElement
<1>2. Sum(w, S \cup {x}) = w[x] + Sum(w, (S \cup {x}) \ {x})
  BY <1>1, SumRemove
<1>3. Sum(w, S) \in Int /\ w[x] \in Int
  BY SumType
<1>4. Sum(w, S \cup {x}) = w[x] + Sum(w, S)
  BY <1>1, <1>2
<1> QED
  BY <1>3, <1>4

(* One weight is changed.                                                  *)
LEMMA SumChange ==
  ASSUME NEW v, NEW w, NEW S, IsFiniteSet(S), NEW x \in S,
         \A y \in S : v[y] \in Int /\ w[y] \in Int,
         \A y \in S \ {x} : v[y] = w[y]
  PROVE  Sum(v, S) = Sum(w, S) - w[x] + v[x]
<1>1. Sum(v, S) = v[x] + Sum(v, S \ {x}) /\ Sum(w, S) = w[x] + Sum(w, S \ {x})
  BY SumRemove
<1>2. IsFiniteSet(S \ {x})
  BY FS_RemoveElement
<1>3. Sum(v, S \ {x}) = Sum(w, S \ {x}) /\ Sum(w, S \ {x}) \in Int
  BY <1>2, SumSame, SumType
<1> QED
  BY <1>1, <1>3

(* Two weights are added.                                                  *)
LEMMA SumOfSums ==
  ASSUME NEW u, NEW v, NEW w, NEW S, IsFiniteSet(S),
         \A y \in S : v[y] \in Int /\ w[y] \in Int /\ u[y] = v[y] + w[y]
  PROVE  Sum(u, S) = Sum(v, S) + Sum(w, S)
<1> DEFINE T == {n \in Nat : \A s \in Small(S, n) : Sum(u, s) = Sum(v, s) + Sum(w, s)}
<1>1. 0 \in T
  <2> SUFFICES ASSUME NEW s \in Small(S, 0) PROVE Sum(u, s) = Sum(v, s) + Sum(w, s)
    OBVIOUS
  <2>1. IsFiniteSet(s) /\ Cardinality(s) \in Nat /\ Cardinality(s) <= 0
    BY FS_Subset, FS_CardinalityType DEF Small
  <2>2. s = {}
    BY <2>1, FS_EmptySet
  <2> QED
    BY <2>2, SumOfNone
<1>2. ASSUME NEW n \in Nat, n \in T PROVE n + 1 \in T
  <2> SUFFICES ASSUME NEW s \in Small(S, n + 1) PROVE Sum(u, s) = Sum(v, s) + Sum(w, s)
    OBVIOUS
  <2>1. CASE s = {}
    BY <2>1, SumOfNone
  <2>2. CASE s # {}
    <3> DEFINE e == Element(s)
    <3>1. s \ {e} \in Small(S, n) /\ e \in S /\ IsFiniteSet(s) /\ s \subseteq S
      BY <2>2, Smaller, ElementIn, FS_Subset DEF Small
    <3>2. Sum(u, s \ {e}) = Sum(v, s \ {e}) + Sum(w, s \ {e})
      BY <1>2, <3>1
    <3>3. /\ Sum(u, s) = u[e] + Sum(u, s \ {e})
          /\ Sum(v, s) = v[e] + Sum(v, s \ {e})
          /\ Sum(w, s) = w[e] + Sum(w, s \ {e})
      BY <2>2, <3>1, SumOfElement
    <3>4. IsFiniteSet(s \ {e})
      BY <3>1, FS_RemoveElement
    <3>5. Sum(v, s \ {e}) \in Int /\ Sum(w, s \ {e}) \in Int
      BY <3>1, <3>4, SumType
    <3> HIDE DEF e
    <3> QED
      BY <3>1, <3>2, <3>3, <3>5
  <2> QED
    BY <2>1, <2>2
<1>3. Nat \subseteq T
  <2> HIDE DEF T
  <2> QED
    BY <1>1, <1>2, SetInduction
<1>4. Cardinality(S) \in T /\ S \in Small(S, Cardinality(S))
  BY <1>3, FS_CardinalityType DEF Small
<1> QED
  BY <1>4

(* Weights that are not negative.                                          *)
LEMMA SumNat ==
  ASSUME NEW w, NEW S, IsFiniteSet(S), \A x \in S : w[x] \in Nat
  PROVE  Sum(w, S) \in Nat
<1> DEFINE T == {n \in Nat : \A s \in Small(S, n) : Sum(w, s) \in Nat}
<1>1. 0 \in T
  <2> SUFFICES ASSUME NEW s \in Small(S, 0) PROVE Sum(w, s) \in Nat
    OBVIOUS
  <2>1. IsFiniteSet(s) /\ Cardinality(s) \in Nat /\ Cardinality(s) <= 0
    BY FS_Subset, FS_CardinalityType DEF Small
  <2>2. s = {}
    BY <2>1, FS_EmptySet
  <2> QED
    BY <2>2, SumOfNone
<1>2. ASSUME NEW n \in Nat, n \in T PROVE n + 1 \in T
  <2> SUFFICES ASSUME NEW s \in Small(S, n + 1) PROVE Sum(w, s) \in Nat
    OBVIOUS
  <2>1. CASE s = {}
    BY <2>1, SumOfNone
  <2>2. CASE s # {}
    <3>1. s \ {Element(s)} \in Small(S, n) /\ Element(s) \in S /\ IsFiniteSet(s)
      BY <2>2, Smaller, ElementIn, FS_Subset DEF Small
    <3>2. Sum(w, s \ {Element(s)}) \in Nat /\ w[Element(s)] \in Nat
      BY <1>2, <3>1
    <3> QED
      BY <2>2, <3>1, <3>2, SumOfElement
  <2> QED
    BY <2>1, <2>2
<1>3. Nat \subseteq T
  <2> HIDE DEF T
  <2> QED
    BY <1>1, <1>2, SetInduction
<1>4. Cardinality(S) \in T /\ S \in Small(S, Cardinality(S))
  BY <1>3, FS_CardinalityType DEF Small
<1> QED
  BY <1>4

(* What two sets that share nothing add up to.                             *)
LEMMA SumUnion ==
  ASSUME NEW w, NEW S, NEW R, IsFiniteSet(S), IsFiniteSet(R), S \cap R = {},
         \A x \in S \cup R : w[x] \in Int
  PROVE  Sum(w, S \cup R) = Sum(w, S) + Sum(w, R)
<1> DEFINE T == {n \in Nat : \A s \in Small(R, n) : Sum(w, S \cup s) = Sum(w, S) + Sum(w, s)}
<1>0. Sum(w, S) \in Int
  BY SumType
<1>1. 0 \in T
  <2> SUFFICES ASSUME NEW s \in Small(R, 0)
               PROVE  Sum(w, S \cup s) = Sum(w, S) + Sum(w, s)
    OBVIOUS
  <2>1. IsFiniteSet(s) /\ Cardinality(s) \in Nat /\ Cardinality(s) <= 0
    BY FS_Subset, FS_CardinalityType DEF Small
  <2>2. s = {} /\ S \cup {} = S
    BY <2>1, FS_EmptySet
  <2>3. Sum(w, S \cup s) = Sum(w, S) /\ Sum(w, s) = 0
    BY <2>2, SumOfNone
  <2> QED
    BY <1>0, <2>3
<1>2. ASSUME NEW n \in Nat, n \in T PROVE n + 1 \in T
  <2> SUFFICES ASSUME NEW s \in Small(R, n + 1)
               PROVE  Sum(w, S \cup s) = Sum(w, S) + Sum(w, s)
    OBVIOUS
  <2>1. CASE s = {}
    <3>1. S \cup s = S /\ Sum(w, s) = 0
      BY <2>1, SumOfNone
    <3> QED
      BY <1>0, <3>1
  <2>2. CASE s # {}
    <3> DEFINE e == Element(s)
               r == s \ {e}
    <3>1. r \in Small(R, n) /\ e \in s /\ IsFiniteSet(s) /\ s \subseteq R
      BY <2>2, Smaller, ElementIn, FS_Subset DEF Small
    <3>2. IsFiniteSet(r) /\ e \notin r /\ s = r \cup {e} /\ r \subseteq R
      BY <3>1, FS_RemoveElement
    <3> HIDE DEF e, r
    <3>3. Sum(w, S \cup r) = Sum(w, S) + Sum(w, r)
      BY <1>2, <3>1
    <3>4. Sum(w, r \cup {e}) = Sum(w, r) + w[e]
      BY <3>1, <3>2, SumAdd
    <3>5. Sum(w, (S \cup r) \cup {e}) = Sum(w, S \cup r) + w[e]
      <4>1. IsFiniteSet(S \cup r) /\ e \notin S \cup r
        BY <3>1, <3>2, FS_Union
      <4>2. \A y \in (S \cup r) \cup {e} : w[y] \in Int
        BY <3>1, <3>2
      <4> QED
        BY <4>1, <4>2, SumAdd
    <3>6. (S \cup r) \cup {e} = S \cup s
      BY <3>2
    <3>7. Sum(w, r) \in Int /\ w[e] \in Int
      BY <3>1, <3>2, SumType
    <3>8. Sum(w, S \cup s) = Sum(w, S \cup r) + w[e] /\ Sum(w, s) = Sum(w, r) + w[e]
      BY <3>2, <3>4, <3>5, <3>6
    <3> QED
      BY <1>0, <3>3, <3>7, <3>8
  <2> QED
    BY <2>1, <2>2
<1>3. Nat \subseteq T
  <2> HIDE DEF T
  <2> QED
    BY <1>1, <1>2, SetInduction
<1>4. Cardinality(R) \in T /\ R \in Small(R, Cardinality(R))
  BY <1>3, FS_CardinalityType DEF Small
<1> QED
  BY <1>4

(* Fewer things that are not negative add up to no more.                   *)
LEMMA SumMonotone ==
  ASSUME NEW w, NEW S, NEW R, IsFiniteSet(S), R \subseteq S, \A x \in S : w[x] \in Nat
  PROVE  Sum(w, R) <= Sum(w, S)
<1> DEFINE rest == S \ R
<1>1. IsFiniteSet(R) /\ IsFiniteSet(rest) /\ R \cap rest = {} /\ R \cup rest = S
  BY FS_Subset
<1>2. rest \subseteq S
  OBVIOUS
<1> HIDE DEF rest
<1>3. \A x \in R \cup rest : w[x] \in Int
  BY <1>1
<1>4. Sum(w, R \cup rest) = Sum(w, R) + Sum(w, rest)
  BY <1>1, <1>3, SumUnion
<1>5. Sum(w, R) \in Nat /\ Sum(w, rest) \in Nat
  BY <1>1, <1>2, SumNat
<1>6. Sum(w, S) = Sum(w, R) + Sum(w, rest)
  BY <1>1, <1>4
<1> QED
  BY <1>5, <1>6

(* No more than so much each.                                              *)
LEMMA SumBound ==
  ASSUME NEW w, NEW S, IsFiniteSet(S), NEW m \in Nat,
         \A x \in S : w[x] \in Nat /\ w[x] <= m
  PROVE  Sum(w, S) <= m * Cardinality(S)
<1> DEFINE T == {n \in Nat : \A s \in Small(S, n) : Sum(w, s) <= m * Cardinality(s)}
<1>1. 0 \in T
  <2> SUFFICES ASSUME NEW s \in Small(S, 0) PROVE Sum(w, s) <= m * Cardinality(s)
    OBVIOUS
  <2>1. IsFiniteSet(s) /\ Cardinality(s) \in Nat /\ Cardinality(s) <= 0
    BY FS_Subset, FS_CardinalityType DEF Small
  <2>2. s = {}
    BY <2>1, FS_EmptySet
  <2>3. Sum(w, s) = 0 /\ Cardinality(s) = 0
    BY <2>2, SumOfNone, FS_EmptySet
  <2> QED
    BY <2>3
<1>2. ASSUME NEW n \in Nat, n \in T PROVE n + 1 \in T
  <2> SUFFICES ASSUME NEW s \in Small(S, n + 1) PROVE Sum(w, s) <= m * Cardinality(s)
    OBVIOUS
  <2>1. CASE s = {}
    <3>1. Sum(w, s) = 0 /\ Cardinality(s) = 0
      BY <2>1, SumOfNone, FS_EmptySet
    <3> QED
      BY <3>1
  <2>2. CASE s # {}
    <3> DEFINE e == Element(s)
    <3>1. s \ {e} \in Small(S, n) /\ e \in S /\ e \in s /\ IsFiniteSet(s)
      BY <2>2, Smaller, ElementIn, FS_Subset DEF Small
    <3>2. Sum(w, s) = w[e] + Sum(w, s \ {e})
      BY <2>2, <3>1, SumOfElement
    <3>3. IsFiniteSet(s \ {e}) /\ Cardinality(s \ {e}) = Cardinality(s) - 1
      BY <3>1, FS_RemoveElement
    <3>4. Cardinality(s) \in Nat /\ Cardinality(s \ {e}) \in Nat
      BY <3>1, <3>3, FS_CardinalityType
    <3>5. Sum(w, s \ {e}) <= m * Cardinality(s \ {e})
      BY <1>2, <3>1
    <3>6. Sum(w, s \ {e}) \in Nat
      <4>1. \A x \in s \ {e} : w[x] \in Nat
        BY <3>1 DEF Small
      <4> QED
        BY <3>3, <4>1, SumNat
    <3> DEFINE c == Cardinality(s)
    <3>7. m * (c - 1) + m = m * c
      BY <3>4
    <3>8. Sum(w, s \ {e}) <= m * (c - 1)
      BY <3>3, <3>5
    <3>9. m * (c - 1) \in Int /\ m * c \in Int
      BY <3>4
    <3> HIDE DEF e, c
    <3> QED
      BY <3>1, <3>2, <3>6, <3>7, <3>8, <3>9 DEF c
  <2> QED
    BY <2>1, <2>2
<1>3. Nat \subseteq T
  <2> HIDE DEF T
  <2> QED
    BY <1>1, <1>2, SetInduction
<1>4. Cardinality(S) \in T /\ S \in Small(S, Cardinality(S))
  BY <1>3, FS_CardinalityType DEF Small
<1> QED
  BY <1>4

LEMMA SumOfZeros ==
  ASSUME NEW w, NEW S, IsFiniteSet(S), \A x \in S : w[x] = 0
  PROVE  Sum(w, S) = 0
<1>1. Sum(w, S) \in Nat /\ Sum(w, S) <= 0 * Cardinality(S)
  BY SumNat, SumBound
<1> QED
  BY <1>1, FS_CardinalityType

(* Whoever has no weight does not count.                                   *)
LEMMA SumOver ==
  ASSUME NEW v, NEW w, NEW S, NEW R, IsFiniteSet(S), R \subseteq S,
         \A x \in R : v[x] \in Int /\ w[x] = v[x], \A x \in S \ R : w[x] = 0
  PROVE  Sum(v, R) = Sum(w, S)
<1> DEFINE rest == S \ R
<1>1. IsFiniteSet(R) /\ IsFiniteSet(rest) /\ R \cap rest = {} /\ R \cup rest = S
  BY FS_Subset
<1>2. \A x \in rest : w[x] = 0
  OBVIOUS
<1> HIDE DEF rest
<1>3. \A x \in R \cup rest : w[x] \in Int
  BY <1>2
<1>4. Sum(w, R \cup rest) = Sum(w, R) + Sum(w, rest)
  BY <1>1, <1>3, SumUnion
<1>5. Sum(w, S) = Sum(w, R) + Sum(w, rest)
  BY <1>1, <1>4
<1>6. Sum(w, rest) = 0 /\ Sum(w, R) \in Int
  BY <1>1, <1>2, <1>3, SumOfZeros, SumType
<1>7. Sum(v, R) = Sum(w, R)
  BY <1>1, SumSame
<1> QED
  BY <1>5, <1>6, <1>7

-----------------------------------------------------------------------------
(* A finite set of numbers has a last one, and what a function makes of a  *)
(* finite set is finite.                                                   *)

LEMMA HasLast ==
  ASSUME NEW S \in SUBSET Nat, IsFiniteSet(S), S # {}
  PROVE  \E m \in S : \A y \in S : y <= m
<1> DEFINE Last(s) == \E m \in s : \A y \in s : y <= m
           T == {n \in Nat : \A s \in Small(S, n) : s = {} \/ Last(s)}
<1>1. 0 \in T
  <2> SUFFICES ASSUME NEW s \in Small(S, 0) PROVE s = {}
    OBVIOUS
  <2>1. IsFiniteSet(s) /\ Cardinality(s) \in Nat /\ Cardinality(s) <= 0
    BY FS_Subset, FS_CardinalityType DEF Small
  <2> QED
    BY <2>1, FS_EmptySet
<1>2. ASSUME NEW n \in Nat, n \in T PROVE n + 1 \in T
  <2> SUFFICES ASSUME NEW s \in Small(S, n + 1), s # {} PROVE Last(s)
    OBVIOUS
  <2> DEFINE e == Element(s)
  <2>1. s \ {e} \in Small(S, n) /\ e \in s /\ s \subseteq Nat
    BY Smaller, ElementIn DEF Small
  <2> HIDE DEF e
  <2>2. CASE s \ {e} = {}
    <3>1. \A y \in s : y <= e
      BY <2>1, <2>2
    <3> QED
      BY <2>1, <3>1
  <2>3. CASE s \ {e} # {}
    <3>1. PICK m \in s \ {e} : \A y \in s \ {e} : y <= m
      BY <1>2, <2>1, <2>3
    <3>2. CASE e <= m
      <4>1. \A y \in s : y <= m
        BY <2>1, <3>1, <3>2
      <4> QED
        BY <3>1, <4>1
    <3>3. CASE ~(e <= m)
      <4>1. \A y \in s : y <= e
        BY <2>1, <3>1, <3>3
      <4> QED
        BY <2>1, <4>1
    <3> QED
      BY <3>2, <3>3
  <2> QED
    BY <2>2, <2>3
<1>3. Nat \subseteq T
  <2> HIDE DEF T
  <2> QED
    BY <1>1, <1>2, SetInduction
<1>4. Cardinality(S) \in T /\ S \in Small(S, Cardinality(S))
  BY <1>3, FS_CardinalityType DEF Small
<1> QED
  BY <1>4

LEMMA ImageIsFinite ==
  ASSUME NEW f, NEW S, IsFiniteSet(S)
  PROVE  IsFiniteSet({f[x] : x \in S})
<1> DEFINE T == {f[x] : x \in S}
           g == [x \in S |-> f[x]]
<1>1. g \in Surjection(S, T)
  BY DEF Surjection
<1> HIDE DEF T, g
<1>2. IsFiniteSet(T)
  BY <1>1, FS_Surjection
<1> QED
  BY <1>2 DEF T


(* A sequence that is shifted has the same sum.                            *)
Shifted(v, w, k, m) == \A i \in 1 .. m : v[i] = w[k + i] /\ v[i] \in Int

LEMMA SumShift ==
  ASSUME NEW v, NEW w, NEW k \in Nat, NEW m \in Nat, Shifted(v, w, k, m)
  PROVE  Sum(v, 1 .. m) = Sum(w, k + 1 .. k + m)
<1> DEFINE T == {j \in Nat : j <= m => Sum(v, 1 .. j) = Sum(w, k + 1 .. k + j)}
<1>1. 0 \in T
  <2>1. 1 .. 0 = {} /\ k + 1 .. k + 0 = {}
    OBVIOUS
  <2> QED
    BY <2>1, SumOfNone
<1>2. ASSUME NEW j \in Nat, j \in T
      PROVE  j + 1 \in T
  <2> SUFFICES ASSUME j + 1 <= m
               PROVE  Sum(v, 1 .. j + 1) = Sum(w, k + 1 .. k + (j + 1))
    OBVIOUS
  <2>1. /\ 1 .. j + 1 = (1 .. j) \cup {j + 1} /\ j + 1 \notin 1 .. j
        /\ k + 1 .. k + (j + 1) = (k + 1 .. k + j) \cup {k + (j + 1)}
        /\ k + (j + 1) \notin k + 1 .. k + j
    OBVIOUS
  <2>2. IsFiniteSet(1 .. j) /\ IsFiniteSet(k + 1 .. k + j)
    BY FS_Interval
  <2>3. \A i \in (1 .. j) \cup {j + 1} : v[i] \in Int
    BY DEF Shifted
  <2>4. \A i \in (k + 1 .. k + j) \cup {k + (j + 1)} : w[i] \in Int
    <3> SUFFICES ASSUME NEW i \in k + 1 .. k + (j + 1)
                 PROVE  w[i] \in Int
      BY <2>1
    <3>1. i - k \in 1 .. m /\ k + (i - k) = i
      OBVIOUS
    <3> QED
      BY <3>1 DEF Shifted
  <2>5. Sum(v, 1 .. j + 1) = Sum(v, 1 .. j) + v[j + 1]
    <3> DEFINE I == 1 .. j
               a == j + 1
    <3>1. IsFiniteSet(I) /\ a \notin I /\ \A i \in I \cup {a} : v[i] \in Int
      BY <2>1, <2>2, <2>3
    <3> HIDE DEF I, a
    <3>2. Sum(v, I \cup {a}) = Sum(v, I) + v[a]
      BY <3>1, SumAdd
    <3> QED
      BY <2>1, <3>2 DEF I, a
  <2>6. Sum(w, k + 1 .. k + (j + 1)) = Sum(w, k + 1 .. k + j) + w[k + (j + 1)]
    <3> DEFINE I == k + 1 .. k + j
               a == k + (j + 1)
    <3>1. IsFiniteSet(I) /\ a \notin I /\ \A i \in I \cup {a} : w[i] \in Int
      BY <2>1, <2>2, <2>4
    <3> HIDE DEF I, a
    <3>2. Sum(w, I \cup {a}) = Sum(w, I) + w[a]
      BY <3>1, SumAdd
    <3> QED
      BY <2>1, <3>2 DEF I, a
  <2>7. v[j + 1] = w[k + (j + 1)]
    BY DEF Shifted
  <2> QED
    BY <1>2, <2>5, <2>6, <2>7
<1> QED
  <2>1. m \in T
    <3> HIDE DEF T
    <3> QED
      BY <1>1, <1>2, SetInduction
  <2> QED
    BY <2>1

(* A range adds up to the parts of it before and from any of its places.   *)
Whole(w, S) == \A i \in S : w[i] \in Int

LEMMA SumSplit ==
  ASSUME NEW w, NEW a \in Int, NEW b \in Int, NEW m \in Int, a <= b, b <= m + 1,
         Whole(w, a .. m)
  PROVE  Sum(w, a .. m) = Sum(w, a .. b - 1) + Sum(w, b .. m)
<1> DEFINE S == a .. b - 1
           R == b .. m
<1>1. a .. m = S \cup R /\ S \cap R = {}
  OBVIOUS
<1>2. IsFiniteSet(S) /\ IsFiniteSet(R)
  BY FS_Interval
<1>3. \A i \in S \cup R : w[i] \in Int
  BY <1>1 DEF Whole
<1> HIDE DEF S, R
<1>4. Sum(w, S \cup R) = Sum(w, S) + Sum(w, R)
  BY <1>1, <1>2, <1>3, SumUnion
<1> QED
  BY <1>1, <1>4 DEF S, R
=============================================================================
