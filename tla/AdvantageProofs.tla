--------------------------- MODULE AdvantageProofs ---------------------------
(***************************************************************************)
(* The advantage estimators, for every batch, every choice of tokens and   *)
(* every reward, value and energy: what is computed over masks with holes  *)
(* is what the formulas give for the selected tokens alone, and the        *)
(* baselines cancel out within a group.                                    *)
(***************************************************************************)
EXTENDS Advantages, FiniteSetTheorems, WellFoundedInduction, TLAPS

-----------------------------------------------------------------------------
(* Induction. *)

LEMMA Least ==
  ASSUME NEW T \in SUBSET Nat, T # {}
  PROVE  \E m \in T : \A n \in T : m <= n
<1> DEFINE R == OpToRel(<, Nat)
<1>1. IsWellFoundedOn(R, Nat)
  BY NatLessThanWellFounded
<1>2. \A n, m \in Nat : n < m => <<n, m>> \in R
  BY DEF OpToRel
<1> HIDE DEF R
<1>3. PICK m \in T : \A n \in T : ~(<<n, m>> \in R)
  BY <1>1, WFMin
<1>4. ASSUME NEW n \in T PROVE m <= n
  <2>1. n \in Nat /\ m \in Nat /\ ~(<<n, m>> \in R)
    BY <1>3
  <2>2. ~(n < m)
    BY <1>2, <2>1
  <2> QED
    BY <2>1, <2>2
<1> QED
  BY <1>4

LEMMA UpTo ==
  ASSUME NEW n \in Nat
  PROVE  IsFiniteSet(1 .. n) /\ Cardinality(1 .. n) = n
<1>1. 1 \in Int /\ n \in Int
  OBVIOUS
<1>2. IsFiniteSet(1 .. n) /\ Cardinality(1 .. n) = IF 1 > n THEN 0 ELSE n - 1 + 1
  BY <1>1, FS_Interval
<1> QED
  BY <1>2

\* A set of numbers that holds 0 and with every number the next one.
LEMMA Inductive ==
  ASSUME NEW I, 0 \in I, \A n \in Nat : n \in I => n + 1 \in I
  PROVE  \A n \in Nat : n \in I
<1> DEFINE T == Nat \ I
<1> SUFFICES ASSUME T # {} PROVE FALSE
  OBVIOUS
<1>1. PICK m \in T : \A n \in T : m <= n
  BY Least
<1>2. m \in Nat /\ m \notin I /\ m # 0
  BY <1>1
<1>3. m - 1 \in Nat /\ m - 1 \notin T
  BY <1>1, <1>2
<1>4. m - 1 + 1 \in I
  BY <1>3
<1> QED
  BY <1>2, <1>4

LEMMA Smaller ==
  ASSUME NEW X, IsFiniteSet(X)
  PROVE  /\ \A s \in SUBSET X : IsFiniteSet(s) /\ Cardinality(s) \in Nat
         /\ \A s \in SUBSET X : Cardinality(s) = 0 <=> s = {}
         /\ \A s \in SUBSET X : \A x \in s : /\ s \ {x} \in SUBSET X
                                             /\ Cardinality(s \ {x}) = Cardinality(s) - 1
<1>1. \A s \in SUBSET X : IsFiniteSet(s) /\ Cardinality(s) \in Nat
  BY FS_Subset, FS_CardinalityType
<1>2. \A s \in SUBSET X : Cardinality(s) = 0 <=> s = {}
  BY <1>1, FS_EmptySet
<1>3. ASSUME NEW s \in SUBSET X, NEW x \in s
      PROVE  s \ {x} \in SUBSET X /\ Cardinality(s \ {x}) = Cardinality(s) - 1
  BY <1>1, FS_RemoveElement
<1> QED
  BY <1>1, <1>2, <1>3

\* A set of subsets that holds the empty one and with every subset those with
\* one element more.
Grows(P, X) == {} \in P /\ \A s \in SUBSET X : \A x \in X \ s : s \in P => s \cup {x} \in P

LEMMA SetInduction ==
  ASSUME NEW X, IsFiniteSet(X), NEW P, Grows(P, X)
  PROVE  \A s \in SUBSET X : s \in P
<1> DEFINE I == {n \in Nat : \A s \in SUBSET X : Cardinality(s) = n => s \in P}
<1>1. /\ \A s \in SUBSET X : Cardinality(s) \in Nat /\ (Cardinality(s) = 0 <=> s = {})
      /\ \A s \in SUBSET X : \A x \in s : /\ s \ {x} \in SUBSET X
                                          /\ Cardinality(s \ {x}) = Cardinality(s) - 1
  BY Smaller
<1>2. 0 \in I
  BY <1>1 DEF Grows
<1>3. ASSUME NEW n \in Nat, n \in I PROVE n + 1 \in I
  <2> SUFFICES ASSUME NEW s \in SUBSET X, Cardinality(s) = n + 1 PROVE s \in P
    OBVIOUS
  <2>1. PICK x \in s : TRUE
    BY <1>1
  <2> DEFINE r == s \ {x}
  <2>2. r \in SUBSET X /\ Cardinality(r) = n
    BY <1>1
  <2>3. r \in P
    BY <1>3, <2>2
  <2>4. x \in X \ r /\ r \cup {x} = s
    OBVIOUS
  <2> HIDE DEF r, I
  <2> QED
    BY <2>2, <2>3, <2>4 DEF Grows
<1>4. \A n \in Nat : n \in I
  <2> HIDE DEF I
  <2> QED
    BY <1>2, <1>3, Inductive
<1> QED
  BY <1>1, <1>4

-----------------------------------------------------------------------------
(* Sums. *)

First(s) == CHOOSE x \in s : TRUE

\* The elements of a set are added one at a time.
SumRule(h, f, X) ==
  h = [s \in SUBSET X |-> IF s = {} THEN 0 ELSE f[First(s)] + h[s \ {First(s)}]]

Sums(h, f, X) == f \in [X -> Int] /\ h \in [SUBSET X -> Int] /\ SumRule(h, f, X)

LEMMA SumExists ==
  ASSUME NEW X, IsFiniteSet(X), NEW f \in [X -> Int]
  PROVE  \E h : Sums(h, f, X)
<1> DEFINE L(n) == {s \in SUBSET X : Cardinality(s) <= n}
           Step(s, g) == IF s = {} THEN 0 ELSE f[First(s)] + g[s \ {First(s)}]
           I == {n \in Nat : \E g \in [L(n) -> Int] : \A s \in L(n) : g[s] = Step(s, g)}
<1>1. \A s \in SUBSET X : Cardinality(s) \in Nat /\ (Cardinality(s) = 0 <=> s = {})
  BY Smaller
<1>2. \A s \in SUBSET X : s # {} => /\ First(s) \in X /\ s \ {First(s)} \in SUBSET X
                                    /\ Cardinality(s \ {First(s)}) = Cardinality(s) - 1
  <2>1. \A s : s # {} => First(s) \in s
    BY DEF First
  <2> QED
    BY <2>1, Smaller
<1>3. 0 \in I
  <2> DEFINE g == [s \in L(0) |-> 0]
  <2>1. \A s \in L(0) : s = {}
    BY <1>1
  <2>2. g \in [L(0) -> Int] /\ \A s \in L(0) : g[s] = Step(s, g)
    BY <2>1
  <2> QED
    BY <2>2
<1>4. ASSUME NEW n \in Nat, n \in I PROVE n + 1 \in I
  <2>1. PICK g \in [L(n) -> Int] : \A s \in L(n) : g[s] = Step(s, g)
    BY <1>4
  <2> DEFINE k == [s \in L(n + 1) |-> Step(s, g)]
  <2>2. \A s \in L(n + 1) : s # {} => s \ {First(s)} \in L(n) /\ s \ {First(s)} \in L(n + 1) /\ First(s) \in X
    BY <1>1, <1>2
  <2>3. \A s \in L(n) : s \in L(n + 1)
    BY <1>1
  <2> HIDE DEF L
  <2>4. \A s \in L(n) : k[s] = g[s]
    BY <2>1, <2>3
  <2>5. k \in [L(n + 1) -> Int]
    <3> SUFFICES ASSUME NEW s \in L(n + 1) PROVE Step(s, g) \in Int
      OBVIOUS
    <3>1. s # {} => g[s \ {First(s)}] \in Int /\ f[First(s)] \in Int
      BY <2>1, <2>2
    <3> QED
      BY <3>1
  <2>6. \A s \in L(n + 1) : k[s] = Step(s, k)
    <3> SUFFICES ASSUME NEW s \in L(n + 1) PROVE Step(s, g) = Step(s, k)
      OBVIOUS
    <3>1. s # {} => g[s \ {First(s)}] = k[s \ {First(s)}]
      BY <2>2, <2>4
    <3> QED
      BY <3>1
  <2> HIDE DEF k, Step
  <2>7. n + 1 \in Nat
    OBVIOUS
  <2> QED
    BY <2>5, <2>6, <2>7
<1> DEFINE c == Cardinality(X)
<1>5. c \in I /\ L(c) = SUBSET X
  <2>1. \A n \in Nat : n \in I
    <3> HIDE DEF I
    <3> QED
      BY <1>3, <1>4, Inductive
  <2>2. X \in SUBSET X
    OBVIOUS
  <2> QED
    BY <1>1, <2>1, <2>2, FS_Subset
<1> HIDE DEF L, c
<1>6. PICK g \in [SUBSET X -> Int] : \A s \in SUBSET X : g[s] = Step(s, g)
  BY <1>5
<1>7. g = [s \in SUBSET X |-> Step(s, g)]
  BY <1>6
<1> QED
  BY <1>7 DEF Sums, SumRule

Adds(h, f, X) == h[{}] = 0 /\ \A s \in SUBSET X : \A x \in s : h[s] = f[x] + h[s \ {x}]

\* Whatever element comes first: one element and the sum of the others.
LEMMA SumFacts ==
  ASSUME NEW X, IsFiniteSet(X), NEW f, NEW h, Sums(h, f, X)
  PROVE  Adds(h, f, X)
<1> DEFINE Fine(s) == \A x \in s : h[s] = f[x] + h[s \ {x}]
           I == {n \in Nat : \A s \in SUBSET X : Cardinality(s) <= n => Fine(s)}
<1>0. f \in [X -> Int] /\ h \in [SUBSET X -> Int] /\ SumRule(h, f, X)
  BY DEF Sums
<1>1. \A s \in SUBSET X : Cardinality(s) \in Nat /\ (Cardinality(s) = 0 <=> s = {})
  BY Smaller
<1>2. \A s \in SUBSET X : \A x \in s : /\ s \ {x} \in SUBSET X /\ f[x] \in Int
                                       /\ Cardinality(s \ {x}) = Cardinality(s) - 1
  BY <1>0, Smaller
<1>3. h[{}] = 0 /\ \A s \in SUBSET X : s # {} => h[s] = f[First(s)] + h[s \ {First(s)}]
  BY <1>0 DEF SumRule
<1>4. 0 \in I
  BY <1>1
<1>5. ASSUME NEW n \in Nat, n \in I PROVE n + 1 \in I
  <2> HIDE DEF Fine
  <2>0. \A s \in SUBSET X : Cardinality(s) <= n => Fine(s)
    BY <1>5
  <2> SUFFICES ASSUME NEW s \in SUBSET X, Cardinality(s) <= n + 1 PROVE Fine(s)
    OBVIOUS
  <2> HIDE DEF I
  <2> SUFFICES ASSUME NEW x \in s PROVE h[s] = f[x] + h[s \ {x}]
    BY DEF Fine
  <2> DEFINE p == First(s)
  <2>1. p \in s
    BY DEF First
  <2>2. h[s] = f[p] + h[s \ {p}]
    BY <1>3
  <2> HIDE DEF p
  <2>3. CASE x = p
    BY <2>2, <2>3
  <2>4. CASE x # p
    <3>1. x \in s \ {p} /\ p \in s \ {x} /\ (s \ {p}) \ {x} = (s \ {x}) \ {p}
      BY <2>1, <2>4
    <3>2. /\ s \ {p} \in SUBSET X /\ Cardinality(s \ {p}) <= n
          /\ s \ {x} \in SUBSET X /\ Cardinality(s \ {x}) <= n
          /\ (s \ {p}) \ {x} \in SUBSET X
      BY <1>1, <1>2, <2>1
    <3>3. Fine(s \ {p}) /\ Fine(s \ {x})
      BY <2>0, <3>2
    <3>4. h[s \ {p}] = f[x] + h[(s \ {p}) \ {x}] /\ h[s \ {x}] = f[p] + h[(s \ {x}) \ {p}]
      BY <3>1, <3>3 DEF Fine
    <3>5. PICK b \in Int : b = h[(s \ {p}) \ {x}]
      BY <1>0, <3>2
    <3>6. f[p] \in Int /\ f[x] \in Int
      BY <1>2, <2>1
    <3>7. h[s] = f[p] + (f[x] + b) /\ h[s \ {x}] = f[p] + b
      BY <2>2, <3>1, <3>4, <3>5
    <3> QED
      BY <3>5, <3>6, <3>7
  <2> QED
    BY <2>3, <2>4
<1>6. ASSUME NEW s \in SUBSET X PROVE Fine(s)
  <2>1. \A n \in Nat : n \in I
    <3> HIDE DEF I
    <3> QED
      BY <1>4, <1>5, Inductive
  <2> HIDE DEF Fine
  <2> QED
    BY <1>1, <2>1
<1> QED
  BY <1>3, <1>6 DEF Adds

\* The sum of f over a part of its domain.
Over(f, s) == Total([x \in s |-> f[x]])

LEMMA TotalSums ==
  ASSUME NEW X, IsFiniteSet(X), NEW f \in [X -> Int]
  PROVE  \E h : Sums(h, f, X) /\ Total(f) = h[X]
<1> DEFINE Rule(g) == g = [s \in SUBSET X |->
                             IF s = {} THEN 0 ELSE f[CHOOSE x \in s : TRUE] + g[s \ {CHOOSE x \in s : TRUE}]]
           h == CHOOSE g : Rule(g)
<1>1. DOMAIN f = X
  OBVIOUS
<1>2. Total(f) = h[X]
  BY <1>1 DEF Total, SumFunction, SumFunctionOnSet, FoldFunctionOnSet, MapThenFoldSet
<1>3. \A g : Rule(g) <=> SumRule(g, f, X)
  BY DEF SumRule, First
<1> HIDE DEF Rule
<1>4. PICK g : Rule(g) /\ g \in [SUBSET X -> Int]
  BY <1>3, SumExists DEF Sums
<1>5. Rule(h)
  BY <1>4
<1> HIDE DEF h
<1>6. SumRule(h, f, X)
  BY <1>3, <1>5
<1>7. h \in [SUBSET X -> Int]
  <2>1. SumRule(g, f, X)
    BY <1>3, <1>4
  <2> DEFINE P == {s \in SUBSET X : h[s] = g[s]}
  <2>2. h = [s \in SUBSET X |-> h[s]]
    BY <1>6 DEF SumRule
  <2>3. \A s \in SUBSET X : IF s = {} THEN h[s] = 0 /\ g[s] = 0
                            ELSE /\ h[s] = f[First(s)] + h[s \ {First(s)}]
                                 /\ g[s] = f[First(s)] + g[s \ {First(s)}]
    BY <1>6, <2>1 DEF SumRule
  <2>4. \A s \in SUBSET X : h[s] = g[s]
    <3> DEFINE I == {n \in Nat : \A s \in SUBSET X : Cardinality(s) = n => h[s] = g[s]}
    <3>1. /\ \A s \in SUBSET X : Cardinality(s) \in Nat /\ (Cardinality(s) = 0 <=> s = {})
          /\ \A s \in SUBSET X : \A x \in s : /\ s \ {x} \in SUBSET X
                                              /\ Cardinality(s \ {x}) = Cardinality(s) - 1
      BY Smaller
    <3>2. 0 \in I
      BY <2>3, <3>1
    <3>3. ASSUME NEW n \in Nat, n \in I PROVE n + 1 \in I
      <4> SUFFICES ASSUME NEW s \in SUBSET X, Cardinality(s) = n + 1 PROVE h[s] = g[s]
        OBVIOUS
      <4>1. s # {} /\ First(s) \in s
        BY <3>1 DEF First
      <4>2. s \ {First(s)} \in SUBSET X /\ Cardinality(s \ {First(s)}) = n
        BY <3>1, <4>1
      <4>3. h[s \ {First(s)}] = g[s \ {First(s)}]
        BY <3>3, <4>2
      <4> HIDE DEF I
      <4> QED
        BY <2>3, <4>1, <4>3
    <3>4. \A n \in Nat : n \in I
      <4> HIDE DEF I
      <4> QED
        BY <3>2, <3>3, Inductive
    <3> QED
      BY <3>1, <3>4
  <2>5. \A s \in SUBSET X : h[s] \in Int
    BY <1>4, <2>4
  <2> QED
    BY <2>2, <2>5
<1> QED
  BY <1>2, <1>6, <1>7 DEF Sums

LEMMA OverFacts ==
  ASSUME NEW X, IsFiniteSet(X), NEW f, f \in [X -> Int]
  PROVE  /\ Total(f) = Over(f, X)
         /\ Over(f, {}) = 0
         /\ \A s \in SUBSET X : Over(f, s) \in Int /\ \A x \in X \ s : Over(f, s \cup {x}) = f[x] + Over(f, s)
<1>1. PICK h : Sums(h, f, X) /\ Total(f) = h[X]
  BY TotalSums
<1>2. h[{}] = 0 /\ \A s \in SUBSET X : \A x \in s : h[s] = f[x] + h[s \ {x}]
  <2>1. Adds(h, f, X)
    BY <1>1, SumFacts
  <2> QED
    BY <2>1 DEF Adds
<1>a. h \in [SUBSET X -> Int]
  BY <1>1 DEF Sums
<1>3. ASSUME NEW s \in SUBSET X PROVE Over(f, s) = h[s]
  <2> DEFINE e == [x \in s |-> f[x]]
  <2>1. e \in [s -> Int] /\ IsFiniteSet(s) /\ \A x \in s : e[x] = f[x]
    BY FS_Subset
  <2>2. Over(f, s) = Total(e)
    BY DEF Over
  <2> HIDE DEF e
  <2>3. PICK k : Sums(k, e, s) /\ Total(e) = k[s]
    BY <2>1, TotalSums
  <2>4. k[{}] = 0 /\ \A r \in SUBSET s : \A x \in r : k[r] = e[x] + k[r \ {x}]
    BY <2>1, <2>3, SumFacts DEF Adds
  <2> DEFINE P == {r \in SUBSET s : k[r] = h[r]}
  <2>5. Grows(P, s)
    <3>1. {} \in P
      BY <1>2, <2>4
    <3>2. ASSUME NEW r \in SUBSET s, NEW x \in s \ r, r \in P PROVE r \cup {x} \in P
      <4> DEFINE q == r \cup {x}
      <4>1. q \in SUBSET s /\ q \in SUBSET X /\ x \in q /\ q \ {x} = r
        OBVIOUS
      <4>2. k[r] = h[r]
        BY <3>2
      <4> HIDE DEF q
      <4>3. k[q] = e[x] + k[r] /\ h[q] = f[x] + h[r] /\ e[x] = f[x]
        BY <1>2, <2>1, <2>4, <4>1
      <4>4. k[q] = h[q]
        BY <4>2, <4>3
      <4> QED
        BY <4>1, <4>4 DEF q
    <3> HIDE DEF P
    <3> QED
      BY <3>1, <3>2 DEF Grows
  <2>6. s \in P
    <3> HIDE DEF P
    <3> QED
      BY <2>1, <2>5, SetInduction
  <2> QED
    BY <2>2, <2>3, <2>6
<1>4. ASSUME NEW s \in SUBSET X, NEW x \in X \ s PROVE Over(f, s \cup {x}) = f[x] + Over(f, s)
  <2> DEFINE q == s \cup {x}
  <2>1. q \in SUBSET X /\ x \in q /\ q \ {x} = s
    OBVIOUS
  <2> HIDE DEF q
  <2>2. h[q] = f[x] + h[s]
    BY <1>2, <2>1
  <2> QED
    BY <1>3, <2>1, <2>2 DEF q
<1>5. X \in SUBSET X /\ {} \in SUBSET X
  OBVIOUS
<1> QED
  BY <1>1, <1>a, <1>2, <1>3, <1>4, <1>5

LEMMA TotalSplit ==
  ASSUME NEW X, IsFiniteSet(X), NEW f \in [X -> Int]
  PROVE  /\ Total(f) \in Int
         /\ X = {} => Total(f) = 0
         /\ \A x \in X : Total(f) = f[x] + Over(f, X \ {x})
<1>1. /\ Total(f) = Over(f, X)
      /\ Over(f, {}) = 0
      /\ \A s \in SUBSET X : Over(f, s) \in Int /\ \A x \in X \ s : Over(f, s \cup {x}) = f[x] + Over(f, s)
  BY OverFacts
<1>2. X \in SUBSET X
  OBVIOUS
<1>3. ASSUME NEW x \in X PROVE Total(f) = f[x] + Over(f, X \ {x})
  <2> DEFINE s == X \ {x}
  <2>1. s \in SUBSET X /\ x \in X \ s /\ s \cup {x} = X
    OBVIOUS
  <2> HIDE DEF s
  <2>2. Over(f, s \cup {x}) = f[x] + Over(f, s)
    BY <1>1, <2>1
  <2> QED
    BY <1>1, <2>1, <2>2 DEF s
<1> QED
  BY <1>1, <1>2, <1>3

LEMMA Distribute ==
  ASSUME NEW a \in Int, NEW b \in Int, NEW c \in Int
  PROVE  a * b \in Int /\ a * b = b * a /\ a * (b + c) = a * b + a * c /\ a * (b - c) = a * b - a * c
OBVIOUS

\* A sum of multiples is made of the multiples of the sums.
Mixes(g, a, f, b, e, X) == g = [x \in X |-> a * f[x] + b * e[x]]

LEMMA TotalLinear ==
  ASSUME NEW X, IsFiniteSet(X), NEW f \in [X -> Int], NEW e \in [X -> Int], NEW a \in Int, NEW b \in Int,
         NEW g, Mixes(g, a, f, b, e, X)
  PROVE  Total(g) = a * Total(f) + b * Total(e)
<1> DEFINE P == {s \in SUBSET X : Over(g, s) = a * Over(f, s) + b * Over(e, s)}
<1>1. g \in [X -> Int] /\ \A x \in X : g[x] = a * f[x] + b * e[x]
  BY DEF Mixes
<1>2. /\ Total(f) = Over(f, X) /\ Over(f, {}) = 0
      /\ \A s \in SUBSET X : Over(f, s) \in Int /\ \A x \in X \ s : Over(f, s \cup {x}) = f[x] + Over(f, s)
  BY OverFacts
<1>3. /\ Total(e) = Over(e, X) /\ Over(e, {}) = 0
      /\ \A s \in SUBSET X : Over(e, s) \in Int /\ \A x \in X \ s : Over(e, s \cup {x}) = e[x] + Over(e, s)
  BY OverFacts
<1>4. /\ Total(g) = Over(g, X) /\ Over(g, {}) = 0
      /\ \A s \in SUBSET X : Over(g, s) \in Int /\ \A x \in X \ s : Over(g, s \cup {x}) = g[x] + Over(g, s)
  BY <1>1, OverFacts
<1>5. {} \in P
  <2>1. a * 0 = 0 /\ b * 0 = 0
    OBVIOUS
  <2> QED
    BY <1>2, <1>3, <1>4, <2>1
<1>6. ASSUME NEW s \in SUBSET X, NEW x \in X \ s, s \in P PROVE s \cup {x} \in P
  <2>1. /\ Over(f, s) \in Int /\ f[x] \in Int /\ Over(f, s \cup {x}) = f[x] + Over(f, s)
        /\ Over(e, s) \in Int /\ e[x] \in Int /\ Over(e, s \cup {x}) = e[x] + Over(e, s)
        /\ Over(g, s \cup {x}) = g[x] + Over(g, s)
    BY <1>2, <1>3, <1>4
  <2>2. g[x] = a * f[x] + b * e[x]
    BY <1>1
  <2>3. Over(g, s) = a * Over(f, s) + b * Over(e, s)
    BY <1>6
  <2> DEFINE F == Over(f, s)
             E == Over(e, s)
             u == f[x]
             v == e[x]
  <2>4. F \in Int /\ E \in Int /\ u \in Int /\ v \in Int
    BY <2>1
  <2>5. Over(g, s \cup {x}) = (a * u + b * v) + (a * F + b * E)
    BY <2>1, <2>2, <2>3
  <2>6. Over(f, s \cup {x}) = u + F /\ Over(e, s \cup {x}) = v + E
    BY <2>1
  <2> HIDE DEF F, E, u, v, P
  <2>7. a * (u + F) = a * u + a * F /\ b * (v + E) = b * v + b * E
    BY <2>4, Distribute
  <2>8. a * u \in Int /\ b * v \in Int /\ a * F \in Int /\ b * E \in Int
    BY <2>4, Distribute
  <2>9. Over(g, s \cup {x}) = a * (u + F) + b * (v + E)
    BY <2>5, <2>7, <2>8
  <2> QED
    BY <2>6, <2>9 DEF P
<1>7. Grows(P, X)
  <2> HIDE DEF P
  <2> QED
    BY <1>5, <1>6 DEF Grows
<1>8. X \in P
  <2>1. X \in SUBSET X
    OBVIOUS
  <2> HIDE DEF P
  <2> QED
    BY <1>7, <2>1, SetInduction
<1> QED
  BY <1>2, <1>3, <1>4, <1>8

\* And a sum of equals is a product.
LEMMA TotalConstant ==
  ASSUME NEW X, IsFiniteSet(X), NEW c \in Int, NEW g \in [X -> {c}]
  PROVE  Total(g) = Cardinality(X) * c
<1> DEFINE P == {s \in SUBSET X : Over(g, s) = Cardinality(s) * c}
<1>1. g \in [X -> Int] /\ \A x \in X : g[x] = c
  OBVIOUS
<1>2. /\ Total(g) = Over(g, X) /\ Over(g, {}) = 0
      /\ \A s \in SUBSET X : Over(g, s) \in Int /\ \A x \in X \ s : Over(g, s \cup {x}) = g[x] + Over(g, s)
  BY <1>1, OverFacts
<1>3. {} \in P
  <2>1. Cardinality({}) = 0 /\ 0 * c = 0
    BY FS_EmptySet
  <2> QED
    BY <1>2, <2>1
<1>4. ASSUME NEW s \in SUBSET X, NEW x \in X \ s, s \in P PROVE s \cup {x} \in P
  <2>1. IsFiniteSet(s) /\ Cardinality(s) \in Nat
    BY Smaller
  <2>2. Cardinality(s \cup {x}) = Cardinality(s) + 1
    BY <2>1, FS_AddElement
  <2>3. Over(g, s \cup {x}) = c + Cardinality(s) * c
    BY <1>1, <1>2, <1>4
  <2>4. (Cardinality(s) + 1) * c = c + Cardinality(s) * c
    <3> DEFINE n == Cardinality(s)
    <3> HIDE DEF n
    <3>1. n \in Int => (n + 1) * c = c + n * c
      OBVIOUS
    <3> QED
      BY <2>1, <3>1 DEF n
  <2> QED
    BY <2>2, <2>3, <2>4
<1>5. Grows(P, X)
  <2> HIDE DEF P
  <2> QED
    BY <1>3, <1>4 DEF Grows
<1>6. X \in P
  <2>1. X \in SUBSET X
    OBVIOUS
  <2> HIDE DEF P
  <2> QED
    BY <1>5, <2>1, SetInduction
<1> QED
  BY <1>2, <1>6

\* A sum of nothing negative is not negative, and is 0 only if everything is.
LEMMA TotalNat ==
  ASSUME NEW X, IsFiniteSet(X), NEW f \in [X -> Nat]
  PROVE  Total(f) \in Nat /\ (Total(f) = 0 => \A x \in X : f[x] = 0)
<1> DEFINE P == {s \in SUBSET X : Over(f, s) >= 0 /\ (Over(f, s) = 0 => \A x \in s : f[x] = 0)}
<1>1. f \in [X -> Int] /\ \A x \in X : f[x] \in Nat
  OBVIOUS
<1>2. /\ Total(f) = Over(f, X) /\ Over(f, {}) = 0
      /\ \A s \in SUBSET X : Over(f, s) \in Int /\ \A x \in X \ s : Over(f, s \cup {x}) = f[x] + Over(f, s)
  BY <1>1, OverFacts
<1>3. {} \in P
  BY <1>2
<1>4. ASSUME NEW s \in SUBSET X, NEW x \in X \ s, s \in P PROVE s \cup {x} \in P
  <2>1. Over(f, s) \in Int /\ f[x] \in Nat /\ Over(f, s \cup {x}) = f[x] + Over(f, s)
    BY <1>1, <1>2
  <2>2. Over(f, s) >= 0 /\ (Over(f, s) = 0 => \A y \in s : f[y] = 0)
    BY <1>4
  <2>3. Over(f, s \cup {x}) >= 0
    BY <2>1, <2>2
  <2>4. Over(f, s \cup {x}) = 0 => Over(f, s) = 0 /\ f[x] = 0
    BY <2>1, <2>2
  <2> QED
    BY <2>2, <2>3, <2>4
<1>5. Grows(P, X)
  <2> HIDE DEF P
  <2> QED
    BY <1>3, <1>4 DEF Grows
<1>6. X \in P
  <2>1. X \in SUBSET X
    OBVIOUS
  <2> HIDE DEF P
  <2> QED
    BY <1>5, <2>1, SetInduction
<1> QED
  BY <1>2, <1>6

\* b renames the elements of X to those of Y.
Renames(b, X, f, Y, e) ==
  /\ f \in [X -> Int] /\ e \in [Y -> Int]
  /\ b \in [X -> Y] /\ \A x \in X : f[x] = e[b[x]]
  /\ \A x, z \in X : x # z => b[x] # b[z]
  /\ \A y \in Y : \E x \in X : b[x] = y

LEMMA TotalMoved ==
  ASSUME NEW X, IsFiniteSet(X), NEW Y, IsFiniteSet(Y), NEW f, NEW e, NEW b, Renames(b, X, f, Y, e)
  PROVE  Total(f) = Total(e)
<1> DEFINE G(s) == {b[x] : x \in s}
           P == {s \in SUBSET X : Over(f, s) = Over(e, G(s))}
<1>1. /\ f \in [X -> Int] /\ e \in [Y -> Int]
      /\ b \in [X -> Y] /\ \A x \in X : f[x] = e[b[x]]
      /\ \A x, z \in X : x # z => b[x] # b[z]
      /\ \A y \in Y : \E x \in X : b[x] = y
  BY DEF Renames
<1>2. /\ Total(f) = Over(f, X) /\ Over(f, {}) = 0
      /\ \A s \in SUBSET X : Over(f, s) \in Int /\ \A x \in X \ s : Over(f, s \cup {x}) = f[x] + Over(f, s)
  BY <1>1, OverFacts
<1>3. /\ Total(e) = Over(e, Y) /\ Over(e, {}) = 0
      /\ \A s \in SUBSET Y : Over(e, s) \in Int /\ \A x \in Y \ s : Over(e, s \cup {x}) = e[x] + Over(e, s)
  BY <1>1, OverFacts
<1>4. {} \in P
  <2>1. G({}) = {}
    OBVIOUS
  <2> HIDE DEF G
  <2> QED
    BY <1>2, <1>3, <2>1
<1>5. ASSUME NEW s \in SUBSET X, NEW x \in X \ s, s \in P PROVE s \cup {x} \in P
  <2>1. G(s \cup {x}) = G(s) \cup {b[x]}
    OBVIOUS
  <2>2. G(s) \in SUBSET Y /\ b[x] \in Y \ G(s)
    BY <1>1
  <2>3. Over(f, s) = Over(e, G(s))
    BY <1>5
  <2> HIDE DEF G
  <2>4. Over(e, G(s) \cup {b[x]}) = e[b[x]] + Over(e, G(s))
    BY <1>3, <2>2
  <2>5. Over(f, s \cup {x}) = f[x] + Over(f, s) /\ f[x] = e[b[x]]
    BY <1>1, <1>2
  <2> QED
    BY <2>1, <2>3, <2>4, <2>5
<1>6. Grows(P, X)
  <2> HIDE DEF P
  <2> QED
    BY <1>4, <1>5 DEF Grows
<1>7. X \in P
  <2>1. X \in SUBSET X
    OBVIOUS
  <2> HIDE DEF P
  <2> QED
    BY <1>6, <2>1, SetInduction
<1>8. G(X) = Y
  BY <1>1
<1> QED
  BY <1>2, <1>3, <1>7, <1>8

LEMMA TheConstants ==
  /\ MaxLength \in Nat /\ Gamma \in Nat /\ Lam \in Nat
  /\ Columns = 1 .. MaxLength /\ IsFiniteSet(Rows) /\ IsFiniteSet(Columns)
  /\ \A i \in Rows, c \in Columns : Value(i, c) \in Int /\ Penalty(i, c) \in Int /\ Energy(i, c) \in Nat
<1>1. MaxLength \in Nat /\ Gamma \in Nat /\ Lam \in Nat /\ Len(Uid) \in Nat
  BY AdvantageAssumption
<1>2. \A i \in Rows, c \in Columns : Value(i, c) \in Int /\ Penalty(i, c) \in Int /\ Energy(i, c) \in Nat
  BY AdvantageAssumption
<1>3. IsFiniteSet(1 .. Len(Uid)) /\ IsFiniteSet(1 .. MaxLength)
  BY <1>1, FS_Interval
<1> QED
  BY <1>1, <1>2, <1>3 DEF Rows, Columns

-----------------------------------------------------------------------------
(* Powers. *)

LEMMA PowersFacts ==
  ASSUME NEW factor \in Int
  PROVE  /\ \A n \in 0 .. MaxLength : Powers(factor)[n] \in Int
         /\ Powers(factor)[0] = 1
         /\ \A n \in 1 .. MaxLength : Powers(factor)[n] = factor * Powers(factor)[n - 1]
<1> DEFINE Rule(g) == g = [n \in 0 .. MaxLength |-> IF n = 0 THEN 1 ELSE factor * g[n - 1]]
           h == CHOOSE g : Rule(g)
           I == {n \in Nat : \E g \in [0 .. n -> Int] : g[0] = 1 /\ \A i \in 1 .. n : g[i] = factor * g[i - 1]}
<1>1. Powers(factor) = h
  BY DEF Powers
<1>2. MaxLength \in Nat
  BY TheConstants
<1>3. 0 \in I
  <2> DEFINE g == [n \in 0 .. 0 |-> 1]
  <2>1. g \in [0 .. 0 -> Int] /\ g[0] = 1 /\ \A i \in 1 .. 0 : g[i] = factor * g[i - 1]
    OBVIOUS
  <2> QED
    BY <2>1
<1>4. ASSUME NEW n \in Nat, n \in I PROVE n + 1 \in I
  <2>1. PICK g \in [0 .. n -> Int] : g[0] = 1 /\ \A i \in 1 .. n : g[i] = factor * g[i - 1]
    BY <1>4
  <2> DEFINE e == [i \in 0 .. n + 1 |-> IF i = n + 1 THEN factor * g[n] ELSE g[i]]
  <2>2. g[n] \in Int
    BY <2>1
  <2>3. factor * g[n] \in Int
    BY <2>2, Distribute
  <2>4. e[n + 1] = factor * g[n] /\ \A i \in 0 .. n : e[i] = g[i]
    OBVIOUS
  <2>5. e \in [0 .. n + 1 -> Int]
    BY <2>3
  <2> HIDE DEF e
  <2>6. e[0] = 1
    <3>1. 0 \in 0 .. n
      OBVIOUS
    <3> QED
      BY <2>1, <2>4, <3>1
  <2>7. ASSUME NEW i \in 1 .. n + 1 PROVE e[i] = factor * e[i - 1]
    <3>1. CASE i = n + 1
      <4>1. i - 1 = n /\ n \in 0 .. n
        BY <3>1
      <4>2. e[n] = g[n]
        BY <2>4, <4>1
      <4> QED
        BY <2>4, <3>1, <4>1, <4>2
    <3>2. CASE i # n + 1
      <4>1. i \in 1 .. n /\ i \in 0 .. n /\ i - 1 \in 0 .. n
        BY <3>2
      <4>2. e[i] = g[i] /\ e[i - 1] = g[i - 1]
        BY <2>4, <4>1
      <4>3. g[i] = factor * g[i - 1]
        BY <2>1, <4>1
      <4> QED
        BY <4>2, <4>3
    <3> QED
      BY <3>1, <3>2
  <2>8. n + 1 \in Nat
    OBVIOUS
  <2> QED
    BY <2>5, <2>6, <2>7, <2>8
<1>5. MaxLength \in I
  <2> HIDE DEF I
  <2> QED
    BY <1>2, <1>3, <1>4, Inductive
<1>6. PICK g \in [0 .. MaxLength -> Int] : g[0] = 1 /\ \A i \in 1 .. MaxLength : g[i] = factor * g[i - 1]
  BY <1>5
<1>7. Rule(g)
  <2> DEFINE e == [n \in 0 .. MaxLength |-> IF n = 0 THEN 1 ELSE factor * g[n - 1]]
  <2>1. ASSUME NEW n \in 0 .. MaxLength PROVE g[n] = e[n]
    <3>1. CASE n = 0
      BY <1>6, <3>1
    <3>2. CASE n # 0
      <4>1. n \in 1 .. MaxLength
        BY <1>2, <3>2
      <4> QED
        BY <1>6, <3>2, <4>1
    <3> QED
      BY <3>1, <3>2
  <2>2. g = [n \in 0 .. MaxLength |-> g[n]] /\ e = [n \in 0 .. MaxLength |-> e[n]]
    OBVIOUS
  <2>3. g = e
    <3> HIDE DEF e
    <3> QED
      BY <2>1, <2>2
  <2> QED
    BY <2>3
<1>8. Rule(h)
  <2> HIDE DEF Rule
  <2> QED
    BY <1>7
<1> HIDE DEF h
<1>9. h[0] = 1 /\ \A n \in 1 .. MaxLength : h[n] = factor * h[n - 1]
  <2>1. \A n \in 0 .. MaxLength : h[n] = IF n = 0 THEN 1 ELSE factor * h[n - 1]
    BY <1>8
  <2>2. 0 \in 0 .. MaxLength /\ \A n \in 1 .. MaxLength : n \in 0 .. MaxLength /\ n # 0
    BY <1>2
  <2> QED
    BY <2>1, <2>2
<1>10. \A n \in 0 .. MaxLength : h[n] \in Int
  <2> DEFINE J == {n \in Nat : n <= MaxLength => h[n] \in Int}
  <2>1. 0 \in J
    BY <1>9
  <2>2. ASSUME NEW n \in Nat, n \in J PROVE n + 1 \in J
    <3> SUFFICES ASSUME n + 1 <= MaxLength PROVE h[n + 1] \in Int
      OBVIOUS
    <3>1. n + 1 \in 1 .. MaxLength /\ n + 1 - 1 = n /\ n <= MaxLength
      BY <1>2
    <3>2. h[n + 1] = factor * h[n] /\ h[n] \in Int
      BY <1>9, <2>2, <3>1
    <3> QED
      BY <3>2, Distribute
  <2>3. \A n \in Nat : n \in J
    <3> HIDE DEF J
    <3> QED
      BY <2>1, <2>2, Inductive
  <2> QED
    BY <1>2, <2>3
<1> QED
  BY <1>1, <1>9, <1>10

LEMMA PowersOfOne == \A n \in 0 .. MaxLength : Powers(1)[n] = 1
<1> DEFINE J == {n \in Nat : n <= MaxLength => Powers(1)[n] = 1}
<1>1. /\ \A n \in 0 .. MaxLength : Powers(1)[n] \in Int
      /\ Powers(1)[0] = 1
      /\ \A n \in 1 .. MaxLength : Powers(1)[n] = 1 * Powers(1)[n - 1]
  BY PowersFacts
<1>2. MaxLength \in Nat
  BY TheConstants
<1>3. 0 \in J
  BY <1>1
<1>4. ASSUME NEW n \in Nat, n \in J PROVE n + 1 \in J
  <2> SUFFICES ASSUME n + 1 <= MaxLength PROVE Powers(1)[n + 1] = 1
    OBVIOUS
  <2>1. n + 1 \in 1 .. MaxLength /\ n + 1 - 1 = n /\ n <= MaxLength
    BY <1>2
  <2>2. Powers(1)[n + 1] = 1 * Powers(1)[n] /\ Powers(1)[n] = 1
    BY <1>1, <1>4, <2>1
  <2> QED
    BY <2>2
<1>5. \A n \in Nat : n \in J
  <2> HIDE DEF J
  <2> QED
    BY <1>3, <1>4, Inductive
<1> QED
  BY <1>2, <1>5

-----------------------------------------------------------------------------
(* The columns in a mask, counted from the first. *)

Rank(S, c) == Cardinality({d \in S : d <= c})

LEMMA RankFacts ==
  ASSUME NEW n \in Nat, NEW S \in SUBSET (1 .. n)
  PROVE  /\ IsFiniteSet(S) /\ Cardinality(S) \in 0 .. n
         /\ Rank(S, 0) = 0 /\ Rank(S, n) = Cardinality(S)
         /\ \A c \in 0 .. n : Rank(S, c) \in 0 .. Cardinality(S)
         /\ \A c \in 1 .. n : Rank(S, c) = IF c \in S THEN Rank(S, c - 1) + 1 ELSE Rank(S, c - 1)
         /\ \A c, d \in 0 .. n : c <= d => Rank(S, c) <= Rank(S, d)
         /\ \A d \in 0 .. n : \A c \in S : d < c => Rank(S, d) < Rank(S, c)
<1> DEFINE L(c) == {d \in S : d <= c}
<1>0. \A x \in S : x \in Int /\ 1 <= x /\ x <= n
  OBVIOUS
<1>1. IsFiniteSet(1 .. n) /\ Cardinality(1 .. n) = n
  BY UpTo
<1>2. IsFiniteSet(S) /\ Cardinality(S) \in 0 .. n
  <2>1. IsFiniteSet(S) /\ Cardinality(S) <= Cardinality(1 .. n)
    BY <1>1, FS_Subset
  <2> QED
    BY <1>1, <2>1, FS_CardinalityType
<1>3. ASSUME NEW c PROVE L(c) \in SUBSET S /\ IsFiniteSet(L(c)) /\ Rank(S, c) = Cardinality(L(c))
  <2>1. L(c) \in SUBSET S
    OBVIOUS
  <2> QED
    BY <1>2, <2>1, FS_Subset DEF Rank
<1>4. ASSUME NEW c PROVE Rank(S, c) \in 0 .. Cardinality(S)
  <2> HIDE DEF L
  <2>1. Cardinality(L(c)) \in Nat /\ Cardinality(L(c)) <= Cardinality(S)
    BY <1>2, <1>3, FS_CardinalityType, FS_Subset
  <2> QED
    BY <1>2, <1>3, <2>1
<1>5. Rank(S, 0) = 0
  <2>0. \A x \in S : ~(x <= 0)
    BY <1>0
  <2>1. L(0) = {}
    BY <2>0
  <2> QED
    BY <1>3, <2>1, FS_EmptySet
<1>6. Rank(S, n) = Cardinality(S)
  <2>1. L(n) = S
    BY <1>0
  <2> QED
    BY <1>3, <2>1
<1>7. ASSUME NEW c \in 1 .. n PROVE Rank(S, c) = IF c \in S THEN Rank(S, c - 1) + 1 ELSE Rank(S, c - 1)
  <2>0. \A x \in S : (x <= c <=> x <= c - 1 \/ x = c) /\ ~(c <= c - 1)
    BY <1>0
  <2>1. c \in S => L(c) = L(c - 1) \cup {c} /\ c \notin L(c - 1)
    BY <2>0
  <2>2. c \notin S => L(c) = L(c - 1)
    BY <2>0
  <2> HIDE DEF L
  <2>3. c \in S => Cardinality(L(c)) = Cardinality(L(c - 1)) + 1
    BY <1>3, <2>1, FS_AddElement
  <2> QED
    BY <1>3, <2>2, <2>3
<1>8. ASSUME NEW c \in 0 .. n, NEW d \in 0 .. n, c <= d PROVE Rank(S, c) <= Rank(S, d)
  <2>0. \A x \in S : x <= c => x <= d
    BY <1>0, <1>8
  <2>1. L(c) \in SUBSET L(d)
    BY <2>0
  <2> HIDE DEF L
  <2> QED
    BY <1>3, <2>1, FS_Subset
<1>9. ASSUME NEW d \in 0 .. n, NEW c \in S, d < c PROVE Rank(S, d) < Rank(S, c)
  <2>1. c \in 1 .. n /\ c - 1 \in 0 .. n /\ d <= c - 1
    BY <1>9
  <2>2. Rank(S, d) <= Rank(S, c - 1)
    BY <1>8, <2>1
  <2>3. Rank(S, c) = Rank(S, c - 1) + 1
    BY <1>7, <2>1
  <2> QED
    BY <1>4, <2>2, <2>3
<1> HIDE DEF L
<1> QED
  BY <1>2, <1>4, <1>5, <1>6, <1>7, <1>8, <1>9

LEMMA RankTaken ==
  ASSUME NEW n \in Nat, NEW S \in SUBSET (1 .. n), NEW k \in 1 .. Cardinality(S)
  PROVE  \E c \in S : Rank(S, c) = k
<1>1. /\ Cardinality(S) \in 0 .. n /\ Rank(S, 0) = 0 /\ Rank(S, n) = Cardinality(S)
      /\ \A c \in 0 .. n : Rank(S, c) \in 0 .. Cardinality(S)
      /\ \A c \in 1 .. n : Rank(S, c) = IF c \in S THEN Rank(S, c - 1) + 1 ELSE Rank(S, c - 1)
  BY RankFacts
<1> DEFINE T == {c \in 0 .. n : Rank(S, c) >= k}
<1>2. T \in SUBSET Nat /\ n \in T
  BY <1>1
<1>3. PICK c \in T : \A d \in T : c <= d
  BY <1>2, Least
<1>4. c \in 0 .. n /\ Rank(S, c) >= k
  OBVIOUS
<1>5. c # 0
  BY <1>1, <1>4
<1>6. c \in 1 .. n /\ c - 1 \in 0 .. n
  BY <1>4, <1>5
<1>7. ~(Rank(S, c - 1) >= k)
  BY <1>3, <1>6
<1> HIDE DEF T
<1>8. Rank(S, c - 1) \in Int /\ Rank(S, c) \in Int /\ k \in Int
  BY <1>1, <1>4, <1>6
<1>9. c \in S
  BY <1>1, <1>4, <1>6, <1>7, <1>8
<1>10. Rank(S, c) = Rank(S, c - 1) + 1
  BY <1>1, <1>6, <1>9
<1> QED
  BY <1>4, <1>7, <1>8, <1>9, <1>10

LEMMA TotalScaled ==
  ASSUME NEW X, IsFiniteSet(X), NEW f \in [X -> Int], NEW a \in Int
  PROVE  Total([x \in X |-> a * f[x]]) = a * Total(f)
<1> DEFINE g == [x \in X |-> a * f[x]]
           z == [x \in X |-> a * f[x] + 0 * f[x]]
<1>1. Total(z) = a * Total(f) + 0 * Total(f)
  <2>1. Mixes(z, a, f, 0, f, X)
    BY DEF Mixes
  <2> QED
    BY <2>1, TotalLinear
<1>2. Total(f) \in Int
  BY TotalSplit
<1>3. \A n \in Int : a * n + 0 * n = a * n
  <2>1. \A n \in Int : 0 * n = 0 /\ a * n \in Int
    OBVIOUS
  <2> QED
    BY <2>1
<1>4. \A x \in X : f[x] \in Int
  OBVIOUS
<1>5. g = z
  BY <1>3, <1>4
<1> HIDE DEF z
<1> QED
  BY <1>1, <1>2, <1>3, <1>5

-----------------------------------------------------------------------------
(* The shape of a state. *)

OnePass == {"gae", "reinforce_plus_plus"}

Shapes ==
  /\ length \in [Rows -> Columns] /\ score \in [Rows -> Int]
  /\ mask \in [Rows -> SUBSET Columns] /\ \A i \in Rows : mask[i] # {}
  /\ phase \in {"rollout", "selected", "done"} /\ t \in 0 .. MaxLength
  /\ nextvalues \in [Rows -> Int] /\ lastgaelam \in [Rows -> Int] /\ running_return \in [Rows -> Int]
  /\ phase # "done" => advantages \in [Rows -> [Columns -> Int \X Int]]

LEMMA ColumnFacts ==
  ASSUME Shapes, NEW i \in Rows, NEW S, S = mask[i], NEW m, m = Cardinality(S)
  PROVE  /\ S \in SUBSET Columns /\ m \in 1 .. MaxLength /\ m \in Nat /\ IsFiniteSet(S)
         /\ \A k \in 1 .. m : Column(i, k) \in S /\ Rank(S, Column(i, k)) = k
         /\ \A c \in S : Rank(S, c) \in 1 .. m /\ Column(i, Rank(S, c)) = c
         /\ \A k, l \in 1 .. m : k < l <=> Column(i, k) < Column(i, l)
<1>1. MaxLength \in Nat /\ Columns = 1 .. MaxLength /\ S \in SUBSET (1 .. MaxLength) /\ S # {}
  BY TheConstants DEF Shapes
<1>2. /\ IsFiniteSet(S) /\ m \in 0 .. MaxLength
      /\ \A c \in 0 .. MaxLength : Rank(S, c) \in 0 .. m
      /\ Rank(S, 0) = 0
      /\ \A d \in 0 .. MaxLength : \A c \in S : d < c => Rank(S, d) < Rank(S, c)
  BY <1>1, RankFacts
<1>3. m \in 1 .. MaxLength
  BY <1>1, <1>2, FS_EmptySet
<1>4. \A c \in S : c \in Int /\ c \in 0 .. MaxLength /\ 0 < c
  BY <1>1
<1>5. \A c \in S : Rank(S, c) \in 1 .. m
  <2> SUFFICES ASSUME NEW c \in S PROVE Rank(S, c) \in 1 .. m
    OBVIOUS
  <2>1. 0 \in 0 .. MaxLength
    BY <1>1
  <2>2. Rank(S, 0) < Rank(S, c) /\ Rank(S, c) \in 0 .. m
    BY <1>2, <1>4, <2>1
  <2> QED
    BY <1>2, <2>2
<1>6. \A c, d \in S : Rank(S, c) < Rank(S, d) <=> c < d
  <2> SUFFICES ASSUME NEW c \in S, NEW d \in S PROVE Rank(S, c) < Rank(S, d) <=> c < d
    OBVIOUS
  <2>1. /\ c < d => Rank(S, c) < Rank(S, d)
        /\ d < c => Rank(S, d) < Rank(S, c)
    BY <1>2, <1>4
  <2>2. Rank(S, c) \in Int /\ Rank(S, d) \in Int /\ c \in Int /\ d \in Int
    BY <1>4, <1>5
  <2>3. c = d => Rank(S, c) = Rank(S, d)
    OBVIOUS
  <2>4. c < d \/ d < c \/ c = d
    BY <2>2
  <2> QED
    BY <2>1, <2>2, <2>3, <2>4
<1>7. \A c, d \in S : Rank(S, c) = Rank(S, d) => c = d
  <2> SUFFICES ASSUME NEW c \in S, NEW d \in S, Rank(S, c) = Rank(S, d) PROVE c = d
    OBVIOUS
  <2>1. Rank(S, c) \in Int /\ Rank(S, d) \in Int /\ c \in Int /\ d \in Int
    BY <1>4, <1>5
  <2>2. ~(c < d) /\ ~(d < c)
    BY <1>6, <2>1
  <2> QED
    BY <2>1, <2>2
<1>8. ASSUME NEW k \in 1 .. m PROVE Column(i, k) \in S /\ Rank(S, Column(i, k)) = k
  <2>1. \E c \in S : Rank(S, c) = k
    BY <1>1, RankTaken
  <2>2. Column(i, k) = CHOOSE c \in S : Rank(S, c) = k
    BY DEF Column, Rank
  <2> QED
    BY <2>1, <2>2
<1>9. ASSUME NEW c \in S PROVE Column(i, Rank(S, c)) = c
  <2>1. Rank(S, c) \in 1 .. m
    BY <1>5
  <2> DEFINE k == Rank(S, c)
  <2> HIDE DEF k
  <2>2. k \in 1 .. m => Column(i, k) \in S /\ Rank(S, Column(i, k)) = k
    BY <1>8
  <2> QED
    BY <1>7, <2>1, <2>2 DEF k
<1>10. \A k, l \in 1 .. m : k < l <=> Column(i, k) < Column(i, l)
  <2> SUFFICES ASSUME NEW k \in 1 .. m, NEW l \in 1 .. m PROVE k < l <=> Column(i, k) < Column(i, l)
    OBVIOUS
  <2>1. Column(i, k) \in S /\ Rank(S, Column(i, k)) = k /\ Column(i, l) \in S /\ Rank(S, Column(i, l)) = l
    BY <1>8
  <2> QED
    BY <1>6, <2>1
<1>11. m \in Nat
  BY <1>2
<1> QED
  BY <1>1, <1>2, <1>3, <1>5, <1>8, <1>9, <1>10, <1>11

LEMMA RewardType ==
  ASSUME Shapes, NEW i \in Rows, NEW c \in Columns
  PROVE  Reward(i, c) \in Int
<1>1. Penalty(i, c) \in Int
  BY TheConstants
<1>2. score[i] \in Int
  BY DEF Shapes
<1> QED
  BY <1>1, <1>2 DEF Reward

\* What the tokens of a row would sum to were the other columns not there.
ValueAt(i, j)  == IF j > Cardinality(mask[i]) THEN 0 ELSE Value(i, Column(i, j))
Term(i, j, td) ==
  Reward(i, Column(i, j)) + (IF td THEN Gamma * ValueAt(i, j + 1) - ValueAt(i, j) ELSE 0)

LEMMA TermType ==
  ASSUME Shapes, NEW i \in Rows, NEW td \in BOOLEAN, NEW j \in 1 .. Cardinality(mask[i])
  PROVE  Term(i, j, td) \in Int
<1> DEFINE m == Cardinality(mask[i])
<1>1. m \in Nat /\ \A k \in 1 .. m : Column(i, k) \in Columns
  BY ColumnFacts
<1>2. \A k \in 1 .. m : Value(i, Column(i, k)) \in Int
  BY <1>1, TheConstants
<1>3. Reward(i, Column(i, j)) \in Int
  BY <1>1, RewardType
<1> HIDE DEF m
<1>4. j \in 1 .. m
  BY DEF m
<1>5. ValueAt(i, j) \in Int
  BY <1>2, <1>4 DEF ValueAt, m
<1>6. ValueAt(i, j + 1) \in Int
  <2>1. CASE j + 1 > m
    BY <2>1 DEF ValueAt, m
  <2>2. CASE ~(j + 1 > m)
    <3>1. j + 1 \in 1 .. m
      BY <1>1, <1>4, <2>2
    <3>2. ValueAt(i, j + 1) = Value(i, Column(i, j + 1))
      BY <2>2 DEF ValueAt, m
    <3> QED
      BY <1>2, <3>1, <3>2
  <2> QED
    BY <2>1, <2>2
<1>7. Gamma * ValueAt(i, j + 1) \in Int
  BY <1>6, TheConstants, Distribute
<1> QED
  BY <1>3, <1>5, <1>7 DEF Term

LEMMA CutStep ==
  ASSUME Shapes, NEW i \in Rows, NEW td \in BOOLEAN, NEW factor \in Int,
         NEW m, m = Cardinality(mask[i]), NEW k \in 1 .. m + 1
  PROVE  /\ CutSum(i, k, factor, td) \in Int
         /\ k = m + 1 => CutSum(i, k, factor, td) = 0
         /\ k <= m => CutSum(i, k, factor, td) = Term(i, k, td) + factor * CutSum(i, k + 1, factor, td)
<1> DEFINE f(l) == [j \in l .. m |-> Powers(factor)[j - l] * Term(i, j, td)]
<1>1. m \in 1 .. MaxLength /\ m \in Nat /\ MaxLength \in Nat
  BY ColumnFacts, TheConstants
<1>2. \A l : CutSum(i, l, factor, td) = Total(f(l))
  BY DEF CutSum, Term, ValueAt
<1>3. \A j \in 1 .. m : Term(i, j, td) \in Int
  BY TermType
<1>4. /\ \A n \in 0 .. MaxLength : Powers(factor)[n] \in Int
      /\ Powers(factor)[0] = 1
      /\ \A n \in 1 .. MaxLength : Powers(factor)[n] = factor * Powers(factor)[n - 1]
  BY PowersFacts
<1>5. ASSUME NEW l \in 1 .. m + 1 PROVE f(l) \in [l .. m -> Int] /\ IsFiniteSet(l .. m)
  <2>1. ASSUME NEW j \in l .. m PROVE Powers(factor)[j - l] * Term(i, j, td) \in Int
    <3>1. j \in 1 .. m /\ j - l \in 0 .. MaxLength
      BY <1>1
    <3>2. Powers(factor)[j - l] \in Int /\ Term(i, j, td) \in Int
      BY <1>3, <1>4, <3>1
    <3> QED
      BY <3>2, Distribute
  <2>2. IsFiniteSet(l .. m)
    <3>1. l \in Int /\ m \in Int
      BY <1>1
    <3> QED
      BY <3>1, FS_Interval
  <2> QED
    BY <2>1, <2>2
<1>6. CutSum(i, k, factor, td) \in Int
  <2>1. f(k) \in [k .. m -> Int] /\ IsFiniteSet(k .. m)
    BY <1>5
  <2> HIDE DEF f
  <2> QED
    BY <1>2, <2>1, TotalSplit
<1>7. ASSUME k = m + 1 PROVE CutSum(i, k, factor, td) = 0
  <2>1. f(k) \in [k .. m -> Int] /\ IsFiniteSet(k .. m)
    BY <1>5
  <2>2. k .. m = {}
    BY <1>1, <1>7
  <2> HIDE DEF f
  <2> QED
    BY <1>2, <2>1, <2>2, TotalSplit
<1>8. ASSUME k <= m PROVE CutSum(i, k, factor, td) = Term(i, k, td) + factor * CutSum(i, k + 1, factor, td)
  <2> DEFINE g == [y \in (k .. m) \ {k} |-> f(k)[y]]
             h == [y \in k + 1 .. m |-> factor * f(k + 1)[y]]
  <2>1. k + 1 \in 1 .. m + 1 /\ k \in k .. m /\ (k .. m) \ {k} = k + 1 .. m
    BY <1>1, <1>8
  <2>2. f(k) \in [k .. m -> Int] /\ IsFiniteSet(k .. m)
    BY <1>5
  <2>3. f(k + 1) \in [k + 1 .. m -> Int] /\ IsFiniteSet(k + 1 .. m)
    BY <1>5, <2>1
  <2>4. Total(f(k)) = f(k)[k] + Total(g)
    <3> DEFINE F == f(k)
               X == k .. m
    <3>1. F \in [X -> Int] /\ IsFiniteSet(X) /\ k \in X
      BY <2>1, <2>2
    <3> HIDE DEF f, F, X
    <3>2. Total(F) = F[k] + Over(F, X \ {k})
      BY <3>1, TotalSplit
    <3> QED
      BY <3>2 DEF F, X, Over
  <2>5. Total(h) = factor * Total(f(k + 1))
    <3> HIDE DEF f
    <3> QED
      BY <2>3, TotalScaled
  <2>6. f(k)[k] = Term(i, k, td)
    <3>1. f(k)[k] = Powers(factor)[k - k] * Term(i, k, td)
      BY <2>1
    <3>2. k - k = 0 /\ k \in 1 .. m
      BY <1>8
    <3>3. Term(i, k, td) \in Int
      BY <1>3, <3>2
    <3>4. f(k)[k] = 1 * Term(i, k, td)
      BY <1>4, <3>1, <3>2
    <3> HIDE DEF f
    <3> QED
      BY <3>3, <3>4
  <2>7. ASSUME NEW y \in k + 1 .. m PROVE f(k)[y] = factor * f(k + 1)[y]
    <3> DEFINE a == Powers(factor)[y - (k + 1)]
               b == Term(i, y, td)
    <3>1. y \in k .. m /\ y - k \in 1 .. MaxLength /\ y - k - 1 = y - (k + 1) /\ y \in 1 .. m
          /\ y - (k + 1) \in 0 .. MaxLength
      BY <1>1
    <3>2. Powers(factor)[y - k] = factor * a
      BY <1>4, <3>1
    <3>3. f(k)[y] = (factor * a) * b /\ f(k + 1)[y] = a * b
      BY <3>1, <3>2
    <3>4. a \in Int /\ b \in Int
      BY <1>3, <1>4, <3>1
    <3> HIDE DEF a, b, f
    <3>5. (factor * a) * b = factor * (a * b)
      BY <3>4
    <3> QED
      BY <3>3, <3>5
  <2>8. g = h
    <3>1. \A y \in k + 1 .. m : g[y] = h[y]
      BY <2>1, <2>7
    <3>2. g = [y \in k + 1 .. m |-> g[y]] /\ h = [y \in k + 1 .. m |-> h[y]]
      BY <2>1
    <3> HIDE DEF g, h
    <3> QED
      BY <3>1, <3>2
  <2> HIDE DEF f, g, h
  <2> QED
    BY <1>2, <2>4, <2>5, <2>6, <2>8
<1> HIDE DEF f
<1> QED
  BY <1>6, <1>7, <1>8

LEMMA SumsKept ==
  ASSUME UNCHANGED <<mask, score, length>>
  PROVE  /\ \A i, k : ValueAt(i, k)' = ValueAt(i, k)
         /\ \A i, k, factor, td : CutSum(i, k, factor, td)' = CutSum(i, k, factor, td)
         /\ \A i : NoHoles(i)' = NoHoles(i)
<1>1. mask' = mask /\ score' = score /\ length' = length
  OBVIOUS
<1>2. ASSUME NEW i, NEW k PROVE Column(i, k)' = Column(i, k)
  BY <1>1 DEF Column
<1>3. ASSUME NEW i, NEW k PROVE ValueAt(i, k)' = ValueAt(i, k)
  BY <1>1, <1>2 DEF ValueAt
<1>4. ASSUME NEW i, NEW j, NEW td PROVE Term(i, j, td)' = Term(i, j, td)
  BY <1>1, <1>2, <1>3 DEF Term, Reward
<1>5. ASSUME NEW i, NEW k, NEW factor, NEW td PROVE CutSum(i, k, factor, td)' = CutSum(i, k, factor, td)
  <2> DEFINE m == Cardinality(mask[i])
  <2>1. CutSum(i, k, factor, td) = Total([j \in k .. m |-> Powers(factor)[j - k] * Term(i, j, td)])
    BY DEF CutSum, Term, ValueAt
  <2>2. CutSum(i, k, factor, td)' = Total([j \in k .. m |-> Powers(factor)[j - k] * Term(i, j, td)'])
    BY <1>1 DEF CutSum, Term, ValueAt
  <2> QED
    BY <1>4, <2>1, <2>2
<1>6. ASSUME NEW i PROVE NoHoles(i)' = NoHoles(i)
  BY <1>1 DEF NoHoles
<1> QED
  BY <1>3, <1>5, <1>6

-----------------------------------------------------------------------------
(* The invariant: what the pass has come to, and what the finished           *)
(* estimators hold.                                                          *)

\* The cut sum an estimator with one backward pass stands for, and the masks it
\* is meant for.
Discounted(i, k) ==
  IF estimator = "gae" THEN CutSum(i, k, Gamma * Lam, TRUE) ELSE CutSum(i, k, Gamma, FALSE)
Fit(i)     == estimator = "reinforce_plus_plus" => NoHoles(i)
Reached(i) == Rank(mask[i], t) + 1

Carried(i) ==
  /\ estimator = "gae" => nextvalues[i] = ValueAt(i, Reached(i)) /\ lastgaelam[i] = Discounted(i, Reached(i))
  /\ estimator = "reinforce_plus_plus" => running_return[i] = Discounted(i, Reached(i))
Filled(i) ==
  estimator \in OnePass =>
      \A c \in mask[i] : c > t => advantages[i][c] = Whole(Discounted(i, Rank(mask[i], c)))

Untouched(i) == t = MaxLength /\ nextvalues[i] = 0 /\ lastgaelam[i] = 0 /\ running_return[i] = 0
Passing(i)   == /\ estimator \notin OnePass => t = MaxLength
                /\ Fit(i) => Carried(i) /\ Filled(i)
Finished(i)  ==
  /\ estimator \in OnePass \cup PerResponse \cup PerToken
  /\ estimator \in OnePass => t = 0 /\ (Fit(i) => Filled(i))
  /\ estimator \in PerResponse => \A c \in mask[i] : advantages[i][c] = OfResponse(i)
  /\ estimator \in PerToken => \A c \in mask[i] : advantages[i][c] = OfToken(i, c)

AdvInv ==
  /\ Shapes /\ ratio \in Ratios
  /\ phase = "rollout" => \A i \in Rows : Untouched(i)
  /\ phase = "selected" => \A i \in Rows : Passing(i)
  /\ phase = "done" => \A i \in Rows : Finished(i)

LEMMA Starting == Init => AdvInv
<1> SUFFICES ASSUME Init PROVE AdvInv
  OBVIOUS
<1>1. /\ ratio \in Ratios /\ t = MaxLength /\ phase = "rollout"
      /\ length \in [Rows -> Columns] /\ score \in [Rows -> Scores] /\ mask = [i \in Rows |-> 1 .. length[i]]
      /\ nextvalues = [i \in Rows |-> 0] /\ lastgaelam = [i \in Rows |-> 0]
      /\ running_return = [i \in Rows |-> 0]
      /\ advantages = [i \in Rows |-> [c \in Columns |-> Whole(0)]]
  BY DEF Init
<1>2. MaxLength \in Nat /\ Columns = 1 .. MaxLength
  BY TheConstants
<1>3. score \in [Rows -> Int]
  BY <1>1, AdvantageAssumption
<1>4. ASSUME NEW i \in Rows PROVE mask[i] \in SUBSET Columns /\ mask[i] # {}
  <2>1. length[i] \in 1 .. MaxLength /\ mask[i] = 1 .. length[i]
    BY <1>1, <1>2
  <2>2. 1 \in mask[i]
    BY <2>1
  <2> QED
    BY <1>2, <2>1, <2>2
<1>5. mask \in [Rows -> SUBSET Columns]
  BY <1>1, <1>4
<1>6. advantages \in [Rows -> [Columns -> Int \X Int]]
  <2>1. Whole(0) \in Int \X Int
    BY DEF Whole
  <2> QED
    BY <1>1, <2>1
<1>7. \A i \in Rows : nextvalues[i] = 0 /\ lastgaelam[i] = 0 /\ running_return[i] = 0
  BY <1>1
<1>8. /\ nextvalues \in [Rows -> Int] /\ lastgaelam \in [Rows -> Int] /\ running_return \in [Rows -> Int]
      /\ t \in 0 .. MaxLength
  BY <1>1, <1>2
<1> QED
  BY <1>1, <1>3, <1>4, <1>5, <1>6, <1>7, <1>8 DEF AdvInv, Shapes, Untouched

\* Before the pass nothing is carried, and nothing is left to sum up.
LEMMA PassBegins == Shapes /\ (\A i \in Rows : Untouched(i)) => \A i \in Rows : Passing(i)
<1> SUFFICES ASSUME Shapes, NEW i \in Rows, Untouched(i) PROVE Passing(i)
  OBVIOUS
<1> DEFINE m == Cardinality(mask[i])
<1>1. mask[i] \in SUBSET (1 .. MaxLength) /\ m \in Nat /\ MaxLength \in Nat
  BY ColumnFacts, TheConstants
<1>2. t = MaxLength /\ nextvalues[i] = 0 /\ lastgaelam[i] = 0 /\ running_return[i] = 0
  BY DEF Untouched
<1>3. Reached(i) = m + 1
  BY <1>1, <1>2, RankFacts DEF Reached
<1>4. ValueAt(i, m + 1) = 0
  BY <1>1 DEF ValueAt
<1>5. Discounted(i, m + 1) = 0
  <2>1. m + 1 \in 1 .. m + 1
    BY <1>1
  <2>2. Gamma * Lam \in Int /\ Gamma \in Int
    BY TheConstants, Distribute
  <2>3. CutSum(i, m + 1, Gamma * Lam, TRUE) = 0 /\ CutSum(i, m + 1, Gamma, FALSE) = 0
    BY <2>1, <2>2, CutStep
  <2> QED
    BY <2>3 DEF Discounted
<1>6. Carried(i)
  BY <1>2, <1>3, <1>4, <1>5 DEF Carried
<1>7. Filled(i)
  <2>1. \A c \in mask[i] : ~(c > t)
    BY <1>1, <1>2
  <2> QED
    BY <2>1 DEF Filled
<1> QED
  BY <1>2, <1>6, <1>7 DEF Passing

LEMMA PassBegan == (Shapes /\ (\A i \in Rows : Untouched(i)) => \A i \in Rows : Passing(i))'
BY PassBegins, PTL

\* A response keeps a token: the budget is rounded up.
LEMMA BudgetFacts ==
  ASSUME ratio \in Ratios, NEW n \in Columns
  PROVE  Budget(n) \in Nat /\ Budget(n) >= 1
<1>1. ratio \in Nat /\ ratio <= 99
  BY AdvantageAssumption
<1>2. n \in Nat /\ n >= 1
  BY TheConstants
<1> DEFINE p == 100 - ratio
           q == n * p
<1>3. p \in Nat /\ p >= 1
  BY <1>1
<1> HIDE DEF p
<1>4. q \in Nat /\ q >= 1
  <2>1. n - 1 \in Nat /\ (n - 1) * p \in Nat
    BY <1>2, <1>3
  <2>2. q = (n - 1) * p + p
    BY <1>2, <1>3
  <2> QED
    BY <1>3, <2>1, <2>2
<1>5. Budget(n) = (q + 99) \div 100
  BY DEF Budget, p
<1> HIDE DEF q
<1> QED
  BY <1>4, <1>5

LEMMA Selecting == AdvInv /\ SelectForkingTokens => AdvInv'
<1> SUFFICES ASSUME AdvInv, SelectForkingTokens PROVE AdvInv'
  OBVIOUS
<1>1. /\ phase = "rollout" /\ phase' = "selected"
      /\ ratio' = ratio /\ length' = length /\ score' = score /\ t' = t
      /\ nextvalues' = nextvalues /\ lastgaelam' = lastgaelam /\ running_return' = running_return
      /\ advantages' = advantages
  BY DEF SelectForkingTokens
<1>2. ratio \in Ratios /\ length \in [Rows -> Columns] /\ \A i \in Rows : Untouched(i)
  BY <1>1 DEF AdvInv, Shapes
<1>3. mask' \in [Rows -> SUBSET Columns] /\ \A i \in Rows : mask'[i] # {}
  <2> DEFINE Topk(i) == kSubset(Budget(length[i]), 1 .. length[i])
  <2>1. PICK m \in [Rows -> UNION {Topk(i) : i \in Rows}] : (\A i \in Rows : m[i] \in Topk(i)) /\ mask' = m
    BY DEF SelectForkingTokens
  <2>2. ASSUME NEW i \in Rows PROVE m[i] \in SUBSET Columns /\ m[i] # {}
    <3>1. length[i] \in Columns
      BY <1>2
    <3>2. 1 .. length[i] \in SUBSET Columns
      BY <3>1, TheConstants
    <3>3. m[i] \in SUBSET (1 .. length[i]) /\ Cardinality(m[i]) = Budget(length[i])
      BY <2>1 DEF kSubset
    <3>4. Cardinality(m[i]) # 0
      BY <1>2, <3>1, <3>3, BudgetFacts
    <3> QED
      BY <3>2, <3>3, <3>4, FS_EmptySet
  <2> HIDE DEF Topk
  <2>3. mask' \in [Rows -> SUBSET Columns]
    BY <2>1, <2>2
  <2> QED
    BY <2>1, <2>2, <2>3
<1>4. Shapes'
  BY <1>1, <1>3 DEF AdvInv, Shapes
<1>5. \A i \in Rows : Untouched(i)'
  BY <1>1, <1>2 DEF Untouched
<1>6. \A i \in Rows : Passing(i)'
  BY <1>4, <1>5, PassBegan
<1> QED
  BY <1>1, <1>2, <1>4, <1>6 DEF AdvInv

\* Where the pass stands when it leaves column t, and the sum it then should have.
LEMMA Moving ==
  ASSUME Shapes, t > 0, t' = t - 1, UNCHANGED <<estimator, length, score, mask>>, NEW i \in Rows
  PROVE  /\ t \in Columns /\ t \in 1 .. MaxLength
         /\ Reached(i)' = IF t \in mask[i] THEN Rank(mask[i], t) ELSE Reached(i)
         /\ t \in mask[i] => /\ Rank(mask[i], t) \in 1 .. Cardinality(mask[i])
                             /\ Column(i, Rank(mask[i], t)) = t
                             /\ Reached(i) = Rank(mask[i], t) + 1
         /\ \A k : Discounted(i, k)' = Discounted(i, k) /\ ValueAt(i, k)' = ValueAt(i, k)
         /\ Fit(i)' = Fit(i)
         /\ \A c \in mask[i] : c > t - 1 <=> c = t \/ c > t
<1> DEFINE S == mask[i]
<1>1. /\ t \in 1 .. MaxLength /\ t \in Columns /\ S \in SUBSET (1 .. MaxLength) /\ MaxLength \in Nat
  BY TheConstants DEF Shapes
<1>2. mask' = mask /\ estimator' = estimator
  OBVIOUS
<1>3. Reached(i) = Rank(S, t) + 1 /\ Reached(i)' = Rank(S, t - 1) + 1
  BY <1>2 DEF Reached
<1>4. /\ Rank(S, t) = IF t \in S THEN Rank(S, t - 1) + 1 ELSE Rank(S, t - 1)
      /\ Rank(S, t - 1) \in Int
  <2>1. t - 1 \in 0 .. MaxLength
    BY <1>1
  <2>2. /\ \A c \in 0 .. MaxLength : Rank(S, c) \in 0 .. Cardinality(S)
        /\ \A c \in 1 .. MaxLength : Rank(S, c) = IF c \in S THEN Rank(S, c - 1) + 1 ELSE Rank(S, c - 1)
    BY <1>1, RankFacts
  <2> QED
    BY <1>1, <2>1, <2>2
<1>5. t \in S => Rank(S, t) \in 1 .. Cardinality(S) /\ Column(i, Rank(S, t)) = t
  BY ColumnFacts
<1>6. ASSUME NEW k PROVE Discounted(i, k)' = Discounted(i, k) /\ ValueAt(i, k)' = ValueAt(i, k)
  BY <1>2, SumsKept DEF Discounted
<1>7. Fit(i)' = Fit(i)
  BY <1>2, SumsKept DEF Fit
<1>8. \A c \in S : c > t - 1 <=> c = t \/ c > t
  BY <1>1
<1> HIDE DEF S
<1>9. Reached(i)' = IF t \in S THEN Rank(S, t) ELSE Reached(i)
  BY <1>3, <1>4
<1> QED
  BY <1>1, <1>3, <1>5, <1>6, <1>7, <1>8, <1>9 DEF S

LEMMA GaeMoves == AdvInv /\ GaeStep => AdvInv'
<1> SUFFICES ASSUME AdvInv, GaeStep PROVE AdvInv'
  OBVIOUS
<1> DEFINE error(i) == Reward(i, t) + Gamma * nextvalues[i] - Value(i, t)
           sum(i)   == error(i) + Gamma * Lam * lastgaelam[i]
<1>1. /\ phase = "selected" /\ estimator = "gae" /\ t > 0 /\ t' = t - 1
      /\ nextvalues' = [i \in Rows |-> IF t \in mask[i] THEN Value(i, t) ELSE nextvalues[i]]
      /\ lastgaelam' = [i \in Rows |-> IF t \in mask[i] THEN sum(i) ELSE lastgaelam[i]]
      /\ advantages' = [i \in Rows |-> [advantages[i] EXCEPT ![t] = Whole(lastgaelam'[i])]]
      /\ UNCHANGED <<estimator, ratio, length, score, mask, running_return, phase>>
  BY DEF GaeStep, Skipped
<1>2. Shapes /\ ratio \in Ratios /\ \A i \in Rows : Passing(i)
  BY <1>1 DEF AdvInv
<1>3. t \in Columns /\ t \in 1 .. MaxLength /\ t - 1 \in 0 .. MaxLength
  BY <1>1, <1>2, TheConstants DEF Shapes
<1>4. Gamma \in Int /\ Gamma * Lam \in Int
  BY TheConstants, Distribute
<1>5. ASSUME NEW i \in Rows PROVE sum(i) \in Int /\ Value(i, t) \in Int /\ Reward(i, t) \in Int
                                  /\ nextvalues[i] \in Int /\ lastgaelam[i] \in Int
  <2>1. Reward(i, t) \in Int /\ Value(i, t) \in Int
    BY <1>2, <1>3, RewardType, TheConstants
  <2>2. nextvalues[i] \in Int /\ lastgaelam[i] \in Int
    BY <1>2 DEF Shapes
  <2>3. Gamma * nextvalues[i] \in Int /\ Gamma * Lam * lastgaelam[i] \in Int
    BY <1>4, <2>2, Distribute
  <2> QED
    BY <2>1, <2>2, <2>3
<1> HIDE DEF sum
<1>6. Shapes'
  <2>1. nextvalues' \in [Rows -> Int] /\ lastgaelam' \in [Rows -> Int]
    BY <1>1, <1>5
  <2>2. ASSUME NEW i \in Rows PROVE [advantages[i] EXCEPT ![t] = Whole(lastgaelam'[i])] \in [Columns -> Int \X Int]
    <3>1. Whole(lastgaelam'[i]) \in Int \X Int
      BY <2>1 DEF Whole
    <3>2. advantages[i] \in [Columns -> Int \X Int]
      BY <1>1, <1>2 DEF Shapes
    <3> QED
      BY <3>1, <3>2
  <2>3. advantages' \in [Rows -> [Columns -> Int \X Int]]
    BY <1>1, <2>2
  <2> QED
    BY <1>1, <1>2, <1>3, <2>1, <2>3 DEF Shapes
<1>7. ASSUME NEW i \in Rows PROVE Passing(i)'
  <2> DEFINE S == mask[i]
             r == Rank(S, t)
  <2>1. Fit(i) /\ Fit(i)' /\ Carried(i) /\ Filled(i)
    BY <1>1, <1>2 DEF Passing, Fit
  <2>2. /\ Reached(i)' = IF t \in S THEN r ELSE Reached(i)
        /\ t \in S => r \in 1 .. Cardinality(S) /\ Column(i, r) = t /\ Reached(i) = r + 1
        /\ \A k : Discounted(i, k)' = Discounted(i, k) /\ ValueAt(i, k)' = ValueAt(i, k)
        /\ \A c \in S : c > t - 1 <=> c = t \/ c > t
    BY <1>1, <1>2, Moving
  <2>3. nextvalues[i] = ValueAt(i, Reached(i)) /\ lastgaelam[i] = Discounted(i, Reached(i))
    BY <1>1, <2>1 DEF Carried
  <2> HIDE DEF r
  <2>4. ASSUME t \in S PROVE Value(i, t) = ValueAt(i, r) /\ sum(i) = Discounted(i, r)
    <3> DEFINE m == Cardinality(S)
    <3>1. m \in Nat /\ r \in 1 .. m /\ r \in 1 .. m + 1 /\ r <= m /\ ~(r > m)
      BY <1>2, <2>2, <2>4, ColumnFacts
    <3>2. ValueAt(i, r) = Value(i, t)
      BY <2>2, <2>4, <3>1 DEF ValueAt
    <3>3. Term(i, r, TRUE) = Reward(i, t) + (Gamma * nextvalues[i] - Value(i, t))
      BY <2>2, <2>3, <2>4, <3>2 DEF Term
    <3>4. CutSum(i, r, Gamma * Lam, TRUE) = Term(i, r, TRUE) + Gamma * Lam * CutSum(i, r + 1, Gamma * Lam, TRUE)
      BY <1>2, <1>4, <3>1, CutStep
    <3>5. CutSum(i, r + 1, Gamma * Lam, TRUE) = lastgaelam[i] /\ Discounted(i, r) = CutSum(i, r, Gamma * Lam, TRUE)
      BY <1>1, <2>2, <2>3, <2>4 DEF Discounted
    <3>6. Discounted(i, r) = (Reward(i, t) + (Gamma * nextvalues[i] - Value(i, t))) + Gamma * Lam * lastgaelam[i]
      BY <3>3, <3>4, <3>5
    <3>7. Gamma * nextvalues[i] \in Int /\ Gamma * Lam * lastgaelam[i] \in Int
      BY <1>4, <1>5, Distribute
    <3> QED
      BY <1>5, <3>2, <3>6, <3>7 DEF sum
  <2>5. Carried(i)'
    <3>1. nextvalues'[i] = ValueAt(i, Reached(i)') /\ lastgaelam'[i] = Discounted(i, Reached(i)')
      BY <1>1, <2>2, <2>3, <2>4
    <3>2. nextvalues'[i] = ValueAt(i, Reached(i))' /\ lastgaelam'[i] = Discounted(i, Reached(i))'
      BY <2>2, <3>1
    <3> QED
      BY <1>1, <3>2 DEF Carried
  <2>6. Filled(i)'
    <3>1. ASSUME NEW c \in S, c > t - 1 PROVE advantages'[i][c] = Whole(Discounted(i, Rank(S, c)))
      <4>1. CASE c = t
        <5>1. advantages'[i][t] = Whole(lastgaelam'[i])
          BY <1>1, <1>2, <1>3 DEF Shapes
        <5> QED
          BY <1>1, <2>4, <4>1, <5>1 DEF r
      <4>2. CASE c # t
        <5>1. c > t
          BY <2>2, <3>1, <4>2
        <5>2. advantages'[i][c] = advantages[i][c]
          BY <1>1, <1>2, <4>2 DEF Shapes
        <5> QED
          BY <1>1, <2>1, <5>1, <5>2 DEF Filled, OnePass
      <4> QED
        BY <4>1, <4>2
    <3>2. mask'[i] = S /\ t' = t - 1
      BY <1>1
    <3> QED
      BY <1>1, <2>2, <3>1, <3>2 DEF Filled, Whole
  <2> QED
    BY <1>1, <2>5, <2>6 DEF Passing, OnePass
<1> QED
  BY <1>1, <1>2, <1>6, <1>7 DEF AdvInv

\* Behind the last token of a mask without holes, nothing has been summed up.
LEMMA BehindLast ==
  ASSUME Shapes, NEW i \in Rows, NoHoles(i), t \in Columns, t \notin mask[i]
  PROVE  Reached(i) = Cardinality(mask[i]) + 1 /\ Discounted(i, Cardinality(mask[i]) + 1) = 0
<1> DEFINE S == mask[i]
           m == Cardinality(S)
<1>1. S \in SUBSET (1 .. MaxLength) /\ m \in Nat /\ MaxLength \in Nat /\ t \in 1 .. MaxLength
  BY ColumnFacts, TheConstants
<1>2. S = 1 .. m
  BY DEF NoHoles
<1>3. m < t
  BY <1>1, <1>2
<1>4. Rank(S, t) = m
  <2>1. \A c \in S : c <= t
    BY <1>1, <1>2, <1>3
  <2>2. {d \in S : d <= t} = S
    BY <2>1
  <2> QED
    BY <2>2 DEF Rank
<1>5. m + 1 \in 1 .. m + 1 /\ Gamma \in Int /\ Gamma * Lam \in Int
  BY <1>1, TheConstants, Distribute
<1>6. CutSum(i, m + 1, Gamma * Lam, TRUE) = 0 /\ CutSum(i, m + 1, Gamma, FALSE) = 0
  BY <1>5, CutStep
<1> QED
  BY <1>4, <1>6 DEF Reached, Discounted

LEMMA ReinforceMoves == AdvInv /\ ReinforceStep => AdvInv'
<1> SUFFICES ASSUME AdvInv, ReinforceStep PROVE AdvInv'
  OBVIOUS
<1> DEFINE running(i) == Reward(i, t) + Gamma * running_return[i]
<1>1. /\ phase = "selected" /\ estimator = "reinforce_plus_plus" /\ t > 0 /\ t' = t - 1
      /\ running_return' = [i \in Rows |-> IF t \in mask[i] THEN running(i) ELSE 0]
      /\ advantages' = [i \in Rows |-> [advantages[i] EXCEPT ![t] = Whole(running(i))]]
      /\ UNCHANGED <<estimator, ratio, length, score, mask, nextvalues, lastgaelam, phase>>
  BY DEF ReinforceStep
<1>2. Shapes /\ ratio \in Ratios /\ \A i \in Rows : Passing(i)
  BY <1>1 DEF AdvInv
<1>3. t \in Columns /\ t \in 1 .. MaxLength /\ t - 1 \in 0 .. MaxLength
  BY <1>1, <1>2, TheConstants DEF Shapes
<1>4. Gamma \in Int
  BY TheConstants
<1>5. ASSUME NEW i \in Rows PROVE running(i) \in Int /\ Reward(i, t) \in Int /\ Gamma * running_return[i] \in Int
  <2>1. Reward(i, t) \in Int
    BY <1>2, <1>3, RewardType
  <2>2. running_return[i] \in Int
    BY <1>2 DEF Shapes
  <2>3. Gamma * running_return[i] \in Int
    BY <1>4, <2>2, Distribute
  <2> QED
    BY <2>1, <2>3
<1> HIDE DEF running
<1>6. Shapes'
  <2>1. running_return' \in [Rows -> Int]
    BY <1>1, <1>5
  <2>2. ASSUME NEW i \in Rows PROVE [advantages[i] EXCEPT ![t] = Whole(running(i))] \in [Columns -> Int \X Int]
    <3>1. Whole(running(i)) \in Int \X Int
      BY <1>5 DEF Whole
    <3>2. advantages[i] \in [Columns -> Int \X Int]
      BY <1>1, <1>2 DEF Shapes
    <3> QED
      BY <3>1, <3>2
  <2>3. advantages' \in [Rows -> [Columns -> Int \X Int]]
    BY <1>1, <2>2
  <2> QED
    BY <1>1, <1>2, <1>3, <2>1, <2>3 DEF Shapes
<1>7. ASSUME NEW i \in Rows, Fit(i)' PROVE Carried(i)' /\ Filled(i)'
  <2> DEFINE S == mask[i]
             r == Rank(S, t)
  <2>1. Fit(i)' = Fit(i)
    BY <1>1, <1>2, Moving
  <2>2. NoHoles(i) /\ Carried(i) /\ Filled(i)
    BY <1>1, <1>2, <1>7, <2>1 DEF Passing, Fit
  <2>3. /\ Reached(i)' = IF t \in S THEN r ELSE Reached(i)
        /\ t \in S => r \in 1 .. Cardinality(S) /\ Column(i, r) = t /\ Reached(i) = r + 1
        /\ \A k : Discounted(i, k)' = Discounted(i, k)
        /\ \A c \in S : c > t - 1 <=> c = t \/ c > t
    BY <1>1, <1>2, Moving
  <2>4. running_return[i] = Discounted(i, Reached(i))
    BY <1>1, <2>2 DEF Carried
  <2> HIDE DEF r
  <2>5. ASSUME t \in S PROVE running(i) = Discounted(i, r)
    <3> DEFINE m == Cardinality(S)
    <3>1. m \in Nat /\ r \in 1 .. m /\ r \in 1 .. m + 1 /\ r <= m
      BY <1>2, <2>3, <2>5, ColumnFacts
    <3>2. Term(i, r, FALSE) = Reward(i, t)
      BY <1>5, <2>3, <2>5 DEF Term
    <3>3. CutSum(i, r, Gamma, FALSE) = Term(i, r, FALSE) + Gamma * CutSum(i, r + 1, Gamma, FALSE)
      BY <1>2, <1>4, <3>1, CutStep
    <3>4. CutSum(i, r + 1, Gamma, FALSE) = running_return[i] /\ Discounted(i, r) = CutSum(i, r, Gamma, FALSE)
      BY <1>1, <2>3, <2>4, <2>5 DEF Discounted
    <3> QED
      BY <3>2, <3>3, <3>4 DEF running
  <2>6. t \notin S => Discounted(i, Reached(i)) = 0
    BY <1>2, <1>3, <2>2, BehindLast
  <2>7. Carried(i)'
    <3>1. running_return'[i] = Discounted(i, Reached(i)')
      BY <1>1, <2>3, <2>5, <2>6
    <3>2. running_return'[i] = Discounted(i, Reached(i))'
      BY <2>3, <3>1
    <3> QED
      BY <1>1, <3>2 DEF Carried
  <2>8. Filled(i)'
    <3>1. ASSUME NEW c \in S, c > t - 1 PROVE advantages'[i][c] = Whole(Discounted(i, Rank(S, c)))
      <4>1. CASE c = t
        <5>1. advantages'[i][t] = Whole(running(i))
          BY <1>1, <1>2, <1>3 DEF Shapes
        <5> QED
          BY <1>1, <2>5, <4>1, <5>1 DEF r
      <4>2. CASE c # t
        <5>1. c > t
          BY <2>3, <3>1, <4>2
        <5>2. advantages'[i][c] = advantages[i][c]
          BY <1>1, <1>2, <4>2 DEF Shapes
        <5> QED
          BY <1>1, <2>2, <5>1, <5>2 DEF Filled, OnePass
      <4> QED
        BY <4>1, <4>2
    <3>2. mask'[i] = S /\ t' = t - 1
      BY <1>1
    <3> QED
      BY <1>1, <2>3, <3>1, <3>2 DEF Filled, Whole
  <2> QED
    BY <2>7, <2>8
<1>8. ASSUME NEW i \in Rows PROVE Passing(i)'
  BY <1>1, <1>7 DEF Passing, OnePass
<1> QED
  BY <1>1, <1>2, <1>6, <1>8 DEF AdvInv

\* The multi-turn baseline, taken apart: at place k of the responses of a prompt.
Places == [j \in Rows |-> 1 .. Tokens(j)]
PlaceColumn(j, p)  == [r \in Rows |-> MaskedColumns(r)][j][p]
PlaceReturn(j, p)  == ReturnsOf(mask, Reward, j, PlaceColumn(j, p))
PlaceEnergy(j, p)  == EnergyOf(mask, Energy, j, PlaceColumn(j, p))
AtPlace(i, k)      == {j \in Group(i) : k \in Places[j]}
Weighted(i, k)     == Total([j \in AtPlace(i, k) |-> PlaceReturn(j, k) * PlaceEnergy(j, k)])
Weights(i, k)      == Total([j \in AtPlace(i, k) |-> PlaceEnergy(j, k)])
PlaceBaselined(i, k) ==
  IF Cardinality(Group(i)) = 1 \/ Weights(i, k) = 0 \/ ZeroTail(Places, Group(i), i, k)
  THEN Whole(PlaceReturn(i, k))
  ELSE <<PlaceReturn(i, k) * Weights(i, k) - Weighted(i, k), Weights(i, k)>>

LEMMA MultiTurn ==
  ASSUME NEW i, NEW c
  PROVE  MultiTurnBaseline(i, c) = PlaceBaselined(i, Rank(mask[i], c))
BY DEF MultiTurnBaseline, Baselined, PlaceBaselined, Places, PlaceColumn, PlaceReturn, PlaceEnergy,
       AtPlace, Weighted, Weights, Rank

LEMMA MultiTurnKept ==
  ASSUME mask' = mask, \A i, c : Reward(i, c)' = Reward(i, c)
  PROVE  \A i, c : MultiTurnBaseline(i, c)' = MultiTurnBaseline(i, c)
<1>1. ASSUME NEW j PROVE MaskedColumns(j)' = MaskedColumns(j)
  BY DEF MaskedColumns, Tokens
<1>2. ASSUME NEW j, NEW p PROVE PlaceColumn(j, p)' = PlaceColumn(j, p)
  BY <1>1 DEF PlaceColumn
<1>3. ASSUME NEW j, NEW p PROVE PlaceReturn(j, p)' = PlaceReturn(j, p)
  BY <1>2 DEF PlaceReturn, ReturnsOf
<1>4. ASSUME NEW j, NEW p PROVE PlaceEnergy(j, p)' = PlaceEnergy(j, p)
  BY <1>2 DEF PlaceEnergy, EnergyOf
<1>5. Places' = Places
  BY DEF Places, Tokens
<1>6. ASSUME NEW i, NEW k PROVE AtPlace(i, k)' = AtPlace(i, k)
  BY <1>5 DEF AtPlace
<1>7. ASSUME NEW i, NEW k PROVE Weighted(i, k)' = Weighted(i, k)
  <2>1. Weighted(i, k)' = Total([j \in AtPlace(i, k)' |-> PlaceReturn(j, k)' * PlaceEnergy(j, k)'])
    BY DEF Weighted
  <2> QED
    BY <1>3, <1>4, <1>6, <2>1 DEF Weighted
<1>8. ASSUME NEW i, NEW k PROVE Weights(i, k)' = Weights(i, k)
  <2>1. Weights(i, k)' = Total([j \in AtPlace(i, k)' |-> PlaceEnergy(j, k)'])
    BY DEF Weights
  <2> QED
    BY <1>4, <1>6, <2>1 DEF Weights
<1>9. ASSUME NEW i, NEW k PROVE PlaceBaselined(i, k)' = PlaceBaselined(i, k)
  BY <1>3, <1>5, <1>7, <1>8 DEF PlaceBaselined, ZeroTail, Whole
<1>10. ASSUME NEW i, NEW c PROVE MultiTurnBaseline(i, c)' = MultiTurnBaseline(i, c)
  <2>1. MultiTurnBaseline(i, c)' = PlaceBaselined(i, Rank(mask[i], c))'
    BY DEF MultiTurnBaseline, Baselined, PlaceBaselined, Places, PlaceColumn, PlaceReturn, PlaceEnergy,
           AtPlace, Weighted, Weights, Rank
  <2>2. Rank(mask[i], c)' = Rank(mask[i], c)
    BY DEF Rank
  <2> DEFINE k == Rank(mask[i], c)
  <2>3. PlaceBaselined(i, Rank(mask[i], c))' = PlaceBaselined(i, k)
    BY <1>3, <1>5, <1>7, <1>8, <2>2 DEF PlaceBaselined, ZeroTail, Whole
  <2> QED
    BY <2>1, <2>3, MultiTurn
<1> QED
  BY <1>10

LEMMA EstimatesKept ==
  ASSUME UNCHANGED <<estimator, length, score, mask>>
  PROVE  /\ \A i : OfResponse(i)' = OfResponse(i)
         /\ \A i, c : OfToken(i, c)' = OfToken(i, c)
<1>1. estimator' = estimator /\ mask' = mask /\ score' = score /\ length' = length
  OBVIOUS
<1>2. ASSUME NEW i, NEW c PROVE Reward(i, c)' = Reward(i, c)
  BY <1>1 DEF Reward
<1>3. ASSUME NEW i PROVE Outcome(i)' = Outcome(i)
  BY <1>2 DEF Outcome
<1>4. ASSUME NEW i PROVE Sum(i)' = Sum(i)
  <2>1. Sum(i)' = Total([j \in Group(i) |-> Outcome(j)'])
    BY DEF Sum
  <2> QED
    BY <1>3, <2>1 DEF Sum
<1>5. ASSUME NEW i PROVE Tokens(i)' = Tokens(i)
  BY <1>1 DEF Tokens
<1>6. ASSUME NEW i PROVE Opo(i)' = Opo(i)
  <2> DEFINE all == Total([j \in Group(i) |-> Tokens(j)])
             weighted == Total([j \in Group(i) |-> Tokens(j) * Outcome(j)])
  <2>1. all' = all
    <3>1. all' = Total([j \in Group(i) |-> Tokens(j)'])
      OBVIOUS
    <3> QED
      BY <1>5, <3>1
  <2>2. weighted' = weighted
    <3>1. weighted' = Total([j \in Group(i) |-> Tokens(j)' * Outcome(j)'])
      OBVIOUS
    <3> QED
      BY <1>3, <1>5, <3>1
  <2>3. Opo(i) = IF N(i) = 1 THEN Whole(Outcome(i)) ELSE <<all * Outcome(i) - weighted, all>>
    BY DEF Opo
  <2>4. Opo(i)' = IF N(i) = 1 THEN Whole(Outcome(i)') ELSE <<all' * Outcome(i)' - weighted', all'>>
    BY DEF Opo, Whole
  <2> QED
    BY <1>3, <2>1, <2>2, <2>3, <2>4
<1>7. ASSUME NEW i PROVE OfResponse(i)' = OfResponse(i)
  <2>1. Grpo(i)' = Grpo(i) /\ Rloo(i)' = Rloo(i)
    BY <1>3, <1>4 DEF Grpo, Rloo, Whole
  <2>2. RlooVectorized(i)' = RlooVectorized(i)
    BY <2>1 DEF RlooVectorized, Whole
  <2> QED
    BY <1>1, <1>6, <2>1, <2>2 DEF OfResponse
<1>8. ASSUME NEW i, NEW c PROVE OfToken(i, c)' = OfToken(i, c)
  <2>1. Remax(i, c)' = Remax(i, c)
    BY <1>1, <1>2 DEF Remax, ReturnsOf, Whole
  <2>2. SingleTurnBaseline(i, c)' = SingleTurnBaseline(i, c)
    BY <1>1, <1>2 DEF SingleTurnBaseline, OptimalTokenBaseline, Baselined, ReturnsOf, EnergyOf, ZeroTail, Whole
  <2>3. MultiTurnBaseline(i, c)' = MultiTurnBaseline(i, c)
    BY <1>1, <1>2, MultiTurnKept
  <2> QED
    BY <1>1, <2>1, <2>2, <2>3 DEF OfToken
<1> QED
  BY <1>7, <1>8

LEMMA PassEnding == AdvInv /\ PassEnds => AdvInv'
<1> SUFFICES ASSUME AdvInv, PassEnds PROVE AdvInv'
  OBVIOUS
<1>1. /\ phase = "selected" /\ t = 0 /\ phase' = "done"
      /\ UNCHANGED <<estimator, ratio, length, score, mask, t, nextvalues, lastgaelam, running_return, advantages>>
  BY DEF PassEnds
<1>2. Shapes /\ ratio \in Ratios /\ \A i \in Rows : Passing(i)
  BY <1>1 DEF AdvInv
<1>3. Shapes'
  BY <1>1, <1>2 DEF Shapes
<1>4. ASSUME NEW i \in Rows PROVE Finished(i)'
  <2>1. MaxLength \in Nat /\ Cardinality(mask[i]) \in 1 .. MaxLength
    BY <1>2, ColumnFacts, TheConstants
  <2>2. MaxLength # 0
    BY <2>1
  <2>3. estimator \in OnePass
    BY <1>1, <1>2, <2>2 DEF Passing
  <2>4. Fit(i)' = Fit(i) /\ \A k : Discounted(i, k)' = Discounted(i, k)
    BY <1>1, SumsKept DEF Fit, Discounted
  <2>5. (Fit(i) => Filled(i))'
    BY <1>1, <1>2, <2>4 DEF Passing, Filled, Rank, Whole
  <2>6. estimator \notin PerResponse /\ estimator \notin PerToken
    BY <2>3 DEF OnePass, PerResponse, PerToken
  <2> QED
    BY <1>1, <2>3, <2>5, <2>6 DEF Finished
<1> QED
  BY <1>1, <1>2, <1>3, <1>4 DEF AdvInv

LEMMA Estimating == AdvInv /\ Estimate => AdvInv'
<1> SUFFICES ASSUME AdvInv, Estimate PROVE AdvInv'
  OBVIOUS
<1>1. /\ phase = "selected" /\ phase' = "done"
      /\ UNCHANGED <<estimator, ratio, length, score, mask, t, nextvalues, lastgaelam, running_return>>
      /\ \/ /\ estimator \in PerResponse
            /\ advantages' = [i \in Rows |-> [c \in Columns |-> IF c \in mask[i] THEN OfResponse(i) ELSE Whole(0)]]
         \/ /\ estimator \in PerToken
            /\ advantages' = [i \in Rows |-> [c \in Columns |-> IF c \in mask[i] THEN OfToken(i, c) ELSE Whole(0)]]
  BY DEF Estimate
<1>2. Shapes /\ ratio \in Ratios /\ mask \in [Rows -> SUBSET Columns]
  BY <1>1 DEF AdvInv, Shapes
<1>3. Shapes'
  BY <1>1, <1>2 DEF Shapes
<1>4. ASSUME NEW i \in Rows PROVE Finished(i)'
  <2>1. \A c \in mask[i] : c \in Columns
    BY <1>2
  <2>2. OfResponse(i)' = OfResponse(i) /\ \A c : OfToken(i, c)' = OfToken(i, c)
    BY <1>1, EstimatesKept
  <2>3. estimator \notin OnePass /\ (estimator \in PerResponse <=> ~(estimator \in PerToken))
    BY <1>1 DEF OnePass, PerResponse, PerToken
  <2>4. estimator \in PerResponse => \A c \in mask[i] : advantages'[i][c] = OfResponse(i)
    BY <1>1, <2>1, <2>3
  <2>5. estimator \in PerToken => \A c \in mask[i] : advantages'[i][c] = OfToken(i, c)
    BY <1>1, <2>1, <2>3
  <2> QED
    BY <1>1, <2>2, <2>3, <2>4, <2>5 DEF Finished
<1> QED
  BY <1>1, <1>2, <1>3, <1>4 DEF AdvInv

LEMMA Standing == AdvInv /\ UNCHANGED vars => AdvInv'
<1> SUFFICES ASSUME AdvInv, UNCHANGED vars PROVE AdvInv'
  OBVIOUS
<1>1. UNCHANGED <<estimator, ratio, length, score, mask, t, nextvalues, lastgaelam, running_return, advantages, phase>>
  BY DEF vars
<1>2. Shapes' /\ ratio' \in Ratios
  BY <1>1 DEF AdvInv, Shapes
<1>3. ASSUME NEW i \in Rows
      PROVE  /\ Untouched(i) => Untouched(i)'
             /\ Passing(i) => Passing(i)'
             /\ Finished(i) => Finished(i)'
  <2>1. /\ Fit(i)' = Fit(i) /\ Reached(i)' = Reached(i)
        /\ \A k : Discounted(i, k)' = Discounted(i, k) /\ ValueAt(i, k)' = ValueAt(i, k)
    BY <1>1, SumsKept DEF Fit, Discounted, Reached, Rank
  <2>2. OfResponse(i)' = OfResponse(i) /\ \A c : OfToken(i, c)' = OfToken(i, c)
    BY <1>1, EstimatesKept
  <2>3. Untouched(i) => Untouched(i)'
    BY <1>1 DEF Untouched
  <2>4. Filled(i) => Filled(i)'
    BY <1>1, <2>1 DEF Filled, Rank, Whole
  <2>5. Carried(i) => Carried(i)'
    BY <1>1, <2>1 DEF Carried
  <2>6. Passing(i) => Passing(i)'
    BY <1>1, <2>1, <2>4, <2>5 DEF Passing
  <2>7. Finished(i) => Finished(i)'
    BY <1>1, <2>1, <2>2, <2>4 DEF Finished
  <2> QED
    BY <2>3, <2>6, <2>7
<1> QED
  BY <1>1, <1>2, <1>3 DEF AdvInv

\* Every state: what the pass has filled in and what it carries are the sums the
\* formulas give for the selected tokens, and a finished batch holds what its
\* estimator computes.
THEOREM Computed == Spec => []AdvInv
<1>1. Init => AdvInv
  BY Starting
<1>2. AdvInv /\ [Next]_vars => AdvInv'
  BY Selecting, GaeMoves, ReinforceMoves, PassEnding, Estimating, Standing DEF Next
<1> QED
  BY <1>1, <1>2, PTL DEF Spec

-----------------------------------------------------------------------------
(* Returns and energies, counted over the selected tokens alone.              *)

CutReturn(i, k) == Total([j \in k .. Cardinality(mask[i]) |-> Reward(i, Column(i, j))])
CutEnergy(i, k) == Total([j \in 1 .. k |-> Energy(i, Column(i, j))])

LEMMA Aligned ==
  ASSUME Shapes, NEW i \in Rows, NEW S, S = mask[i], NEW m, m = Cardinality(S)
  PROVE  /\ S \in SUBSET Columns /\ m \in Nat /\ m <= MaxLength /\ IsFiniteSet(S) /\ MaxLength \in Nat
         /\ \A j \in 1 .. m : /\ Column(i, j) \in S /\ Rank(S, Column(i, j)) = j
                             /\ Column(i, j) \in Columns /\ Column(i, j) \in Int /\ j \in Int
         /\ \A c \in S : Rank(S, c) \in 1 .. m /\ Column(i, Rank(S, c)) = c
         /\ \A j, l \in 1 .. m : j < l <=> Column(i, j) < Column(i, l)
<1>1. S \in SUBSET Columns /\ m \in 1 .. MaxLength /\ IsFiniteSet(S)
  BY ColumnFacts
<1>2. /\ \A j \in 1 .. m : Column(i, j) \in S /\ Rank(S, Column(i, j)) = j
      /\ \A c \in S : Rank(S, c) \in 1 .. m /\ Column(i, Rank(S, c)) = c
      /\ \A j, l \in 1 .. m : j < l <=> Column(i, j) < Column(i, l)
  BY ColumnFacts
<1>3. MaxLength \in Nat /\ \A c \in Columns : c \in Int
  BY TheConstants
<1>4. \A j \in 1 .. m : Column(i, j) \in Columns /\ Column(i, j) \in Int /\ j \in Int
  BY <1>1, <1>2, <1>3
<1> QED
  BY <1>1, <1>2, <1>3, <1>4

LEMMA ReturnCut ==
  ASSUME Shapes, NEW i \in Rows, NEW S, S = mask[i], NEW m, m = Cardinality(S), NEW k \in 1 .. m
  PROVE  /\ ReturnsOf(mask, Reward, i, Column(i, k)) = CutReturn(i, k)
         /\ CutSum(i, k, 1, FALSE) = CutReturn(i, k)
         /\ CutReturn(i, k) \in Int
<1> DEFINE X == k .. m
           Y == {d \in S : d >= Column(i, k)}
           f == [j \in X |-> Reward(i, Column(i, j))]
           e == [d \in Y |-> Reward(i, d)]
           b == [j \in X |-> Column(i, j)]
<1>1. /\ S \in SUBSET Columns /\ m \in Nat /\ m <= MaxLength /\ IsFiniteSet(S) /\ MaxLength \in Nat
      /\ \A j \in 1 .. m : /\ Column(i, j) \in S /\ Rank(S, Column(i, j)) = j
                          /\ Column(i, j) \in Columns /\ Column(i, j) \in Int /\ j \in Int
      /\ \A c \in S : Rank(S, c) \in 1 .. m /\ Column(i, Rank(S, c)) = c
      /\ \A j, l \in 1 .. m : j < l <=> Column(i, j) < Column(i, l)
  BY Aligned
<1>2. /\ \A j \in X : j \in 1 .. m /\ Column(i, j) \in Columns
      /\ \A j, l \in 1 .. m : Column(i, j) \in Int /\ j \in Int
      /\ k \in 1 .. m
  BY <1>1
<1>3. \A d \in S : Reward(i, d) \in Int
  BY <1>1, RewardType
<1>4. IsFiniteSet(X) /\ IsFiniteSet(Y)
  <2>1. IsFiniteSet(k .. m)
    BY <1>1, FS_Interval
  <2>2. Y \in SUBSET S
    OBVIOUS
  <2> QED
    BY <1>1, <2>1, <2>2, FS_Subset
<1>5. \A j \in X : Column(i, j) \in Y
  <2> SUFFICES ASSUME NEW j \in X PROVE Column(i, j) \in Y
    OBVIOUS
  <2>1. j \in 1 .. m /\ (k < j \/ k = j)
    BY <1>1
  <2>2. Column(i, j) \in Int /\ Column(i, k) \in Int
    BY <1>2, <2>1
  <2>3. k < j => Column(i, k) < Column(i, j)
    BY <1>1, <2>1
  <2>4. Column(i, k) <= Column(i, j)
    BY <2>1, <2>2, <2>3
  <2> QED
    BY <1>1, <2>1, <2>2, <2>4
<1>6. \A y \in Y : \E j \in X : b[j] = y
  <2> SUFFICES ASSUME NEW y \in Y PROVE \E j \in X : b[j] = y
    OBVIOUS
  <2> DEFINE r == Rank(S, y)
  <2>1. r \in 1 .. m /\ Column(i, r) = y /\ y \in S /\ y >= Column(i, k)
    BY <1>1
  <2> HIDE DEF r
  <2>2. Column(i, k) \in Int /\ Column(i, r) \in Int
    BY <1>2, <2>1
  <2>3. ~(Column(i, r) < Column(i, k))
    BY <2>1, <2>2
  <2>4. ~(r < k)
    BY <1>1, <1>2, <2>1, <2>3
  <2>5. r \in X
    BY <1>1, <2>1, <2>4
  <2> QED
    BY <2>1, <2>5
<1>7. \A j, l \in X : j # l => b[j] # b[l]
  <2> SUFFICES ASSUME NEW j \in X, NEW l \in X, Column(i, j) = Column(i, l) PROVE j = l
    OBVIOUS
  <2> QED
    BY <1>1, <1>2
<1>8. Renames(b, X, f, Y, e)
  <2>1. f \in [X -> Int] /\ e \in [Y -> Int]
    BY <1>1, <1>2, <1>3
  <2>2. b \in [X -> Y] /\ \A j \in X : f[j] = e[b[j]]
    BY <1>5
  <2> HIDE DEF f, e, b, X, Y
  <2> QED
    BY <1>6, <1>7, <2>1, <2>2 DEF Renames
<1>9. CutSum(i, k, 1, FALSE) = Total(f)
  <2> DEFINE g == [j \in k .. m |-> Powers(1)[j - k] * Term(i, j, FALSE)]
  <2>1. CutSum(i, k, 1, FALSE) = Total(g)
    BY DEF CutSum, Term, ValueAt
  <2>2. ASSUME NEW j \in X PROVE Powers(1)[j - k] * Term(i, j, FALSE) = Reward(i, Column(i, j))
    <3>1. j - k \in 0 .. MaxLength
      BY <1>1
    <3>2. Powers(1)[j - k] = 1
      BY <3>1, PowersOfOne
    <3>3. Reward(i, Column(i, j)) \in Int
      BY <1>1, <1>2, <1>3
    <3> QED
      BY <3>2, <3>3 DEF Term
  <2>3. g = f
    BY <2>2
  <2> HIDE DEF f, g
  <2> QED
    BY <2>1, <2>3
<1>10. ReturnsOf(mask, Reward, i, Column(i, k)) = Total(e) /\ CutReturn(i, k) = Total(f)
  BY DEF ReturnsOf, CutReturn
<1>11. f \in [X -> Int]
  BY <1>8 DEF Renames
<1> HIDE DEF f, e, b, X, Y
<1>12. Total(f) = Total(e)
  BY <1>4, <1>8, TotalMoved
<1>13. Total(f) \in Int
  BY <1>4, <1>11, TotalSplit
<1> QED
  BY <1>9, <1>10, <1>12, <1>13

LEMMA EnergyCut ==
  ASSUME Shapes, NEW i \in Rows, NEW S, S = mask[i], NEW m, m = Cardinality(S), NEW k \in 1 .. m
  PROVE  /\ EnergyOf(mask, Energy, i, Column(i, k)) = CutEnergy(i, k)
         /\ CutEnergy(i, k) \in Nat
<1> DEFINE X == 1 .. k
           Y == {d \in S : d <= Column(i, k)}
           f == [j \in X |-> Energy(i, Column(i, j))]
           e == [d \in Y |-> Energy(i, d)]
           b == [j \in X |-> Column(i, j)]
<1>1. /\ S \in SUBSET Columns /\ m \in Nat /\ m <= MaxLength /\ IsFiniteSet(S) /\ MaxLength \in Nat
      /\ \A j \in 1 .. m : /\ Column(i, j) \in S /\ Rank(S, Column(i, j)) = j
                          /\ Column(i, j) \in Columns /\ Column(i, j) \in Int /\ j \in Int
      /\ \A c \in S : Rank(S, c) \in 1 .. m /\ Column(i, Rank(S, c)) = c
      /\ \A j, l \in 1 .. m : j < l <=> Column(i, j) < Column(i, l)
  BY Aligned
<1>2. /\ \A j \in X : j \in 1 .. m /\ Column(i, j) \in Columns
      /\ \A j, l \in 1 .. m : Column(i, j) \in Int /\ j \in Int
      /\ k \in 1 .. m
  BY <1>1
<1>3. \A d \in S : Energy(i, d) \in Nat
  BY <1>1, TheConstants
<1>4. IsFiniteSet(X) /\ IsFiniteSet(Y)
  <2>1. IsFiniteSet(1 .. k)
    BY <1>2, FS_Interval
  <2>2. Y \in SUBSET S
    OBVIOUS
  <2> QED
    BY <1>1, <2>1, <2>2, FS_Subset
<1>5. \A j \in X : Column(i, j) \in Y
  <2> SUFFICES ASSUME NEW j \in X PROVE Column(i, j) \in Y
    OBVIOUS
  <2>1. j \in 1 .. m /\ (j < k \/ k = j)
    BY <1>2
  <2>2. Column(i, j) \in Int /\ Column(i, k) \in Int
    BY <1>2, <2>1
  <2>3. j < k => Column(i, j) < Column(i, k)
    BY <1>1, <2>1
  <2>4. Column(i, j) <= Column(i, k)
    BY <2>1, <2>2, <2>3
  <2> QED
    BY <1>1, <2>1, <2>2, <2>4
<1>6. \A y \in Y : \E j \in X : b[j] = y
  <2> SUFFICES ASSUME NEW y \in Y PROVE \E j \in X : b[j] = y
    OBVIOUS
  <2> DEFINE r == Rank(S, y)
  <2>1. r \in 1 .. m /\ Column(i, r) = y /\ y \in S /\ y <= Column(i, k)
    BY <1>1
  <2> HIDE DEF r
  <2>2. Column(i, k) \in Int /\ Column(i, r) \in Int
    BY <1>2, <2>1
  <2>3. ~(Column(i, k) < Column(i, r))
    BY <2>1, <2>2
  <2>4. ~(k < r)
    BY <1>1, <1>2, <2>1, <2>3
  <2>5. r \in X
    BY <1>1, <2>1, <2>4
  <2> QED
    BY <2>1, <2>5
<1>7. \A j, l \in X : j # l => b[j] # b[l]
  <2> SUFFICES ASSUME NEW j \in X, NEW l \in X, Column(i, j) = Column(i, l) PROVE j = l
    OBVIOUS
  <2> QED
    BY <1>1, <1>2
<1>8. f \in [X -> Nat]
  BY <1>1, <1>2, <1>3
<1>9. Renames(b, X, f, Y, e)
  <2>1. f \in [X -> Int] /\ e \in [Y -> Int]
    BY <1>1, <1>2, <1>3
  <2>2. b \in [X -> Y] /\ \A j \in X : f[j] = e[b[j]]
    BY <1>5
  <2> HIDE DEF f, e, b, X, Y
  <2> QED
    BY <1>6, <1>7, <2>1, <2>2 DEF Renames
<1>10. EnergyOf(mask, Energy, i, Column(i, k)) = Total(e) /\ CutEnergy(i, k) = Total(f)
  BY DEF EnergyOf, CutEnergy
<1> HIDE DEF f, e, b, X, Y
<1>11. Total(f) = Total(e)
  BY <1>4, <1>9, TotalMoved
<1>12. Total(f) \in Nat
  BY <1>4, <1>8, TotalNat
<1> QED
  BY <1>10, <1>11, <1>12

\* w_cumulative[i, mask] picks the columns the places stand for.
LEMMA PlaceColumns ==
  ASSUME Shapes, NEW j \in Rows, NEW p \in 1 .. Tokens(j)
  PROVE  PlaceColumn(j, p) = Column(j, p)
<1> DEFINE S == mask[j]
           m == Cardinality(S)
           Before(c) == Cardinality({d \in S : d < c})
<1>1. /\ S \in SUBSET (1 .. MaxLength) /\ MaxLength \in Nat /\ p \in 1 .. m
      /\ Column(j, p) \in S /\ Rank(S, Column(j, p)) = p
      /\ \A c \in S : Rank(S, c) \in 1 .. m /\ Column(j, Rank(S, c)) = c
  <2>1. S \in SUBSET Columns /\ \A c \in S : Rank(S, c) \in 1 .. m /\ Column(j, Rank(S, c)) = c
    BY ColumnFacts
  <2>2. \A k \in 1 .. m : Column(j, k) \in S /\ Rank(S, Column(j, k)) = k
    BY ColumnFacts
  <2>3. p \in 1 .. m
    BY DEF Tokens
  <2> QED
    BY <2>1, <2>2, <2>3, TheConstants
<1>2. \A c \in S : Before(c) = Rank(S, c) - 1
  <2> SUFFICES ASSUME NEW c \in S PROVE Before(c) = Rank(S, c) - 1
    OBVIOUS
  <2>1. c \in 1 .. MaxLength /\ c - 1 \in 0 .. MaxLength
    BY <1>1
  <2>2. \A d \in S : d < c <=> d <= c - 1
    BY <1>1
  <2>3. {d \in S : d < c} = {d \in S : d <= c - 1}
    BY <2>2
  <2>4. Before(c) = Rank(S, c - 1)
    BY <2>3 DEF Rank
  <2>5. /\ Rank(S, c) = IF c \in S THEN Rank(S, c - 1) + 1 ELSE Rank(S, c - 1)
        /\ Rank(S, c - 1) \in 0 .. m
    <3>1. /\ \A d \in 0 .. MaxLength : Rank(S, d) \in 0 .. m
          /\ \A d \in 1 .. MaxLength : Rank(S, d) = IF d \in S THEN Rank(S, d - 1) + 1 ELSE Rank(S, d - 1)
      BY <1>1, RankFacts
    <3> QED
      BY <2>1, <3>1
  <2> HIDE DEF Before
  <2> QED
    BY <1>1, <2>4, <2>5
<1> DEFINE C == CHOOSE c \in S : Before(c) = p - 1
<1>3. PlaceColumn(j, p) = C
  BY DEF PlaceColumn, MaskedColumns, Tokens
<1> HIDE DEF Before
<1>4. Before(Column(j, p)) = p - 1
  BY <1>1, <1>2
<1>5. C \in S /\ Before(C) = p - 1
  BY <1>1, <1>4
<1> HIDE DEF C
<1>6. Rank(S, C) = p
  <2>1. Rank(S, C) \in Int /\ p \in Int
    BY <1>1, <1>5
  <2>2. Rank(S, C) - 1 = p - 1
    BY <1>2, <1>5
  <2> QED
    BY <2>1, <2>2
<1> QED
  BY <1>1, <1>3, <1>5, <1>6

CutWeighted(i, k) == Total([j \in AtPlace(i, k) |-> CutReturn(j, k) * CutEnergy(j, k)])
CutWeights(i, k)  == Total([j \in AtPlace(i, k) |-> CutEnergy(j, k)])
CutBaselined(i, k) ==
  IF Cardinality(Group(i)) = 1 \/ CutWeights(i, k) = 0 \/ ZeroTail(Places, Group(i), i, k)
  THEN Whole(CutReturn(i, k))
  ELSE <<CutReturn(i, k) * CutWeights(i, k) - CutWeighted(i, k), CutWeights(i, k)>>

LEMMA AtPlaceFacts ==
  ASSUME NEW i \in Rows, NEW k
  PROVE  /\ AtPlace(i, k) \in SUBSET Rows /\ IsFiniteSet(AtPlace(i, k))
         /\ \A j \in AtPlace(i, k) : j \in Group(i) /\ k \in 1 .. Tokens(j) /\ k \in 1 .. Cardinality(mask[j])
         /\ i \in Group(i) /\ Group(i) \in SUBSET Rows /\ IsFiniteSet(Group(i))
         /\ k \in 1 .. Tokens(i) => i \in AtPlace(i, k)
<1>1. i \in Group(i) /\ Group(i) \in SUBSET Rows
  BY DEF Group
<1>2. AtPlace(i, k) \in SUBSET Rows
  BY <1>1 DEF AtPlace
<1>3. IsFiniteSet(AtPlace(i, k)) /\ IsFiniteSet(Group(i))
  BY <1>1, <1>2, TheConstants, FS_Subset
<1>4. \A j \in AtPlace(i, k) : j \in Group(i) /\ k \in 1 .. Tokens(j) /\ k \in 1 .. Cardinality(mask[j])
  BY <1>1 DEF AtPlace, Places, Tokens
<1>5. k \in 1 .. Tokens(i) => i \in AtPlace(i, k)
  BY <1>1 DEF AtPlace, Places
<1> QED
  BY <1>1, <1>2, <1>3, <1>4, <1>5

LEMMA PlacesCut ==
  ASSUME Shapes, NEW i \in Rows, NEW k \in 1 .. Cardinality(mask[i])
  PROVE  PlaceBaselined(i, k) = CutBaselined(i, k)
<1>1. ASSUME NEW j \in Rows, k \in 1 .. Cardinality(mask[j])
      PROVE  PlaceReturn(j, k) = CutReturn(j, k) /\ PlaceEnergy(j, k) = CutEnergy(j, k)
  <2>1. PlaceColumn(j, k) = Column(j, k)
    BY <1>1, PlaceColumns DEF Tokens
  <2>2. ReturnsOf(mask, Reward, j, Column(j, k)) = CutReturn(j, k)
    BY <1>1, ReturnCut
  <2>3. EnergyOf(mask, Energy, j, Column(j, k)) = CutEnergy(j, k)
    BY <1>1, EnergyCut
  <2> QED
    BY <2>1, <2>2, <2>3 DEF PlaceReturn, PlaceEnergy
<1>2. \A j \in AtPlace(i, k) : PlaceReturn(j, k) = CutReturn(j, k) /\ PlaceEnergy(j, k) = CutEnergy(j, k)
  BY <1>1, AtPlaceFacts
<1>3. PlaceReturn(i, k) = CutReturn(i, k)
  BY <1>1
<1>4. Weighted(i, k) = CutWeighted(i, k) /\ Weights(i, k) = CutWeights(i, k)
  BY <1>2 DEF Weighted, CutWeighted, Weights, CutWeights
<1> QED
  BY <1>3, <1>4 DEF PlaceBaselined, CutBaselined

\* The single-turn formula, given the selected tokens as a response of their own.
LEMMA CutBaseline ==
  ASSUME Shapes, NEW i \in Rows, NEW k \in 1 .. Cardinality(mask[i])
  PROVE  OptimalTokenBaseline([j \in Rows |-> 1 .. Cardinality(mask[j])],
             LAMBDA j, p : Reward(j, Column(j, p)), LAMBDA j, p : Energy(j, Column(j, p)), i, k)
         = CutBaselined(i, k)
<1> DEFINE Ret(j) == Total([d \in {d \in Places[j] : d >= k} |-> Reward(j, Column(j, d))])
           En(j)  == Total([d \in {d \in Places[j] : d <= k} |-> Energy(j, Column(j, d))])
           num == Total([j \in AtPlace(i, k) |-> Ret(j) * En(j)])
           den == Total([j \in AtPlace(i, k) |-> En(j)])
<1>1. OptimalTokenBaseline([j \in Rows |-> 1 .. Cardinality(mask[j])],
             LAMBDA j, p : Reward(j, Column(j, p)), LAMBDA j, p : Energy(j, Column(j, p)), i, k)
      = IF Cardinality(Group(i)) = 1 \/ den = 0 \/ ZeroTail(Places, Group(i), i, k) THEN Whole(Ret(i))
        ELSE <<Ret(i) * den - num, den>>
  BY DEF OptimalTokenBaseline, Baselined, ReturnsOf, EnergyOf, Places, Tokens, AtPlace
<1>2. ASSUME NEW j \in Rows, k \in 1 .. Cardinality(mask[j])
      PROVE  Ret(j) = CutReturn(j, k) /\ En(j) = CutEnergy(j, k)
  <2> DEFINE m == Cardinality(mask[j])
  <2>1. Places[j] = 1 .. m
    BY DEF Places, Tokens
  <2>2. m \in Nat /\ k \in 1 .. m
    BY <1>2, ColumnFacts
  <2>3. {d \in Places[j] : d >= k} = k .. m /\ {d \in Places[j] : d <= k} = 1 .. k
    BY <2>1, <2>2
  <2> QED
    BY <2>3 DEF CutReturn, CutEnergy
<1> HIDE DEF Ret, En
<1>3. \A j \in AtPlace(i, k) : Ret(j) = CutReturn(j, k) /\ En(j) = CutEnergy(j, k)
  BY <1>2, AtPlaceFacts
<1>4. Ret(i) = CutReturn(i, k)
  BY <1>2
<1>5. num = CutWeighted(i, k) /\ den = CutWeights(i, k)
  BY <1>3 DEF CutWeighted, CutWeights
<1> HIDE DEF num, den
<1> QED
  BY <1>1, <1>4, <1>5 DEF CutBaselined

\* Without holes the places are the columns.
LEMMA NoHolesColumns ==
  ASSUME Shapes, NEW j \in Rows, NoHoles(j), NEW k \in 1 .. Cardinality(mask[j])
  PROVE  Column(j, k) = k
<1> DEFINE m == Cardinality(mask[j])
<1>1. m \in Nat /\ mask[j] = 1 .. m /\ k \in 1 .. m
  BY ColumnFacts DEF NoHoles
<1>2. Rank(mask[j], k) = k
  <2>1. {d \in mask[j] : d <= k} = 1 .. k
    BY <1>1
  <2>2. k \in Nat
    BY <1>1
  <2>3. Cardinality(1 .. k) = k
    BY <2>2, UpTo
  <2> QED
    BY <2>1, <2>3 DEF Rank
<1>3. \A c \in mask[j] : Column(j, Rank(mask[j], c)) = c
  BY ColumnFacts
<1> HIDE DEF m
<1>4. k \in mask[j]
  BY <1>1
<1> QED
  BY <1>2, <1>3, <1>4

LEMMA SingleTurnCut ==
  ASSUME Shapes, NEW i \in Rows, \A j \in Group(i) : NoHoles(j), NEW k \in 1 .. Cardinality(mask[i])
  PROVE  SingleTurnBaseline(i, Column(i, k)) = CutBaselined(i, k)
<1> DEFINE num == Total([j \in AtPlace(i, k) |-> ReturnsOf(mask, Reward, j, k) * EnergyOf(mask, Energy, j, k)])
           den == Total([j \in AtPlace(i, k) |-> EnergyOf(mask, Energy, j, k)])
<1>1. i \in Group(i) /\ Group(i) \in SUBSET Rows
  BY AtPlaceFacts
<1>2. Column(i, k) = k
  BY <1>1, NoHolesColumns
<1>3. \A j \in Group(i) : mask[j] = Places[j]
  BY <1>1 DEF NoHoles, Places, Tokens
<1>4. {j \in Group(i) : k \in mask[j]} = AtPlace(i, k)
  BY <1>3 DEF AtPlace
<1>5. ZeroTail(mask, Group(i), i, k) = ZeroTail(Places, Group(i), i, k)
  BY <1>1, <1>3 DEF ZeroTail
<1>6. SingleTurnBaseline(i, k)
      = IF Cardinality(Group(i)) = 1 \/ den = 0 \/ ZeroTail(mask, Group(i), i, k)
        THEN Whole(ReturnsOf(mask, Reward, i, k))
        ELSE <<ReturnsOf(mask, Reward, i, k) * den - num, den>>
  BY <1>4 DEF SingleTurnBaseline, OptimalTokenBaseline, Baselined
<1>7. ASSUME NEW j \in Group(i), k \in 1 .. Cardinality(mask[j])
      PROVE  ReturnsOf(mask, Reward, j, k) = CutReturn(j, k) /\ EnergyOf(mask, Energy, j, k) = CutEnergy(j, k)
  <2>1. j \in Rows /\ NoHoles(j)
    BY <1>1
  <2>2. Column(j, k) = k
    BY <1>7, <2>1, NoHolesColumns
  <2>3. ReturnsOf(mask, Reward, j, Column(j, k)) = CutReturn(j, k)
    BY <1>7, <2>1, ReturnCut
  <2>4. EnergyOf(mask, Energy, j, Column(j, k)) = CutEnergy(j, k)
    BY <1>7, <2>1, EnergyCut
  <2> QED
    BY <2>2, <2>3, <2>4
<1>8. \A j \in AtPlace(i, k) : ReturnsOf(mask, Reward, j, k) = CutReturn(j, k)
                              /\ EnergyOf(mask, Energy, j, k) = CutEnergy(j, k)
  BY <1>7, AtPlaceFacts
<1>9. ReturnsOf(mask, Reward, i, k) = CutReturn(i, k)
  BY <1>1, <1>7
<1>10. num = CutWeighted(i, k) /\ den = CutWeights(i, k)
  BY <1>8 DEF CutWeighted, CutWeights
<1> HIDE DEF num, den
<1> QED
  BY <1>2, <1>5, <1>6, <1>9, <1>10 DEF CutBaselined

LEMMA AsIfCut ==
  ASSUME AdvInv, phase = "done", estimator \notin PerResponse, NEW i \in Rows,
         estimator \in {"reinforce_plus_plus", "optimal_token_baseline"} => \A j \in Group(i) : NoHoles(j),
         NEW k \in 1 .. Cardinality(mask[i])
  PROVE  advantages[i][Column(i, k)] = CutAdvantage(i, k)
<1> DEFINE c == Column(i, k)
<1>1. Shapes /\ Finished(i)
  BY DEF AdvInv
<1>2. c \in mask[i] /\ Rank(mask[i], c) = k /\ c \in Int /\ c > 0
  <2>1. \A l \in 1 .. Cardinality(mask[i]) : Column(i, l) \in mask[i] /\ Rank(mask[i], Column(i, l)) = l
    BY <1>1, ColumnFacts
  <2>2. \A d \in mask[i] : d \in Int /\ d > 0
    BY <1>1, TheConstants DEF Shapes
  <2> QED
    BY <2>1, <2>2
<1>3. i \in Group(i)
  BY AtPlaceFacts
<1>4. CASE estimator \in OnePass
  <2>1. Fit(i)
    BY <1>3 DEF Fit
  <2>2. t = 0 /\ Filled(i)
    BY <1>1, <1>4, <2>1 DEF Finished
  <2> HIDE DEF c
  <2>3. advantages[i][c] = Whole(Discounted(i, k))
    BY <1>2, <1>4, <2>2 DEF Filled
  <2>4. CutAdvantage(i, k) = Whole(Discounted(i, k))
    BY <1>4 DEF CutAdvantage, Discounted, OnePass
  <2> QED
    BY <2>3, <2>4 DEF c
<1>5. CASE estimator \in PerToken
  <2>1. advantages[i][c] = OfToken(i, c)
    BY <1>1, <1>2, <1>5 DEF Finished
  <2>2. CASE estimator = "remax"
    <3>1. ReturnsOf(mask, Reward, i, c) = CutReturn(i, k) /\ CutSum(i, k, 1, FALSE) = CutReturn(i, k)
      BY <1>1, ReturnCut
    <3>2. OfToken(i, c) = Whole(ReturnsOf(mask, Reward, i, c))
      BY <2>2 DEF OfToken, Remax
    <3>3. CutAdvantage(i, k) = Whole(CutSum(i, k, 1, FALSE))
      BY <2>2 DEF CutAdvantage
    <3> QED
      BY <2>1, <3>1, <3>2, <3>3
  <2>3. CASE estimator \in {"optimal_token_baseline", "tir_optimal_token_baseline"}
    <3>1. CutAdvantage(i, k) = CutBaselined(i, k)
      <4>1. CutAdvantage(i, k) = OptimalTokenBaseline([j \in Rows |-> 1 .. Cardinality(mask[j])],
                LAMBDA j, p : Reward(j, Column(j, p)), LAMBDA j, p : Energy(j, Column(j, p)), i, k)
        BY <2>3 DEF CutAdvantage
      <4> QED
        BY <1>1, <4>1, CutBaseline
    <3>2. estimator = "optimal_token_baseline" => OfToken(i, c) = CutBaselined(i, k)
      <4>1. estimator = "optimal_token_baseline" => SingleTurnBaseline(i, c) = CutBaselined(i, k)
        BY <1>1, SingleTurnCut
      <4> QED
        BY <4>1 DEF OfToken
    <3>3. estimator = "tir_optimal_token_baseline" => OfToken(i, c) = CutBaselined(i, k)
      <4>1. MultiTurnBaseline(i, c) = CutBaselined(i, k)
        BY <1>1, <1>2, MultiTurn, PlacesCut
      <4> QED
        BY <4>1 DEF OfToken
    <3> QED
      BY <2>1, <2>3, <3>1, <3>2, <3>3
  <2> QED
    BY <1>5, <2>2, <2>3 DEF PerToken
<1> QED
  BY <1>1, <1>4, <1>5 DEF Finished

\* The columns outside a mask - tool output, padding, and the tokens the entropy
\* schedule leaves out - change no advantage of the others: for every choice of
\* tokens each estimator gives what its formula gives when they are cut out.
THEOREM MaskHidden == Spec => []MaskedTokensInvisible
<1>1. AdvInv => MaskedTokensInvisible
  <2> SUFFICES ASSUME AdvInv, phase = "done", estimator \notin PerResponse, NEW i \in Rows,
                      estimator \in {"reinforce_plus_plus", "optimal_token_baseline"}
                          => \A j \in Group(i) : NoHoles(j),
                      NEW k \in 1 .. Cardinality(mask[i])
               PROVE  Same(advantages[i][Column(i, k)], CutAdvantage(i, k))
    BY DEF MaskedTokensInvisible
  <2> QED
    BY AsIfCut DEF Same
<1> QED
  BY <1>1, Computed, PTL

-----------------------------------------------------------------------------
(* Baselines cancel out.                                                     *)

\* A weighted mean, taken from every element, takes nothing from the whole.
Means(f, w, p, g, X) ==
  /\ f \in [X -> Int] /\ w \in [X -> Int]
  /\ p = [x \in X |-> w[x] * f[x]]
  /\ g = [x \in X |-> w[x] * (Total(w) * f[x] - Total(p))]

LEMMA MeanTaken ==
  ASSUME NEW X, IsFiniteSet(X), NEW f, NEW w, NEW p, NEW g, Means(f, w, p, g, X)
  PROVE  Total(w) \in Int /\ Total(p) \in Int /\ Total(g) = 0
<1> DEFINE W == Total(w)
           P == Total(p)
           h == [x \in X |-> W * p[x] + (-P) * w[x]]
<1>0. f \in [X -> Int] /\ w \in [X -> Int] /\ p = [x \in X |-> w[x] * f[x]]
      /\ g = [x \in X |-> w[x] * (W * f[x] - P)]
  BY DEF Means
<1>1. \A x \in X : f[x] \in Int /\ w[x] \in Int
  BY <1>0
<1>2. p \in [X -> Int] /\ \A x \in X : p[x] = w[x] * f[x]
  BY <1>0, <1>1, Distribute
<1>3. W \in Int /\ P \in Int
  BY <1>0, <1>2, TotalSplit
<1> HIDE DEF W, P
<1>4. ASSUME NEW x \in X PROVE w[x] * (W * f[x] - P) = W * p[x] + (-P) * w[x]
  <2> DEFINE a == w[x]
             b == f[x]
  <2>1. a \in Int /\ b \in Int /\ p[x] = a * b
    BY <1>1, <1>2
  <2> HIDE DEF a, b
  <2>2. W * b \in Int /\ a * b \in Int
    BY <1>3, <2>1, Distribute
  <2>3. a * (W * b - P) = a * (W * b) - a * P
    BY <1>3, <2>1, <2>2, Distribute
  <2>4. a * (W * b) = W * (a * b)
    BY <1>3, <2>1
  <2>5. (-P) * a = -(a * P) /\ a * P \in Int /\ W * (a * b) \in Int
    BY <1>3, <2>1, <2>2
  <2> QED
    BY <2>1, <2>3, <2>4, <2>5 DEF a, b
<1>5. g = h
  BY <1>0, <1>4
<1>6. Total(h) = W * Total(p) + (-P) * Total(w)
  <2> DEFINE Q == -P
  <2>1. Q \in Int
    BY <1>3
  <2>2. Mixes(h, W, p, Q, w, X)
    BY DEF Mixes
  <2>3. w \in [X -> Int] /\ p \in [X -> Int]
    BY <1>0, <1>2
  <2> HIDE DEF h, Q
  <2>4. Total(h) = W * Total(p) + Q * Total(w)
    BY <1>3, <2>1, <2>2, <2>3, TotalLinear
  <2> QED
    BY <2>4 DEF Q
<1> HIDE DEF h
<1>7. Total(h) = W * P + (-P) * W
  BY <1>6 DEF W, P
<1>8. W * P + (-P) * W = 0
  BY <1>3
<1> QED
  BY <1>3, <1>5, <1>7, <1>8 DEF W, P

LEMMA OutcomeType ==
  ASSUME Shapes, NEW i \in Rows
  PROVE  Outcome(i) \in Int
<1> DEFINE f == [c \in Columns |-> Reward(i, c)]
<1>1. f \in [Columns -> Int] /\ IsFiniteSet(Columns)
  BY RewardType, TheConstants
<1>2. Outcome(i) = Total(f)
  BY DEF Outcome
<1> HIDE DEF f
<1> QED
  BY <1>1, <1>2, TotalSplit

\* The rows of a group agree on the group.
LEMMA Grouped ==
  ASSUME NEW i \in Rows, NEW j \in Group(i)
  PROVE  /\ j \in Rows /\ Group(j) = Group(i) /\ N(j) = N(i) /\ Sum(j) = Sum(i)
         /\ \A k : AtPlace(j, k) = AtPlace(i, k)
<1>1. j \in Rows /\ Group(j) = Group(i)
  BY DEF Group
<1>2. N(j) = N(i)
  BY <1>1 DEF N
<1>3. Sum(j) = Sum(i)
  BY <1>1 DEF Sum
<1>4. \A k : AtPlace(j, k) = AtPlace(i, k)
  BY <1>1 DEF AtPlace
<1> QED
  BY <1>1, <1>2, <1>3, <1>4

\* GRPO and RLOO: every response weighs the same.
LEMMA ScoresCentred ==
  ASSUME Shapes, NEW i \in Rows
  PROVE  Total([j \in Group(i) |-> N(i) * Outcome(j) - Sum(i)]) = 0
<1> DEFINE X == Group(i)
           f == [j \in X |-> Outcome(j)]
           w == [j \in X |-> 1]
           p == [j \in X |-> w[j] * f[j]]
<1>1. X \in SUBSET Rows /\ IsFiniteSet(X)
  BY AtPlaceFacts
<1>2. \A j \in X : Outcome(j) \in Int
  BY <1>1, OutcomeType
<1>3. f \in [X -> Int] /\ w \in [X -> Int] /\ \A j \in X : f[j] = Outcome(j) /\ w[j] = 1
  BY <1>2
<1>4. p = f /\ Total(f) = Sum(i)
  BY <1>2 DEF Sum
<1>5. Total(w) = N(i)
  <2>1. Total(w) = Cardinality(X) * 1
    <3>1. w \in [X -> {1}]
      OBVIOUS
    <3> HIDE DEF X, w
    <3> QED
      BY <1>1, <3>1, TotalConstant
  <2>2. Cardinality(X) \in Nat
    BY <1>1, FS_CardinalityType
  <2> QED
    BY <2>1, <2>2 DEF N
<1> DEFINE g == [j \in X |-> w[j] * (N(i) * f[j] - Sum(i))]
<1> HIDE DEF f, w
<1>6. N(i) \in Int /\ Sum(i) \in Int /\ Total(g) = 0
  <2>1. Sum(i) = Total(p)
    BY <1>4
  <2>2. Means(f, w, p, g, X)
    BY <1>3, <1>5, <2>1 DEF Means
  <2> HIDE DEF X, p, g
  <2> QED
    BY <1>1, <1>5, <2>1, <2>2, MeanTaken
<1>7. ASSUME NEW j \in X PROVE w[j] * (N(i) * f[j] - Sum(i)) = N(i) * Outcome(j) - Sum(i)
  <2>1. N(i) * Outcome(j) \in Int
    BY <1>2, <1>6, Distribute
  <2> QED
    BY <1>3, <1>6, <2>1
<1>8. g = [j \in X |-> N(i) * Outcome(j) - Sum(i)]
  BY <1>7
<1> QED
  BY <1>6, <1>8

\* OPO: a response weighs as much as it has tokens.
LEMMA TokensCentred ==
  ASSUME Shapes, NEW i \in Rows,
         NEW W, W = Total([j \in Group(i) |-> Tokens(j)]),
         NEW P, P = Total([j \in Group(i) |-> Tokens(j) * Outcome(j)])
  PROVE  Total([j \in Group(i) |-> Tokens(j) * (W * Outcome(j) - P)]) = 0
<1> DEFINE X == Group(i)
           f == [j \in X |-> Outcome(j)]
           w == [j \in X |-> Tokens(j)]
           g == [j \in X |-> w[j] * (W * f[j] - P)]
           p == [j \in X |-> w[j] * f[j]]
<1>1. X \in SUBSET Rows /\ IsFiniteSet(X)
  BY AtPlaceFacts
<1>2. \A j \in X : Outcome(j) \in Int
  BY <1>1, OutcomeType
<1>3. \A j \in X : Tokens(j) \in Int
  <2> SUFFICES ASSUME NEW j \in X PROVE Tokens(j) \in Int
    OBVIOUS
  <2>1. Cardinality(mask[j]) \in Nat
    BY <1>1, ColumnFacts
  <2> QED
    BY <2>1 DEF Tokens
<1>4. f \in [X -> Int] /\ w \in [X -> Int] /\ \A j \in X : f[j] = Outcome(j) /\ w[j] = Tokens(j)
  BY <1>2, <1>3
<1>5. W = Total(w)
  OBVIOUS
<1>6. p = [j \in X |-> Tokens(j) * Outcome(j)]
  OBVIOUS
<1>7. g = [j \in X |-> Tokens(j) * (W * Outcome(j) - P)]
  OBVIOUS
<1>8. P = Total(p)
  BY <1>6
<1> HIDE DEF f, w
<1>9. Total(g) = 0
  <2>1. Means(f, w, p, g, X)
    BY <1>4, <1>5, <1>8 DEF Means
  <2> HIDE DEF X, p, g
  <2> QED
    BY <1>1, <2>1, MeanTaken
<1> QED
  BY <1>7, <1>9

\* The multi-turn baseline: a response weighs by its energy so far, at every place.
LEMMA PlaceCentred ==
  ASSUME Shapes, NEW i \in Rows, NEW k
  PROVE  /\ CutWeights(i, k) \in Int /\ CutWeighted(i, k) \in Int
         /\ CutWeights(i, k) = 0 => \A j \in AtPlace(i, k) : CutEnergy(j, k) = 0
         /\ Total([j \in AtPlace(i, k) |->
                CutEnergy(j, k) * (CutWeights(i, k) * CutReturn(j, k) - CutWeighted(i, k))]) = 0
<1> DEFINE X == AtPlace(i, k)
           f == [j \in X |-> CutReturn(j, k)]
           w == [j \in X |-> CutEnergy(j, k)]
           W == CutWeights(i, k)
           P == CutWeighted(i, k)
           g == [j \in X |-> w[j] * (W * f[j] - P)]
           p == [j \in X |-> w[j] * f[j]]
<1>1. X \in SUBSET Rows /\ IsFiniteSet(X) /\ \A j \in X : k \in 1 .. Cardinality(mask[j])
  BY AtPlaceFacts
<1>2. \A j \in X : CutReturn(j, k) \in Int /\ CutEnergy(j, k) \in Nat
  BY <1>1, ReturnCut, EnergyCut
<1>3. /\ f \in [X -> Int] /\ w \in [X -> Nat] /\ w \in [X -> Int]
      /\ \A j \in X : f[j] = CutReturn(j, k) /\ w[j] = CutEnergy(j, k)
  BY <1>2
<1>4. p = [j \in X |-> CutReturn(j, k) * CutEnergy(j, k)]
  <2>1. \A j \in X : CutEnergy(j, k) * CutReturn(j, k) = CutReturn(j, k) * CutEnergy(j, k)
    BY <1>2, Distribute
  <2> QED
    BY <2>1
<1>5. W = Total(w) /\ P = Total(p)
  BY <1>4 DEF CutWeights, CutWeighted
<1>6. g = [j \in X |-> CutEnergy(j, k) * (W * CutReturn(j, k) - P)]
  OBVIOUS
<1> HIDE DEF f, w, W, P
<1>7. Means(f, w, p, g, X)
  BY <1>3, <1>5 DEF Means
<1> HIDE DEF X, p, g
<1>8. Total(w) \in Int /\ Total(p) \in Int /\ Total(g) = 0
  BY <1>1, <1>7, MeanTaken
<1>9. Total(w) = 0 => \A j \in X : w[j] = 0
  BY <1>1, <1>3, TotalNat
<1>10. W = 0 => \A j \in X : CutEnergy(j, k) = 0
  BY <1>3, <1>5, <1>9
<1> QED
  BY <1>5, <1>6, <1>8, <1>10 DEF X, W, P

\* The first token of a response in the mask, and what it holds.
LEMMA FirstHolds ==
  ASSUME AdvInv, phase = "done", estimator \in PerResponse, NEW j \in Rows
  PROVE  advantages[j][Column(j, 1)] = OfResponse(j)
<1>1. Shapes /\ Finished(j)
  BY DEF AdvInv
<1>2. Column(j, 1) \in mask[j]
  <2> DEFINE m == Cardinality(mask[j])
  <2>1. m \in 1 .. MaxLength /\ \A k \in 1 .. m : Column(j, k) \in mask[j]
    BY <1>1, ColumnFacts
  <2>2. 1 \in 1 .. m
    BY <2>1, TheConstants
  <2> QED
    BY <2>1, <2>2
<1> QED
  BY <1>1, <1>2 DEF Finished

LEMMA ScoresCancel ==
  ASSUME AdvInv, phase = "done", estimator \in {"grpo", "rloo", "rloo_vectorized"}, NEW i \in Rows,
         Cardinality(Group(i)) > 1
  PROVE  Total([j \in Group(i) |-> advantages[j][Column(j, 1)][1]]) = 0
<1>1. Shapes
  BY DEF AdvInv
<1>2. ASSUME NEW j \in Group(i) PROVE advantages[j][Column(j, 1)][1] = N(i) * Outcome(j) - Sum(i)
  <2>1. j \in Rows /\ N(j) = N(i) /\ Sum(j) = Sum(i)
    BY Grouped
  <2>2. N(j) # 1
    BY <2>1 DEF N
  <2>3. OfResponse(j)[1] = N(j) * Outcome(j) - Sum(j)
    BY <2>2 DEF OfResponse, Grpo, Rloo, RlooVectorized
  <2>4. advantages[j][Column(j, 1)] = OfResponse(j)
    BY <2>1, FirstHolds DEF PerResponse
  <2> QED
    BY <2>1, <2>3, <2>4
<1>3. Total([j \in Group(i) |-> N(i) * Outcome(j) - Sum(i)]) = 0
  BY <1>1, ScoresCentred
<1> QED
  BY <1>2, <1>3

LEMMA TokensCancel ==
  ASSUME AdvInv, phase = "done", estimator = "opo", NEW i \in Rows, Cardinality(Group(i)) > 1
  PROVE  Total([j \in Group(i) |-> Cardinality(mask[j]) * advantages[j][Column(j, 1)][1]]) = 0
<1> DEFINE W == Total([j \in Group(i) |-> Tokens(j)])
           P == Total([j \in Group(i) |-> Tokens(j) * Outcome(j)])
<1>1. Shapes
  BY DEF AdvInv
<1>2. ASSUME NEW j \in Group(i)
      PROVE  Cardinality(mask[j]) * advantages[j][Column(j, 1)][1] = Tokens(j) * (W * Outcome(j) - P)
  <2>1. j \in Rows /\ Group(j) = Group(i)
    BY Grouped
  <2>2. N(j) # 1
    BY <2>1 DEF N
  <2>3. OfResponse(j)[1] = W * Outcome(j) - P
    BY <2>1, <2>2 DEF OfResponse, Opo
  <2>4. advantages[j][Column(j, 1)] = OfResponse(j)
    BY <2>1, FirstHolds DEF PerResponse
  <2> QED
    BY <2>3, <2>4 DEF Tokens
<1>3. Total([j \in Group(i) |-> Tokens(j) * (W * Outcome(j) - P)]) = 0
  <2> HIDE DEF W, P
  <2>1. W = Total([j \in Group(i) |-> Tokens(j)]) /\ P = Total([j \in Group(i) |-> Tokens(j) * Outcome(j)])
    BY DEF W, P
  <2> QED
    BY <1>1, <2>1, TokensCentred
<1> HIDE DEF W, P
<1> QED
  BY <1>2, <1>3

\* What the multi-turn baseline holds at the places of a row.
LEMMA PlaceHolds ==
  ASSUME AdvInv, phase = "done", estimator = "tir_optimal_token_baseline", NEW j \in Rows,
         NEW k \in 1 .. Cardinality(mask[j])
  PROVE  advantages[j][Column(j, k)] = CutBaselined(j, k)
<1>1. Shapes /\ Finished(j)
  BY DEF AdvInv
<1>2. Column(j, k) \in mask[j] /\ Rank(mask[j], Column(j, k)) = k
  <2>1. \A l \in 1 .. Cardinality(mask[j]) : Column(j, l) \in mask[j] /\ Rank(mask[j], Column(j, l)) = l
    BY <1>1, ColumnFacts
  <2> QED
    BY <2>1
<1>3. advantages[j][Column(j, k)] = OfToken(j, Column(j, k))
  BY <1>1, <1>2 DEF Finished, PerToken
<1>4. MultiTurnBaseline(j, Column(j, k)) = CutBaselined(j, k)
  BY <1>1, <1>2, MultiTurn, PlacesCut
<1> QED
  BY <1>3, <1>4 DEF OfToken

\* Which rows reach a place, and whether one is alone there.
LEMMA Reaching ==
  ASSUME Shapes, NEW i \in Rows, NEW k \in 1 .. Cardinality(mask[i])
  PROVE  /\ {j \in Group(i) : Cardinality(mask[j]) >= k} = AtPlace(i, k)
         /\ AtPlace(i, k) = {i} => ZeroTail(Places, Group(i), i, k)
         /\ AtPlace(i, k) # {i} => \A j \in AtPlace(i, k) : ~ZeroTail(Places, Group(i), j, k)
<1>1. i \in Group(i) /\ Group(i) \in SUBSET Rows /\ i \in AtPlace(i, k)
  BY AtPlaceFacts DEF Tokens
<1>2. \A j \in Rows : Cardinality(mask[j]) \in Nat
  BY ColumnFacts
<1>3. k \in Nat /\ k >= 1 /\ k <= Cardinality(mask[i])
  BY <1>2
<1>4. \A j \in Rows : Places[j] = 1 .. Cardinality(mask[j]) /\ Cardinality(Places[j]) = Cardinality(mask[j])
  <2> SUFFICES ASSUME NEW j \in Rows PROVE Cardinality(Places[j]) = Cardinality(mask[j])
                                           /\ Places[j] = 1 .. Cardinality(mask[j])
    OBVIOUS
  <2> DEFINE m == Cardinality(mask[j])
  <2>1. Places[j] = 1 .. m
    BY DEF Places, Tokens
  <2>2. m \in Nat
    BY <1>2
  <2> HIDE DEF m
  <2>3. Cardinality(1 .. m) = m
    BY <2>2, UpTo
  <2> QED
    BY <2>1, <2>3 DEF m
<1>5. \A j \in Group(i) : j \in AtPlace(i, k) <=> Cardinality(mask[j]) >= k
  BY <1>1, <1>2, <1>3, <1>4 DEF AtPlace
<1>6. {j \in Group(i) : Cardinality(mask[j]) >= k} = AtPlace(i, k)
  BY <1>5 DEF AtPlace
<1>7. ASSUME AtPlace(i, k) = {i} PROVE ZeroTail(Places, Group(i), i, k)
  <2>1. \A j \in Group(i) \ {i} : ~(Cardinality(mask[j]) >= k)
    BY <1>5, <1>7
  <2>2. \A j \in Group(i) \ {i} : Cardinality(mask[j]) < k /\ Cardinality(mask[j]) < Cardinality(mask[i])
    BY <1>1, <1>2, <1>3, <2>1
  <2> QED
    BY <1>1, <1>4, <2>2 DEF ZeroTail
<1>8. ASSUME AtPlace(i, k) # {i}, NEW j \in AtPlace(i, k) PROVE ~ZeroTail(Places, Group(i), j, k)
  <2>1. PICK l \in AtPlace(i, k) : l # j
    BY <1>1, <1>8
  <2>2. l \in Group(i) /\ l \in Rows /\ Cardinality(mask[l]) >= k
    BY <1>1, <1>5, <2>1 DEF AtPlace
  <2>3. ~(Cardinality(Places[l]) < k)
    BY <1>2, <1>3, <1>4, <2>2
  <2> QED
    BY <2>1, <2>2, <2>3 DEF ZeroTail
<1> QED
  BY <1>6, <1>7, <1>8

LEMMA PlacesCancel ==
  ASSUME AdvInv, phase = "done", estimator = "tir_optimal_token_baseline", NEW i \in Rows,
         Cardinality(Group(i)) > 1, NEW k \in 1 .. Cardinality(mask[i])
  PROVE  /\ AtPlace(i, k) = {i} => advantages[i][Column(i, k)] = Whole(CutSum(i, k, 1, FALSE))
         /\ AtPlace(i, k) # {i} => Total([j \in AtPlace(i, k) |->
                EnergyOf(mask, Energy, j, Column(j, k)) * advantages[j][Column(j, k)][1]]) = 0
<1> DEFINE X == AtPlace(i, k)
           W == CutWeights(i, k)
           P == CutWeighted(i, k)
           term(j) == EnergyOf(mask, Energy, j, Column(j, k)) * advantages[j][Column(j, k)][1]
<1>1. Shapes
  BY DEF AdvInv
<1>2. X \in SUBSET Rows /\ IsFiniteSet(X) /\ \A j \in X : j \in Group(i) /\ k \in 1 .. Cardinality(mask[j])
  BY AtPlaceFacts
<1>3. /\ X = {i} => ZeroTail(Places, Group(i), i, k)
      /\ X # {i} => \A j \in X : ~ZeroTail(Places, Group(i), j, k)
  BY <1>1, Reaching
<1>4. ASSUME X = {i} PROVE advantages[i][Column(i, k)] = Whole(CutSum(i, k, 1, FALSE))
  <2>1. CutBaselined(i, k) = Whole(CutReturn(i, k))
    BY <1>3, <1>4 DEF CutBaselined
  <2>2. CutSum(i, k, 1, FALSE) = CutReturn(i, k)
    BY <1>1, ReturnCut
  <2> QED
    BY <2>1, <2>2, PlaceHolds
<1>5. ASSUME X # {i} PROVE Total([j \in X |-> term(j)]) = 0
  <2>1. /\ W \in Int /\ P \in Int
        /\ W = 0 => \A j \in X : CutEnergy(j, k) = 0
        /\ Total([j \in X |-> CutEnergy(j, k) * (W * CutReturn(j, k) - P)]) = 0
    BY <1>1, PlaceCentred
  <2>2. ASSUME NEW j \in X
        PROVE  /\ CutReturn(j, k) \in Int /\ CutEnergy(j, k) \in Int
               /\ term(j) = CutEnergy(j, k) * (IF W = 0 THEN CutReturn(j, k) ELSE CutReturn(j, k) * W - P)
    <3>1. j \in Rows /\ k \in 1 .. Cardinality(mask[j]) /\ j \in Group(i)
      BY <1>2
    <3>2. Group(j) = Group(i) /\ AtPlace(j, k) = AtPlace(i, k)
      BY <3>1, Grouped
    <3>3. CutWeights(j, k) = W /\ CutWeighted(j, k) = P
      BY <3>2 DEF CutWeights, CutWeighted
    <3>4. Cardinality(Group(j)) # 1 /\ ~ZeroTail(Places, Group(j), j, k)
      BY <1>3, <1>5, <3>2
    <3>5. CutBaselined(j, k)[1] = IF W = 0 THEN CutReturn(j, k) ELSE CutReturn(j, k) * W - P
      BY <3>3, <3>4 DEF CutBaselined, Whole
    <3>6. advantages[j][Column(j, k)] = CutBaselined(j, k)
      BY <3>1, PlaceHolds
    <3>7. CutReturn(j, k) \in Int
      BY <1>1, <3>1, ReturnCut
    <3>8. EnergyOf(mask, Energy, j, Column(j, k)) = CutEnergy(j, k) /\ CutEnergy(j, k) \in Nat
      BY <1>1, <3>1, EnergyCut
    <3> QED
      BY <3>5, <3>6, <3>7, <3>8
  <2> HIDE DEF term, W, P
  <2>3. CASE W = 0
    <3> DEFINE z == [j \in X |-> term(j)]
    <3>1. ASSUME NEW j \in X PROVE term(j) = 0
      <4>1. term(j) = 0 * CutReturn(j, k) /\ CutReturn(j, k) \in Int
        BY <2>1, <2>2, <2>3
      <4> QED
        BY <4>1
    <3>2. z \in [X -> {0}]
      BY <3>1
    <3> HIDE DEF z, X
    <3>3. Total(z) = Cardinality(X) * 0 /\ Cardinality(X) \in Nat
      BY <1>2, <3>2, TotalConstant, FS_CardinalityType
    <3> QED
      BY <3>3 DEF z
  <2>4. CASE W # 0
    <3>1. ASSUME NEW j \in X PROVE term(j) = CutEnergy(j, k) * (W * CutReturn(j, k) - P)
      <4>1. term(j) = CutEnergy(j, k) * (CutReturn(j, k) * W - P) /\ CutReturn(j, k) \in Int
        BY <2>2, <2>4
      <4>2. CutReturn(j, k) * W = W * CutReturn(j, k)
        BY <2>1, <4>1, Distribute
      <4> QED
        BY <4>1, <4>2
    <3>2. [j \in X |-> term(j)] = [j \in X |-> CutEnergy(j, k) * (W * CutReturn(j, k) - P)]
      BY <3>1
    <3> QED
      BY <2>1, <3>2
  <2> QED
    BY <2>3, <2>4
<1> QED
  BY <1>4, <1>5

\* Within a prompt, what the baselines take from some responses they give to the
\* others: the advantages cancel out, for every grouping of the rows and every
\* choice of tokens.
THEOREM GroupsCancel == Spec => []GroupCentred
<1>1. AdvInv => GroupCentred
  <2> SUFFICES ASSUME AdvInv, phase = "done", NEW i \in Rows, Cardinality(Group(i)) > 1
               PROVE  /\ estimator \in {"grpo", "rloo", "rloo_vectorized"} =>
                             Total([j \in Group(i) |-> advantages[j][Column(j, 1)][1]]) = 0
                      /\ estimator = "opo" => Total([j \in Group(i) |->
                             Cardinality(mask[j]) * advantages[j][Column(j, 1)][1]]) = 0
                      /\ estimator = "tir_optimal_token_baseline" =>
                             \A k \in 1 .. Cardinality(mask[i]) :
                                 IF {j \in Group(i) : Cardinality(mask[j]) >= k} = {i}
                                 THEN Same(advantages[i][Column(i, k)], Whole(CutSum(i, k, 1, FALSE)))
                                 ELSE Total([j \in {j \in Group(i) : Cardinality(mask[j]) >= k} |->
                                     EnergyOf(mask, Energy, j, Column(j, k)) * advantages[j][Column(j, k)][1]]) = 0
    BY DEF GroupCentred
  <2>1. Shapes
    BY DEF AdvInv
  <2>2. ASSUME estimator = "tir_optimal_token_baseline", NEW k \in 1 .. Cardinality(mask[i])
        PROVE  IF {j \in Group(i) : Cardinality(mask[j]) >= k} = {i}
               THEN Same(advantages[i][Column(i, k)], Whole(CutSum(i, k, 1, FALSE)))
               ELSE Total([j \in {j \in Group(i) : Cardinality(mask[j]) >= k} |->
                        EnergyOf(mask, Energy, j, Column(j, k)) * advantages[j][Column(j, k)][1]]) = 0
    <3>1. {j \in Group(i) : Cardinality(mask[j]) >= k} = AtPlace(i, k)
      BY <2>1, Reaching
    <3>2. /\ AtPlace(i, k) = {i} => advantages[i][Column(i, k)] = Whole(CutSum(i, k, 1, FALSE))
          /\ AtPlace(i, k) # {i} => Total([j \in AtPlace(i, k) |->
                 EnergyOf(mask, Energy, j, Column(j, k)) * advantages[j][Column(j, k)][1]]) = 0
      BY <2>2, PlacesCancel
    <3> QED
      BY <3>1, <3>2 DEF Same
  <2> QED
    BY <2>2, ScoresCancel, TokensCancel
<1> QED
  BY <1>1, Computed, PTL
=============================================================================
