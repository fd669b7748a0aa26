------------------------------- MODULE Lemmas --------------------------------
(***************************************************************************)
(* What the proofs about several components need of sets, numbers and      *)
(* selections from a sequence.                                             *)
(***************************************************************************)
EXTENDS Integers, FiniteSetsExt, Selection, FiniteSetTheorems, SequenceTheorems,
        WellFoundedInduction, TLAPS

----------------------------------------------------------------------------
(* How the number of members that a function maps into P changes when the  *)
(* function changes at one point.                                          *)

\* How many members of T the function f maps into P.
Count(f, T, P) == Cardinality({t \in T : f[t] \in P})

\* Changing f at one point changes {t : f[t] \in P} by at most that point.
LEMMA CountMove ==
    ASSUME NEW T, IsFiniteSet(T), NEW f, NEW g, NEW P, NEW s \in T,
           \A t \in T : t # s => g[t] = f[t]
    PROVE  /\ Count(f, T, P) \in Nat
           /\ Count(g, T, P) \in Nat
           /\ (f[s] \in P <=> g[s] \in P) =>
                 Count(g, T, P) = Count(f, T, P)
           /\ (f[s] \notin P /\ g[s] \in P) =>
                 Count(g, T, P) = Count(f, T, P) + 1
           /\ (f[s] \in P /\ g[s] \notin P) =>
                 Count(g, T, P) = Count(f, T, P) - 1
<1> DEFINE A == {t \in T : f[t] \in P}
           B == {t \in T : g[t] \in P}
<1>1. IsFiniteSet(A) /\ IsFiniteSet(B)
  <2>1. A \subseteq T /\ B \subseteq T
    OBVIOUS
  <2>2. QED
    BY <2>1, FS_Subset
<1>2. Cardinality(A) \in Nat /\ Cardinality(B) \in Nat
  BY <1>1, FS_CardinalityType
<1>3. ASSUME f[s] \in P <=> g[s] \in P
      PROVE  Cardinality(B) = Cardinality(A)
  <2>1. A = B
    BY <1>3
  <2>2. QED
    BY <2>1
<1>4. ASSUME f[s] \notin P, g[s] \in P
      PROVE  Cardinality(B) = Cardinality(A) + 1
  <2>1. B = A \union {s} /\ s \notin A
    BY <1>4
  <2>2. QED
    BY <1>1, <2>1, FS_AddElement
<1>5. ASSUME f[s] \in P, g[s] \notin P
      PROVE  Cardinality(B) = Cardinality(A) - 1
  <2>1. B = A \ {s} /\ s \in A
    BY <1>5
  <2>2. QED
    BY <1>1, <2>1, FS_RemoveElement
<1>6. QED
  BY <1>2, <1>3, <1>4, <1>5 DEF Count

\* The image of a finite set under a function is finite.
LEMMA FiniteImage ==
    ASSUME NEW S, IsFiniteSet(S), NEW f
    PROVE  IsFiniteSet({f[x] : x \in S})
<1> DEFINE T == {f[x] : x \in S}
           g == [x \in S |-> f[x]]
<1>1. g \in Surjection(S, T)
    <2>1. g \in [S -> T]
        OBVIOUS
    <2>2. \A t \in T : \E x \in S : g[x] = t
        OBVIOUS
    <2> HIDE DEF g, T
    <2> QED
        BY <2>1, <2>2 DEF Surjection
<1> HIDE DEF g
<1> QED
    BY <1>1, FS_Surjection

----------------------------------------------------------------------------
(* Induction.                                                              *)

\* A set of natural numbers that is not empty has a least element.
LEMMA LeastElement ==
    ASSUME NEW S, S \subseteq Nat, S # {}
    PROVE  \E x \in S : \A y \in S : x =< y
<1> DEFINE R == OpToRel(<, Nat)
<1>1. IsWellFoundedOn(R, Nat)
    BY NatLessThanWellFounded
<1> HIDE DEF R
<1>2. PICK x \in S : \A y \in S : ~(<<y, x>> \in R)
    BY <1>1, WFMin
<1>3. ASSUME NEW y \in S
      PROVE  x =< y
    <2>1. y < x => <<y, x>> \in R
        <3> DEFINE pair == <<y, x>>
        <3>1. pair \in Nat \X Nat /\ pair[1] = y /\ pair[2] = x
            OBVIOUS
        <3> HIDE DEF pair
        <3>2. y < x => pair \in R
            BY <3>1 DEF R, OpToRel
        <3> QED
            BY <3>2 DEF pair
    <2>2. x \in Nat /\ y \in Nat
        OBVIOUS
    <2> QED
        BY <1>2, <2>1, <2>2
<1> QED
    BY <1>3

\* A set of numbers that is not empty has a least element, and Min is one.
LEMMA MinIsMember ==
    ASSUME NEW S, S \subseteq Nat, S # {}
    PROVE  Min(S) \in S
BY LeastElement DEF Min

\* Induction, for the set of the numbers that a formula is true of.
LEMMA Induction ==
    ASSUME NEW S, 0 \in S, \A n \in Nat : n \in S => n + 1 \in S
    PROVE  Nat \subseteq S
<1> SUFFICES ASSUME Nat \ S # {} PROVE FALSE
    OBVIOUS
<1>1. PICK m \in Nat \ S : \A n \in Nat \ S : m =< n
    BY LeastElement
<1>2. m # 0 /\ m - 1 \in Nat
    OBVIOUS
<1>3. m - 1 \in S
    BY <1>1, <1>2
<1>4. (m - 1) + 1 = m
    OBVIOUS
<1> QED
    BY <1>2, <1>3, <1>4

\* The value at i is computed from the one at i - 1.
Computes(f, base, step, n) ==
    f[0] = base /\ \A i \in 1 .. n : f[i] = step[<<i, f[i - 1]>>]

\* What is computed step by step exists.
LEMMA Recursion ==
    ASSUME NEW V, NEW base \in V, NEW step \in [Nat \X V -> V], NEW n \in Nat
    PROVE  \E f \in [0 .. n -> V] : Computes(f, base, step, n)
<1> DEFINE S == {k \in Nat : \E f \in [0 .. k -> V] : Computes(f, base, step, k)}
<1>1. 0 \in S
    <2>1. [i \in 0 .. 0 |-> base] \in [0 .. 0 -> V]
        OBVIOUS
    <2>2. Computes([i \in 0 .. 0 |-> base], base, step, 0)
        BY DEF Computes
    <2> QED
        BY <2>1, <2>2
<1>2. ASSUME NEW k \in Nat, k \in S
      PROVE  k + 1 \in S
    <2>1. PICK f \in [0 .. k -> V] : Computes(f, base, step, k)
        BY <1>2
    <2> DEFINE g == [i \in 0 .. k + 1 |-> IF i = k + 1 THEN step[<<k + 1, f[k]>>] ELSE f[i]]
    <2>2. f[k] \in V /\ step[<<k + 1, f[k]>>] \in V
        OBVIOUS
    <2>3. \A i \in 0 .. k + 1 : i # k + 1 => i \in 0 .. k
        OBVIOUS
    <2>4. g \in [0 .. k + 1 -> V]
        BY <2>2, <2>3
    <2>5. g[0] = base
        BY <2>1 DEF Computes
    <2>6. ASSUME NEW i \in 1 .. k + 1
          PROVE  g[i] = step[<<i, g[i - 1]>>]
        <3>1. i - 1 \in 0 .. k + 1 /\ i - 1 # k + 1 /\ i \in 0 .. k + 1
            OBVIOUS
        <3>2. g[i - 1] = f[i - 1]
            BY <3>1
        <3>3. CASE i = k + 1
            BY <3>1, <3>2, <3>3
        <3>4. CASE i # k + 1
            <4>1. i \in 1 .. k
                BY <3>4
            <4>2. g[i] = f[i] /\ f[i] = step[<<i, f[i - 1]>>]
                BY <2>1, <3>1, <3>4, <4>1 DEF Computes
            <4> QED
                BY <3>2, <4>2
        <3> QED
            BY <3>3, <3>4
    <2> HIDE DEF g
    <2>7. Computes(g, base, step, k + 1)
        BY <2>5, <2>6 DEF Computes
    <2> QED
        BY <2>4, <2>7
<1> HIDE DEF S
<1>3. n \in S
    BY <1>1, <1>2, Induction
<1> QED
    BY <1>3 DEF S

----------------------------------------------------------------------------
(* Sums.                                                                   *)

\* The sums of f over the subsets of S, as the folds of Folds compute them.
Sums(sum, f, S) ==
    sum = [s \in SUBSET S |->
              IF s = {} THEN 0
              ELSE LET x == CHOOSE x \in s : TRUE IN sum[s \ {x}] + f[x]]

\* What one element less does to the size of a set.
LEMMA OneLess ==
    ASSUME NEW S, IsFiniteSet(S), NEW s \in SUBSET S
    PROVE  /\ Cardinality(s) \in Nat
           /\ s = {} <=> Cardinality(s) = 0
           /\ \A x \in s : /\ s \ {x} \in SUBSET S
                           /\ Cardinality(s \ {x}) + 1 = Cardinality(s)
<1>1. IsFiniteSet(s)
    BY FS_Subset
<1>2. Cardinality(s) \in Nat
    BY <1>1, FS_CardinalityType
<1>3. s = {} <=> Cardinality(s) = 0
    BY <1>1, FS_EmptySet
<1>4. ASSUME NEW x \in s
      PROVE  s \ {x} \in SUBSET S /\ Cardinality(s \ {x}) + 1 = Cardinality(s)
    <2>1. Cardinality(s \ {x}) = Cardinality(s) - 1
        BY <1>1, FS_RemoveElement
    <2> QED
        BY <1>2, <2>1
<1> QED
    BY <1>2, <1>3, <1>4

\* A function that adds up every subset of a finite set exists.
LEMMA SumsExist ==
    ASSUME NEW S, IsFiniteSet(S), NEW f \in [S -> Nat]
    PROVE  \E sum : Sums(sum, f, S)
<1> DEFINE V == [SUBSET S -> Nat]
           pick(s) == CHOOSE x \in s : TRUE
           more(g) == [s \in SUBSET S |-> IF s = {} THEN 0 ELSE g[s \ {pick(s)}] + f[pick(s)]]
           step == [p \in Nat \X V |-> more(p[2])]
           base == [s \in SUBSET S |-> 0]
           n == Cardinality(S)
<1>1. \A s \in SUBSET S : s # {} => pick(s) \in s
    OBVIOUS
<1>2. \A g \in V : more(g) \in V
    BY <1>1
<1>3. base \in V /\ n \in Nat
    BY FS_CardinalityType
<1>4. step \in [Nat \X V -> V]
    BY <1>2
<1>5. \A i \in Nat, g \in V : step[<<i, g>>] = more(g)
    <2> HIDE DEF V, more
    <2> QED
        OBVIOUS
<1>6. \A s \in SUBSET S : Cardinality(s) \in 0 .. n
    <2>1. \A s \in SUBSET S : Cardinality(s) \in Nat /\ Cardinality(s) =< n
        BY OneLess, FS_Subset
    <2> QED
        BY <1>3, <2>1
<1> HIDE DEF V, step, base, n
<1>7. PICK G \in [0 .. n -> V] : Computes(G, base, step, n)
    BY <1>3, <1>4, Recursion
<1> DEFINE sum == [s \in SUBSET S |-> G[Cardinality(s)][s]]
<1>8. ASSUME NEW s \in SUBSET S
      PROVE  sum[s] = IF s = {} THEN 0 ELSE sum[s \ {pick(s)}] + f[pick(s)]
    <2> DEFINE k == Cardinality(s)
    <2>1. k \in 0 .. n /\ (s = {} <=> k = 0)
        BY <1>6, OneLess
    <2>2. CASE s = {}
        BY <1>7, <2>1, <2>2 DEF Computes, base
    <2>3. CASE s # {}
        <3> DEFINE t == s \ {pick(s)}
        <3>1. t \in SUBSET S /\ Cardinality(t) + 1 = k /\ Cardinality(t) \in Nat
            <4>1. \A y \in s : s \ {y} \in SUBSET S /\ Cardinality(s \ {y}) + 1 = Cardinality(s)
                BY OneLess
            <4>2. \A u \in SUBSET S : Cardinality(u) \in Nat
                BY OneLess
            <4>3. pick(s) \in s
                BY <1>1, <2>3
            <4> HIDE DEF pick
            <4> QED
                BY <4>1, <4>2, <4>3
        <3>2. k \in 1 .. n /\ k - 1 = Cardinality(t) /\ k - 1 \in 0 .. n /\ k \in Nat
            BY <1>3, <2>1, <3>1
        <3>3. G[k - 1] \in V
            BY <3>2
        <3>4. G[k] = step[<<k, G[k - 1]>>]
            BY <1>7, <3>2 DEF Computes
        <3>5. G[k] = more(G[k - 1])
            BY <1>5, <3>2, <3>3, <3>4
        <3>6. G[k][s] = G[k - 1][t] + f[pick(s)]
            BY <2>3, <3>5
        <3>7. sum[t] = G[k - 1][t] /\ sum[s] = G[k][s]
            BY <3>1, <3>2
        <3> QED
            BY <2>3, <3>6, <3>7
    <2> QED
        BY <2>2, <2>3
<1>9. sum = [s \in SUBSET S |-> sum[s]]
    OBVIOUS
<1> HIDE DEF sum
<1>10. Sums(sum, f, S)
    BY <1>8, <1>9 DEF Sums
<1> QED
    BY <1>10

\* A sum is a number.
LEMMA SumsType ==
    ASSUME NEW S, IsFiniteSet(S), NEW f \in [S -> Nat], NEW sum, Sums(sum, f, S)
    PROVE  \A s \in SUBSET S : sum[s] \in Nat
<1> DEFINE Q == {k \in Nat : \A s \in SUBSET S : Cardinality(s) = k => sum[s] \in Nat}
           pick(s) == CHOOSE x \in s : TRUE
<1>1. \A s \in SUBSET S : sum[s] = IF s = {} THEN 0 ELSE sum[s \ {pick(s)}] + f[pick(s)]
    BY DEF Sums
<1>2. \A s \in SUBSET S : s # {} => pick(s) \in s
    OBVIOUS
<1> HIDE DEF pick
<1>3. 0 \in Q
    <2>1. \A s \in SUBSET S : Cardinality(s) = 0 => s = {}
        BY OneLess
    <2> QED
        BY <1>1, <2>1
<1>4. ASSUME NEW k \in Nat, k \in Q
      PROVE  k + 1 \in Q
    <2> SUFFICES ASSUME NEW s \in SUBSET S, Cardinality(s) = k + 1 PROVE sum[s] \in Nat
        OBVIOUS
    <2>1. s # {} /\ pick(s) \in s
        BY <1>2, OneLess
    <2>2. s \ {pick(s)} \in SUBSET S /\ Cardinality(s \ {pick(s)}) = k
        <3>1. Cardinality(s \ {pick(s)}) + 1 = Cardinality(s) /\ s \ {pick(s)} \in SUBSET S
            BY <2>1, OneLess
        <3>2. Cardinality(s \ {pick(s)}) \in Nat
            BY <3>1, OneLess
        <3> QED
            BY <3>1, <3>2
    <2>3. sum[s \ {pick(s)}] \in Nat /\ f[pick(s)] \in Nat
        BY <1>4, <2>1, <2>2
    <2>4. sum[s] = sum[s \ {pick(s)}] + f[pick(s)]
        BY <1>1, <2>1
    <2> QED
        BY <2>3, <2>4
<1> HIDE DEF Q
<1>5. Nat \subseteq Q
    BY <1>3, <1>4, Induction
<1> QED
    BY <1>5, OneLess DEF Q

\* Every element adds its own term.
Adds(sum, f, S) ==
    sum[{}] = 0 /\ \A s \in SUBSET S : \A y \in s : sum[s] = sum[s \ {y}] + f[y]

\* A sum does not depend on which element is added last.
LEMMA SumsPick ==
    ASSUME NEW S, IsFiniteSet(S), NEW f \in [S -> Nat], NEW sum, Sums(sum, f, S)
    PROVE  Adds(sum, f, S)
<1> DEFINE Q == {k \in Nat : \A s \in SUBSET S : Cardinality(s) = k =>
                    \A y \in s : sum[s] = sum[s \ {y}] + f[y]}
           pick(s) == CHOOSE x \in s : TRUE
<1>1. \A s \in SUBSET S : sum[s] = IF s = {} THEN 0 ELSE sum[s \ {pick(s)}] + f[pick(s)]
    BY DEF Sums
<1>2. \A s \in SUBSET S : s # {} => pick(s) \in s
    OBVIOUS
<1>3. \A s \in SUBSET S : sum[s] \in Nat
    BY SumsType
<1> HIDE DEF pick
<1>4. 0 \in Q
    BY OneLess
<1>5. ASSUME NEW k \in Nat, k \in Q
      PROVE  k + 1 \in Q
    <2> SUFFICES ASSUME NEW s \in SUBSET S, Cardinality(s) = k + 1, NEW y \in s
                 PROVE  sum[s] = sum[s \ {y}] + f[y]
        OBVIOUS
    <2> DEFINE x == pick(s)
    <2>1. x \in s /\ sum[s] = sum[s \ {x}] + f[x]
        BY <1>1, <1>2
    <2> HIDE DEF x
    <2>2. \A z \in s : s \ {z} \in SUBSET S /\ Cardinality(s \ {z}) = k
        <3> SUFFICES ASSUME NEW z \in s PROVE s \ {z} \in SUBSET S /\ Cardinality(s \ {z}) = k
            OBVIOUS
        <3>1. s \ {z} \in SUBSET S /\ Cardinality(s \ {z}) + 1 = Cardinality(s)
            BY OneLess
        <3>2. Cardinality(s \ {z}) \in Nat
            BY <3>1, OneLess
        <3> QED
            BY <3>1, <3>2
    <2>3. CASE x = y
        BY <2>1, <2>3
    <2>4. CASE x # y
        <3> DEFINE r == (s \ {x}) \ {y}
        <3>1. sum[s \ {x}] = sum[r] + f[y]
            BY <1>5, <2>1, <2>2, <2>4
        <3>2. r = (s \ {y}) \ {x}
            OBVIOUS
        <3>3. sum[s \ {y}] = sum[r] + f[x]
            <4>1. x \in s \ {y} /\ s \ {y} \in SUBSET S /\ Cardinality(s \ {y}) = k
                BY <2>1, <2>2, <2>4
            <4>2. sum[s \ {y}] = sum[(s \ {y}) \ {x}] + f[x]
                BY <1>5, <4>1
            <4> QED
                BY <3>2, <4>2
        <3>4. sum[r] \in Nat /\ f[x] \in Nat /\ f[y] \in Nat
            BY <1>3, <2>1
        <3> HIDE DEF r
        <3> QED
            BY <2>1, <3>1, <3>3, <3>4
    <2> QED
        BY <2>3, <2>4
<1> HIDE DEF Q
<1>6. Nat \subseteq Q
    BY <1>4, <1>5, Induction
<1>7. \A s \in SUBSET S : \A y \in s : sum[s] = sum[s \ {y}] + f[y]
    <2>1. \A s \in SUBSET S : Cardinality(s) \in Q
        BY <1>6, OneLess
    <2> QED
        BY <2>1 DEF Q
<1> QED
    BY <1>1, <1>7 DEF Adds

\* Two sums of the same terms are equal, in whatever order they are.
LEMMA SumsAgree ==
    ASSUME NEW S, IsFiniteSet(S), NEW f \in [S -> Nat], NEW sum, Sums(sum, f, S),
           NEW T, IsFiniteSet(T), NEW e \in [T -> Nat], NEW tot, Sums(tot, e, T),
           NEW b \in [S -> T], \A x, y \in S : b[x] = b[y] => x = y,
           \A t \in T : \E x \in S : b[x] = t,
           \A x \in S : f[x] = e[b[x]]
    PROVE  sum[S] = tot[T]
<1> DEFINE image(s) == {b[x] : x \in s}
           Q == {k \in Nat : \A s \in SUBSET S : Cardinality(s) = k => sum[s] = tot[image(s)]}
<1>1. Adds(sum, f, S) /\ Adds(tot, e, T)
    BY SumsPick
<1>2. image({}) = {} /\ image(S) = T
    OBVIOUS
<1>3. 0 \in Q
    <2> SUFFICES ASSUME NEW s \in SUBSET S, Cardinality(s) = 0 PROVE sum[s] = tot[image(s)]
        OBVIOUS
    <2>1. s = {}
        BY OneLess
    <2> QED
        BY <1>1, <1>2, <2>1 DEF Adds
<1>4. ASSUME NEW k \in Nat, k \in Q
      PROVE  k + 1 \in Q
    <2> SUFFICES ASSUME NEW s \in SUBSET S, Cardinality(s) = k + 1 PROVE sum[s] = tot[image(s)]
        <3> HIDE DEF image
        <3> QED
            OBVIOUS
    <2>1. s # {}
        BY OneLess
    <2>2. PICK x \in s : TRUE
        BY <2>1
    <2> DEFINE r == s \ {x}
    <2>3. r \in SUBSET S /\ Cardinality(r) + 1 = k + 1 /\ Cardinality(r) \in Nat
        BY OneLess
    <2>4. sum[r] = tot[image(r)]
        BY <1>4, <2>3
    <2>5. image(r) = image(s) \ {b[x]}
        OBVIOUS
    <2>6. image(s) \in SUBSET T /\ b[x] \in image(s)
        OBVIOUS
    <2> HIDE DEF image
    <2>7. tot[image(s)] = tot[image(r)] + e[b[x]]
        <3> DEFINE t == image(s)
                   y == b[x]
        <3>1. \A u \in SUBSET T : \A z \in u : tot[u] = tot[u \ {z}] + e[z]
            BY <1>1 DEF Adds
        <3>2. t \in SUBSET T /\ y \in t
            BY <2>6
        <3> HIDE DEF t, y
        <3>3. tot[t] = tot[t \ {y}] + e[y]
            BY <3>1, <3>2
        <3> QED
            BY <2>5, <3>3 DEF t, y
    <2>8. sum[s] = sum[r] + f[x]
        BY <1>1 DEF Adds
    <2> QED
        BY <2>4, <2>7, <2>8
<1> HIDE DEF Q
<1>5. Nat \subseteq Q
    BY <1>3, <1>4, Induction
<1>6. sum[S] = tot[image(S)]
    BY <1>5, OneLess DEF Q
<1> QED
    BY <1>2, <1>6

----------------------------------------------------------------------------
(* Sorting.                                                                *)

\* R, a set of pairs, is a strict order of all of S.
Orders(R, S) ==
    /\ \A x \in S : <<x, x>> \notin R
    /\ \A x, y, z \in S : <<x, y>> \in R /\ <<y, z>> \in R => <<x, z>> \in R
    /\ \A x, y \in S : x = y \/ <<x, y>> \in R \/ <<y, x>> \in R

\* s has the members of S in the order of R.
Arranges(s, R, S) ==
    /\ \A x \in S : \E i \in DOMAIN s : s[i] = x
    /\ \A i, j \in DOMAIN s : i < j => <<s[i], s[j]>> \in R

\* A finite set can be sorted: the place of a member is one more than the
\* number of those before it.
LEMMA SortedExists ==
    ASSUME NEW S, IsFiniteSet(S), NEW R, Orders(R, S)
    PROVE  \E s \in [1 .. Cardinality(S) -> S] : Arranges(s, R, S)
<1> DEFINE below(x) == {y \in S : <<y, x>> \in R}
           rank == [x \in S |-> Cardinality(below(x)) + 1]
           n == Cardinality(S)
<1>1. n \in Nat
    BY FS_CardinalityType
<1>2. \A x \in S : below(x) \in SUBSET S /\ IsFiniteSet(below(x)) /\ Cardinality(below(x)) \in Nat
    BY FS_Subset, FS_CardinalityType
<1>3. ASSUME NEW x \in S
      PROVE  rank[x] \in 1 .. n
    <2>1. below(x) \in SUBSET (S \ {x})
        BY DEF Orders
    <2>2. IsFiniteSet(S \ {x}) /\ Cardinality(S \ {x}) = n - 1
        BY FS_RemoveElement
    <2>3. Cardinality(below(x)) =< n - 1
        <3> HIDE DEF below, n
        <3> QED
            BY <2>1, <2>2, FS_Subset
    <2> HIDE DEF below, n
    <2> QED
        BY <1>1, <1>2, <2>3
<1>4. ASSUME NEW x \in S, NEW y \in S, <<x, y>> \in R
      PROVE  rank[x] < rank[y]
    <2>1. below(x) \in SUBSET below(y) /\ x \in below(y) /\ x \notin below(x)
        BY <1>4 DEF Orders
    <2>2. IsFiniteSet(below(y)) /\ Cardinality(below(x)) \in Nat /\ Cardinality(below(y)) \in Nat
        BY <1>2
    <2>3. Cardinality(below(x)) =< Cardinality(below(y))
          /\ Cardinality(below(x)) # Cardinality(below(y))
        <3> HIDE DEF below
        <3> QED
            BY <2>1, <2>2, FS_Subset
    <2> HIDE DEF below
    <2> QED
        BY <2>2, <2>3
<1> HIDE DEF below, n
<1>5. rank \in [S -> 1 .. n]
    <2>1. rank = [x \in S |-> rank[x]]
        OBVIOUS
    <2> HIDE DEF rank
    <2> QED
        BY <1>3, <2>1
<1> HIDE DEF rank
<1>6. \A x, y \in S : rank[x] = rank[y] => x = y
    <2> SUFFICES ASSUME NEW x \in S, NEW y \in S, rank[x] = rank[y], x # y PROVE FALSE
        OBVIOUS
    <2>1. <<x, y>> \in R \/ <<y, x>> \in R
        BY DEF Orders
    <2>2. rank[x] < rank[y] \/ rank[y] < rank[x]
        BY <1>4, <2>1
    <2>3. rank[x] \in Nat /\ rank[y] \in Nat
        BY <1>1, <1>5
    <2> QED
        BY <2>2, <2>3
<1>7. rank \in Surjection(S, 1 .. n)
    <2>1. rank \in Injection(S, 1 .. n)
        <3>1. DOMAIN rank = S
            BY <1>5
        <3> QED
            BY <1>5, <1>6, <3>1 DEF Injection, IsInjective
    <2>2. IsFiniteSet(1 .. n) /\ Cardinality(1 .. n) = n
        BY <1>1, FS_Interval
    <2> QED
        BY <2>1, <2>2, FS_Injection DEF n
<1>8. \A i \in 1 .. n : \E x \in S : rank[x] = i
    BY <1>7 DEF Surjection
<1> DEFINE s == [i \in 1 .. n |-> CHOOSE x \in S : rank[x] = i]
<1>9. \A i \in 1 .. n : s[i] \in S /\ rank[s[i]] = i
    BY <1>8
<1>10. s \in [1 .. n -> S] /\ DOMAIN s = 1 .. n
    BY <1>9
<1> HIDE DEF s
<1>11. \A x \in S : \E i \in DOMAIN s : s[i] = x
    <2> SUFFICES ASSUME NEW x \in S PROVE \E i \in DOMAIN s : s[i] = x
        OBVIOUS
    <2>1. rank[x] \in 1 .. n
        BY <1>5
    <2>2. s[rank[x]] = x
        BY <1>6, <1>9, <2>1
    <2> QED
        BY <1>10, <2>1, <2>2
<1>12. ASSUME NEW i \in 1 .. n, NEW j \in 1 .. n, i < j
       PROVE  <<s[i], s[j]>> \in R
    <2>1. s[i] \in S /\ s[j] \in S /\ rank[s[i]] = i /\ rank[s[j]] = j
        BY <1>9
    <2>2. s[i] # s[j] /\ ~(rank[s[j]] < rank[s[i]])
        BY <1>12, <2>1
    <2>3. <<s[j], s[i]>> \notin R
        BY <1>4, <2>1, <2>2
    <2> QED
        BY <2>1, <2>2, <2>3 DEF Orders
<1>13. Arranges(s, R, S)
    BY <1>10, <1>11, <1>12 DEF Arranges
<1> QED
    BY <1>10, <1>13 DEF n

----------------------------------------------------------------------------
(* Selections.                                                             *)

\* The function that Kept evaluates, and the equation that defines it.
Keeps(kept, s, set) ==
    kept = [i \in 0 .. Len(s) |->
               IF i = 0 THEN <<>>
               ELSE IF s[i] \in set THEN Append(kept[i - 1], s[i]) ELSE kept[i - 1]]

\* The function exists, and its values are sequences.
LEMMA KeptIsComputed ==
    ASSUME NEW E, NEW s \in Seq(E), NEW set
    PROVE  \E kept \in [0 .. Len(s) -> Seq(E)] :
              Keeps(kept, s, set) /\ Kept(s, set) = kept[Len(s)]
<1> DEFINE step == [x \in Nat \X Seq(E) |->
                       IF x[1] \in DOMAIN s /\ s[x[1]] \in set THEN Append(x[2], s[x[1]]) ELSE x[2]]
           V == Seq(E)
           base == <<>>
<1>1. step \in [Nat \X V -> V] /\ base \in V
    OBVIOUS
<1>2. \A i \in Nat, v \in V :
         step[<<i, v>>] = IF i \in DOMAIN s /\ s[i] \in set THEN Append(v, s[i]) ELSE v
    OBVIOUS
<1>3. Len(s) \in Nat /\ DOMAIN s = 1 .. Len(s)
    OBVIOUS
<1> HIDE DEF step, V, base
<1>4. PICK f \in [0 .. Len(s) -> V] :
         f[0] = base /\ \A i \in 1 .. Len(s) : f[i] = step[<<i, f[i - 1]>>]
    <2> DEFINE n == Len(s)
    <2>1. n \in Nat /\ base \in V /\ step \in [Nat \X V -> V]
        BY <1>1, <1>3
    <2> HIDE DEF n
    <2>2. \E f \in [0 .. n -> V] : Computes(f, base, step, n)
        BY <2>1, Recursion
    <2> QED
        BY <2>2 DEF n, Computes
<1>5. ASSUME NEW i \in 1 .. Len(s)
      PROVE  f[i] = IF s[i] \in set THEN Append(f[i - 1], s[i]) ELSE f[i - 1]
    <2>1. i \in Nat /\ i - 1 \in 0 .. Len(s) /\ i \in DOMAIN s
        BY <1>3
    <2>2. f[i - 1] \in V
        BY <2>1
    <2> QED
        BY <1>2, <1>4, <2>1, <2>2
<1>6. Keeps(f, s, set)
    <2>1. ASSUME NEW i \in 0 .. Len(s)
          PROVE  f[i] = IF i = 0 THEN <<>>
                        ELSE IF s[i] \in set THEN Append(f[i - 1], s[i]) ELSE f[i - 1]
        <3>1. CASE i = 0
            BY <1>4, <3>1 DEF base
        <3>2. CASE i # 0
            <4>1. i \in 1 .. Len(s)
                BY <1>3, <3>2
            <4> QED
                BY <1>5, <3>2, <4>1
        <3> QED
            BY <3>1, <3>2
    <2>2. f = [i \in 0 .. Len(s) |-> f[i]]
        OBVIOUS
    <2> QED
        BY <2>1, <2>2 DEF Keeps
<1> DEFINE k == CHOOSE kept : Keeps(kept, s, set)
<1>7. Keeps(k, s, set)
    BY <1>6
<1>8. Kept(s, set) = k[Len(s)]
    BY DEF Kept, Keeps
<1> HIDE DEF k
<1>9. ASSUME NEW i \in 0 .. Len(s)
      PROVE  k[i] = f[i]
    <2> DEFINE S == {j \in Nat : j =< Len(s) => k[j] = f[j]}
    <2>1. 0 \in S
        BY <1>3, <1>4, <1>7 DEF Keeps, base
    <2>2. ASSUME NEW j \in Nat, j \in S
          PROVE  j + 1 \in S
        <3> SUFFICES ASSUME j + 1 =< Len(s) PROVE k[j + 1] = f[j + 1]
            OBVIOUS
        <3>1. k[j] = f[j] /\ j + 1 \in 1 .. Len(s) /\ (j + 1) - 1 = j /\ j + 1 \in 0 .. Len(s)
            BY <1>3, <2>2
        <3>2. \A m \in 0 .. Len(s) :
                 k[m] = IF m = 0 THEN <<>>
                        ELSE IF s[m] \in set THEN Append(k[m - 1], s[m]) ELSE k[m - 1]
            BY <1>7 DEF Keeps
        <3>3. k[j + 1] = IF s[j + 1] \in set THEN Append(k[j], s[j + 1]) ELSE k[j]
            BY <3>1, <3>2
        <3> QED
            BY <1>5, <3>1, <3>3
    <2> HIDE DEF S
    <2>3. Nat \subseteq S
        BY <2>1, <2>2, Induction
    <2> QED
        BY <1>3, <2>3 DEF S
<1>10. k = f
    <2>1. k = [i \in 0 .. Len(s) |-> k[i]]
        BY <1>7 DEF Keeps
    <2>2. f = [i \in 0 .. Len(s) |-> f[i]]
        OBVIOUS
    <2> QED
        BY <1>9, <2>1, <2>2
<1> QED
    BY <1>6, <1>8, <1>10 DEF V

\* A selection is a sequence of the same elements.
LEMMA KeptType ==
    ASSUME NEW E, NEW s \in Seq(E), NEW set
    PROVE  Kept(s, set) \in Seq(E)
<1>1. PICK kept \in [0 .. Len(s) -> Seq(E)] : Kept(s, set) = kept[Len(s)]
    BY KeptIsComputed
<1>2. Len(s) \in 0 .. Len(s)
    OBVIOUS
<1> QED
    BY <1>1, <1>2

\* Of nothing, nothing is selected.
LEMMA KeptEmpty ==
    ASSUME NEW set
    PROVE  Kept(<<>>, set) = <<>>
<1>1. <<>> \in Seq({})
    OBVIOUS
<1>2. PICK kept \in [0 .. Len(<<>>) -> Seq({})] :
         Keeps(kept, <<>>, set) /\ Kept(<<>>, set) = kept[Len(<<>>)]
    BY <1>1, KeptIsComputed
<1>3. Len(<<>>) = 0
    OBVIOUS
<1> QED
    BY <1>2, <1>3 DEF Keeps

\* What one more element does to a selection.
LEMMA KeptAppend ==
    ASSUME NEW E, NEW s \in Seq(E), NEW e \in E, NEW set
    PROVE  Kept(Append(s, e), set) =
               IF e \in set THEN Append(Kept(s, set), e) ELSE Kept(s, set)
<1> DEFINE t == Append(s, e)
           n == Len(s)
<1>1. /\ t \in Seq(E) /\ n \in Nat /\ Len(t) = n + 1
      /\ t[n + 1] = e /\ \A i \in 1 .. n : t[i] = s[i]
    OBVIOUS
<1> HIDE DEF t
<1>2. PICK a \in [0 .. Len(s) -> Seq(E)] : Keeps(a, s, set) /\ Kept(s, set) = a[Len(s)]
    BY KeptIsComputed
<1>3. PICK b \in [0 .. Len(t) -> Seq(E)] : Keeps(b, t, set) /\ Kept(t, set) = b[Len(t)]
    BY <1>1, KeptIsComputed
<1>4. /\ \A i \in 0 .. n : a[i] = IF i = 0 THEN <<>>
                                  ELSE IF s[i] \in set THEN Append(a[i - 1], s[i]) ELSE a[i - 1]
      /\ \A i \in 0 .. n + 1 : b[i] = IF i = 0 THEN <<>>
                                  ELSE IF t[i] \in set THEN Append(b[i - 1], t[i]) ELSE b[i - 1]
    BY <1>1, <1>2, <1>3 DEF Keeps
<1> DEFINE S == {j \in Nat : j =< n => a[j] = b[j]}
<1>5. 0 \in S
    <2>1. 0 \in 0 .. n /\ 0 \in 0 .. n + 1
        BY <1>1
    <2>2. a[0] = <<>> /\ b[0] = <<>>
        BY <1>4, <2>1
    <2> QED
        BY <2>2
<1>6. ASSUME NEW j \in Nat, j \in S
      PROVE  j + 1 \in S
    <2> SUFFICES ASSUME j + 1 =< n PROVE a[j + 1] = b[j + 1]
        OBVIOUS
    <2>1. /\ j + 1 \in 0 .. n /\ j + 1 \in 0 .. n + 1 /\ j + 1 \in 1 .. n
          /\ j + 1 # 0 /\ (j + 1) - 1 = j /\ a[j] = b[j]
        BY <1>1, <1>6
    <2>2. /\ a[j + 1] = IF s[j + 1] \in set THEN Append(a[j], s[j + 1]) ELSE a[j]
          /\ b[j + 1] = IF t[j + 1] \in set THEN Append(b[j], t[j + 1]) ELSE b[j]
        BY <1>4, <2>1
    <2> QED
        BY <1>1, <2>1, <2>2
<1> HIDE DEF S
<1>7. Nat \subseteq S
    BY <1>5, <1>6, Induction
<1>8. a[n] = b[n]
    BY <1>1, <1>7 DEF S
<1>9. b[n + 1] = IF t[n + 1] \in set THEN Append(b[n], t[n + 1]) ELSE b[n]
    <2>1. n + 1 \in 0 .. n + 1 /\ n + 1 # 0 /\ (n + 1) - 1 = n
        BY <1>1
    <2> QED
        BY <1>4, <2>1
<1> QED
    BY <1>1, <1>2, <1>3, <1>8, <1>9 DEF t

\* If no element is in the set, nothing is selected.
LEMMA KeptNothing ==
    ASSUME NEW E, NEW s \in Seq(E), NEW set, \A i \in DOMAIN s : s[i] \notin set
    PROVE  Kept(s, set) = <<>>
<1> DEFINE n == Len(s)
<1>1. n \in Nat /\ \A i \in 1 .. n : s[i] \notin set
    OBVIOUS
<1>2. PICK a \in [0 .. Len(s) -> Seq(E)] : Keeps(a, s, set) /\ Kept(s, set) = a[Len(s)]
    BY KeptIsComputed
<1>3. \A i \in 0 .. n : a[i] = IF i = 0 THEN <<>>
                               ELSE IF s[i] \in set THEN Append(a[i - 1], s[i]) ELSE a[i - 1]
    BY <1>2 DEF Keeps
<1> DEFINE S == {j \in Nat : j =< n => a[j] = <<>>}
<1>4. 0 \in S
    BY <1>1, <1>3
<1>5. ASSUME NEW j \in Nat, j \in S
      PROVE  j + 1 \in S
    <2> SUFFICES ASSUME j + 1 =< n PROVE a[j + 1] = <<>>
        OBVIOUS
    <2>1. /\ j + 1 \in 0 .. n /\ j + 1 \in 1 .. n /\ j + 1 # 0 /\ (j + 1) - 1 = j /\ a[j] = <<>>
        BY <1>1, <1>5
    <2>2. a[j + 1] = IF s[j + 1] \in set THEN Append(a[j], s[j + 1]) ELSE a[j]
        BY <1>3, <2>1
    <2> QED
        BY <1>1, <2>1, <2>2
<1> HIDE DEF S
<1>6. Nat \subseteq S
    BY <1>4, <1>5, Induction
<1>7. a[n] = <<>>
    BY <1>1, <1>6 DEF S
<1> QED
    BY <1>2, <1>7

\* What is selected is in the set.
LEMMA KeptChosen ==
    ASSUME NEW E, NEW s \in Seq(E), NEW set
    PROVE  Kept(s, set) \in Seq(E \intersect set)
<1> DEFINE n == Len(s)
           V == Seq(E \intersect set)
<1>1. n \in Nat /\ \A i \in 1 .. n : s[i] \in E
    OBVIOUS
<1>2. PICK a \in [0 .. Len(s) -> Seq(E)] : Keeps(a, s, set) /\ Kept(s, set) = a[Len(s)]
    BY KeptIsComputed
<1>3. \A i \in 0 .. n : a[i] = IF i = 0 THEN <<>>
                               ELSE IF s[i] \in set THEN Append(a[i - 1], s[i]) ELSE a[i - 1]
    BY <1>2 DEF Keeps
<1> DEFINE S == {j \in Nat : j =< n => a[j] \in V}
<1>4. 0 \in S
    BY <1>1, <1>3
<1>5. ASSUME NEW j \in Nat, j \in S
      PROVE  j + 1 \in S
    <2> SUFFICES ASSUME j + 1 =< n PROVE a[j + 1] \in V
        OBVIOUS
    <2>1. /\ j + 1 \in 0 .. n /\ j + 1 \in 1 .. n /\ j + 1 # 0 /\ (j + 1) - 1 = j /\ a[j] \in V
        BY <1>1, <1>5
    <2>2. a[j + 1] = IF s[j + 1] \in set THEN Append(a[j], s[j + 1]) ELSE a[j]
        BY <1>3, <2>1
    <2>3. s[j + 1] \in E
        BY <1>1, <2>1
    <2> QED
        BY <2>1, <2>2, <2>3
<1> HIDE DEF S
<1>6. Nat \subseteq S
    BY <1>4, <1>5, Induction
<1>7. a[n] \in V
    BY <1>1, <1>6 DEF S
<1> QED
    BY <1>2, <1>7

\* g has the numbers of S in their order.
Enumerates(g, S) ==
    /\ \A k \in DOMAIN g : g[k] \in S
    /\ \A k, l \in DOMAIN g : k < l => g[k] < g[l]
    /\ \A x \in S : \E k \in DOMAIN g : g[k] = x

\* A selection from the numbers up to n enumerates what is selected.
LEMMA KeptPlaces ==
    ASSUME NEW n \in Nat, NEW set, NEW s, s = [k \in 1 .. n |-> k]
    PROVE  Kept(s, set) \in Seq(Nat) /\ Enumerates(Kept(s, set), set \intersect 1 .. n)
<1>1. s \in Seq(Nat) /\ Len(s) = n /\ \A i \in 1 .. n : s[i] = i
    OBVIOUS
<1>2. PICK a \in [0 .. Len(s) -> Seq(Nat)] : Keeps(a, s, set) /\ Kept(s, set) = a[Len(s)]
    <2> DEFINE E == Nat
    <2>1. s \in Seq(E)
        BY <1>1
    <2> HIDE DEF E
    <2>2. \E a \in [0 .. Len(s) -> Seq(E)] : Keeps(a, s, set) /\ Kept(s, set) = a[Len(s)]
        BY <2>1, KeptIsComputed
    <2> QED
        BY <2>2 DEF E
<1>3. \A i \in 0 .. n : a[i] = IF i = 0 THEN <<>>
                               ELSE IF s[i] \in set THEN Append(a[i - 1], s[i]) ELSE a[i - 1]
    BY <1>1, <1>2 DEF Keeps
<1> DEFINE S == {j \in Nat : j =< n => Enumerates(a[j], set \intersect 1 .. j)}
<1>4. 0 \in S
    <2>1. a[0] = <<>>
        <3>1. 0 \in 0 .. n
            OBVIOUS
        <3> QED
            BY <1>3, <3>1
    <2>2. Enumerates(<<>>, {})
        BY DEF Enumerates
    <2>3. set \intersect 1 .. 0 = {}
        OBVIOUS
    <2> QED
        BY <2>1, <2>2, <2>3
<1>5. ASSUME NEW j \in Nat, j \in S
      PROVE  j + 1 \in S
    <2> SUFFICES ASSUME j + 1 =< n PROVE Enumerates(a[j + 1], set \intersect 1 .. j + 1)
        OBVIOUS
    <2>1. /\ j + 1 \in 0 .. n /\ j + 1 \in 1 .. n /\ j + 1 # 0 /\ (j + 1) - 1 = j
          /\ j \in 0 .. Len(s) /\ Enumerates(a[j], set \intersect 1 .. j)
        BY <1>1, <1>5
    <2>2. a[j + 1] = IF s[j + 1] \in set THEN Append(a[j], s[j + 1]) ELSE a[j]
        BY <1>3, <2>1
    <2>3. s[j + 1] = j + 1
        BY <1>1, <2>1
    <2> DEFINE g == a[j]
               h == Append(g, j + 1)
    <2>4. g \in Seq(Nat)
        BY <1>2, <2>1
    <2>5. CASE j + 1 \in set
        <3>1. a[j + 1] = h
            BY <2>2, <2>3, <2>5
        <3>2. /\ Len(g) \in Nat /\ DOMAIN g = 1 .. Len(g) /\ DOMAIN h = 1 .. Len(g) + 1
              /\ h[Len(g) + 1] = j + 1 /\ \A k \in 1 .. Len(g) : h[k] = g[k]
            BY <2>4
        <3>3. Enumerates(g, set \intersect 1 .. j)
            BY <2>1
        <3> HIDE DEF g, h
        <3>4. ASSUME NEW k \in DOMAIN h
              PROVE  h[k] \in set \intersect 1 .. j + 1
            <4>1. CASE k = Len(g) + 1
                BY <2>5, <3>2, <4>1
            <4>2. CASE k # Len(g) + 1
                <5>1. k \in 1 .. Len(g)
                    BY <3>2, <4>2
                <5>2. g[k] \in set \intersect 1 .. j
                    BY <3>2, <3>3, <5>1 DEF Enumerates
                <5> QED
                    BY <3>2, <5>1, <5>2
            <4> QED
                BY <4>1, <4>2
        <3>5. ASSUME NEW k \in DOMAIN h, NEW l \in DOMAIN h, k < l
              PROVE  h[k] < h[l]
            <4>1. CASE l = Len(g) + 1
                <5>1. k \in 1 .. Len(g)
                    BY <3>2, <3>5, <4>1
                <5>2. h[k] = g[k] /\ g[k] \in 1 .. j
                    BY <3>2, <3>3, <5>1 DEF Enumerates
                <5> QED
                    BY <3>2, <4>1, <5>2
            <4>2. CASE l # Len(g) + 1
                <5>1. k \in 1 .. Len(g) /\ l \in 1 .. Len(g)
                    BY <3>2, <3>5, <4>2
                <5> QED
                    BY <3>2, <3>3, <3>5, <5>1 DEF Enumerates
            <4> QED
                BY <4>1, <4>2
        <3>6. ASSUME NEW x \in set \intersect 1 .. j + 1
              PROVE  \E k \in DOMAIN h : h[k] = x
            <4>1. CASE x = j + 1
                <5>1. Len(g) + 1 \in DOMAIN h /\ h[Len(g) + 1] = x
                    BY <3>2, <4>1
                <5> QED
                    BY <5>1
            <4>2. CASE x # j + 1
                <5>1. x \in set \intersect 1 .. j
                    BY <4>2
                <5>2. PICK k \in 1 .. Len(g) : g[k] = x
                    BY <3>2, <3>3, <5>1 DEF Enumerates
                <5>3. k \in DOMAIN h /\ h[k] = x
                    BY <3>2, <5>2
                <5> QED
                    BY <5>3
            <4> QED
                BY <4>1, <4>2
        <3>7. Enumerates(h, set \intersect 1 .. j + 1)
            BY <3>4, <3>5, <3>6 DEF Enumerates
        <3> QED
            BY <3>1, <3>7
    <2>6. CASE j + 1 \notin set
        <3>1. a[j + 1] = g
            BY <2>2, <2>3, <2>6
        <3>2. set \intersect 1 .. j + 1 = set \intersect 1 .. j
            BY <2>6
        <3> QED
            BY <2>1, <3>1, <3>2
    <2> QED
        BY <2>5, <2>6
<1> HIDE DEF S
<1>6. Nat \subseteq S
    BY <1>4, <1>5, Induction
<1>7. Enumerates(a[n], set \intersect 1 .. n)
    BY <1>6 DEF S
<1>8. a[n] \in Seq(Nat)
    BY <1>1, <1>2
<1> QED
    BY <1>1, <1>2, <1>7, <1>8

\* There is one order only: two that enumerate the same numbers are the same.
LEMMA EnumeratesOnce ==
    ASSUME NEW S, S \subseteq Nat, NEW m \in Nat, NEW n \in Nat,
           NEW f \in [1 .. m -> Nat], NEW g \in [1 .. n -> Nat],
           Enumerates(f, S), Enumerates(g, S)
    PROVE  f = g
<1>1. DOMAIN f = 1 .. m /\ DOMAIN g = 1 .. n
    OBVIOUS
<1> DEFINE P == {j \in Nat : \A k \in 1 .. j : (k =< m => k =< n /\ f[k] = g[k])
                                               /\ (k =< n => k =< m)}
<1>2. 0 \in P
    OBVIOUS
<1>3. ASSUME NEW j \in Nat, j \in P
      PROVE  j + 1 \in P
    <2> DEFINE k == j + 1
    <2>1. \A l \in 1 .. j : (l =< m => l =< n /\ f[l] = g[l]) /\ (l =< n => l =< m)
        BY <1>3
    <2>2. ASSUME k =< m
          PROVE  \E l \in 1 .. n : l >= k /\ g[l] = f[k]
        <3>1. k \in 1 .. m /\ f[k] \in S
            BY <1>1, <2>2 DEF Enumerates
        <3>2. PICK l \in 1 .. n : g[l] = f[k]
            BY <1>1, <3>1 DEF Enumerates
        <3>3. ASSUME l < k PROVE FALSE
            <4>1. l \in 1 .. j /\ l \in 1 .. m
                BY <3>1, <3>3
            <4>2. f[l] = g[l] /\ f[l] < f[k]
                BY <1>1, <2>1, <3>1, <3>3, <4>1 DEF Enumerates
            <4> QED
                BY <3>1, <3>2, <4>1, <4>2
        <3> QED
            BY <3>2, <3>3
    <2>3. ASSUME k =< n
          PROVE  \E l \in 1 .. m : l >= k /\ f[l] = g[k]
        <3>1. k \in 1 .. n /\ g[k] \in S
            BY <1>1, <2>3 DEF Enumerates
        <3>2. PICK l \in 1 .. m : f[l] = g[k]
            BY <1>1, <3>1 DEF Enumerates
        <3>3. ASSUME l < k PROVE FALSE
            <4>1. l \in 1 .. j /\ l \in 1 .. n /\ l =< n
                BY <2>1, <3>1, <3>3
            <4>2. f[l] = g[l] /\ g[l] < g[k]
                BY <1>1, <2>1, <3>1, <3>3, <4>1 DEF Enumerates
            <4> QED
                BY <3>1, <3>2, <4>1, <4>2
        <3> QED
            BY <3>2, <3>3
    <2>4. k =< m <=> k =< n
        BY <2>2, <2>3
    <2>5. ASSUME k =< m, k =< n
          PROVE  f[k] = g[k]
        <3>1. PICK l \in 1 .. n : l >= k /\ g[l] = f[k]
            BY <2>2, <2>5
        <3>2. PICK q \in 1 .. m : q >= k /\ f[q] = g[k]
            BY <2>3, <2>5
        <3>3. k \in 1 .. m /\ k \in 1 .. n
            BY <2>5
        <3>4. /\ k < l => g[k] < g[l]
              /\ k < q => f[k] < f[q]
            BY <1>1, <3>1, <3>2, <3>3 DEF Enumerates
        <3>5. f[k] \in Nat /\ g[k] \in Nat /\ g[l] \in Nat /\ f[q] \in Nat
            BY <3>1, <3>2, <3>3
        <3>6. (k < l \/ k = l) /\ (k < q \/ k = q)
            BY <3>1, <3>2
        <3> HIDE DEF k
        <3> QED
            BY <3>1, <3>2, <3>4, <3>5, <3>6
    <2> QED
        BY <2>1, <2>4, <2>5
<1> HIDE DEF P
<1>4. Nat \subseteq P
    BY <1>2, <1>3, Induction
<1>5. m \in P /\ n \in P
    BY <1>4
<1>6. m = n
    BY <1>5 DEF P
<1>7. \A k \in 1 .. m : f[k] = g[k]
    BY <1>5 DEF P
<1> QED
    BY <1>6, <1>7

----------------------------------------------------------------------------
(* Recursion and induction from n + 1 down to 1.                           *)

\* What is shown of a number from what is above it holds of all.
LEMMA Downward ==
    ASSUME NEW n \in Nat, NEW S,
           \A i \in 1 .. n + 1 : (\A j \in 1 .. n + 1 : i < j => j \in S) => i \in S
    PROVE  1 .. n + 1 \subseteq S
<1> DEFINE P == {k \in Nat : \A i \in 1 .. n + 1 : n + 1 - k =< i => i \in S}
<1>1. 0 \in P
    <2>1. n + 1 \in S
        OBVIOUS
    <2>2. \A i \in 1 .. n + 1 : n + 1 - 0 =< i => i = n + 1
        OBVIOUS
    <2> QED
        BY <2>1, <2>2
<1>2. ASSUME NEW k \in Nat, k \in P
      PROVE  k + 1 \in P
    <2> SUFFICES ASSUME NEW i \in 1 .. n + 1, n + 1 - (k + 1) =< i
                 PROVE  i \in S
        OBVIOUS
    <2>1. \A j \in 1 .. n + 1 : i < j => j \in S
        BY <1>2
    <2> QED
        BY <2>1
<1> HIDE DEF P
<1>3. Nat \subseteq P
    BY <1>1, <1>2, Induction
<1>4. n \in P
    BY <1>3
<1> QED
    BY <1>4 DEF P

\* Each value of f is what F makes of f and its place.
Descends(f, F, D) == \A i \in D : f[i] = F[<<f, i>>]

\* If the value at a place depends only on those above it, there is such an f.
LEMMA DescentExists ==
    ASSUME NEW n \in Nat, NEW V, NEW v \in V, NEW D, D = 1 .. n + 1,
           NEW F \in [[D -> V] \X D -> V],
           \A f, g \in [D -> V] : \A i \in D :
              (\A j \in D : i < j => f[j] = g[j]) => F[<<f, i>>] = F[<<g, i>>]
    PROVE  \E f \in [D -> V] : Descends(f, F, D)
<1> DEFINE W == [D -> V]
           base == [i \in D |-> v]
           step == [x \in Nat \X W |-> [i \in D |-> F[<<x[2], i>>]]]
<1>1. base \in W /\ step \in [Nat \X W -> W]
    OBVIOUS
<1>2. \A k \in Nat, f \in W, i \in D : step[<<k, f>>][i] = F[<<f, i>>]
    OBVIOUS
<1> HIDE DEF base, step
<1>3. PICK h \in [0 .. n + 2 -> W] : Computes(h, base, step, n + 2)
    <2>1. n + 2 \in Nat
        OBVIOUS
    <2> HIDE DEF W
    <2> QED
        BY <1>1, <2>1, Recursion
<1>4. ASSUME NEW k \in 0 .. n + 1, NEW i \in D
      PROVE  /\ h[k] \in W /\ h[k + 1] \in W
             /\ h[k + 1][i] = F[<<h[k], i>>]
    <2>1. k + 1 \in 1 .. n + 2 /\ k \in 0 .. n + 2 /\ (k + 1) - 1 = k /\ k + 1 \in Nat
          /\ k + 1 \in 0 .. n + 2
        OBVIOUS
    <2>2. h[k + 1] = step[<<k + 1, h[(k + 1) - 1]>>]
        BY <1>3, <2>1 DEF Computes
    <2>3. h[k] \in W /\ h[k + 1] \in W
        BY <1>3, <2>1
    <2> DEFINE f == h[k]
               l == k + 1
    <2>4. h[l] = step[<<l, f>>] /\ l \in Nat /\ f \in W
        BY <2>1, <2>2, <2>3
    <2>5. step[<<l, f>>][i] = F[<<f, i>>]
        <3> HIDE DEF W, f, l
        <3> QED
            BY <1>2, <2>4
    <2>6. h[l][i] = F[<<f, i>>]
        <3> HIDE DEF W, f, l
        <3> QED
            BY <2>4, <2>5
    <2> QED
        BY <2>3, <2>6
<1> DEFINE P == {k \in Nat : k =< n + 1 =>
                    \A i \in D : n + 1 - k < i => h[k + 1][i] = h[k][i]}
<1>5. 0 \in P
    OBVIOUS
<1>6. ASSUME NEW k \in Nat, k \in P
      PROVE  k + 1 \in P
    <2> SUFFICES ASSUME k + 1 =< n + 1, NEW i \in D, n + 1 - (k + 1) < i
                 PROVE  h[(k + 1) + 1][i] = h[k + 1][i]
        OBVIOUS
    <2>1. k \in 0 .. n + 1 /\ k + 1 \in 0 .. n + 1
        OBVIOUS
    <2>2. \A j \in D : i < j => h[k + 1][j] = h[k][j]
        <3>1. \A j \in D : n + 1 - k < j => h[k + 1][j] = h[k][j]
            BY <1>6, <2>1
        <3>2. \A j \in D : i < j => n + 1 - k < j
            OBVIOUS
        <3> QED
            BY <3>1, <3>2
    <2>3. F[<<h[k + 1], i>>] = F[<<h[k], i>>]
        BY <1>4, <2>1, <2>2
    <2> QED
        BY <1>4, <2>1, <2>3
<1> HIDE DEF P
<1>7. Nat \subseteq P
    BY <1>5, <1>6, Induction
<1>8. ASSUME NEW i \in D
      PROVE  h[n + 1][i] = F[<<h[n + 1], i>>]
    <2>1. n + 1 \in P /\ n + 1 \in 0 .. n + 1
        BY <1>7
    <2>2. n + 1 - (n + 1) < i
        OBVIOUS
    <2>3. h[(n + 1) + 1][i] = h[n + 1][i]
        BY <2>1, <2>2 DEF P
    <2> QED
        BY <1>4, <2>1, <2>3
<1>9. h[n + 1] \in [D -> V]
    BY <1>3
<1> QED
    BY <1>8, <1>9 DEF Descends
=============================================================================
