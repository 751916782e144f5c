----------------------------- MODULE FoldLemmas -----------------------------
(***************************************************************************)
(* Induction over numbers, and what the folds of the library compute, for  *)
(* the proofs about definitions that fold over a sequence.  The library    *)
(* defines a fold by a choice of a function, so what one computes is found *)
(* by way of a function that has the same values, which exists: of the     *)
(* numbers up to which it did not, one would be the least.                 *)
(***************************************************************************)
EXTENDS Integers, FiniteSetsExt, WellFoundedInduction, TLAPS

\* A non-empty set of numbers has a least one.
LEMMA LeastOf ==
    ASSUME NEW S \in SUBSET Nat, S # {}
    PROVE  \E m \in S : \A k \in S : m <= k
  <1>1. PICK m \in S : \A k \in S : ~(<<k, m>> \in OpToRel(<, Nat))
    BY NatLessThanWellFounded, WFMin
  <1>2. ASSUME NEW k \in S PROVE m <= k
    <2>1. k \in Nat /\ m \in Nat
      OBVIOUS
    <2>2. ~(k < m)
      BY <1>1, <2>1 DEF OpToRel
    <2> QED
      BY <2>1, <2>2
  <1> QED
    BY <1>2

LEMMA GreatestIsTheBound ==
    ASSUME NEW n \in Nat, NEW t \in SUBSET (1 .. n), n \in t
    PROVE  Max(t) = n
  <1>1. \A x \in t : x \in Int /\ x <= n
    OBVIOUS
  <1>2. \A x \in t : (\A y \in t : x >= y) => x = n
    BY <1>1
  <1> QED
    BY <1>1, <1>2 DEF Max

\* F takes a number up to N and a member of A to a member of A.
Closed(F, N, A) == \A k \in 1 .. N, a \in A : F[<<k, a>>] \in A

\* it is the recursive function behind the fold of F over the first N numbers.
FoldBy(it, F, N, A, base) ==
    /\ it \in [SUBSET (1 .. N) -> A]
    /\ it[{}] = base
    /\ \A t \in SUBSET (1 .. N) : t # {} => it[t] = F[<<Max(t), it[t \ {Max(t)}]>>]

LEMMA FoldExists ==
    ASSUME NEW A, NEW base \in A, NEW N \in Nat, NEW F, Closed(F, N, A)
    PROVE  \E it : FoldBy(it, F, N, A, base)
  <1> USE DEF Closed
  <1> DEFINE Defines(it, n) == \A t \in SUBSET (1 .. n) :
                  it[t] = IF t = {} THEN base ELSE F[<<Max(t), it[t \ {Max(t)}]>>]
             Has(n) == \E it \in [SUBSET (1 .. n) -> A] : Defines(it, n)
  <1>1. Has(0)
    <2> DEFINE it == [t \in SUBSET (1 .. 0) |-> base]
    <2>1. \A t \in SUBSET (1 .. 0) : t = {}
      OBVIOUS
    <2>2. it \in [SUBSET (1 .. 0) -> A] /\ \A t \in SUBSET (1 .. 0) : it[t] = base
      OBVIOUS
    <2>3. Defines(it, 0)
      BY <2>1, <2>2
    <2> QED
      BY <2>2, <2>3
  <1>2. ASSUME NEW n \in 1 .. N, Has(n - 1) PROVE Has(n)
    <2>1. PICK old \in [SUBSET (1 .. n - 1) -> A] : Defines(old, n - 1)
      BY <1>2
    <2> DEFINE new == [t \in SUBSET (1 .. n) |->
                         IF n \in t THEN F[<<n, old[t \ {n}]>>] ELSE old[t]]
    <2>2. ASSUME NEW t \in SUBSET (1 .. n) PROVE t \ {n} \in SUBSET (1 .. n - 1)
      <3>1. ASSUME NEW x \in t, x # n PROVE x \in 1 .. n - 1
        <4>1. x \in 1 .. n
          OBVIOUS
        <4> QED
          BY <3>1, <4>1
      <3> QED
        BY <3>1
    <2>3. \A t \in SUBSET (1 .. n) : n \notin t => t \in SUBSET (1 .. n - 1)
      OBVIOUS
    <2>4. new \in [SUBSET (1 .. n) -> A]
      <3>1. ASSUME NEW t \in SUBSET (1 .. n) PROVE new[t] \in A
        <4>1. CASE n \in t
          <5>1. old[t \ {n}] \in A
            BY <2>1, <2>2
          <5> QED
            BY <4>1, <5>1
        <4>2. CASE n \notin t
          BY <2>1, <2>3, <4>2
        <4> QED
          BY <4>1, <4>2
      <3> QED
        BY <3>1
    <2>5. ASSUME NEW t \in SUBSET (1 .. n)
          PROVE  new[t] = IF t = {} THEN base ELSE F[<<Max(t), new[t \ {Max(t)}]>>]
      <3>1. CASE n \in t
        <4>1. Max(t) = n
          BY <3>1, n \in Nat, GreatestIsTheBound
        <4>2. new[t \ {n}] = old[t \ {n}]
          BY <2>2
        <4>3. new[t] = F[<<n, old[t \ {n}]>>] /\ t # {}
          BY <3>1
        <4> HIDE DEF new
        <4> QED
          BY <4>1, <4>2, <4>3
      <3>2. CASE n \notin t
        <4>1. t \in SUBSET (1 .. n - 1) /\ new[t] = old[t]
          BY <2>3, <3>2
        <4>2. old[t] = IF t = {} THEN base ELSE F[<<Max(t), old[t \ {Max(t)}]>>]
          BY <2>1, <4>1
        <4>3. \A u \in SUBSET t : n \notin u /\ u \in SUBSET (1 .. n) /\ new[u] = old[u]
          BY <3>2
        <4>4. t \ {Max(t)} \in SUBSET t
          OBVIOUS
        <4>5. new[t \ {Max(t)}] = old[t \ {Max(t)}]
          BY <4>3, <4>4
        <4> HIDE DEF new
        <4> QED
          BY <4>1, <4>2, <4>5
      <3> QED
        BY <3>1, <3>2
    <2> QED
      BY <2>4, <2>5
  <1>3. Has(N)
    <2> DEFINE Lacks == {n \in 0 .. N : ~Has(n)}
    <2> HIDE DEF Has
    <2>1. SUFFICES ASSUME Lacks # {} PROVE FALSE
      OBVIOUS
    <2>2. PICK m \in Lacks : \A k \in Lacks : m <= k
      BY <2>1, LeastOf, Lacks \in SUBSET Nat
    <2>3. m \in 1 .. N /\ Has(m - 1)
      BY <1>1, <2>2
    <2> QED
      BY <1>2, <2>2, <2>3
  <1>4. PICK it \in [SUBSET (1 .. N) -> A] : Defines(it, N)
    BY <1>3
  <1>5. it[{}] = base
    BY <1>4, {} \in SUBSET (1 .. N)
  <1>6. \A t \in SUBSET (1 .. N) : t # {} => it[t] = F[<<Max(t), it[t \ {Max(t)}]>>]
    BY <1>4
  <1> HIDE DEF Defines
  <1> QED
    BY <1>5, <1>6 DEF FoldBy

\* What a step does to the next number it does to all numbers of an interval.
LEMMA Upwards ==
    ASSUME NEW S, NEW a \in Int, NEW b \in Int, a \in S,
           \A k \in a .. b - 1 : k \in S => k + 1 \in S
    PROVE  \A k \in a .. b : k \in S
  <1> DEFINE Out == {m \in Nat : a + m <= b /\ a + m \notin S}
  <1>1. SUFFICES ASSUME Out # {} PROVE FALSE
    <2> HIDE DEF Out
    <2>1. \A k \in a .. b : k \notin S => k - a \in Out
      BY DEF Out
    <2> QED
      BY <2>1
  <1>2. PICK m \in Out : \A k \in Out : m <= k
    BY <1>1, LeastOf, Out \in SUBSET Nat
  <1>3. m # 0
    BY <1>2
  <1>4. m - 1 \in Nat /\ a + (m - 1) <= b - 1 /\ m - 1 \notin Out
    BY <1>2, <1>3
  <1>5. a + (m - 1) \in S /\ a + (m - 1) \in a .. b - 1
    BY <1>4
  <1>6. (a + (m - 1)) + 1 = a + m
    BY <1>2
  <1> QED
    BY <1>2, <1>5, <1>6

LEMMA Downwards ==
    ASSUME NEW S, NEW a \in Int, NEW b \in Int, b \in S,
           \A k \in a + 1 .. b : k \in S => k - 1 \in S
    PROVE  \A k \in a .. b : k \in S
  <1> DEFINE T == {m \in 0 .. b - a : b - m \in S}
  <1>1. a <= b => \A m \in 0 .. b - a : m \in T
    <2>1. ASSUME a <= b PROVE 0 \in T
      BY <2>1
    <2>2. ASSUME NEW m \in 0 .. (b - a) - 1, m \in T PROVE m + 1 \in T
      <3>1. b - m \in S /\ b - m \in a + 1 .. b /\ m + 1 \in 0 .. b - a
        BY <2>2
      <3>2. b - (m + 1) = (b - m) - 1
        OBVIOUS
      <3> QED
        BY <3>1, <3>2
    <2>3. b - a \in Int /\ 0 \in Int
      OBVIOUS
    <2> HIDE DEF T
    <2> QED
      BY <2>1, <2>2, <2>3, Upwards
  <1>2. ASSUME NEW k \in a .. b PROVE k \in S
    <2>1. b - k \in 0 .. b - a /\ b - (b - k) = k /\ a <= b
      OBVIOUS
    <2> QED
      BY <1>1, <2>1
  <1> QED
    BY <1>2

LEMMA MaxIsThere ==
    ASSUME NEW n \in Nat, NEW t \in SUBSET (1 .. n), t # {}
    PROVE  Max(t) \in t
  <1> DEFINE Left == {m \in 0 .. n : n - m \in t}
  <1>1. Left \in SUBSET Nat /\ Left # {}
    <2>1. PICK x \in t : TRUE
      OBVIOUS
    <2>2. n - x \in 0 .. n /\ n - (n - x) = x
      BY <2>1
    <2>3. n - x \in Left
      BY <2>1, <2>2
    <2>4. Left \in SUBSET Nat
      OBVIOUS
    <2> HIDE DEF Left
    <2> QED
      BY <2>3, <2>4
  <1>2. PICK m \in Left : \A k \in Left : m <= k
    BY <1>1, LeastOf
  <1>3. n - m \in t
    BY <1>2
  <1>4. ASSUME NEW y \in t PROVE n - m >= y
    <2>1. n - y \in 0 .. n /\ n - (n - y) = y
      OBVIOUS
    <2>2. n - y \in Left
      BY <2>1
    <2>3. m <= n - y /\ m \in Int
      BY <1>2, <2>2
    <2> QED
      BY <2>1, <2>3
  <1> QED
    BY <1>3, <1>4 DEF Max

LEMMA WholeInterval ==
    ASSUME NEW n \in Nat, NEW k \in 1 .. n
    PROVE  /\ 1 .. k \in SUBSET (1 .. n) /\ 1 .. k # {} /\ Max(1 .. k) = k
           /\ (1 .. k) \ {k} = 1 .. k - 1
  <1>1. /\ k \in Nat /\ k \in 1 .. k
        /\ 1 .. k \in SUBSET (1 .. k) /\ 1 .. k \in SUBSET (1 .. n)
    OBVIOUS
  <1>2. \A t \in SUBSET (1 .. k) : k \in t => Max(t) = k
    BY <1>1, GreatestIsTheBound
  <1>3. (1 .. k) \ {k} = 1 .. k - 1
    OBVIOUS
  <1> QED
    BY <1>1, <1>2, <1>3

\* What the fold has after each number: a function that a proof can follow.
Follows(g, F, n, A, base) ==
    /\ g \in [0 .. n -> A]
    /\ g[0] = base
    /\ \A k \in 1 .. n : g[k] = F[<<k, g[k - 1]>>]

LEMMA FoldIsFollowed ==
    ASSUME NEW A, NEW base \in A, NEW n \in Nat, NEW F, Closed(F, n, A), NEW c,
           c[{}] = base,
           \A k \in 1 .. n : c[1 .. k - 1] \in A => c[1 .. k] = F[<<k, c[1 .. k - 1]>>]
    PROVE  \E g : Follows(g, F, n, A, base) /\ g[n] = c[1 .. n]
  <1> DEFINE g == [k \in 0 .. n |-> c[1 .. k]]
             S == {k \in 0 .. n : g[k] \in A}
  <1>1. g[0] = base
    <2>1. 1 .. 0 = {}
      OBVIOUS
    <2> QED
      BY <2>1
  <1>2. ASSUME NEW k \in 1 .. n, g[k - 1] \in A
        PROVE  g[k] = F[<<k, g[k - 1]>>] /\ g[k] \in A
    <2>1. g[k] = c[1 .. k] /\ g[k - 1] = c[1 .. k - 1]
      OBVIOUS
    <2> HIDE DEF g
    <2>2. g[k] = F[<<k, g[k - 1]>>]
      BY <1>2, <2>1
    <2> QED
      BY <1>2, <2>2 DEF Closed
  <1>3. \A k \in 0 .. n : g[k] \in A
    <2>1. 0 \in S
      BY <1>1
    <2>2. ASSUME NEW k \in 0 .. n - 1, k \in S PROVE k + 1 \in S
      <3>1. k + 1 \in 1 .. n /\ (k + 1) - 1 = k /\ k + 1 \in 0 .. n
        OBVIOUS
      <3>2. g[k] \in A
        BY <2>2
      <3> HIDE DEF g
      <3>3. g[k + 1] \in A
        BY <1>2, <3>1, <3>2
      <3> QED
        BY <3>1, <3>3
    <2>3. \A k \in 0 .. n : k \in S
      <3> HIDE DEF S
      <3> QED
        BY <2>1, <2>2, Upwards
    <2> HIDE DEF g
    <2> QED
      BY <2>3
  <1>4. g \in [0 .. n -> A]
    BY <1>3
  <1>5. \A k \in 1 .. n : g[k] = F[<<k, g[k - 1]>>]
    <2> HIDE DEF g
    <2> QED
      BY <1>2, <1>3
  <1>6. g[n] = c[1 .. n]
    OBVIOUS
  <1> HIDE DEF g
  <1> QED
    BY <1>1, <1>4, <1>5, <1>6 DEF Follows
=============================================================================
