------------------------ MODULE ProviderStreamProofs ------------------------
(***************************************************************************)
(* Proofs about one call of the Provider transport, whatever frames the    *)
(* Provider sends, however the connection cuts them into segments, and     *)
(* whatever the limits are.                                                *)
(*                                                                         *)
(* What happens to the call is an invariant of its steps (CallInv).  What  *)
(* an answer says is found in three stages.  The reader has the frames     *)
(* before the end marker (ReaderOK, kept by every frame of a segment).     *)
(* The decoder has, after each chunk, exactly the names, arguments, finish *)
(* reasons and text of the chunks so far (Decoded, kept by every chunk),   *)
(* which is shown operation by operation: start, emit, complete, take a    *)
(* fragment, take a chunk.  And the loop collects from the events what the *)
(* decoder had in its calls.  TransportInv puts the three together.        *)
(***************************************************************************)
EXTENDS ProviderStream, FoldLemmas, SequenceTheorems

-----------------------------------------------------------------------------
(* Sequences, and what is kept of them *)

\* What Kept has of each beginning of the sequence.
KeptBy(g, s, S) ==
    /\ g[0] = <<>>
    /\ \A k \in 1 .. Len(s) : g[k] = IF s[k] \in S THEN Append(g[k - 1], s[k])
                                     ELSE g[k - 1]

\* Kept takes the elements one by one.
LEMMA KeptIsFollowed ==
    ASSUME NEW A, NEW s \in Seq(A), NEW S
    PROVE  \E g \in [0 .. Len(s) -> Seq(A)] : KeptBy(g, s, S) /\ g[Len(s)] = Kept(s, S)
  <1> DEFINE n == Len(s)
             B == Seq(A)
             F == [p \in (1 .. n) \X B |->
                     IF s[p[1]] \in S THEN Append(p[2], s[p[1]]) ELSE p[2]]
             Is(it) == it = [t \in SUBSET (1 .. n) |-> IF t = {} THEN <<>>
                              ELSE IF s[Max(t)] \in S
                                   THEN Append(it[t \ {Max(t)}], s[Max(t)])
                                   ELSE it[t \ {Max(t)}]]
             c == CHOOSE it : Is(it)
  <1>1. n \in Nat /\ DOMAIN s = 1 .. n /\ \A k \in 1 .. n : s[k] \in A
    OBVIOUS
  <1>2. \A k \in 1 .. n, a \in B :
           /\ F[<<k, a>>] = IF s[k] \in S THEN Append(a, s[k]) ELSE a
           /\ F[<<k, a>>] \in B
    BY <1>1
  <1>3. <<>> \in B
    OBVIOUS
  <1>4. Kept(s, S) = c[1 .. n]
    BY <1>1 DEF Kept, FoldLeft, MapThenFoldSet
  <1> HIDE DEF F, B, n
  <1>5. Closed(F, n, B)
    BY <1>2 DEF Closed
  <1>6. PICK it : FoldBy(it, F, n, B, <<>>)
    BY <1>1, <1>3, <1>5, FoldExists
  <1>7. Is(it)
    <2>1. ASSUME NEW t \in SUBSET (1 .. n), t # {}
          PROVE  F[<<Max(t), it[t \ {Max(t)}]>>] =
                    IF s[Max(t)] \in S THEN Append(it[t \ {Max(t)}], s[Max(t)])
                    ELSE it[t \ {Max(t)}]
      <3>1. it[t \ {Max(t)}] \in B
        BY <1>6 DEF FoldBy
      <3>2. Max(t) \in 1 .. n
        BY <1>1, <2>1, MaxIsThere
      <3> QED
        BY <1>2, <3>1, <3>2
    <2> QED
      BY <1>6, <2>1 DEF FoldBy
  <1>8. Is(c)
    BY <1>7
  <1> HIDE DEF c
  <1>9. c[{}] = <<>>
    BY <1>8, {} \in SUBSET (1 .. n)
  <1>10. ASSUME NEW k \in 1 .. n, c[1 .. k - 1] \in B
         PROVE  c[1 .. k] = F[<<k, c[1 .. k - 1]>>]
    <2>1. /\ 1 .. k \in SUBSET (1 .. n) /\ 1 .. k # {} /\ Max(1 .. k) = k
          /\ (1 .. k) \ {k} = 1 .. k - 1
      BY <1>1, WholeInterval
    <2>2. c[1 .. k] = IF s[k] \in S THEN Append(c[1 .. k - 1], s[k])
                      ELSE c[1 .. k - 1]
      BY <1>8, <2>1
    <2> QED
      BY <1>2, <1>10, <2>2
  <1>11. PICK g : Follows(g, F, n, B, <<>>) /\ g[n] = c[1 .. n]
    BY <1>1, <1>3, <1>5, <1>9, <1>10, FoldIsFollowed
  <1>12. g \in [0 .. n -> B] /\ KeptBy(g, s, S)
    <2>1. ASSUME NEW k \in 1 .. n
          PROVE  g[k] = IF s[k] \in S THEN Append(g[k - 1], s[k]) ELSE g[k - 1]
      <3>1. g[k - 1] \in B /\ g[k] = F[<<k, g[k - 1]>>]
        BY <1>1, <1>11 DEF Follows
      <3> QED
        BY <1>2, <3>1
    <2> QED
      BY <1>11, <2>1 DEF KeptBy, Follows, n
  <1> QED
    BY <1>4, <1>11, <1>12 DEF B, n

\* Only one function does that.
LEMMA KeptOnce ==
    ASSUME NEW s, Len(s) \in Nat, NEW S, NEW g, NEW h, KeptBy(g, s, S), KeptBy(h, s, S)
    PROVE  \A k \in 0 .. Len(s) : g[k] = h[k]
  <1> DEFINE T == {k \in 0 .. Len(s) : g[k] = h[k]}
  <1>1. 0 \in T
    BY DEF KeptBy
  <1>2. ASSUME NEW k \in 0 .. Len(s) - 1, k \in T PROVE k + 1 \in T
    <2>1. k + 1 \in 1 .. Len(s) /\ (k + 1) - 1 = k /\ g[k] = h[k]
      BY <1>2
    <2>2. g[k + 1] = h[k + 1]
      BY <2>1 DEF KeptBy
    <2> QED
      BY <2>1, <2>2
  <1>3. \A k \in 0 .. Len(s) : k \in T
    <2> HIDE DEF T
    <2>1. 0 \in Int /\ Len(s) \in Int
      OBVIOUS
    <2> QED
      BY <1>1, <1>2, <2>1, Upwards
  <1> QED
    BY <1>3

\* One element more.
LEMMA KeptOfAppend ==
    ASSUME NEW A, NEW s \in Seq(A), NEW e \in A, NEW S
    PROVE  Kept(Append(s, e), S) = IF e \in S THEN Append(Kept(s, S), e) ELSE Kept(s, S)
  <1>1. PICK l : l = Append(s, e)
    OBVIOUS
  <1>2. /\ l \in Seq(A) /\ Len(l) \in Nat /\ Len(s) \in Nat /\ Len(l) = Len(s) + 1
        /\ \A k \in 1 .. Len(s) : l[k] = s[k]
        /\ l[Len(l)] = e
    BY <1>1
  <1>3. PICK g \in [0 .. Len(s) -> Seq(A)] : KeptBy(g, s, S) /\ g[Len(s)] = Kept(s, S)
    BY KeptIsFollowed
  <1>4. PICK h \in [0 .. Len(l) -> Seq(A)] : KeptBy(h, l, S) /\ h[Len(l)] = Kept(l, S)
    BY <1>2, KeptIsFollowed
  <1>5. KeptBy(h, s, S)
    <2>1. \A k \in 1 .. Len(s) : k \in 1 .. Len(l)
      BY <1>2
    <2> QED
      BY <1>2, <1>4, <2>1 DEF KeptBy
  <1>6. h[Len(s)] = Kept(s, S)
    BY <1>2, <1>3, <1>5, KeptOnce
  <1>7. Len(l) \in 1 .. Len(l) /\ Len(l) - 1 = Len(s)
    BY <1>2
  <1>8. h[Len(l)] = IF e \in S THEN Append(h[Len(s)], e) ELSE h[Len(s)]
    BY <1>2, <1>4, <1>7 DEF KeptBy
  <1> QED
    BY <1>1, <1>4, <1>6, <1>8

\* Of nothing, nothing is kept.
LEMMA KeptOfNothing ==
    ASSUME NEW S
    PROVE  Kept(<<>>, S) = <<>>
  <1>1. PICK s : s = <<>>
    OBVIOUS
  <1>2. s \in Seq({}) /\ Len(s) = 0
    BY <1>1
  <1>3. PICK g \in [0 .. Len(s) -> Seq({})] : KeptBy(g, s, S) /\ g[Len(s)] = Kept(s, S)
    BY <1>2, KeptIsFollowed
  <1> QED
    BY <1>1, <1>2, <1>3 DEF KeptBy

\* Sequences are made by appending.
LEMMA ByAppending ==
    ASSUME NEW A, NEW G, <<>> \in G,
           \A s \in Seq(A), e \in A : s \in G => Append(s, e) \in G
    PROVE  Seq(A) \subseteq G
  <1> DEFINE Short == {n \in Nat : \A s \in Seq(A) : Len(s) = n => s \in G}
  <1>1. 0 \in Short
    OBVIOUS
  <1>2. ASSUME NEW n \in Nat, n \in Short PROVE n + 1 \in Short
    <2>1. ASSUME NEW s \in Seq(A), Len(s) = n + 1 PROVE s \in G
      <3>1. PICK r : r = SubSeq(s, 1, n)
        OBVIOUS
      <3>2. r \in Seq(A) /\ Len(r) = n /\ s[n + 1] \in A
        BY <2>1, <3>1
      <3>3. s = Append(r, s[n + 1])
        BY <2>1, <3>1
      <3> QED
        BY <1>2, <3>2, <3>3
    <2> QED
      BY <2>1
  <1>3. ASSUME NEW n \in Nat PROVE n \in Short
    <2> HIDE DEF Short
    <2>1. \A k \in 0 .. n : k \in Short
      <3>1. \A k \in 0 .. n - 1 : k \in Short => k + 1 \in Short
        BY <1>2
      <3>2. 0 \in Int /\ n \in Int
        OBVIOUS
      <3> QED
        BY <1>1, <3>1, <3>2, Upwards
    <2> QED
      BY <2>1
  <1>4. ASSUME NEW s \in Seq(A) PROVE s \in G
    <2>1. Len(s) \in Short
      BY <1>3
    <2> QED
      BY <2>1
  <1> QED
    BY <1>4

\* The last element of the second sequence is the last of both.
LEMMA ConcatOfAppend ==
    ASSUME NEW A, NEW s \in Seq(A), NEW t \in Seq(A), NEW e \in A
    PROVE  s \o Append(t, e) = Append(s \o t, e)
  <1>1. PICK l : l = s \o Append(t, e)
    OBVIOUS
  <1>2. PICK r : r = Append(s \o t, e)
    OBVIOUS
  <1>3. /\ l \in Seq(A) /\ r \in Seq(A)
        /\ Len(l) = Len(s) + Len(t) + 1 /\ Len(r) = Len(l)
    BY <1>1, <1>2
  <1>4. \A k \in 1 .. Len(l) : l[k] = r[k]
    BY <1>1, <1>2
  <1> QED
    BY <1>1, <1>2, <1>3, <1>4, SeqEqual

\* The elements of a concatenation.
LEMMA ConcatFacts ==
    ASSUME NEW A, NEW s \in Seq(A), NEW t \in Seq(A), NEW c, c = s \o t
    PROVE  /\ c \in Seq(A) /\ Len(c) = Len(s) + Len(t)
           /\ \A k \in 1 .. Len(s) : c[k] = s[k]
           /\ \A k \in 1 .. Len(t) : c[Len(s) + k] = t[k]
  OBVIOUS

\* What is kept is in S and was there.
LEMMA KeptIsTyped ==
    ASSUME NEW A, NEW S
    PROVE  \A s \in Seq(A) : Kept(s, S) \in Seq(A \cap S)
  <1> DEFINE G == {s \in Seq(A) : Kept(s, S) \in Seq(A \cap S)}
  <1>1. <<>> \in G
    <2>1. <<>> \in Seq(A) /\ <<>> \in Seq(A \cap S) /\ Kept(<<>>, S) = <<>>
      BY KeptOfNothing
    <2> QED
      BY <2>1
  <1>2. ASSUME NEW s \in Seq(A), NEW e \in A, s \in G PROVE Append(s, e) \in G
    <2>1. Kept(s, S) \in Seq(A \cap S)
      BY <1>2
    <2>2. Kept(Append(s, e), S) \in Seq(A \cap S)
      <3>1. PICK B : B = A \cap S
        OBVIOUS
      <3>2. PICK k : k = Kept(s, S)
        OBVIOUS
      <3>3. k \in Seq(B) /\ (e \in S => e \in B)
        BY <2>1, <3>1, <3>2
      <3>4. (IF e \in S THEN Append(k, e) ELSE k) \in Seq(B)
        BY <3>3
      <3>5. Kept(Append(s, e), S) = IF e \in S THEN Append(k, e) ELSE k
        BY <3>2, KeptOfAppend
      <3> QED
        BY <3>1, <3>4, <3>5
    <2> QED
      BY <2>2
  <1>3. Seq(A) \subseteq G
    <2> HIDE DEF G
    <2> QED
      BY <1>1, <1>2, ByAppending
  <1> QED
    BY <1>3

\* Kept goes through a concatenation.
LEMMA KeptOfConcat ==
    ASSUME NEW A, NEW S, NEW s \in Seq(A)
    PROVE  \A t \in Seq(A) : Kept(s \o t, S) = Kept(s, S) \o Kept(t, S)
  <1> DEFINE G == {t \in Seq(A) : Kept(s \o t, S) = Kept(s, S) \o Kept(t, S)}
  <1>0. PICK a : a = Kept(s, S)
    OBVIOUS
  <1>1. <<>> \in G
    <2>1. s \o <<>> = s /\ a \o <<>> = a
      BY <1>0, KeptIsTyped
    <2>2. Kept(<<>>, S) = <<>> /\ <<>> \in Seq(A)
      BY KeptOfNothing
    <2> QED
      BY <1>0, <2>1, <2>2
  <1>2. ASSUME NEW t \in Seq(A), NEW e \in A, t \in G PROVE Append(t, e) \in G
    <2>1. PICK b : b = Kept(t, S)
      OBVIOUS
    <2>2. a \in Seq(A) /\ b \in Seq(A)
      <3>1. A \cap S \subseteq A /\ a \in Seq(A \cap S) /\ b \in Seq(A \cap S)
        BY <1>0, <2>1, KeptIsTyped
      <3> QED
        BY <3>1
    <2>3. Kept(s \o t, S) = a \o b
      BY <1>0, <1>2, <2>1
    <2>4. s \o t \in Seq(A) /\ Append(t, e) \in Seq(A)
      OBVIOUS
    <2>5. Kept(Append(s \o t, e), S) = IF e \in S THEN Append(a \o b, e) ELSE a \o b
      BY <2>3, <2>4, KeptOfAppend
    <2>6. Kept(Append(t, e), S) = IF e \in S THEN Append(b, e) ELSE b
      BY <2>1, KeptOfAppend
    <2>7. a \o Append(b, e) = Append(a \o b, e) /\ s \o Append(t, e) = Append(s \o t, e)
      BY <2>2, ConcatOfAppend
    <2>8. Kept(s \o Append(t, e), S) = a \o Kept(Append(t, e), S)
      BY <2>5, <2>6, <2>7
    <2> QED
      BY <1>0, <2>4, <2>8
  <1>3. Seq(A) \subseteq G
    <2> HIDE DEF G
    <2> QED
      BY <1>1, <1>2, ByAppending
  <1> QED
    BY <1>3

\* A sequence of elements of S is kept, and one without any leaves nothing.
LEMMA AllKept ==
    ASSUME NEW S
    PROVE  \A s \in Seq(S) : Kept(s, S) = s
  <1> DEFINE G == {s \in Seq(S) : Kept(s, S) = s}
  <1>1. <<>> \in G
    BY KeptOfNothing
  <1>2. ASSUME NEW s \in Seq(S), NEW e \in S, s \in G PROVE Append(s, e) \in G
    <2>1. Kept(Append(s, e), S) = Append(s, e)
      BY <1>2, KeptOfAppend
    <2> QED
      BY <2>1
  <1>3. Seq(S) \subseteq G
    <2> HIDE DEF G
    <2> QED
      BY <1>1, <1>2, ByAppending
  <1> QED
    BY <1>3

\* A sequence without elements of S leaves nothing.
LEMMA NoneKept ==
    ASSUME NEW A, NEW S, \A e \in A : e \notin S
    PROVE  \A s \in Seq(A) : Kept(s, S) = <<>>
  <1> DEFINE G == {s \in Seq(A) : Kept(s, S) = <<>>}
  <1>1. <<>> \in G
    BY KeptOfNothing
  <1>2. ASSUME NEW s \in Seq(A), NEW e \in A, s \in G PROVE Append(s, e) \in G
    <2>1. Kept(Append(s, e), S) = <<>>
      BY <1>2, KeptOfAppend
    <2> QED
      BY <2>1
  <1>3. Seq(A) \subseteq G
    <2> HIDE DEF G
    <2> QED
      BY <1>1, <1>2, ByAppending
  <1> QED
    BY <1>3

\* What is kept is what was there.
LEMMA KeptElements ==
    ASSUME NEW A, NEW S
    PROVE  \A s \in Seq(A) :
             /\ \A i \in DOMAIN Kept(s, S) :
                   \E n \in DOMAIN s : s[n] \in S /\ s[n] = Kept(s, S)[i]
             /\ \A n \in DOMAIN s :
                   s[n] \in S => \E i \in DOMAIN Kept(s, S) : Kept(s, S)[i] = s[n]
  <1> DEFINE Comes(s, k) == \A i \in DOMAIN k : \E n \in DOMAIN s : s[n] \in S /\ s[n] = k[i]
             Stays(s, k) == \A n \in DOMAIN s : s[n] \in S => \E i \in DOMAIN k : k[i] = s[n]
             G == {s \in Seq(A) : Comes(s, Kept(s, S)) /\ Stays(s, Kept(s, S))}
  <1>1. <<>> \in G
    BY KeptOfNothing
  <1>2. ASSUME NEW s \in Seq(A), NEW e \in A, s \in G PROVE Append(s, e) \in G
    <2>1. PICK k : k = Kept(s, S)
      OBVIOUS
    <2>2. k \in Seq(A \cap S)
      BY <2>1, KeptIsTyped
    <2>3. PICK t : t = Append(s, e)
      OBVIOUS
    <2>4. PICK l : l = Kept(t, S)
      OBVIOUS
    <2>5. l = IF e \in S THEN Append(k, e) ELSE k
      BY <2>1, <2>3, <2>4, KeptOfAppend
    <2>6. /\ DOMAIN t = 1 .. Len(s) + 1 /\ DOMAIN s = 1 .. Len(s) /\ Len(s) \in Nat
          /\ \A n \in DOMAIN s : n \in DOMAIN t /\ t[n] = s[n]
          /\ Len(s) + 1 \in DOMAIN t /\ t[Len(s) + 1] = e
          /\ \A n \in DOMAIN t : n \in DOMAIN s \/ n = Len(s) + 1
      BY <2>3
    <2>7. /\ \A i \in DOMAIN k : i \in DOMAIN l /\ l[i] = k[i]
          /\ \A i \in DOMAIN l : (i \in DOMAIN k /\ l[i] = k[i]) \/ (e \in S /\ l[i] = e)
          /\ e \in S => \E i \in DOMAIN l : l[i] = e
      <3>1. CASE e \in S
        <4>1. /\ DOMAIN l = 1 .. Len(k) + 1 /\ DOMAIN k = 1 .. Len(k) /\ Len(k) \in Nat
              /\ \A i \in 1 .. Len(k) : l[i] = k[i]
              /\ l[Len(k) + 1] = e
          BY <2>2, <2>5, <3>1
        <4> QED
          BY <3>1, <4>1
      <3>2. CASE e \notin S
        BY <2>5, <3>2
      <3> QED
        BY <3>1, <3>2
    <2>8. Comes(s, k) /\ Stays(s, k)
      BY <1>2, <2>1
    <2>9. Comes(t, l)
      BY <2>6, <2>7, <2>8
    <2>10. Stays(t, l)
      BY <2>6, <2>7, <2>8
    <2> HIDE DEF Comes, Stays
    <2> QED
      BY <2>3, <2>4, <2>9, <2>10
  <1>3. Seq(A) \subseteq G
    <2> HIDE DEF G
    <2> QED
      BY <1>1, <1>2, ByAppending
  <1> QED
    BY <1>3

\* The elements of S that have their keys for themselves keep them.
LEMMA KeptKeysDiffer ==
    ASSUME NEW A, NEW S
    PROVE  \A s \in Seq(A) :
             (\A m, n \in DOMAIN s :
                 s[m] \in S /\ s[n] \in S /\ s[m].key = s[n].key => m = n)
             => \A i, j \in DOMAIN Kept(s, S) :
                   Kept(s, S)[i].key = Kept(s, S)[j].key => i = j
  <1> DEFINE Alone(s) == \A m, n \in DOMAIN s :
                 s[m] \in S /\ s[n] \in S /\ s[m].key = s[n].key => m = n
             Differ(k) == \A i, j \in DOMAIN k : k[i].key = k[j].key => i = j
             G == {s \in Seq(A) : Alone(s) => Differ(Kept(s, S))}
  <1>1. <<>> \in G
    BY KeptOfNothing
  <1>2. ASSUME NEW s \in Seq(A), NEW e \in A, s \in G PROVE Append(s, e) \in G
    <2>1. PICK k : k = Kept(s, S)
      OBVIOUS
    <2>2. k \in Seq(A \cap S)
      BY <2>1, KeptIsTyped
    <2>3. PICK t : t = Append(s, e)
      OBVIOUS
    <2>4. PICK l : l = Kept(t, S)
      OBVIOUS
    <2>5. l = IF e \in S THEN Append(k, e) ELSE k
      BY <2>1, <2>3, <2>4, KeptOfAppend
    <2>6. /\ DOMAIN s = 1 .. Len(s) /\ Len(s) \in Nat
          /\ \A n \in DOMAIN s : n \in DOMAIN t /\ t[n] = s[n]
          /\ Len(s) + 1 \in DOMAIN t /\ t[Len(s) + 1] = e
      BY <2>3
    <2>7. ASSUME Alone(t) PROVE Differ(l)
      <3>1. Alone(s)
        BY <2>6, <2>7
      <3>2. Differ(k)
        BY <1>2, <2>1, <3>1
      <3>3. CASE e \notin S
        BY <2>5, <3>2, <3>3
      <3>4. CASE e \in S
        <4>1. /\ DOMAIN l = 1 .. Len(k) + 1 /\ DOMAIN k = 1 .. Len(k) /\ Len(k) \in Nat
              /\ \A i \in 1 .. Len(k) : l[i] = k[i]
              /\ l[Len(k) + 1] = e
          BY <2>2, <2>5, <3>4
        <4>2. ASSUME NEW i \in DOMAIN k PROVE k[i].key # e.key
          <5>1. PICK n \in DOMAIN s : s[n] \in S /\ s[n] = k[i]
            BY <2>1, KeptElements
          <5>2. n # Len(s) + 1
            BY <2>6
          <5> QED
            BY <2>6, <2>7, <3>4, <5>1, <5>2
        <4> QED
          BY <3>2, <4>1, <4>2
      <3> QED
        BY <3>3, <3>4
    <2> HIDE DEF Alone, Differ
    <2> QED
      BY <2>3, <2>4, <2>7
  <1>3. Seq(A) \subseteq G
    <2> HIDE DEF G
    <2> QED
      BY <1>1, <1>2, ByAppending
  <1> QED
    BY <1>3

\* So does Join.
LEMMA JoinOfConcat ==
    ASSUME NEW A, NEW s \in Seq(A), NEW t \in Seq(A)
    PROVE  Join(s \o t) = Join(s) \o Join(t)
  <1>1. PICK c : c = s \o t
    OBVIOUS
  <1>2. PICK a : a = Join(s)
    OBVIOUS
  <1>3. PICK b : b = Join(t)
    OBVIOUS
  <1> DEFINE D == {x.data : x \in A}
  <1>4. a \in Seq(D) /\ Len(a) = Len(s) /\ \A k \in 1 .. Len(s) : a[k] = s[k].data
    BY <1>2 DEF Join
  <1>5. b \in Seq(D) /\ Len(b) = Len(t) /\ \A k \in 1 .. Len(t) : b[k] = t[k].data
    BY <1>3 DEF Join
  <1>6. PICK j : j = Join(c)
    OBVIOUS
  <1>7. /\ c \in Seq(A) /\ Len(c) = Len(s) + Len(t)
        /\ \A k \in 1 .. Len(c) : c[k] = IF k <= Len(s) THEN s[k] ELSE t[k - Len(s)]
    BY <1>1
  <1>8. j \in Seq(D) /\ Len(j) = Len(c) /\ \A k \in 1 .. Len(c) : j[k] = c[k].data
    BY <1>6, <1>7 DEF Join
  <1> HIDE DEF D
  <1>9. PICK ab : ab = a \o b
    OBVIOUS
  <1>10. /\ ab \in Seq(D) /\ Len(ab) = Len(a) + Len(b)
         /\ \A k \in 1 .. Len(a) : ab[k] = a[k]
         /\ \A k \in 1 .. Len(b) : ab[Len(a) + k] = b[k]
    <2>1. a \in Seq(D) /\ b \in Seq(D)
      BY <1>4, <1>5
    <2> QED
      BY <1>9, <2>1, ConcatFacts
  <1>11. ASSUME NEW k \in 1 .. Len(j) PROVE j[k] = ab[k]
    <2>0. Len(s) \in Nat /\ Len(t) \in Nat
      OBVIOUS
    <2>1. CASE k \in 1 .. Len(s)
      <3>1. k \in 1 .. Len(c) /\ k \in 1 .. Len(a)
        BY <1>4, <1>7, <1>8, <2>1
      <3>2. ab[k] = a[k] /\ a[k] = s[k].data /\ j[k] = c[k].data /\ c[k] = s[k]
        BY <1>4, <1>7, <1>8, <1>10, <2>1, <3>1
      <3> QED
        BY <3>2
    <2>2. CASE ~(k \in 1 .. Len(s))
      <3>1. PICK i \in 1 .. Len(t) : k = Len(s) + i
        <4>1. k - Len(s) \in 1 .. Len(t) /\ k = Len(s) + (k - Len(s))
          BY <1>7, <1>8, <2>0, <2>2
        <4> QED
          BY <4>1
      <3>2. c[k] = t[i]
        BY <1>1, <3>1, ConcatFacts
      <3>3. ab[k] = b[i] /\ b[i] = t[i].data /\ j[k] = c[k].data
        BY <1>4, <1>5, <1>7, <1>8, <1>10, <3>1
      <3> QED
        BY <3>2, <3>3
    <2> QED
      BY <2>1, <2>2
  <1>12. j = ab
    <2>1. Len(j) = Len(ab)
      BY <1>4, <1>5, <1>7, <1>8, <1>10
    <2> QED
      BY <1>8, <1>10, <1>11, <2>1, SeqEqual
  <1> QED
    BY <1>1, <1>2, <1>3, <1>6, <1>9, <1>12

-----------------------------------------------------------------------------
(* The reader and the frames it has heard *)

Readers == [chunks : Seq(Frames), done : BOOLEAN, terminal : BOOLEAN, bad : BOOLEAN]

\* The end marker and a bad frame are no chunks.
LEMMA FramesAreChunks ==
    /\ Done \notin Frames /\ Bad \notin Frames /\ Done # Bad
    /\ Frames \subseteq Chunk
  <1>1. \A c \in Frames : DOMAIN c = {"choice", "part", "reason"}
    BY TransportAssumption DEF Chunk
  <1>2. DOMAIN Done = {"kind"} /\ DOMAIN Bad = {"kind"}
    BY DEF Done, Bad
  <1>3. "choice" # "kind"
    OBVIOUS
  <1>4. Done.kind = "done" /\ Bad.kind = "bad"
    BY DEF Done, Bad
  <1> QED
    BY <1>1, <1>2, <1>3, <1>4, TransportAssumption

\* dispatch, case by case.
LEMMA DispatchFacts ==
    ASSUME NEW r \in Readers, NEW frame \in Wire, NEW e, e = Dispatch(r, frame)
    PROVE  /\ e \in Readers
           /\ r.bad => e.bad
           /\ ~r.bad /\ frame = Done
                => ~e.bad /\ e.done /\ e.chunks = r.chunks /\ e.terminal = r.terminal
           /\ ~r.bad /\ frame # Done /\ (r.done \/ frame = Bad) => e.bad
           /\ ~r.bad /\ frame \in Frames /\ ~r.done
                => /\ ~e.bad /\ ~e.done /\ e.chunks = Append(r.chunks, frame)
                   /\ e.terminal = (r.terminal \/ frame.reason # "none")
  <1>1. CASE r.bad
    BY <1>1 DEF Dispatch
  <1>2. CASE ~r.bad /\ frame = Done
    <2>1. e = [r EXCEPT !.done = TRUE]
      BY <1>2 DEF Dispatch
    <2> QED
      BY <1>2, <2>1, FramesAreChunks DEF Readers
  <1>3. CASE ~r.bad /\ frame # Done /\ (r.done \/ frame = Bad)
    <2>1. e = [r EXCEPT !.bad = TRUE]
      BY <1>3 DEF Dispatch
    <2>2. ~(~r.done /\ frame \in Frames)
      BY <1>3, FramesAreChunks
    <2> QED
      BY <1>3, <2>1, <2>2 DEF Readers
  <1>4. CASE ~r.bad /\ frame # Done /\ ~(r.done \/ frame = Bad)
    <2>1. e = [r EXCEPT !.chunks = Append(@, frame),
                        !.terminal = @ \/ frame.reason # "none"]
      BY <1>4 DEF Dispatch
    <2>2. frame \in Frames
      BY <1>4 DEF Wire
    <2>3. Append(r.chunks, frame) \in Seq(Frames)
      BY <2>2 DEF Readers
    <2>4. PICK t \in BOOLEAN : t = (r.terminal \/ frame.reason # "none")
      BY DEF Readers
    <2>5. e = [r EXCEPT !.chunks = Append(@, frame), !.terminal = t]
      BY <2>1, <2>4
    <2>6. /\ e.chunks = Append(r.chunks, frame) /\ e.terminal = t
          /\ e.done = r.done /\ e.bad = r.bad /\ e \in Readers
      BY <2>3, <2>5 DEF Readers
    <2> QED
      BY <1>4, <2>4, <2>6
  <1> QED
    BY <1>1, <1>2, <1>3, <1>4

\* The chunks are what was heard, and after them only the end marker.
Gathered(c, done, terminal, h) ==
    /\ Len(c) <= Len(h)
    /\ \A j \in 1 .. Len(c) : h[j] = c[j]
    /\ \A j \in Len(c) + 1 .. Len(h) : h[j] = Done
    /\ done <=> Len(c) < Len(h)
    /\ terminal <=> \E j \in 1 .. Len(c) : c[j].reason # "none"

\* What the reader knows of the frames it has heard.
ReaderOK(r, h) ==
    /\ r \in Readers
    /\ ~r.bad => Gathered(r.chunks, r.done, r.terminal, h)

\* One frame more.
LEMMA DispatchKeepsReader ==
    ASSUME NEW r, NEW h \in Seq(Wire), NEW frame \in Wire, ReaderOK(r, h)
    PROVE  ReaderOK(Dispatch(r, frame), Append(h, frame))
  <1>1. PICK e : e = Dispatch(r, frame)
    OBVIOUS
  <1>2. PICK g : g = Append(h, frame)
    OBVIOUS
  <1>3. PICK c : c = r.chunks
    OBVIOUS
  <1>4. r \in Readers /\ c \in Seq(Frames) /\ Len(c) \in Nat /\ Len(h) \in Nat
    BY <1>3 DEF ReaderOK, Readers
  <1>5. /\ Len(g) = Len(h) + 1 /\ g[Len(h) + 1] = frame
        /\ \A j \in 1 .. Len(h) : g[j] = h[j]
    BY <1>2
  <1>6. e \in Readers
    BY <1>1, <1>4, DispatchFacts
  <1>7. CASE e.bad
    BY <1>1, <1>2, <1>6, <1>7 DEF ReaderOK
  <1>8. CASE ~e.bad /\ frame = Done
    <2>1. ~r.bad /\ e.done /\ e.chunks = c /\ e.terminal = r.terminal
      BY <1>1, <1>3, <1>4, <1>8, DispatchFacts
    <2>2. /\ Len(c) <= Len(h)
          /\ \A j \in 1 .. Len(c) : h[j] = c[j]
          /\ \A j \in Len(c) + 1 .. Len(h) : h[j] = Done
          /\ (r.terminal <=> \E j \in 1 .. Len(c) : c[j].reason # "none")
      BY <1>3, <2>1 DEF ReaderOK, Gathered
    <2>3. \A j \in 1 .. Len(c) : g[j] = c[j]
      BY <1>4, <1>5, <2>2
    <2>4. ASSUME NEW j \in Len(c) + 1 .. Len(g) PROVE g[j] = Done
      <3>1. j \in Len(c) + 1 .. Len(h) \/ j = Len(h) + 1
        BY <1>4, <1>5
      <3> QED
        BY <1>4, <1>5, <1>8, <2>2, <3>1
    <2>5. Len(c) < Len(g) /\ Len(c) <= Len(g)
      BY <1>4, <1>5, <2>2
    <2>6. Gathered(c, e.done, e.terminal, g)
      BY <2>1, <2>2, <2>3, <2>4, <2>5 DEF Gathered
    <2> QED
      BY <1>1, <1>2, <1>6, <2>1, <2>6 DEF ReaderOK
  <1>9. CASE ~e.bad /\ frame # Done
    <2>1. /\ ~r.bad /\ ~r.done /\ frame \in Frames
          /\ ~e.done /\ e.chunks = Append(c, frame)
          /\ e.terminal = (r.terminal \/ frame.reason # "none")
      BY <1>1, <1>3, <1>4, <1>9, DispatchFacts DEF Wire
    <2>2. /\ Len(c) = Len(h)
          /\ \A j \in 1 .. Len(c) : h[j] = c[j]
          /\ (r.terminal <=> \E j \in 1 .. Len(c) : c[j].reason # "none")
      BY <1>3, <1>4, <2>1 DEF ReaderOK, Gathered
    <2>3. PICK d : d = e.chunks
      OBVIOUS
    <2>4. /\ Len(d) = Len(c) + 1 /\ d[Len(c) + 1] = frame
          /\ \A j \in 1 .. Len(c) : d[j] = c[j]
      BY <1>4, <2>1, <2>3
    <2>5. Len(d) = Len(g) /\ \A j \in 1 .. Len(d) : g[j] = d[j]
      BY <1>4, <1>5, <2>2, <2>4
    <2>6. e.terminal <=> \E j \in 1 .. Len(d) : d[j].reason # "none"
      <3>1. \A j \in 1 .. Len(d) : j \in 1 .. Len(c) \/ j = Len(c) + 1
        BY <1>4, <2>4
      <3>2. Len(c) + 1 \in 1 .. Len(d) /\ \A j \in 1 .. Len(c) : j \in 1 .. Len(d)
        BY <1>4, <2>4
      <3> QED
        BY <2>1, <2>2, <2>4, <3>1, <3>2
    <2>7. \A j \in Len(d) + 1 .. Len(g) : FALSE
      BY <1>4, <2>4, <2>5
    <2>8. ~(Len(d) < Len(g)) /\ Len(d) <= Len(g)
      BY <1>4, <1>5, <2>5
    <2>9. Gathered(d, e.done, e.terminal, g)
      BY <2>1, <2>5, <2>6, <2>7, <2>8 DEF Gathered
    <2> QED
      BY <1>1, <1>2, <1>6, <2>3, <2>9 DEF ReaderOK
  <1> QED
    BY <1>6, <1>7, <1>8, <1>9

\* The reader after each frame of a segment.
LEMMA SegmentIsFollowed ==
    ASSUME NEW segment \in Seq(Wire), reader \in Readers
    PROVE  \E g : /\ g[0] = reader
                  /\ \A k \in 1 .. Len(segment) : g[k] = Dispatch(g[k - 1], segment[k])
                  /\ g[Len(segment)] = Consume(segment)
  <1> DEFINE n == Len(segment)
             F == [p \in (1 .. n) \X Readers |-> Dispatch(p[2], segment[p[1]])]
             Is(it) == it = [t \in SUBSET (1 .. n) |-> IF t = {} THEN reader
                              ELSE Dispatch(it[t \ {Max(t)}], segment[Max(t)])]
             c == CHOOSE it : Is(it)
  <1>1. n \in Nat /\ DOMAIN segment = 1 .. n /\ \A k \in 1 .. n : segment[k] \in Wire
    OBVIOUS
  <1>2. \A k \in 1 .. n, a \in Readers :
           F[<<k, a>>] = Dispatch(a, segment[k]) /\ F[<<k, a>>] \in Readers
    BY <1>1, DispatchFacts
  <1>3. Consume(segment) = c[1 .. n]
    BY <1>1 DEF Consume, FoldLeft, MapThenFoldSet
  <1> HIDE DEF F, n
  <1>4. Closed(F, n, Readers)
    BY <1>2 DEF Closed
  <1>5. PICK it : FoldBy(it, F, n, Readers, reader)
    BY <1>1, <1>4, FoldExists
  <1>6. Is(it)
    <2>1. ASSUME NEW t \in SUBSET (1 .. n), t # {}
          PROVE  F[<<Max(t), it[t \ {Max(t)}]>>] =
                    Dispatch(it[t \ {Max(t)}], segment[Max(t)])
      <3>1. it[t \ {Max(t)}] \in Readers
        BY <1>5 DEF FoldBy
      <3>2. Max(t) \in 1 .. n
        BY <1>1, <2>1, MaxIsThere
      <3> QED
        BY <1>2, <3>1, <3>2
    <2> QED
      BY <1>5, <2>1 DEF FoldBy
  <1>7. Is(c)
    BY <1>6
  <1> HIDE DEF c
  <1>8. c[{}] = reader
    BY <1>7, {} \in SUBSET (1 .. n)
  <1>9. ASSUME NEW k \in 1 .. n, c[1 .. k - 1] \in Readers
        PROVE  c[1 .. k] = F[<<k, c[1 .. k - 1]>>]
    <2>1. /\ 1 .. k \in SUBSET (1 .. n) /\ 1 .. k # {} /\ Max(1 .. k) = k
          /\ (1 .. k) \ {k} = 1 .. k - 1
      BY <1>1, WholeInterval
    <2>2. c[1 .. k] = Dispatch(c[1 .. k - 1], segment[k])
      BY <1>7, <2>1
    <2> QED
      BY <1>2, <1>9, <2>2
  <1>10. PICK g : Follows(g, F, n, Readers, reader) /\ g[n] = c[1 .. n]
    BY <1>1, <1>4, <1>8, <1>9, FoldIsFollowed
  <1>11. ASSUME NEW k \in 1 .. n PROVE g[k] = Dispatch(g[k - 1], segment[k])
    <2>1. g[k - 1] \in Readers /\ g[k] = F[<<k, g[k - 1]>>]
      BY <1>1, <1>10 DEF Follows
    <2> QED
      BY <1>2, <2>1
  <1>12. g[0] = reader
    BY <1>10 DEF Follows
  <1> QED
    BY <1>3, <1>10, <1>11, <1>12 DEF n

\* One segment more, however it was cut.
LEMMA ConsumeKeepsReader ==
    ASSUME ReaderOK(reader, heard), heard \in Seq(Wire), NEW segment \in Seq(Wire)
    PROVE  ReaderOK(Consume(segment), heard \o segment)
  <1>1. PICK g : /\ g[0] = reader
                 /\ \A k \in 1 .. Len(segment) : g[k] = Dispatch(g[k - 1], segment[k])
                 /\ g[Len(segment)] = Consume(segment)
    BY SegmentIsFollowed DEF ReaderOK
  <1> DEFINE n == Len(segment)
             H(k) == heard \o SubSeq(segment, 1, k)
             S == {k \in 0 .. n : ReaderOK(g[k], H(k))}
  <1>2. n \in Nat /\ n \in Int /\ 0 \in Int
    OBVIOUS
  <1>3. ASSUME NEW k \in 0 .. n PROVE H(k) \in Seq(Wire)
    OBVIOUS
  <1>4. H(0) = heard
    OBVIOUS
  <1>5. H(n) = heard \o segment
    <2>1. SubSeq(segment, 1, n) = segment
      OBVIOUS
    <2> QED
      BY <2>1
  <1>6. ASSUME NEW k \in 0 .. n - 1 PROVE H(k + 1) = Append(H(k), segment[k + 1])
    <2>1. PICK a : a = SubSeq(segment, 1, k)
      OBVIOUS
    <2>2. PICK b : b = SubSeq(segment, 1, k + 1)
      OBVIOUS
    <2>3. b = Append(a, segment[k + 1]) /\ a \in Seq(Wire) /\ segment[k + 1] \in Wire
      BY <2>1, <2>2
    <2> QED
      BY <2>1, <2>2, <2>3, ConcatOfAppend
  <1> HIDE DEF H, n
  <1>7. 0 \in S
    BY <1>1, <1>2, <1>4
  <1>8. ASSUME NEW k \in 0 .. n - 1, k \in S PROVE k + 1 \in S
    <2>1. k + 1 \in 1 .. n /\ (k + 1) - 1 = k /\ k + 1 \in 0 .. n /\ k \in 0 .. n
      BY <1>2
    <2>2. g[k + 1] = Dispatch(g[k], segment[k + 1])
      BY <1>1, <2>1 DEF n
    <2>3. segment[k + 1] \in Wire
      BY <2>1 DEF n
    <2>4. ReaderOK(g[k + 1], H(k + 1))
      BY <1>3, <1>6, <1>8, <2>1, <2>2, <2>3, DispatchKeepsReader
    <2> QED
      BY <2>1, <2>4
  <1>9. n \in S
    <2> HIDE DEF S
    <2>1. \A k \in 0 .. n : k \in S
      BY <1>2, <1>7, <1>8, Upwards
    <2> QED
      BY <1>2, <2>1
  <1> QED
    BY <1>1, <1>5, <1>9 DEF n

\* A reader without a bad frame has the stream.
LEMMA ReaderHasTheStream ==
    ASSUME ReaderOK(reader, heard), heard \in Seq(Wire), ~reader.bad
    PROVE  Stream = reader.chunks
  <1>1. PICK c : c = reader.chunks
    OBVIOUS
  <1>2. c \in Seq(Frames) /\ Len(c) \in Nat /\ Len(heard) \in Nat
    BY <1>1 DEF ReaderOK, Readers
  <1>3. /\ Len(c) <= Len(heard)
        /\ \A j \in 1 .. Len(c) : heard[j] = c[j]
        /\ \A j \in Len(c) + 1 .. Len(heard) : heard[j] = Done
    BY <1>1 DEF ReaderOK, Gathered
  <1>4. \A j \in 1 .. Len(c) : heard[j] # Done
    BY <1>2, <1>3, FramesAreChunks
  <1>5. CASE Len(c) = Len(heard)
    <2>1. \A j \in DOMAIN heard : heard[j] # Done
      BY <1>2, <1>4, <1>5
    <2>2. heard = c
      BY <1>2, <1>3, <1>5, SeqEqual
    <2> QED
      BY <1>1, <2>1, <2>2 DEF Stream
  <1>6. CASE Len(c) < Len(heard)
    <2> DEFINE Ends(n) == heard[n + 1] = Done /\ \A j \in 1 .. n : heard[j] # Done
    <2>1. Len(c) \in 0 .. Len(heard) - 1 /\ Ends(Len(c))
      BY <1>2, <1>3, <1>4, <1>6
    <2>2. ASSUME NEW n \in 0 .. Len(heard) - 1, Ends(n) PROVE n = Len(c)
      <3>1. CASE n < Len(c)
        <4>1. n + 1 \in 1 .. Len(c)
          BY <1>2, <3>1
        <4> QED
          BY <1>4, <2>2, <4>1
      <3>2. CASE Len(c) < n
        <4>1. Len(c) + 1 \in 1 .. n /\ Len(c) + 1 \in Len(c) + 1 .. Len(heard)
          BY <1>2, <3>2
        <4> QED
          BY <1>3, <2>2, <4>1
      <3> QED
        BY <1>2, <3>1, <3>2
    <2>3. \E i \in DOMAIN heard : heard[i] = Done
      <3>1. Len(c) + 1 \in DOMAIN heard
        BY <1>2, <1>6
      <3> QED
        BY <2>1, <3>1
    <2>4. (CHOOSE n \in 0 .. Len(heard) - 1 : Ends(n)) = Len(c)
      <3> HIDE DEF Ends
      <3> QED
        BY <2>1, <2>2
    <2>5. Stream = SubSeq(heard, 1, Len(c))
      BY <2>3, <2>4 DEF Stream
    <2>6. SubSeq(heard, 1, Len(c)) = c
      <3>1. PICK s : s = SubSeq(heard, 1, Len(c))
        OBVIOUS
      <3>2. s \in Seq(Wire) /\ Len(s) = Len(c) /\ \A j \in 1 .. Len(c) : s[j] = heard[j]
        BY <1>2, <1>3, <3>1
      <3>3. c \in Seq(Wire)
        BY <1>2 DEF Wire
      <3> QED
        BY <1>3, <3>1, <3>2, <3>3, SeqEqual
    <2> QED
      BY <1>1, <2>5, <2>6
  <1> QED
    BY <1>2, <1>3, <1>5, <1>6

-----------------------------------------------------------------------------
(* The decoder and its calls *)

CallState == [key : Keys, named : BOOLEAN, started : BOOLEAN, raw : Seq(Data),
              emitted : Nat, completed : BOOLEAN]
Decoders == [calls : Seq(CallState), events : Seq(Event),
             reason : Reasons \cup {"none"}]

\* The call of a key, also before its first fragment.
Known(d, key) == \E i \in DOMAIN d.calls : d.calls[i].key = key
CallOf(d, key) ==
    IF Known(d, key) THEN d.calls[CHOOSE i \in DOMAIN d.calls : d.calls[i].key = key]
    ELSE NewCall(key)

\* Between two chunks a call is started when it has a name, and what came of its
\* arguments is emitted from then on.
Tidy(c) ==
    /\ c.started <=> c.named
    /\ c.emitted = IF c.named THEN Len(c.raw) ELSE 0
    /\ c.completed => c.named

OneCallPerKey(d) ==
    \A i, j \in DOMAIN d.calls : d.calls[i].key = d.calls[j].key => i = j

Shown(c) == IF c.named THEN c.raw ELSE <<>>

\* Every completed event is the only one of its call and has the arguments
\* shown before it.
CompletionsOK(d) ==
    /\ \A n \in DOMAIN d.events : d.events[n].kind = "completed" =>
          /\ CallOf(d, d.events[n].key).completed
          /\ d.events[n].raw = ArgumentsOf(SubSeq(d.events, 1, n), d.events[n].key)
    /\ \A m, n \in DOMAIN d.events :
          /\ d.events[m].kind = "completed" /\ d.events[n].kind = "completed"
          /\ d.events[m].key = d.events[n].key
          => m = n

DecoderOK(d) ==
    /\ d \in Decoders /\ OneCallPerKey(d)
    /\ \A key \in Keys :
          /\ Tidy(CallOf(d, key))
          /\ ArgumentsOf(d.events, key) = Shown(CallOf(d, key))
          /\ CallOf(d, key).named => \E n \in DOMAIN d.events : d.events[n] = Started(key)
          /\ CallOf(d, key).completed =>
                \E n \in DOMAIN d.events :
                   d.events[n].kind = "completed" /\ d.events[n].key = key
    /\ CompletionsOK(d)

\* What the decoder has after the first k chunks: the calls, the events that
\* complete them, and the finish reason.
CallsHeard(d, s, k) ==
    \A key \in Keys :
       /\ CallOf(d, key).raw = ArgumentsUpTo(s, key, k)
       /\ CallOf(d, key).named <=> \E j \in FragmentsOf(s, key) : j <= k /\ s[j].part.named
       /\ CallOf(d, key).completed <=> \E j \in CompleteAt(s, key) : j <= k
CompletedIn(e, s, k) ==
    \E i \in CompleteAt(s, e.key) :
       /\ i <= k /\ e.raw = ArgumentsUpTo(s, e.key, i)
       /\ \A j \in CompleteAt(s, e.key) : i <= j
CompletionsHeard(d, s, k) ==
    \A n \in DOMAIN d.events : d.events[n].kind = "completed" => CompletedIn(d.events[n], s, k)
NoEndYet(d) == \A n \in DOMAIN d.events : d.events[n].kind # "end"
ReasonHeard(d, s, k) ==
    IF \E i \in Finishes(s, ChoiceIndices) : i <= k
    THEN \E i \in Finishes(s, ChoiceIndices) :
            /\ i <= k /\ d.reason = s[i].reason
            /\ \A j \in Finishes(s, ChoiceIndices) : i <= j
    ELSE d.reason = "none"

\* Where a call is.
AtIndex(d, i, key) ==
    /\ d \in Decoders /\ OneCallPerKey(d)
    /\ i \in DOMAIN d.calls /\ d.calls[i].key = key

Others(d, e, key) ==
    \A other \in Keys : other # key => CallOf(e, other) = CallOf(d, other)

\* The call of a key is the one at its index.
LEMMA CallAtIndex ==
    ASSUME NEW d, NEW i, NEW key, AtIndex(d, i, key)
    PROVE  CallOf(d, key) = d.calls[i]
  <1> DEFINE Is(n) == d.calls[n].key = key
  <1>1. i \in DOMAIN d.calls /\ Is(i) /\ \A n \in DOMAIN d.calls : Is(n) => n = i
    BY DEF AtIndex, OneCallPerKey
  <1>2. Known(d, key)
    BY <1>1 DEF Known
  <1>3. (CHOOSE n \in DOMAIN d.calls : Is(n)) = i
    <2> HIDE DEF Is
    <2> QED
      BY <1>1
  <1> QED
    BY <1>2, <1>3 DEF CallOf

\* A call that had a fragment is somewhere.
LEMMA KnownIsAtAnIndex ==
    ASSUME NEW d \in Decoders, OneCallPerKey(d), NEW key, Known(d, key)
    PROVE  \E i \in DOMAIN d.calls : AtIndex(d, i, key)
  BY DEF Known, AtIndex

\* A call that had none is new.
LEMMA UnknownCall ==
    ASSUME NEW d, NEW key, ~Known(d, key)
    PROVE  CallOf(d, key) = NewCall(key)
  BY DEF CallOf

\* Calls that keep their places are the same calls.
LEMMA OthersStay ==
    ASSUME NEW d \in Decoders, OneCallPerKey(d), NEW e \in Decoders, OneCallPerKey(e),
           NEW key,
           \A j \in DOMAIN d.calls :
              d.calls[j].key # key => j \in DOMAIN e.calls /\ e.calls[j] = d.calls[j],
           \A j \in DOMAIN e.calls :
              e.calls[j].key # key => j \in DOMAIN d.calls /\ d.calls[j].key # key
    PROVE  Others(d, e, key)
  <1>1. SUFFICES ASSUME NEW other \in Keys, other # key
                 PROVE  CallOf(e, other) = CallOf(d, other)
    BY DEF Others
  <1>2. CASE Known(d, other)
    <2>1. PICK i \in DOMAIN d.calls : AtIndex(d, i, other)
      BY <1>2, KnownIsAtAnIndex
    <2>2. i \in DOMAIN e.calls /\ e.calls[i] = d.calls[i] /\ d.calls[i].key = other
      BY <1>1, <2>1 DEF AtIndex
    <2>3. AtIndex(e, i, other)
      BY <2>2 DEF AtIndex
    <2> QED
      BY <2>1, <2>2, <2>3, CallAtIndex
  <1>3. CASE ~Known(d, other)
    <2>1. ~Known(e, other)
      <3>1. SUFFICES ASSUME NEW j \in DOMAIN e.calls, e.calls[j].key = other PROVE FALSE
        BY DEF Known
      <3>2. j \in DOMAIN d.calls /\ d.calls[j].key # key /\ d.calls[j].key # other
        BY <1>1, <1>3, <3>1 DEF Known
      <3>3. e.calls[j] = d.calls[j]
        BY <3>2
      <3> QED
        BY <3>1, <3>2, <3>3
    <2> QED
      BY <1>3, <2>1, UnknownCall
  <1> QED
    BY <1>2, <1>3

Sets(e, d, i, b) == e = [d EXCEPT !.calls[i] = b]
Emits(e, d, p) == e = Emit(d, p)

\* A call is replaced by one of the same key.
LEMMA SetCall ==
    ASSUME NEW d, NEW i, NEW key, AtIndex(d, i, key),
           NEW b \in CallState, b.key = key, NEW e, Sets(e, d, i, b)
    PROVE  /\ AtIndex(e, i, key) /\ e.calls[i] = b /\ Others(d, e, key)
           /\ e.events = d.events /\ e.reason = d.reason
  <1>1. PICK q : q = [d.calls EXCEPT ![i] = b]
    OBVIOUS
  <1>2. d \in Decoders /\ i \in DOMAIN d.calls /\ d.calls \in Seq(CallState)
    BY DEF AtIndex, Decoders
  <1>3. /\ q \in Seq(CallState) /\ DOMAIN q = DOMAIN d.calls /\ q[i] = b
        /\ \A j \in DOMAIN d.calls : j # i => q[j] = d.calls[j]
    BY <1>1, <1>2
  <1>4. e = [d EXCEPT !.calls = q]
    BY <1>1 DEF Sets
  <1>5. e \in Decoders /\ e.calls = q /\ e.events = d.events /\ e.reason = d.reason
    BY <1>2, <1>3, <1>4 DEF Decoders
  <1>6. d.calls[i].key = key /\ q[i].key = key /\ OneCallPerKey(d)
    BY <1>3 DEF AtIndex
  <1>7. \A j \in DOMAIN q : q[j].key = d.calls[j].key
    BY <1>3, <1>6
  <1>8. OneCallPerKey(e)
    BY <1>3, <1>5, <1>6, <1>7 DEF OneCallPerKey
  <1>9. Others(d, e, key)
    <2>1. \A j \in DOMAIN d.calls :
             d.calls[j].key # key => j \in DOMAIN e.calls /\ e.calls[j] = d.calls[j]
      BY <1>3, <1>5, <1>6
    <2>2. \A j \in DOMAIN e.calls :
             e.calls[j].key # key => j \in DOMAIN d.calls /\ d.calls[j].key # key
      BY <1>3, <1>5, <1>7
    <2> QED
      BY <1>2, <1>5, <1>6, <1>8, <2>1, <2>2, OthersStay
  <1>10. AtIndex(e, i, key)
    BY <1>2, <1>3, <1>5, <1>6, <1>8 DEF AtIndex
  <1> QED
    BY <1>3, <1>5, <1>9, <1>10

\* Emitting adds to the events and touches no call.
LEMMA EmitFacts ==
    ASSUME NEW d \in Decoders, NEW p \in Seq(Event), NEW e, Emits(e, d, p)
    PROVE  /\ e \in Decoders /\ e.calls = d.calls /\ e.reason = d.reason
           /\ e.events = d.events \o p
  <1>1. PICK q : q = d.events \o p
    OBVIOUS
  <1>2. q \in Seq(Event)
    BY <1>1 DEF Decoders
  <1>3. e = [d EXCEPT !.events = q]
    BY <1>1 DEF Emit, Emits
  <1> QED
    BY <1>1, <1>2, <1>3 DEF Decoders

\* The calls say which call is whose.
LEMMA SameCalls ==
    ASSUME NEW d, NEW e, d.calls = e.calls
    PROVE  /\ OneCallPerKey(d) => OneCallPerKey(e)
           /\ \A key : CallOf(e, key) = CallOf(d, key)
           /\ \A key : Others(d, e, key)
  BY DEF OneCallPerKey, CallOf, Known, Others

\* A call and the others after something was emitted.
LEMMA EmitAtIndex ==
    ASSUME NEW d, NEW i, NEW key, AtIndex(d, i, key),
           NEW p \in Seq(Event), NEW e, Emits(e, d, p)
    PROVE  /\ AtIndex(e, i, key) /\ e.calls[i] = d.calls[i] /\ Others(d, e, key)
           /\ e.events = d.events \o p /\ e.reason = d.reason
  <1>1. d \in Decoders
    BY DEF AtIndex
  <1>2. /\ e \in Decoders /\ e.calls = d.calls /\ e.reason = d.reason
        /\ e.events = d.events \o p
    BY <1>1, EmitFacts
  <1> QED
    BY <1>2, SameCalls DEF AtIndex

\* A new call is the last one, and the others stay.
LEMMA AppendCall ==
    ASSUME NEW d \in Decoders, OneCallPerKey(d), NEW key \in Keys, ~Known(d, key),
           NEW e, e = [d EXCEPT !.calls = Append(@, NewCall(key))]
    PROVE  \E i \in DOMAIN e.calls :
              /\ AtIndex(e, i, key) /\ e.calls[i] = NewCall(key) /\ Others(d, e, key)
              /\ e.events = d.events /\ e.reason = d.reason
  <1>1. PICK b : b = NewCall(key)
    OBVIOUS
  <1>2. b \in CallState /\ b.key = key
    BY <1>1 DEF NewCall, CallState
  <1>3. PICK q : q = Append(d.calls, b)
    OBVIOUS
  <1>4. d.calls \in Seq(CallState) /\ Len(d.calls) \in Nat
    BY DEF Decoders
  <1>5. /\ q \in Seq(CallState) /\ DOMAIN q = 1 .. Len(d.calls) + 1
        /\ DOMAIN d.calls = 1 .. Len(d.calls)
        /\ q[Len(d.calls) + 1] = b
        /\ \A j \in 1 .. Len(d.calls) : q[j] = d.calls[j]
    BY <1>2, <1>3, <1>4
  <1>6. e = [d EXCEPT !.calls = q]
    BY <1>1, <1>3
  <1>7. e \in Decoders /\ e.calls = q /\ e.events = d.events /\ e.reason = d.reason
    BY <1>5, <1>6 DEF Decoders
  <1>8. \A j \in DOMAIN d.calls : d.calls[j].key # key
    BY DEF Known
  <1>9. \A j \in DOMAIN q : j \in DOMAIN d.calls \/ j = Len(d.calls) + 1
    BY <1>4, <1>5
  <1>10. OneCallPerKey(e)
    BY <1>2, <1>5, <1>7, <1>8, <1>9 DEF OneCallPerKey
  <1>11. Others(d, e, key)
    <2>1. \A j \in DOMAIN d.calls :
             d.calls[j].key # key => j \in DOMAIN e.calls /\ e.calls[j] = d.calls[j]
      BY <1>4, <1>5, <1>7
    <2>2. \A j \in DOMAIN e.calls :
             e.calls[j].key # key => j \in DOMAIN d.calls /\ d.calls[j].key # key
      BY <1>2, <1>5, <1>7, <1>8, <1>9
    <2> QED
      BY <1>7, <1>10, <2>1, <2>2, OthersStay
  <1>12. Len(d.calls) + 1 \in DOMAIN e.calls /\ e.calls[Len(d.calls) + 1] = b
    BY <1>4, <1>5, <1>7
  <1>13. AtIndex(e, Len(d.calls) + 1, key)
    BY <1>2, <1>7, <1>10, <1>12 DEF AtIndex
  <1> QED
    BY <1>1, <1>7, <1>11, <1>12, <1>13

-----------------------------------------------------------------------------
(* The events *)

\* The fields of the events.
LEMMA EventFacts ==
    /\ \A key \in Keys : /\ Started(key) \in Event
                         /\ Started(key).kind = "started" /\ Started(key).key = key
    /\ \A key \in Keys, data \in Data :
          /\ Argument(key, data) \in Event
          /\ Argument(key, data).kind = "argument" /\ Argument(key, data).key = key
          /\ Argument(key, data).data = data
    /\ \A key \in Keys, raw \in Seq(Data) :
          /\ Completed(key, raw) \in Event
          /\ Completed(key, raw).kind = "completed" /\ Completed(key, raw).key = key
          /\ Completed(key, raw).raw = raw
    /\ \A kind \in {"text", "reasoning"}, data \in Data :
          /\ Delta(kind, data) \in Event
          /\ Delta(kind, data).kind = kind /\ Delta(kind, data).data = data
    /\ \A reason \in Reasons : /\ End(reason) \in Event
                               /\ End(reason).kind = "end" /\ End(reason).reason = reason
  BY DEF Event, Started, Argument, Completed, Delta, End

\* The events of one kind have the fields of that kind.
LEMMA KindOfEvent ==
    ASSUME NEW e \in Event
    PROVE  /\ e.kind \in {"text", "reasoning", "started", "argument", "completed", "end"}
           /\ e.kind \in {"text", "reasoning"} => e = Delta(e.kind, e.data) /\ e.data \in Data
           /\ e.kind = "started" => e = Started(e.key) /\ e.key \in Keys
           /\ e.kind = "argument"
                => e = Argument(e.key, e.data) /\ e.key \in Keys /\ e.data \in Data
           /\ e.kind = "completed"
                => e = Completed(e.key, e.raw) /\ e.key \in Keys /\ e.raw \in Seq(Data)
           /\ e.kind = "end" => e = End(e.reason) /\ e.reason \in Reasons
  <1>1. CASE e \in [kind : {"text", "reasoning"}, data : Data]
    BY <1>1 DEF Delta
  <1>2. CASE e \in [kind : {"started"}, key : Keys]
    BY <1>2 DEF Started
  <1>3. CASE e \in [kind : {"argument"}, key : Keys, data : Data]
    BY <1>3 DEF Argument
  <1>4. CASE e \in [kind : {"completed"}, key : Keys, raw : Seq(Data)]
    BY <1>4 DEF Completed
  <1>5. CASE e \in [kind : {"end"}, reason : Reasons]
    BY <1>5 DEF End
  <1> QED
    BY <1>1, <1>2, <1>3, <1>4, <1>5 DEF Event

ArgumentEvents(key) == {e \in Event : e.kind = "argument" /\ e.key = key}
QuietEvents(key) == {Started(key)} \cup ArgumentEvents(key)

\* The arguments among the events are data.
LEMMA ArgumentsAreData ==
    ASSUME NEW key, NEW s \in Seq(Event)
    PROVE  ArgumentsOf(s, key) \in Seq(Data)
  <1>1. PICK k : k = Kept(s, ArgumentEvents(key))
    OBVIOUS
  <1>2. PICK B : B = Event \cap ArgumentEvents(key)
    OBVIOUS
  <1>3. k \in Seq(B)
    BY <1>1, <1>2, KeptIsTyped
  <1>4. \A e \in B : e.data \in Data
    BY <1>2, KindOfEvent DEF ArgumentEvents
  <1>5. Join(k) \in Seq(Data)
    BY <1>3, <1>4 DEF Join
  <1> QED
    BY <1>1, <1>5 DEF ArgumentsOf, ArgumentEvents

\* The arguments go through a concatenation.
LEMMA ArgumentsOfConcat ==
    ASSUME NEW key, NEW s \in Seq(Event), NEW t \in Seq(Event)
    PROVE  ArgumentsOf(s \o t, key) = ArgumentsOf(s, key) \o ArgumentsOf(t, key)
  <1> DEFINE S == ArgumentEvents(key)
  <1>1. Kept(s \o t, S) = Kept(s, S) \o Kept(t, S)
    BY KeptOfConcat
  <1>2. Kept(s, S) \in Seq(Event \cap S) /\ Kept(t, S) \in Seq(Event \cap S)
    BY KeptIsTyped
  <1>3. Join(Kept(s, S) \o Kept(t, S)) = Join(Kept(s, S)) \o Join(Kept(t, S))
    BY <1>2, JoinOfConcat
  <1> QED
    BY <1>1, <1>3 DEF ArgumentsOf, ArgumentEvents

\* Other events have no arguments of a call.
LEMMA NoArguments ==
    ASSUME NEW key, NEW A, NEW s \in Seq(A), \A e \in A : e \notin ArgumentEvents(key)
    PROVE  ArgumentsOf(s, key) = <<>>
  <1>1. Kept(s, ArgumentEvents(key)) = <<>>
    BY NoneKept
  <1>2. Join(<<>>) = <<>>
    BY DEF Join
  <1> QED
    BY <1>1, <1>2 DEF ArgumentsOf, ArgumentEvents

\* A function on the first n numbers is a sequence.
LEMMA IsASequence ==
    ASSUME NEW S, NEW n \in Nat, NEW f \in [1 .. n -> S]
    PROVE  f \in Seq(S) /\ Len(f) = n
  OBVIOUS

Pends(p, key, raw, m) ==
    p = [j \in 1 .. Len(raw) - m |-> Argument(key, raw[m + j])]

\* What is emitted joins to what was not shown.
LEMMA PendingArguments ==
    ASSUME NEW key \in Keys, NEW raw \in Seq(Data), NEW shown \in Seq(Data),
           Len(shown) <= Len(raw), \A j \in 1 .. Len(shown) : shown[j] = raw[j],
           NEW p, Pends(p, key, raw, Len(shown))
    PROVE  /\ p \in Seq(ArgumentEvents(key))
           /\ shown \o ArgumentsOf(p, key) = raw
  <1> DEFINE n == Len(raw) - Len(shown)
  <1>1. n \in Nat /\ Len(shown) \in Nat /\ Len(raw) = Len(shown) + n
    OBVIOUS
  <1>2. ASSUME NEW j \in 1 .. n
        PROVE  /\ raw[Len(shown) + j] \in Data /\ p[j] = Argument(key, raw[Len(shown) + j])
               /\ p[j] \in ArgumentEvents(key) /\ p[j].data = raw[Len(shown) + j]
    <2>1. Len(shown) + j \in 1 .. Len(raw)
      BY <1>1
    <2>2. raw[Len(shown) + j] \in Data
      BY <2>1
    <2>3. p[j] = Argument(key, raw[Len(shown) + j])
      BY DEF Pends
    <2> QED
      BY <2>2, <2>3, EventFacts DEF ArgumentEvents
  <1>3. DOMAIN p = 1 .. n
    BY DEF Pends
  <1> HIDE DEF n
  <1>4. p \in Seq(ArgumentEvents(key)) /\ Len(p) = n
    <2>1. p = [j \in 1 .. n |-> p[j]]
      BY DEF n, Pends
    <2>2. p \in [1 .. n -> ArgumentEvents(key)]
      BY <1>2, <1>3, <2>1
    <2> QED
      BY <1>1, <2>2, IsASequence
  <1>5. Kept(p, ArgumentEvents(key)) = p
    BY <1>4, AllKept
  <1>6. PICK q : q = Join(p)
    OBVIOUS
  <1>7. q \in Seq(Data) /\ Len(q) = n /\ \A j \in 1 .. n : q[j] = raw[Len(shown) + j]
    <2>1. q = [j \in 1 .. n |-> p[j].data]
      BY <1>3, <1>6 DEF Join
    <2>2. q \in [1 .. n -> Data]
      BY <1>2, <2>1
    <2>3. \A j \in 1 .. n : q[j] = raw[Len(shown) + j]
      BY <1>2, <2>1
    <2>4. q \in Seq(Data) /\ Len(q) = n
      BY <1>1, <2>2, IsASequence
    <2> QED
      BY <2>3, <2>4
  <1>8. PICK t : t = shown \o q
    OBVIOUS
  <1>9. /\ t \in Seq(Data) /\ Len(t) = Len(shown) + Len(q)
        /\ \A k \in 1 .. Len(shown) : t[k] = shown[k]
        /\ \A k \in 1 .. Len(q) : t[Len(shown) + k] = q[k]
    <2>1. q \in Seq(Data)
      BY <1>7
    <2> QED
      BY <1>8, <2>1, ConcatFacts
  <1>10. ASSUME NEW k \in 1 .. Len(t) PROVE t[k] = raw[k]
    <2>1. CASE k \in 1 .. Len(shown)
      BY <1>9, <2>1
    <2>2. CASE ~(k \in 1 .. Len(shown))
      <3>1. PICK j \in 1 .. n : k = Len(shown) + j
        <4>1. k - Len(shown) \in 1 .. n /\ k = Len(shown) + (k - Len(shown))
          BY <1>1, <1>7, <1>9, <2>2
        <4> QED
          BY <4>1
      <3> QED
        BY <1>7, <1>9, <3>1
    <2> QED
      BY <2>1, <2>2
  <1>11. Len(t) = Len(raw)
    BY <1>1, <1>7, <1>9
  <1>12. t = raw
    BY <1>9, <1>10, <1>11, SeqEqual
  <1>13. ArgumentsOf(p, key) = q
    BY <1>5, <1>6 DEF ArgumentsOf, ArgumentEvents
  <1> QED
    BY <1>4, <1>8, <1>12, <1>13

-----------------------------------------------------------------------------
(* The operations of the decoder *)

Starts(e, d, i) == e = StartToolCallIfReady(d, i)
EmitsPending(e, d, i) == e = EmitPendingArgumentDeltas(d, i)

\* A call after it was started, and after its pending arguments were emitted.
IsStarted(b, c) ==
    /\ b \in CallState /\ b.key = c.key
    /\ b.named <=> c.named
    /\ b.started <=> c.started \/ c.named
    /\ b.raw = c.raw /\ b.emitted = c.emitted
    /\ b.completed <=> c.completed
IsEmitted(b, c) ==
    /\ b \in CallState /\ b.key = c.key
    /\ b.named <=> c.named
    /\ b.started <=> c.started
    /\ b.raw = c.raw
    /\ b.emitted = IF c.started THEN Len(c.raw) ELSE c.emitted
    /\ b.completed <=> c.completed
FirstEvent(c) == IF c.named /\ ~c.started THEN <<Started(c.key)>> ELSE <<>>

\* The part of the arguments that was emitted before.
Begins(shown, c) ==
    /\ c.raw \in Seq(Data) /\ c.emitted = Len(shown) /\ Len(shown) <= Len(c.raw)
    /\ \A j \in 1 .. Len(shown) : shown[j] = c.raw[j]

\* The events that e has more than d are the rest of the arguments of the call c.
EmitsTheRest(e, d, c, key, shown) ==
    \E p \in Seq(ArgumentEvents(key)) :
       /\ e.events = d.events \o p
       /\ c.started => shown \o ArgumentsOf(p, key) = c.raw
       /\ ~c.started => p = <<>>

\* What is at an index of the calls.
LEMMA CallIsTyped ==
    ASSUME NEW d, NEW i, NEW key, AtIndex(d, i, key)
    PROVE  /\ d \in Decoders /\ d.calls \in Seq(CallState) /\ d.events \in Seq(Event)
           /\ i \in DOMAIN d.calls
           /\ d.calls[i] \in CallState /\ d.calls[i].key = key /\ key \in Keys
  <1>1. d \in Decoders /\ i \in DOMAIN d.calls /\ d.calls[i].key = key
    BY DEF AtIndex
  <1>2. d.calls \in Seq(CallState) /\ d.events \in Seq(Event)
    BY <1>1 DEF Decoders
  <1>3. d.calls[i] \in CallState
    BY <1>1, <1>2
  <1>4. \A x \in CallState : x.key \in Keys
    BY DEF CallState
  <1> QED
    BY <1>1, <1>2, <1>3, <1>4

\* StartToolCallIfReady: a call that is named and not started starts.
LEMMA StartFacts ==
    ASSUME NEW d, NEW i, NEW key, AtIndex(d, i, key), NEW e, Starts(e, d, i)
    PROVE  /\ AtIndex(e, i, key) /\ Others(d, e, key) /\ e.reason = d.reason
           /\ IsStarted(e.calls[i], d.calls[i])
           /\ e.events = d.events \o FirstEvent(d.calls[i])
  <1>1. PICK c : c = d.calls[i]
    OBVIOUS
  <1>2. /\ d \in Decoders /\ key \in Keys /\ c \in CallState /\ c.key = key
        /\ d.events \in Seq(Event)
    BY <1>1, CallIsTyped
  <1>3. CASE c.started \/ ~c.named
    <2>1. e = d
      BY <1>1, <1>3 DEF Starts, StartToolCallIfReady
    <2>2. d.events \o <<>> = d.events /\ FirstEvent(c) = <<>>
      BY <1>2, <1>3 DEF FirstEvent
    <2>3. IsStarted(c, c)
      BY <1>2, <1>3 DEF IsStarted
    <2> QED
      BY <1>1, <2>1, <2>2, <2>3 DEF Others
  <1>4. CASE ~c.started /\ c.named
    <2>1. PICK b : b = [c EXCEPT !.started = TRUE]
      OBVIOUS
    <2>2. b \in CallState /\ b.key = key /\ IsStarted(b, c)
      BY <1>2, <1>4, <2>1 DEF IsStarted, CallState
    <2>3. PICK f : Sets(f, d, i, b)
      BY DEF Sets
    <2>4. /\ AtIndex(f, i, key) /\ f.calls[i] = b /\ Others(d, f, key)
          /\ f.events = d.events /\ f.reason = d.reason
      BY <2>2, <2>3, SetCall
    <2>5. PICK p : p = <<Started(key)>> /\ p = FirstEvent(c)
      BY <1>2, <1>4 DEF FirstEvent
    <2>6. Emits(e, f, p)
      BY <1>1, <1>2, <1>4, <2>1, <2>3, <2>5 DEF Emits, Sets, Starts, StartToolCallIfReady
    <2>7. /\ AtIndex(e, i, key) /\ e.calls[i] = f.calls[i] /\ Others(f, e, key)
          /\ e.events = f.events \o p /\ e.reason = f.reason
      <3>1. p \in Seq(Event)
        BY <1>2, <2>5, EventFacts
      <3>2. AtIndex(f, i, key)
        BY <2>4
      <3>3. AtIndex(e, i, key) /\ e.calls[i] = f.calls[i] /\ Others(f, e, key)
        BY <2>6, <3>1, <3>2, EmitAtIndex
      <3>4. e.reason = f.reason
        BY <2>6, <3>1, <3>2, EmitAtIndex
      <3>5. e.events = f.events \o p
        BY <2>6, <3>1, <3>2, EmitAtIndex
      <3> QED
        BY <3>3, <3>4, <3>5
    <2>8. Others(d, e, key)
      BY <2>4, <2>7 DEF Others
    <2>9. IsStarted(e.calls[i], c)
      BY <2>2, <2>4, <2>7
    <2> QED
      BY <1>1, <2>4, <2>5, <2>7, <2>8, <2>9
  <1> QED
    BY <1>3, <1>4

\* EmitPendingArgumentDeltas: the arguments not emitted yet, in their order.
LEMMA PendingFacts ==
    ASSUME NEW d, NEW i, NEW key, AtIndex(d, i, key),
           NEW shown \in Seq(Data), Begins(shown, d.calls[i]),
           NEW e, EmitsPending(e, d, i)
    PROVE  /\ AtIndex(e, i, key) /\ Others(d, e, key) /\ e.reason = d.reason
           /\ IsEmitted(e.calls[i], d.calls[i])
           /\ EmitsTheRest(e, d, d.calls[i], key, shown)
  <1>1. PICK c : c = d.calls[i]
    OBVIOUS
  <1>2. /\ d \in Decoders /\ key \in Keys /\ c \in CallState /\ c.key = key
        /\ d.events \in Seq(Event)
    BY <1>1, CallIsTyped
  <1>3. PICK raw \in Seq(Data) : raw = c.raw
    BY <1>2 DEF CallState
  <1>4. /\ c.emitted = Len(shown) /\ Len(shown) <= Len(raw)
        /\ \A j \in 1 .. Len(shown) : shown[j] = raw[j]
    BY <1>1, <1>3 DEF Begins
  <1>5. CASE ~c.started
    <2>1. e = d
      BY <1>1, <1>5 DEF EmitsPending, EmitPendingArgumentDeltas
    <2>2. d.events \o <<>> = d.events /\ <<>> \in Seq(ArgumentEvents(key))
      BY <1>2
    <2>3. IsEmitted(c, c)
      BY <1>2, <1>5 DEF IsEmitted
    <2> QED
      BY <1>1, <1>5, <2>1, <2>2, <2>3 DEF Others, EmitsTheRest
  <1>6. CASE c.started
    <2>1. PICK b : b = [c EXCEPT !.emitted = Len(raw)]
      OBVIOUS
    <2>2. b \in CallState /\ b.key = key /\ IsEmitted(b, c)
      <3>1. Len(raw) \in Nat
        OBVIOUS
      <3>2. /\ b.key = key /\ b.named = c.named /\ b.raw = c.raw
            /\ b.started = c.started /\ b.completed = c.completed
            /\ b.emitted = Len(raw) /\ b \in CallState
        BY <1>2, <2>1, <3>1 DEF CallState
      <3> QED
        BY <1>2, <1>3, <1>6, <3>2 DEF IsEmitted
    <2>3. PICK f : Sets(f, d, i, b)
      BY DEF Sets
    <2>4. /\ AtIndex(f, i, key) /\ f.calls[i] = b /\ Others(d, f, key)
          /\ f.events = d.events /\ f.reason = d.reason
      BY <2>2, <2>3, SetCall
    <2>5. PICK p : Pends(p, key, raw, Len(shown))
      BY DEF Pends
    <2>6. p \in Seq(ArgumentEvents(key)) /\ shown \o ArgumentsOf(p, key) = raw
      BY <1>2, <1>4, <2>5, PendingArguments
    <2>7. Emits(e, f, p)
      BY <1>1, <1>2, <1>3, <1>4, <1>6, <2>1, <2>3, <2>5
         DEF Emits, Sets, Pends, EmitsPending, EmitPendingArgumentDeltas
    <2>8. p \in Seq(Event)
      BY <2>6 DEF ArgumentEvents
    <2>9. /\ AtIndex(e, i, key) /\ e.calls[i] = f.calls[i] /\ Others(f, e, key)
          /\ e.events = f.events \o p /\ e.reason = f.reason
      <3>1. AtIndex(f, i, key)
        BY <2>4
      <3>2. AtIndex(e, i, key) /\ e.calls[i] = f.calls[i] /\ Others(f, e, key)
        BY <3>1, <2>7, <2>8, EmitAtIndex
      <3>3. e.reason = f.reason
        BY <3>1, <2>7, <2>8, EmitAtIndex
      <3>4. e.events = f.events \o p
        BY <3>1, <2>7, <2>8, EmitAtIndex
      <3> QED
        BY <3>2, <3>3, <3>4
    <2>10. Others(d, e, key)
      BY <2>4, <2>9 DEF Others
    <2>11. IsEmitted(e.calls[i], c)
      BY <2>2, <2>4, <2>9
    <2>12. c.started /\ raw = c.raw /\ e.events = d.events \o p
      BY <1>3, <1>6, <2>4, <2>9
    <2>13. EmitsTheRest(e, d, c, key, shown)
      BY <2>6, <2>12 DEF EmitsTheRest
    <2> QED
      BY <1>1, <2>4, <2>9, <2>10, <2>11, <2>13
  <1> QED
    BY <1>5, <1>6

-----------------------------------------------------------------------------
(* A fragment of a tool call *)

\* What of a call was shown is data.
LEMMA ShownIsTyped ==
    ASSUME NEW c \in CallState
    PROVE  Shown(c) \in Seq(Data)
  BY DEF Shown, CallState

\* The call of a key is a call of that key.
LEMMA CallOfIsTyped ==
    ASSUME NEW d \in Decoders, OneCallPerKey(d), NEW key \in Keys
    PROVE  CallOf(d, key) \in CallState /\ CallOf(d, key).key = key
  <1>1. CASE Known(d, key)
    <2>1. PICK i \in DOMAIN d.calls : AtIndex(d, i, key)
      BY <1>1, KnownIsAtAnIndex
    <2>2. d.calls[i] \in CallState /\ d.calls[i].key = key
      BY <2>1 DEF AtIndex, Decoders
    <2> QED
      BY <2>1, <2>2, CallAtIndex
  <1>2. CASE ~Known(d, key)
    <2>1. NewCall(key) \in CallState /\ NewCall(key).key = key
      BY DEF NewCall, CallState
    <2> QED
      BY <1>2, <2>1, UnknownCall
  <1> QED
    BY <1>1, <1>2

\* Sequences of at most one element.
LEMMA AtMostOne ==
    ASSUME NEW A, NEW x \in A, NEW a, a = <<x>> \/ a = <<>>
    PROVE  a \in Seq(A)
  <1>1. <<x>> \in Seq(A) /\ <<>> \in Seq(A)
    OBVIOUS
  <1> QED
    BY <1>1

\* The arguments that a fragment carries.
ArgumentsIn(part) == IF part.data = "none" THEN <<>> ELSE <<part.data>>

\* What a fragment of a call makes of the decoder.
FragmentTaken(d, g, key, part) ==
    /\ g \in Decoders /\ OneCallPerKey(g) /\ Others(d, g, key) /\ g.reason = d.reason
    /\ Tidy(CallOf(g, key))
    /\ CallOf(g, key).named <=> CallOf(d, key).named \/ part.named
    /\ CallOf(g, key).raw = CallOf(d, key).raw \o ArgumentsIn(part)
    /\ CallOf(g, key).completed <=> CallOf(d, key).completed
    /\ \E p \in Seq(QuietEvents(key)) :
          /\ g.events = d.events \o p
          /\ Shown(CallOf(d, key)) \o ArgumentsOf(p, key) = Shown(CallOf(g, key))
          /\ CallOf(g, key).named /\ ~CallOf(d, key).named =>
                \E n \in DOMAIN p : p[n] = Started(key)

Names(b, c, part) == b = [c EXCEPT !.named = @ \/ part.named]
Adds(b, c, part) == b = [c EXCEPT !.raw = @ \o ArgumentsIn(part)]

\* The arguments of a fragment are data.
LEMMA ArgumentsInAreData ==
    ASSUME NEW part \in CallPart
    PROVE  ArgumentsIn(part) \in Seq(Data) /\ part.named \in BOOLEAN
  <1>1. part.named \in BOOLEAN /\ part.data \in Data \cup {"none"}
    BY DEF CallPart
  <1>2. part.data \in Data => <<part.data>> \in Seq(Data)
    OBVIOUS
  <1>3. <<>> \in Seq(Data)
    OBVIOUS
  <1> QED
    BY <1>1, <1>2, <1>3 DEF ArgumentsIn

\* A fragment with a name names the call, and changes nothing else.
LEMMA NamesFacts ==
    ASSUME NEW part \in CallPart, NEW c \in CallState, NEW b, Names(b, c, part)
    PROVE  /\ b \in CallState /\ b.key = c.key /\ b.raw = c.raw /\ b.emitted = c.emitted
           /\ b.named <=> c.named \/ part.named
           /\ b.started <=> c.started
           /\ b.completed <=> c.completed
  <1>1. PICK m \in BOOLEAN : m = (c.named \/ part.named)
    OBVIOUS
  <1>2. b = [c EXCEPT !.named = m]
    BY <1>1 DEF Names, CallState
  <1>3. /\ b \in CallState /\ b.key = c.key /\ b.raw = c.raw /\ b.emitted = c.emitted
        /\ b.named = m /\ b.started = c.started /\ b.completed = c.completed
    BY <1>2 DEF CallState
  <1> QED
    BY <1>1, <1>3

\* The arguments of a fragment come after those before it.
LEMMA AddsFacts ==
    ASSUME NEW part \in CallPart, NEW c \in CallState, NEW b, Adds(b, c, part)
    PROVE  /\ b \in CallState /\ b.key = c.key /\ b.emitted = c.emitted
           /\ b.raw = c.raw \o ArgumentsIn(part)
           /\ b.named <=> c.named
           /\ b.started <=> c.started
           /\ b.completed <=> c.completed
  <1>1. PICK args : args \in Seq(Data) /\ args = ArgumentsIn(part)
    BY ArgumentsInAreData
  <1>2. PICK old : old \in Seq(Data) /\ old = c.raw
    BY DEF CallState
  <1>3. PICK raw : raw = old \o args
    OBVIOUS
  <1>4. raw \in Seq(Data)
    BY <1>1, <1>2, <1>3, ConcatFacts
  <1>5. b = [c EXCEPT !.raw = raw]
    BY <1>1, <1>2, <1>3 DEF Adds, CallState
  <1>6. PICK R : R = Seq(Data)
    OBVIOUS
  <1>7. /\ b \in CallState /\ b.key = c.key /\ b.emitted = c.emitted
        /\ b.raw = raw /\ b.named = c.named /\ b.started = c.started
        /\ b.completed = c.completed
    <2>1. raw \in R /\ CallState = [key : Keys, named : BOOLEAN, started : BOOLEAN,
                                     raw : R, emitted : Nat, completed : BOOLEAN]
      BY <1>4, <1>6 DEF CallState
    <2> QED
      BY <1>5, <2>1
  <1> QED
    BY <1>1, <1>2, <1>3, <1>7

\* The same for the call at its index, once it is there.
LEMMA FragmentAtIndex ==
    ASSUME NEW d, NEW i, NEW key, AtIndex(d, i, key), Tidy(d.calls[i]),
           NEW part \in CallPart,
           NEW b, Names(b, d.calls[i], part),
           NEW d1, Sets(d1, d, i, b),
           NEW d2, Starts(d2, d1, i),
           NEW c, Adds(c, d2.calls[i], part),
           NEW d3, Sets(d3, d2, i, c),
           NEW g, EmitsPending(g, d3, i)
    PROVE  FragmentTaken(d, g, key, part)
  <1>1. PICK o : o = d.calls[i]
    OBVIOUS
  <1>2. /\ d \in Decoders /\ o \in CallState /\ key \in Keys /\ o.key = key
        /\ d.events \in Seq(Event)
    BY <1>1, CallIsTyped
  <1>3. CallOf(d, key) = o
    BY <1>1, CallAtIndex
  <1>4. PICK args : args \in Seq(Data) /\ args = ArgumentsIn(part)
    BY ArgumentsInAreData
  <1>5. /\ b \in CallState /\ b.key = key /\ b.raw = o.raw /\ b.emitted = o.emitted
        /\ b.named <=> o.named \/ part.named
        /\ b.started <=> o.started
        /\ b.completed <=> o.completed
    BY <1>1, <1>2, NamesFacts
  <1>6. PICK shown : shown \in Seq(Data) /\ shown = Shown(o)
    BY <1>2, ShownIsTyped
  <1>7. /\ o.raw \in Seq(Data)
        /\ o.started <=> o.named
        /\ o.completed => o.named
        /\ o.emitted = Len(shown)
        /\ shown = IF o.named THEN o.raw ELSE <<>>
    BY <1>1, <1>2, <1>6 DEF Tidy, Shown, CallState
  <1>8. /\ AtIndex(d1, i, key) /\ d1.calls[i] = b /\ Others(d, d1, key)
        /\ d1.events = d.events /\ d1.reason = d.reason
    BY <1>5, SetCall
  <1>9. PICK q : q = d2.calls[i]
    OBVIOUS
  <1>10. PICK a : a = FirstEvent(b)
    OBVIOUS
  <1>11. /\ AtIndex(d2, i, key) /\ Others(d1, d2, key) /\ d2.reason = d1.reason
         /\ IsStarted(q, b) /\ d2.events = d1.events \o a
    <2>1. AtIndex(d1, i, key)
      BY <1>8
    <2>2. AtIndex(d2, i, key) /\ Others(d1, d2, key) /\ d2.reason = d1.reason
      BY <2>1, StartFacts
    <2>3. IsStarted(d2.calls[i], d1.calls[i])
      BY <2>1, StartFacts
    <2>4. d2.events = d1.events \o FirstEvent(d1.calls[i])
      BY <2>1, StartFacts
    <2> QED
      BY <1>8, <1>9, <1>10, <2>2, <2>3, <2>4
  <1>12. /\ q \in CallState /\ q.key = key /\ q.raw = o.raw /\ q.emitted = Len(shown)
         /\ q.named <=> o.named \/ part.named
         /\ q.started <=> o.named \/ part.named
         /\ q.completed <=> o.completed
    BY <1>5, <1>7, <1>11 DEF IsStarted
  <1>13. /\ c \in CallState /\ c.key = key /\ c.emitted = Len(shown)
         /\ c.raw = o.raw \o args
         /\ c.named <=> o.named \/ part.named
         /\ c.started <=> o.named \/ part.named
         /\ c.completed <=> o.completed
    <2>1. Adds(c, q, part)
      BY <1>9
    <2>2. /\ c \in CallState /\ c.key = q.key /\ c.emitted = q.emitted
          /\ c.raw = q.raw \o ArgumentsIn(part)
      BY <1>12, <2>1, AddsFacts
    <2>3. /\ c.named <=> q.named
          /\ c.started <=> q.started
          /\ c.completed <=> q.completed
      BY <1>12, <2>1, AddsFacts
    <2> QED
      BY <1>4, <1>12, <2>2, <2>3
  <1>14. /\ AtIndex(d3, i, key) /\ d3.calls[i] = c /\ Others(d2, d3, key)
         /\ d3.events = d2.events /\ d3.reason = d2.reason
    BY <1>11, <1>13, SetCall
  <1>15. PICK raw : raw \in Seq(Data) /\ raw = c.raw
    BY <1>13 DEF CallState
  <1>16. Begins(shown, d3.calls[i])
    <2>1. /\ Len(raw) = Len(o.raw) + Len(args)
          /\ \A j \in 1 .. Len(o.raw) : raw[j] = o.raw[j]
      BY <1>4, <1>7, <1>13, <1>15, ConcatFacts
    <2>2. Len(o.raw) \in Nat /\ Len(args) \in Nat
      BY <1>4, <1>7
    <2>3. Len(shown) <= Len(raw) /\ \A j \in 1 .. Len(shown) : shown[j] = raw[j]
      BY <1>7, <2>1, <2>2
    <2> QED
      BY <1>13, <1>14, <1>15, <2>3 DEF Begins
  <1>17. AtIndex(g, i, key) /\ Others(d3, g, key) /\ g.reason = d3.reason
    BY <1>6, <1>14, <1>16, PendingFacts
  <1>18. IsEmitted(g.calls[i], c)
    BY <1>6, <1>14, <1>16, PendingFacts
  <1>19. PICK p : /\ p \in Seq(ArgumentEvents(key))
                  /\ g.events = d3.events \o p
                  /\ c.started => shown \o ArgumentsOf(p, key) = raw
                  /\ ~c.started => p = <<>>
    <2>1. EmitsTheRest(g, d3, d3.calls[i], key, shown)
      <3>1. AtIndex(d3, i, key) /\ shown \in Seq(Data)
        BY <1>6, <1>14
      <3> QED
        BY <1>16, <3>1, PendingFacts
    <2> QED
      BY <1>14, <1>15, <2>1 DEF EmitsTheRest
  <1>20. PICK r : r = CallOf(g, key)
    OBVIOUS
  <1>21. /\ r.raw = raw
         /\ r.named <=> o.named \/ part.named
         /\ r.started <=> o.named \/ part.named
         /\ r.emitted = IF c.started THEN Len(raw) ELSE Len(shown)
         /\ r.completed <=> o.completed
    <2>1. r = g.calls[i]
      BY <1>17, <1>20, CallAtIndex
    <2> QED
      BY <1>13, <1>15, <1>18, <2>1 DEF IsEmitted
  <1>22. Tidy(r)
    <2>1. ~o.named => Len(shown) = 0
      BY <1>7
    <2> QED
      BY <1>7, <1>13, <1>21, <2>1 DEF Tidy
  <1>23. Others(d, g, key)
    BY <1>8, <1>11, <1>14, <1>17 DEF Others
  <1>24. /\ a \in Seq(QuietEvents(key)) /\ p \in Seq(QuietEvents(key))
         /\ a \in Seq(Event) /\ p \in Seq(Event)
    <2>1. PICK x : x = Started(key)
      OBVIOUS
    <2>2. x \in QuietEvents(key) /\ x \in Event
      BY <1>2, <2>1, EventFacts DEF QuietEvents
    <2>3. a = <<x>> \/ a = <<>>
      BY <1>5, <1>10, <2>1 DEF FirstEvent
    <2>4. a \in Seq(QuietEvents(key)) /\ a \in Seq(Event)
      BY <2>2, <2>3, AtMostOne
    <2>5. ArgumentEvents(key) \subseteq QuietEvents(key) /\ ArgumentEvents(key) \subseteq Event
      BY DEF QuietEvents, ArgumentEvents
    <2> QED
      BY <1>19, <2>4, <2>5
  <1>25. PICK ap : ap = a \o p
    OBVIOUS
  <1>26. ap \in Seq(QuietEvents(key))
    BY <1>24, <1>25, ConcatFacts
  <1>27. g.events = d.events \o ap
    <2>1. g.events = (d.events \o a) \o p
      BY <1>8, <1>11, <1>14, <1>19
    <2>2. PICK ev : ev = d.events
      OBVIOUS
    <2>3. ev \in Seq(Event) /\ a \in Seq(Event) /\ p \in Seq(Event)
      BY <1>2, <1>24, <2>2
    <2>4. (ev \o a) \o p = ev \o (a \o p)
      BY <2>3, ConcatAssociative
    <2> QED
      BY <1>25, <2>1, <2>2, <2>4
  <1>28. ArgumentsOf(a, key) = <<>>
    <2>1. PICK x : x = Started(key)
      OBVIOUS
    <2>2. a = <<x>> \/ a = <<>>
      BY <1>5, <1>10, <2>1 DEF FirstEvent
    <2>3. a \in Seq({x})
      <3>1. x \in {x}
        OBVIOUS
      <3> QED
        BY <2>2, <3>1, AtMostOne
    <2>4. x \notin ArgumentEvents(key)
      BY <1>2, <2>1, EventFacts DEF ArgumentEvents
    <2>5. \A e \in {x} : e \notin ArgumentEvents(key)
      BY <2>4
    <2> QED
      BY <2>3, <2>5, NoArguments
  <1>29. shown \o ArgumentsOf(ap, key) = Shown(r)
    <2>1. PICK s : s \in Seq(Data) /\ s = ArgumentsOf(p, key)
      BY <1>24, ArgumentsAreData
    <2>2. ArgumentsOf(ap, key) = <<>> \o s
      BY <1>24, <1>25, <1>28, <2>1, ArgumentsOfConcat
    <2>3. <<>> \o s = s
      BY <2>1
    <2>4. CASE o.named \/ part.named
      <3>1. shown \o s = raw /\ Shown(r) = raw
        BY <1>13, <1>19, <1>21, <2>1, <2>4 DEF Shown
      <3> QED
        BY <2>2, <2>3, <3>1
    <2>5. CASE ~(o.named \/ part.named)
      <3>1. p = <<>> /\ a = <<>>
        BY <1>5, <1>10, <1>13, <1>19, <2>5 DEF FirstEvent
      <3>2. s = <<>>
        BY <1>28, <2>1, <3>1
      <3>3. shown = <<>> /\ Shown(r) = <<>>
        BY <1>7, <1>21, <2>5 DEF Shown
      <3>4. <<>> \o <<>> = <<>>
        OBVIOUS
      <3> QED
        BY <2>2, <3>2, <3>3, <3>4
    <2> QED
      BY <2>4, <2>5
  <1>30. ASSUME r.named, ~o.named PROVE \E j \in DOMAIN ap : ap[j] = Started(key)
    <2>1. PICK x : x = Started(key)
      OBVIOUS
    <2>2. b.named /\ ~b.started
      BY <1>5, <1>7, <1>21, <1>30
    <2>3. a = <<x>>
      BY <1>5, <1>10, <2>1, <2>2 DEF FirstEvent
    <2>4. Len(a) = 1 /\ a[1] = x
      BY <2>3
    <2>5. Len(ap) = Len(a) + Len(p) /\ \A k \in 1 .. Len(a) : ap[k] = a[k]
      BY <1>24, <1>25, ConcatFacts
    <2>6. Len(p) \in Nat /\ DOMAIN ap = 1 .. Len(ap)
      BY <1>24, <1>26
    <2> QED
      BY <2>1, <2>4, <2>5, <2>6
  <1>31. g \in Decoders /\ OneCallPerKey(g)
    BY <1>17 DEF AtIndex
  <1>32. g.reason = d.reason
    BY <1>8, <1>11, <1>14, <1>17
  <1>33. \E s \in Seq(QuietEvents(key)) :
          /\ g.events = d.events \o s
          /\ Shown(CallOf(d, key)) \o ArgumentsOf(s, key) = Shown(CallOf(g, key))
          /\ CallOf(g, key).named /\ ~CallOf(d, key).named =>
                \E j \in DOMAIN s : s[j] = Started(key)
    BY <1>3, <1>6, <1>20, <1>26, <1>27, <1>29, <1>30
  <1> QED
    BY <1>3, <1>4, <1>13, <1>15, <1>20, <1>21, <1>22, <1>23, <1>31, <1>32, <1>33
       DEF FragmentTaken

\* TakeFragment: a known call, or a new one, with one fragment more.
LEMMA TakeFragmentFacts ==
    ASSUME NEW d \in Decoders, OneCallPerKey(d), NEW choice \in ChoiceIndices,
           NEW part \in CallPart, NEW key, key = <<choice, part.index>>,
           Tidy(CallOf(d, key)), NEW g, g = TakeFragment(d, choice, part)
    PROVE  FragmentTaken(d, g, key, part)
  <1>1. key \in Keys
    BY DEF Keys, CallPart
  <1>2. PICK e : e = IF Known(d, key) THEN d
                     ELSE [d EXCEPT !.calls = Append(@, NewCall(key))]
    OBVIOUS
  <1>3. PICK i : /\ AtIndex(e, i, key) /\ e.calls[i] = CallOf(d, key) /\ Others(d, e, key)
                 /\ e.events = d.events /\ e.reason = d.reason
    <2>1. CASE Known(d, key)
      <3>1. PICK i \in DOMAIN d.calls : AtIndex(d, i, key)
        BY <2>1, KnownIsAtAnIndex
      <3> QED
        BY <1>2, <2>1, <3>1, CallAtIndex DEF Others
    <2>2. CASE ~Known(d, key)
      <3>1. e = [d EXCEPT !.calls = Append(@, NewCall(key))]
        BY <1>2, <2>2
      <3>2. PICK i \in DOMAIN e.calls :
               /\ AtIndex(e, i, key) /\ e.calls[i] = NewCall(key) /\ Others(d, e, key)
               /\ e.events = d.events /\ e.reason = d.reason
        BY <1>1, <2>2, <3>1, AppendCall
      <3> QED
        BY <2>2, <3>2, UnknownCall
    <2> QED
      BY <2>1, <2>2
  <1>4. (CHOOSE n \in DOMAIN e.calls : e.calls[n].key = key) = i
    <2> DEFINE Is(n) == e.calls[n].key = key
    <2>1. i \in DOMAIN e.calls /\ Is(i) /\ \A n \in DOMAIN e.calls : Is(n) => n = i
      BY <1>3 DEF AtIndex, OneCallPerKey
    <2>2. (CHOOSE n \in DOMAIN e.calls : Is(n)) = i
      <3> HIDE DEF Is
      <3> QED
        BY <2>1
    <2> QED
      BY <2>2
  <1>5. PICK b : Names(b, e.calls[i], part)
    BY DEF Names
  <1>6. PICK d1 : Sets(d1, e, i, b)
    BY DEF Sets
  <1>7. PICK d2 : Starts(d2, d1, i)
    BY DEF Starts
  <1>8. PICK c : Adds(c, d2.calls[i], part)
    BY DEF Adds
  <1>9. PICK d3 : Sets(d3, d2, i, c)
    BY DEF Sets
  <1>10. EmitsPending(g, d3, i)
    <2>1. d1 = [e EXCEPT !.calls[i].named = @ \/ part.named]
      BY <1>5, <1>6 DEF Names, Sets
    <2>2. d2 = StartToolCallIfReady([e EXCEPT !.calls[i].named = @ \/ part.named], i)
      BY <1>7, <2>1 DEF Starts
    <2>3. d3 = [d2 EXCEPT !.calls[i].raw = @ \o ArgumentsIn(part)]
      BY <1>8, <1>9 DEF Adds, Sets
    <2>4. TakeFragment(d, choice, part) = EmitPendingArgumentDeltas(d3, i)
      BY <1>2, <1>4, <2>2, <2>3 DEF TakeFragment, ArgumentsIn, Known
    <2> QED
      BY <2>4 DEF EmitsPending
  <1>11. FragmentTaken(e, g, key, part)
    BY <1>3, <1>5, <1>6, <1>7, <1>8, <1>9, <1>10, FragmentAtIndex
  <1>12. CallOf(e, key) = CallOf(d, key)
    BY <1>3, CallAtIndex
  <1> QED
    BY <1>3, <1>11, <1>12 DEF FragmentTaken, Others

-----------------------------------------------------------------------------
(* Events that are added, and what they complete *)

\* A longer sequence has its beginning, and the rest after it.
Extended(c, s, t) ==
    /\ \A n \in DOMAIN s : n \in DOMAIN c /\ c[n] = s[n] /\ SubSeq(c, 1, n) = SubSeq(s, 1, n)
    /\ \A n \in DOMAIN c : n \in DOMAIN s \/ \E j \in DOMAIN t : n = Len(s) + j /\ c[n] = t[j]
    /\ \A j \in DOMAIN t : Len(s) + j \in DOMAIN c /\ c[Len(s) + j] = t[j]

\* A concatenation is the first sequence with the second after it.
LEMMA BeginningStays ==
    ASSUME NEW A, NEW s \in Seq(A), NEW t \in Seq(A), NEW c, c = s \o t
    PROVE  c \in Seq(A) /\ Extended(c, s, t)
  <1>1. /\ c \in Seq(A) /\ Len(c) = Len(s) + Len(t)
        /\ \A k \in 1 .. Len(s) : c[k] = s[k]
        /\ \A k \in 1 .. Len(t) : c[Len(s) + k] = t[k]
    BY ConcatFacts
  <1>2. /\ Len(s) \in Nat /\ Len(t) \in Nat /\ Len(c) \in Nat
        /\ DOMAIN s = 1 .. Len(s) /\ DOMAIN t = 1 .. Len(t) /\ DOMAIN c = 1 .. Len(c)
    BY <1>1
  <1>3. \A n \in DOMAIN s : n \in DOMAIN c /\ c[n] = s[n]
    BY <1>1, <1>2
  <1>4. ASSUME NEW n \in DOMAIN s PROVE SubSeq(c, 1, n) = SubSeq(s, 1, n)
    <2>1. PICK x : x = SubSeq(c, 1, n)
      OBVIOUS
    <2>2. PICK y : y = SubSeq(s, 1, n)
      OBVIOUS
    <2>3. n \in 1 .. Len(s) /\ n \in 1 .. Len(c)
      BY <1>1, <1>2
    <2>4. x \in Seq(A) /\ Len(x) = n /\ \A k \in 1 .. n : x[k] = c[k]
      BY <1>1, <1>2, <2>1, <2>3
    <2>5. y \in Seq(A) /\ Len(y) = n /\ \A k \in 1 .. n : y[k] = s[k]
      BY <1>2, <2>2, <2>3
    <2>6. \A k \in 1 .. n : x[k] = y[k]
      BY <1>1, <1>2, <2>3, <2>4, <2>5
    <2>7. x = y
      BY <2>4, <2>5, <2>6, SeqEqual
    <2> QED
      BY <2>1, <2>2, <2>7
  <1>5. ASSUME NEW n \in DOMAIN c, n \notin DOMAIN s
        PROVE  \E j \in DOMAIN t : n = Len(s) + j /\ c[n] = t[j]
    <2>1. n - Len(s) \in 1 .. Len(t) /\ n = Len(s) + (n - Len(s))
      BY <1>1, <1>2, <1>5
    <2> QED
      BY <1>1, <1>2, <2>1
  <1>6. \A j \in DOMAIN t : Len(s) + j \in DOMAIN c /\ c[Len(s) + j] = t[j]
    BY <1>1, <1>2
  <1> QED
    BY <1>1, <1>3, <1>4, <1>5, <1>6 DEF Extended

\* The decoder has emitted events that complete no call.
QuietGrowth(d, g, p) ==
    /\ g \in Decoders /\ OneCallPerKey(g)
    /\ p \in Seq(Event) /\ g.events = d.events \o p
    /\ \A n \in DOMAIN p : p[n].kind # "completed"
    /\ \A key \in Keys :
          /\ Tidy(CallOf(g, key))
          /\ Shown(CallOf(d, key)) \o ArgumentsOf(p, key) = Shown(CallOf(g, key))
          /\ CallOf(g, key).named /\ ~CallOf(d, key).named =>
                \E n \in DOMAIN p : p[n] = Started(key)
          /\ CallOf(g, key).completed <=> CallOf(d, key).completed

\* The events that were there stay, and no event after them completes a call.
SameCompletions(d, g) ==
    /\ \A n \in DOMAIN d.events : n \in DOMAIN g.events /\ g.events[n] = d.events[n]
    /\ \A n \in DOMAIN g.events :
          g.events[n].kind = "completed" => n \in DOMAIN d.events

\* A decoder that completes nothing stays sound.
LEMMA QuietGrowthIsFine ==
    ASSUME NEW d, DecoderOK(d), NEW g, NEW p, QuietGrowth(d, g, p)
    PROVE  DecoderOK(g) /\ SameCompletions(d, g)
  <1>1. PICK s : s \in Seq(Event) /\ s = d.events
    BY DEF DecoderOK, Decoders
  <1>2. PICK c : c = g.events
    OBVIOUS
  <1>3. c = s \o p /\ p \in Seq(Event)
    BY <1>1, <1>2 DEF QuietGrowth
  <1>0. Extended(c, s, p)
    BY <1>1, <1>3, BeginningStays
  <1>4. \A n \in DOMAIN s : n \in DOMAIN c /\ c[n] = s[n] /\ SubSeq(c, 1, n) = SubSeq(s, 1, n)
    BY <1>0 DEF Extended
  <1>5. /\ \A n \in DOMAIN c : n \in DOMAIN s \/ \E j \in DOMAIN p : n = Len(s) + j /\ c[n] = p[j]
        /\ \A j \in DOMAIN p : Len(s) + j \in DOMAIN c /\ c[Len(s) + j] = p[j]
    <2>1. \A n \in DOMAIN c :
             n \in DOMAIN s \/ \E j \in DOMAIN p : n = Len(s) + j /\ c[n] = p[j]
      BY <1>0 DEF Extended
    <2>2. \A j \in DOMAIN p : Len(s) + j \in DOMAIN c /\ c[Len(s) + j] = p[j]
      BY <1>0 DEF Extended
    <2> QED
      BY <2>1, <2>2
  <1>6. \A n \in DOMAIN c : c[n].kind = "completed" => n \in DOMAIN s /\ c[n] = s[n]
    BY <1>4, <1>5 DEF QuietGrowth
  <1>7. SameCompletions(d, g)
    BY <1>1, <1>2, <1>4, <1>6 DEF SameCompletions
  <1>8. ASSUME NEW key \in Keys
        PROVE  /\ Tidy(CallOf(g, key))
               /\ ArgumentsOf(g.events, key) = Shown(CallOf(g, key))
               /\ CallOf(g, key).named => \E n \in DOMAIN g.events : g.events[n] = Started(key)
               /\ CallOf(g, key).completed =>
                     \E n \in DOMAIN g.events :
                        g.events[n].kind = "completed" /\ g.events[n].key = key
    <2>1. Tidy(CallOf(g, key))
      BY DEF QuietGrowth
    <2>2. ArgumentsOf(c, key) = Shown(CallOf(g, key))
      <3>1. ArgumentsOf(c, key) = ArgumentsOf(s, key) \o ArgumentsOf(p, key)
        BY <1>1, <1>3, ArgumentsOfConcat
      <3>2. ArgumentsOf(s, key) = Shown(CallOf(d, key))
        BY <1>1 DEF DecoderOK
      <3> QED
        BY <3>1, <3>2 DEF QuietGrowth
    <2>3. ASSUME CallOf(g, key).named PROVE \E n \in DOMAIN c : c[n] = Started(key)
      <3>1. CASE CallOf(d, key).named
        <4>1. PICK n \in DOMAIN s : s[n] = Started(key)
          BY <1>1, <3>1 DEF DecoderOK
        <4> QED
          BY <1>4, <4>1
      <3>2. CASE ~CallOf(d, key).named
        <4>1. PICK n \in DOMAIN p : p[n] = Started(key)
          BY <2>3, <3>2 DEF QuietGrowth
        <4> QED
          BY <1>5, <4>1
      <3> QED
        BY <3>1, <3>2
    <2>4. ASSUME CallOf(g, key).completed
          PROVE  \E n \in DOMAIN c : c[n].kind = "completed" /\ c[n].key = key
      <3>1. CallOf(d, key).completed
        BY <2>4 DEF QuietGrowth
      <3>2. PICK n \in DOMAIN s : s[n].kind = "completed" /\ s[n].key = key
        BY <1>1, <3>1 DEF DecoderOK
      <3> QED
        BY <1>4, <3>2
    <2> QED
      BY <1>2, <2>1, <2>2, <2>3, <2>4
  <1>9. CompletionsOK(d)
    BY DEF DecoderOK
  <1>10. ASSUME NEW n \in DOMAIN c, c[n].kind = "completed"
         PROVE  /\ CallOf(g, c[n].key).completed
                /\ c[n].raw = ArgumentsOf(SubSeq(c, 1, n), c[n].key)
    <2>1. n \in DOMAIN s /\ c[n] = s[n] /\ SubSeq(c, 1, n) = SubSeq(s, 1, n)
      BY <1>4, <1>6, <1>10
    <2>2. s[n].key \in Keys
      <3>1. s[n] \in Event
        BY <1>1, <2>1
      <3> QED
        BY <1>10, <2>1, <3>1, KindOfEvent
    <2>3. CallOf(d, s[n].key).completed /\ s[n].raw = ArgumentsOf(SubSeq(s, 1, n), s[n].key)
      BY <1>1, <1>9, <1>10, <2>1 DEF CompletionsOK
    <2>4. CallOf(g, s[n].key).completed
      BY <2>2, <2>3 DEF QuietGrowth
    <2> QED
      BY <2>1, <2>3, <2>4
  <1>11. ASSUME NEW m \in DOMAIN c, NEW n \in DOMAIN c,
                c[m].kind = "completed", c[n].kind = "completed", c[m].key = c[n].key
         PROVE  m = n
    <2>1. m \in DOMAIN s /\ n \in DOMAIN s /\ c[m] = s[m] /\ c[n] = s[n]
      BY <1>6, <1>11
    <2> QED
      BY <1>1, <1>9, <1>11, <2>1 DEF CompletionsOK
  <1>12. CompletionsOK(g)
    BY <1>2, <1>10, <1>11 DEF CompletionsOK
  <1>13. g \in Decoders /\ OneCallPerKey(g)
    BY DEF QuietGrowth
  <1> QED
    BY <1>7, <1>8, <1>12, <1>13 DEF DecoderOK

\* One call more is complete.
CompleteGrowth(d, g, key, e) ==
    /\ g \in Decoders /\ OneCallPerKey(g) /\ Others(d, g, key)
    /\ ~CallOf(d, key).completed /\ CallOf(d, key).named
    /\ CallOf(g, key).completed /\ CallOf(g, key).named
    /\ CallOf(g, key).raw = CallOf(d, key).raw
    /\ CallOf(g, key).started
    /\ CallOf(g, key).emitted = CallOf(d, key).emitted
    /\ e \in Event /\ e.kind = "completed" /\ e.key = key /\ e.raw = CallOf(d, key).raw
    /\ g.events = d.events \o <<e>>

\* A decoder that completes one call, once, with the arguments it showed, stays sound.
LEMMA CompleteGrowthIsFine ==
    ASSUME NEW d, DecoderOK(d), NEW g, NEW key \in Keys, NEW e, CompleteGrowth(d, g, key, e)
    PROVE  DecoderOK(g)
  <1>1. PICK s : s \in Seq(Event) /\ s = d.events
    BY DEF DecoderOK, Decoders
  <1>2. PICK c : c = g.events
    OBVIOUS
  <1>3. PICK p : p = <<e>>
    OBVIOUS
  <1>4. /\ c = s \o p /\ p \in Seq(Event) /\ p \in Seq({e}) /\ DOMAIN p = {1} /\ p[1] = e
        /\ Len(s) \in Nat
    <2>1. e \in Event
      BY DEF CompleteGrowth
    <2> QED
      BY <1>1, <1>2, <1>3, <2>1 DEF CompleteGrowth
  <1>0. Extended(c, s, p)
    BY <1>1, <1>4, BeginningStays
  <1>5. \A n \in DOMAIN s : n \in DOMAIN c /\ c[n] = s[n] /\ SubSeq(c, 1, n) = SubSeq(s, 1, n)
    BY <1>0 DEF Extended
  <1>6. /\ \A n \in DOMAIN c : n \in DOMAIN s \/ \E j \in DOMAIN p : n = Len(s) + j /\ c[n] = p[j]
        /\ \A j \in DOMAIN p : Len(s) + j \in DOMAIN c /\ c[Len(s) + j] = p[j]
    <2>1. \A n \in DOMAIN c :
             n \in DOMAIN s \/ \E j \in DOMAIN p : n = Len(s) + j /\ c[n] = p[j]
      BY <1>0 DEF Extended
    <2>2. \A j \in DOMAIN p : Len(s) + j \in DOMAIN c /\ c[Len(s) + j] = p[j]
      BY <1>0 DEF Extended
    <2> QED
      BY <2>1, <2>2
  <1>7. /\ \A n \in DOMAIN c : n \in DOMAIN s \/ n = Len(s) + 1
        /\ Len(s) + 1 \in DOMAIN c /\ c[Len(s) + 1] = e
    BY <1>4, <1>6
  <1>8. ASSUME NEW k PROVE ArgumentsOf(c, k) = ArgumentsOf(s, k)
    <2>1. \A x \in {e} : x \notin ArgumentEvents(k)
      BY DEF ArgumentEvents, CompleteGrowth
    <2>2. ArgumentsOf(p, k) = <<>>
      BY <1>4, <2>1, NoArguments
    <2>3. PICK a : a \in Seq(Data) /\ a = ArgumentsOf(s, k)
      BY <1>1, ArgumentsAreData
    <2>4. ArgumentsOf(c, k) = a \o <<>>
      BY <1>1, <1>4, <2>2, <2>3, ArgumentsOfConcat
    <2>5. a \o <<>> = a
      BY <2>3
    <2> QED
      BY <2>3, <2>4, <2>5
  <1>9. ASSUME NEW k \in Keys
        PROVE  /\ Tidy(CallOf(g, k))
               /\ ArgumentsOf(g.events, k) = Shown(CallOf(g, k))
               /\ CallOf(g, k).named => \E n \in DOMAIN g.events : g.events[n] = Started(k)
               /\ CallOf(g, k).completed =>
                     \E n \in DOMAIN g.events :
                        g.events[n].kind = "completed" /\ g.events[n].key = k
    <2>1. /\ Tidy(CallOf(d, k)) /\ ArgumentsOf(s, k) = Shown(CallOf(d, k))
          /\ CallOf(d, k).named => \E n \in DOMAIN s : s[n] = Started(k)
          /\ CallOf(d, k).completed =>
                \E n \in DOMAIN s : s[n].kind = "completed" /\ s[n].key = k
      BY <1>1 DEF DecoderOK
    <2>2. /\ Tidy(CallOf(g, k)) /\ Shown(CallOf(g, k)) = Shown(CallOf(d, k))
          /\ CallOf(g, k).named => CallOf(d, k).named
      <3>1. CASE k = key
        BY <2>1, <3>1 DEF Tidy, Shown, CompleteGrowth
      <3>2. CASE k # key
        <4>1. CallOf(g, k) = CallOf(d, k)
          BY <3>2 DEF CompleteGrowth, Others
        <4> QED
          BY <2>1, <4>1
      <3> QED
        BY <3>1, <3>2
    <2>3. ASSUME CallOf(g, k).completed
          PROVE  \E n \in DOMAIN c : c[n].kind = "completed" /\ c[n].key = k
      <3>1. CASE k = key
        BY <1>7, <3>1 DEF CompleteGrowth
      <3>2. CASE k # key
        <4>1. CallOf(g, k) = CallOf(d, k)
          BY <3>2 DEF CompleteGrowth, Others
        <4> QED
          BY <1>5, <2>1, <2>3, <4>1
      <3> QED
        BY <3>1, <3>2
    <2>4. CallOf(g, k).named => \E n \in DOMAIN c : c[n] = Started(k)
      BY <1>5, <2>1, <2>2
    <2> QED
      BY <1>2, <1>8, <2>1, <2>2, <2>3, <2>4
  <1>10. CompletionsOK(d)
    BY DEF DecoderOK
  <1>11. ASSUME NEW n \in DOMAIN s, s[n].kind = "completed"
         PROVE  /\ s[n].key \in Keys /\ s[n].key # key /\ CallOf(g, s[n].key).completed
                /\ s[n].raw = ArgumentsOf(SubSeq(s, 1, n), s[n].key)
    <2>1. CallOf(d, s[n].key).completed /\ s[n].raw = ArgumentsOf(SubSeq(s, 1, n), s[n].key)
      BY <1>1, <1>10, <1>11 DEF CompletionsOK
    <2>2. s[n] \in Event
      BY <1>1
    <2>3. s[n].key \in Keys /\ s[n].key # key
      BY <1>11, <2>1, <2>2, KindOfEvent DEF CompleteGrowth
    <2>4. CallOf(g, s[n].key) = CallOf(d, s[n].key)
      BY <2>3 DEF CompleteGrowth, Others
    <2> QED
      BY <2>1, <2>3, <2>4
  <1>12. ASSUME NEW n \in DOMAIN c, c[n].kind = "completed"
         PROVE  /\ CallOf(g, c[n].key).completed
                /\ c[n].raw = ArgumentsOf(SubSeq(c, 1, n), c[n].key)
    <2>1. CASE n \in DOMAIN s
      <3>1. c[n] = s[n] /\ SubSeq(c, 1, n) = SubSeq(s, 1, n)
        BY <1>5, <2>1
      <3> QED
        BY <1>11, <1>12, <2>1, <3>1
    <2>2. CASE n = Len(s) + 1
      <3>1. c[n] = e
        BY <1>7, <2>2
      <3>2. SubSeq(c, 1, n) = c
        <4>1. c \in Seq(Event) /\ Len(c) = Len(s) + Len(p)
          BY <1>1, <1>4, ConcatFacts
        <4>2. Len(p) = 1
          BY <1>3
        <4>3. n = Len(c)
          BY <2>2, <4>1, <4>2
        <4> QED
          BY <4>1, <4>3
      <3>3. ArgumentsOf(s, key) = Shown(CallOf(d, key))
        BY <1>1 DEF DecoderOK
      <3>4. Shown(CallOf(d, key)) = CallOf(d, key).raw
        BY DEF Shown, CompleteGrowth
      <3> QED
        BY <1>8, <3>1, <3>2, <3>3, <3>4 DEF CompleteGrowth
    <2> QED
      BY <1>7, <2>1, <2>2
  <1>13. ASSUME NEW m \in DOMAIN c, NEW n \in DOMAIN c,
                c[m].kind = "completed", c[n].kind = "completed", c[m].key = c[n].key
         PROVE  m = n
    <2>1. e.key = key
      BY DEF CompleteGrowth
    <2>2. CASE m \in DOMAIN s /\ n \in DOMAIN s
      BY <1>1, <1>5, <1>10, <1>13, <2>2 DEF CompletionsOK
    <2>3. CASE m \in DOMAIN s /\ n = Len(s) + 1
      BY <1>5, <1>7, <1>11, <1>13, <2>1, <2>3
    <2>4. CASE m = Len(s) + 1 /\ n \in DOMAIN s
      BY <1>5, <1>7, <1>11, <1>13, <2>1, <2>4
    <2> QED
      BY <1>7, <2>2, <2>3, <2>4
  <1>14. CompletionsOK(g)
    BY <1>2, <1>12, <1>13 DEF CompletionsOK
  <1>15. g \in Decoders /\ OneCallPerKey(g)
    BY DEF CompleteGrowth
  <1> QED
    BY <1>9, <1>14, <1>15 DEF DecoderOK

-----------------------------------------------------------------------------
(* Joined data *)

\* Joined data are data.
LEMMA JoinIsData ==
    ASSUME NEW A, NEW s \in Seq(A), \A e \in A : e.data \in Data
    PROVE  Join(s) \in Seq(Data)
  BY DEF Join

\* Join takes the last element last.
LEMMA JoinOfAppend ==
    ASSUME NEW A, NEW s \in Seq(A), NEW e \in A
    PROVE  Join(Append(s, e)) = Append(Join(s), e.data)
  <1>1. PICK c : c = Append(s, e)
    OBVIOUS
  <1>2. PICK a : a = Join(s)
    OBVIOUS
  <1>3. PICK D : D = {s[i].data : i \in 1 .. Len(s)} \cup {e.data}
    OBVIOUS
  <1>4. /\ Len(s) \in Nat /\ Len(c) = Len(s) + 1 /\ DOMAIN c = 1 .. Len(s) + 1
        /\ \A k \in 1 .. Len(s) : c[k] = s[k]
        /\ c[Len(s) + 1] = e
    BY <1>1
  <1>5. a \in Seq(D) /\ Len(a) = Len(s) /\ \A k \in 1 .. Len(s) : a[k] = s[k].data
    <2>1. a = [k \in 1 .. Len(s) |-> s[k].data]
      BY <1>2 DEF Join
    <2>2. a \in [1 .. Len(s) -> D]
      BY <1>3, <2>1
    <2>3. a \in Seq(D) /\ Len(a) = Len(s)
      BY <1>4, <2>2, IsASequence
    <2> QED
      BY <2>1, <2>3
  <1>6. PICK f : f = Join(c)
    OBVIOUS
  <1>7. f \in Seq(D) /\ Len(f) = Len(s) + 1 /\ \A k \in 1 .. Len(s) + 1 : f[k] = c[k].data
    <2>1. f = [k \in 1 .. Len(s) + 1 |-> c[k].data]
      BY <1>4, <1>6 DEF Join
    <2>2. \A k \in 1 .. Len(s) + 1 : c[k].data \in D
      BY <1>3, <1>4
    <2>3. f \in [1 .. Len(s) + 1 -> D]
      BY <2>1, <2>2
    <2>4. f \in Seq(D) /\ Len(f) = Len(s) + 1
      BY <1>4, <2>3, IsASequence
    <2> QED
      BY <2>1, <2>4
  <1>8. PICK b : b = Append(a, e.data)
    OBVIOUS
  <1>9. e.data \in D
    BY <1>3
  <1>10. /\ b \in Seq(D) /\ Len(b) = Len(s) + 1 /\ b[Len(s) + 1] = e.data
         /\ \A k \in 1 .. Len(s) : b[k] = s[k].data
    BY <1>5, <1>8, <1>9
  <1>11. ASSUME NEW k \in 1 .. Len(s) + 1 PROVE f[k] = b[k]
    <2>1. k \in 1 .. Len(s) \/ k = Len(s) + 1
      BY <1>4
    <2> QED
      BY <1>4, <1>7, <1>10, <2>1
  <1>12. f = b
    BY <1>7, <1>10, <1>11, SeqEqual
  <1> QED
    BY <1>1, <1>2, <1>6, <1>8, <1>12

-----------------------------------------------------------------------------
(* The stream, one chunk more *)

ArgumentsAt(s, key, k) ==
    IF k \in FragmentsOf(s, key) THEN ArgumentsIn(s[k].part) ELSE <<>>

\* The fields of a chunk and the kinds of its part.
LEMMA ChunkFacts ==
    ASSUME NEW chunk \in Chunk
    PROVE  /\ chunk.choice \in ChoiceIndices
           /\ chunk.part \in {Nothing} \cup TextPart \cup CallPart
           /\ chunk.reason \in Reasons \cup {"none"}
           /\ chunk.part = Nothing => chunk.part.kind = "nothing"
           /\ chunk.part \in TextPart <=> chunk.part.kind \in {"text", "reasoning"}
           /\ chunk.part \in CallPart <=> chunk.part.kind = "call"
           /\ chunk.part \in CallPart => chunk.part.index \in CallIndices
           /\ chunk.part \in TextPart => chunk.part.data \in Data
  <1>1. /\ chunk.choice \in ChoiceIndices
        /\ chunk.part \in {Nothing} \cup TextPart \cup CallPart
        /\ chunk.reason \in Reasons \cup {"none"}
    BY DEF Chunk
  <1>2. /\ Nothing.kind = "nothing"
        /\ \A p \in TextPart : p.kind \in {"text", "reasoning"} /\ p.data \in Data
        /\ \A p \in CallPart : p.kind = "call" /\ p.index \in CallIndices
    BY DEF Nothing, TextPart, CallPart
  <1> QED
    BY <1>1, <1>2

\* The parts that ArgumentsUpTo looks at.
PartsUpTo(s, key, k) ==
    [i \in 1 .. k |-> IF i \in FragmentsOf(s, key) THEN s[i].part ELSE Nothing]
WithArguments == {part \in CallPart : part.data # "none"}

\* They are fragments or nothing.
LEMMA PartsAreTyped ==
    ASSUME NEW s \in Seq(Chunk), NEW key, NEW k \in 0 .. Len(s)
    PROVE  PartsUpTo(s, key, k) \in Seq(CallPart \cup {Nothing})
  <1>1. PICK B : B = CallPart \cup {Nothing}
    OBVIOUS
  <1>2. PICK f : f = PartsUpTo(s, key, k)
    OBVIOUS
  <1>3. ASSUME NEW i \in 1 .. k PROVE f[i] \in B
    <2>1. i \in DOMAIN s /\ s[i] \in Chunk
      OBVIOUS
    <2>2. i \in FragmentsOf(s, key) => s[i].part \in CallPart
      BY <2>1, ChunkFacts DEF FragmentsOf
    <2>3. f[i] = IF i \in FragmentsOf(s, key) THEN s[i].part ELSE Nothing
      BY <1>2 DEF PartsUpTo
    <2> QED
      BY <1>1, <2>2, <2>3
  <1>4. f = [i \in 1 .. k |-> f[i]]
    BY <1>2 DEF PartsUpTo
  <1>5. f \in [1 .. k -> B]
    BY <1>3, <1>4
  <1>6. f \in Seq(B)
    BY <1>5, IsASequence
  <1> QED
    BY <1>1, <1>2, <1>6

\* ArgumentsUpTo is of those parts.
LEMMA ArgumentsUpToIs ==
    ASSUME NEW s, NEW key, NEW k
    PROVE  ArgumentsUpTo(s, key, k) = Join(Kept(PartsUpTo(s, key, k), WithArguments))
  BY DEF ArgumentsUpTo, PartsUpTo, WithArguments

\* The arguments up to a frame are data.
LEMMA ArgumentsUpToAreData ==
    ASSUME NEW s \in Seq(Chunk), NEW key, NEW k \in 0 .. Len(s)
    PROVE  ArgumentsUpTo(s, key, k) \in Seq(Data)
  <1>1. PICK f : f = PartsUpTo(s, key, k)
    OBVIOUS
  <1>2. PICK B : B = (CallPart \cup {Nothing}) \cap WithArguments
    OBVIOUS
  <1>3. PICK a : a = Kept(f, WithArguments)
    OBVIOUS
  <1>4. a \in Seq(B)
    BY <1>1, <1>2, <1>3, PartsAreTyped, KeptIsTyped
  <1>5. \A x \in B : x.data \in Data
    BY <1>2 DEF WithArguments, CallPart
  <1>6. Join(a) \in Seq(Data)
    BY <1>4, <1>5 DEF Join
  <1> QED
    BY <1>1, <1>3, <1>6, ArgumentsUpToIs

\* A frame adds the arguments of its fragment, if it has one of this call.
LEMMA ArgumentsGrow ==
    ASSUME NEW s \in Seq(Chunk), NEW key, NEW k \in 1 .. Len(s)
    PROVE  ArgumentsUpTo(s, key, k) = ArgumentsUpTo(s, key, k - 1) \o ArgumentsAt(s, key, k)
  <1>1. PICK B : B = CallPart \cup {Nothing}
    OBVIOUS
  <1>2. k - 1 \in 0 .. Len(s) /\ k \in 0 .. Len(s) /\ k - 1 \in Nat /\ k \in Nat
    OBVIOUS
  <1>3. PICK f : f = PartsUpTo(s, key, k - 1)
    OBVIOUS
  <1>4. PICK h : h = PartsUpTo(s, key, k)
    OBVIOUS
  <1>5. f \in Seq(B) /\ h \in Seq(B)
    BY <1>1, <1>2, <1>3, <1>4, PartsAreTyped
  <1>6. /\ Len(f) = k - 1 /\ Len(h) = k
        /\ \A i \in 1 .. k - 1 : f[i] = h[i]
    <2>1. DOMAIN f = 1 .. k - 1 /\ DOMAIN h = 1 .. k
      BY <1>3, <1>4 DEF PartsUpTo
    <2>2. \A i \in 1 .. k - 1 : f[i] = h[i]
      BY <1>2, <1>3, <1>4 DEF PartsUpTo
    <2> QED
      BY <1>2, <1>5, <2>1, <2>2
  <1>7. PICK x : x = h[k]
    OBVIOUS
  <1>8. x \in B /\ x = IF k \in FragmentsOf(s, key) THEN s[k].part ELSE Nothing
    BY <1>2, <1>4, <1>5, <1>6, <1>7 DEF PartsUpTo
  <1>9. h = Append(f, x)
    <2>1. PICK l : l = Append(f, x)
      OBVIOUS
    <2>2. /\ l \in Seq(B) /\ Len(l) = k /\ l[k] = x
          /\ \A i \in 1 .. k - 1 : l[i] = f[i]
      BY <1>2, <1>5, <1>6, <1>8, <2>1
    <2>3. \A i \in 1 .. k : h[i] = l[i]
      BY <1>2, <1>6, <1>7, <2>2
    <2> QED
      BY <1>5, <1>6, <2>1, <2>2, <2>3, SeqEqual
  <1>10. PICK a : a = Kept(f, WithArguments)
    OBVIOUS
  <1>11. a \in Seq(CallPart)
    <2>1. a \in Seq(B \cap WithArguments)
      BY <1>5, <1>10, KeptIsTyped
    <2>2. B \cap WithArguments \subseteq CallPart
      BY DEF WithArguments
    <2> QED
      BY <2>1, <2>2
  <1>12. Kept(h, WithArguments) = IF x \in WithArguments THEN Append(a, x) ELSE a
    <2>1. PICK W : W = WithArguments
      OBVIOUS
    <2>2. x \in B
      BY <1>8
    <2>3. Kept(Append(f, x), W) = IF x \in W THEN Append(Kept(f, W), x) ELSE Kept(f, W)
      BY <1>5, <2>2, KeptOfAppend
    <2> QED
      BY <1>9, <1>10, <2>1, <2>3
  <1>13. PICK old : old \in Seq(Data) /\ old = ArgumentsUpTo(s, key, k - 1)
    BY <1>2, ArgumentsUpToAreData
  <1>14. old = Join(a)
    BY <1>3, <1>10, <1>13, ArgumentsUpToIs
  <1>15. ArgumentsUpTo(s, key, k) = Join(Kept(h, WithArguments))
    BY <1>4, ArgumentsUpToIs
  <1>16. CASE x \in WithArguments
    <2>1. x \in CallPart /\ x.data \in Data /\ x.data # "none"
      BY <1>16 DEF WithArguments, CallPart
    <2>2. k \in FragmentsOf(s, key)
      <3>1. Nothing \notin CallPart
        BY DEF Nothing, CallPart
      <3> QED
        BY <1>8, <2>1, <3>1
    <2>3. ArgumentsAt(s, key, k) = <<x.data>>
      BY <1>8, <2>1, <2>2 DEF ArgumentsAt, ArgumentsIn
    <2>4. Join(Append(a, x)) = Append(old, x.data)
      BY <1>11, <1>14, <2>1, JoinOfAppend
    <2>5. Append(old, x.data) = old \o <<x.data>>
      BY <1>13, <2>1, AppendIsConcat
    <2> QED
      BY <1>12, <1>13, <1>15, <1>16, <2>3, <2>4, <2>5
  <1>17. CASE x \notin WithArguments
    <2>1. ArgumentsAt(s, key, k) = <<>>
      <3>1. CASE k \in FragmentsOf(s, key)
        <4>1. s[k] \in Chunk /\ s[k].part.kind = "call"
          BY <3>1 DEF FragmentsOf
        <4>2. x \in CallPart /\ x = s[k].part
          BY <1>8, <3>1, <4>1, ChunkFacts
        <4>3. x.data = "none"
          BY <1>17, <4>2 DEF WithArguments
        <4> QED
          BY <3>1, <4>2, <4>3 DEF ArgumentsAt, ArgumentsIn
      <3>2. CASE k \notin FragmentsOf(s, key)
        BY <3>2 DEF ArgumentsAt
      <3> QED
        BY <3>1, <3>2
    <2>2. old \o <<>> = old
      BY <1>13
    <2> QED
      BY <1>12, <1>13, <1>14, <1>15, <1>17, <2>1, <2>2
  <1> QED
    BY <1>16, <1>17

\* No frames, no arguments.
LEMMA NoArgumentsYet ==
    ASSUME NEW s, NEW key
    PROVE  ArgumentsUpTo(s, key, 0) = <<>>
  <1>1. PartsUpTo(s, key, 0) = <<>>
    BY DEF PartsUpTo
  <1>2. Join(<<>>) = <<>>
    BY DEF Join
  <1> QED
    BY <1>1, <1>2, KeptOfNothing, ArgumentsUpToIs

\* The text that one chunk carries.
TextIn(chunk, kind) ==
    IF chunk.part \in TextPart /\ chunk.part.kind = kind THEN <<chunk.part.data>> ELSE <<>>

\* A chunk adds its text.
LEMMA TextOfAppend ==
    ASSUME NEW c \in Seq(Chunk), NEW x \in Chunk, NEW kind
    PROVE  /\ TextOf(c, kind) \in Seq(Data)
           /\ TextOf(Append(c, x), kind) = TextOf(c, kind) \o TextIn(x, kind)
  <1>1. PICK B : B = {Nothing} \cup TextPart \cup CallPart
    OBVIOUS
  <1>2. PICK S : S = {part \in TextPart : part.kind = kind}
    OBVIOUS
  <1>3. PICK f : f = [i \in DOMAIN c |-> c[i].part]
    OBVIOUS
  <1>4. PICK l : l = Append(c, x)
    OBVIOUS
  <1>5. PICK h : h = [i \in DOMAIN l |-> l[i].part]
    OBVIOUS
  <1>6. /\ l \in Seq(Chunk) /\ Len(l) = Len(c) + 1 /\ l[Len(c) + 1] = x /\ Len(c) \in Nat
        /\ DOMAIN l = 1 .. Len(c) + 1 /\ DOMAIN c = 1 .. Len(c)
        /\ \A i \in 1 .. Len(c) : l[i] = c[i]
    BY <1>4
  <1>7. PICK y : y = x.part
    OBVIOUS
  <1>8. y \in B /\ \A z \in Chunk : z.part \in B
    BY <1>1, <1>7, ChunkFacts
  <1>9. f \in Seq(B) /\ Len(f) = Len(c)
    <2>1. f \in [1 .. Len(c) -> B]
      BY <1>3, <1>6, <1>8
    <2> QED
      BY <1>6, <2>1, IsASequence
  <1>10. h \in Seq(B) /\ Len(h) = Len(c) + 1
    <2>1. \A i \in 1 .. Len(c) + 1 : l[i] \in Chunk
      BY <1>6
    <2>2. h \in [1 .. Len(c) + 1 -> B]
      BY <1>5, <1>6, <1>8, <2>1
    <2> QED
      BY <1>6, <2>2, IsASequence
  <1>11. h = Append(f, y)
    <2>1. PICK a : a = Append(f, y)
      OBVIOUS
    <2>2. /\ a \in Seq(B) /\ Len(a) = Len(c) + 1 /\ a[Len(c) + 1] = y
          /\ \A i \in 1 .. Len(c) : a[i] = f[i]
      BY <1>8, <1>9, <2>1
    <2>3. ASSUME NEW i \in 1 .. Len(c) + 1 PROVE h[i] = a[i]
      <3>1. h[i] = l[i].part
        BY <1>5, <1>6
      <3>2. CASE i = Len(c) + 1
        BY <1>6, <1>7, <2>2, <3>1, <3>2
      <3>3. CASE i \in 1 .. Len(c)
        <4>1. f[i] = c[i].part
          BY <1>3, <1>6, <3>3
        <4> QED
          BY <1>6, <2>2, <3>1, <3>3, <4>1
      <3> QED
        BY <1>6, <3>2, <3>3
    <2> QED
      BY <1>10, <2>1, <2>2, <2>3, SeqEqual
  <1>12. PICK a : a = Kept(f, S)
    OBVIOUS
  <1>13. a \in Seq(TextPart)
    <2>1. a \in Seq(B \cap S)
      BY <1>9, <1>12, KeptIsTyped
    <2>2. B \cap S \subseteq TextPart
      BY <1>2
    <2> QED
      BY <2>1, <2>2
  <1>14. PICK old : old = Join(a)
    OBVIOUS
  <1>15. old \in Seq(Data)
    <2>1. \A p \in TextPart : p.data \in Data
      BY DEF TextPart
    <2> QED
      BY <1>13, <1>14, <2>1 DEF Join
  <1>16. TextOf(c, kind) = old /\ TextOf(l, kind) = Join(Kept(h, S))
    BY <1>2, <1>3, <1>5, <1>12, <1>14 DEF TextOf
  <1>17. Kept(h, S) = IF y \in S THEN Append(a, y) ELSE a
    BY <1>8, <1>9, <1>11, <1>12, KeptOfAppend
  <1>18. CASE y \in S
    <2>1. y \in TextPart /\ y.kind = kind /\ y.data \in Data
      BY <1>2, <1>18 DEF TextPart
    <2>2. Join(Append(a, y)) = Append(old, y.data)
      BY <1>13, <1>14, <2>1, JoinOfAppend
    <2>3. Append(old, y.data) = old \o <<y.data>>
      BY <1>15, <2>1, AppendIsConcat
    <2>4. TextIn(x, kind) = <<y.data>>
      BY <1>7, <2>1 DEF TextIn
    <2> QED
      BY <1>4, <1>15, <1>16, <1>17, <1>18, <2>2, <2>3, <2>4
  <1>19. CASE y \notin S
    <2>1. TextIn(x, kind) = <<>>
      BY <1>2, <1>7, <1>19 DEF TextIn
    <2>2. old \o <<>> = old
      BY <1>15
    <2> QED
      BY <1>4, <1>14, <1>15, <1>16, <1>17, <1>19, <2>1, <2>2
  <1> QED
    BY <1>18, <1>19

\* A frame adds its text to that of the frames before it.
LEMMA TextGrows ==
    ASSUME NEW s \in Seq(Chunk), NEW k \in 1 .. Len(s), NEW kind
    PROVE  TextOf(SubSeq(s, 1, k), kind)
              = TextOf(SubSeq(s, 1, k - 1), kind) \o TextIn(s[k], kind)
  <1>1. PICK c : c = SubSeq(s, 1, k - 1)
    OBVIOUS
  <1>2. c \in Seq(Chunk) /\ s[k] \in Chunk
    BY <1>1
  <1>3. PICK x : x = s[k]
    OBVIOUS
  <1>4. SubSeq(s, 1, k) = Append(c, x)
    BY <1>1, <1>3
  <1>5. TextOf(Append(c, x), kind) = TextOf(c, kind) \o TextIn(x, kind)
    BY <1>2, <1>3, TextOfAppend
  <1> QED
    BY <1>1, <1>3, <1>4, <1>5

-----------------------------------------------------------------------------
(* The text among the events *)

TextEvents(kind) == {e \in Event : e.kind = kind}
Written(events, kind) == Join(Kept(events, TextEvents(kind)))

\* Written is what AssistantContent and PrivateReasoning join.
LEMMA WrittenIs ==
    ASSUME NEW events, NEW kind
    PROVE  Join(OfKind(events, {kind})) = Written(events, kind)
  <1>1. {e \in Event : e.kind \in {kind}} = TextEvents(kind)
    BY DEF TextEvents
  <1> QED
    BY <1>1 DEF OfKind, Written

\* The text goes through a concatenation.
LEMMA WrittenOfConcat ==
    ASSUME NEW kind \in {"text", "reasoning"}, NEW s \in Seq(Event), NEW t \in Seq(Event)
    PROVE  /\ Written(s, kind) \in Seq(Data)
           /\ Written(s \o t, kind) = Written(s, kind) \o Written(t, kind)
  <1> DEFINE S == TextEvents(kind)
  <1>1. Kept(s \o t, S) = Kept(s, S) \o Kept(t, S)
    BY KeptOfConcat
  <1>2. PICK B : B = Event \cap S
    OBVIOUS
  <1>3. Kept(s, S) \in Seq(B) /\ Kept(t, S) \in Seq(B)
    BY <1>2, KeptIsTyped
  <1>4. Join(Kept(s, S) \o Kept(t, S)) = Join(Kept(s, S)) \o Join(Kept(t, S))
    BY <1>3, JoinOfConcat
  <1>5. \A e \in B : e.data \in Data
    BY <1>2, KindOfEvent DEF TextEvents
  <1>6. PICK a : a = Kept(s, S)
    OBVIOUS
  <1>7. Join(a) \in Seq(Data)
    BY <1>3, <1>5, <1>6, JoinIsData
  <1> QED
    BY <1>1, <1>4, <1>6, <1>7 DEF Written

\* Events of other kinds add no text.
LEMMA NoText ==
    ASSUME NEW kind \in {"text", "reasoning"}, NEW s \in Seq(Event), NEW t \in Seq(Event),
           \A n \in DOMAIN t : t[n].kind # kind
    PROVE  Written(s \o t, kind) = Written(s, kind)
  <1>1. PICK A : A = {e \in Event : e.kind # kind}
    OBVIOUS
  <1>2. t \in Seq(A)
    BY <1>1
  <1>3. \A e \in A : e \notin TextEvents(kind)
    BY <1>1 DEF TextEvents
  <1>4. Kept(t, TextEvents(kind)) = <<>>
    BY <1>2, <1>3, NoneKept
  <1>5. Written(t, kind) = <<>>
    BY <1>4 DEF Written, Join
  <1>6. PICK a : a = Written(s, kind)
    OBVIOUS
  <1>7. a \in Seq(Data)
    BY <1>6, WrittenOfConcat
  <1>8. a \o <<>> = a
    BY <1>7
  <1> QED
    BY <1>5, <1>6, <1>8, WrittenOfConcat

\* A text event adds its text.
LEMMA OneText ==
    ASSUME NEW kind \in {"text", "reasoning"}, NEW data \in Data
    PROVE  Written(<<Delta(kind, data)>>, kind) = <<data>>
  <1>1. PICK e : e = Delta(kind, data)
    OBVIOUS
  <1>2. e \in TextEvents(kind) /\ e.data = data
    BY <1>1, EventFacts DEF TextEvents
  <1>3. PICK t : t = <<e>>
    OBVIOUS
  <1>4. t \in Seq(TextEvents(kind))
    BY <1>2, <1>3, AtMostOne
  <1>5. Kept(t, TextEvents(kind)) = t
    BY <1>4, AllKept
  <1>6. Join(t) = <<data>>
    BY <1>2, <1>3 DEF Join
  <1> QED
    BY <1>1, <1>3, <1>5, <1>6 DEF Written

-----------------------------------------------------------------------------
(* Completing a call *)

\* A call completed at its index, and what came with it.
IsCompleted(b, c) == b = [c EXCEPT !.completed = TRUE]

\* Between two chunks nothing is left to start or to emit.
LEMMA TidyCallIsEmitted ==
    ASSUME NEW d, NEW i, NEW key, AtIndex(d, i, key), Tidy(d.calls[i])
    PROVE  EmitPendingArgumentDeltas(StartToolCallIfReady(d, i), i) = d
  <1>1. PICK c : c = d.calls[i]
    OBVIOUS
  <1>2. /\ d \in Decoders /\ c \in CallState /\ i \in DOMAIN d.calls
        /\ d.calls \in Seq(CallState) /\ d.events \in Seq(Event)
    BY <1>1, CallIsTyped
  <1>3. StartToolCallIfReady(d, i) = d
    BY <1>1 DEF StartToolCallIfReady, Tidy
  <1>4. CASE ~c.started
    BY <1>1, <1>3, <1>4 DEF EmitPendingArgumentDeltas
  <1>5. CASE c.started
    <2>1. c.emitted = Len(c.raw) /\ c.raw \in Seq(Data) /\ Len(c.raw) \in Nat
      BY <1>1, <1>2, <1>5 DEF Tidy, CallState
    <2>2. PICK b : b = [c EXCEPT !.emitted = Len(c.raw)]
      OBVIOUS
    <2>3. b = c
      BY <1>2, <2>1, <2>2 DEF CallState
    <2>4. PICK f : Sets(f, d, i, b)
      BY DEF Sets
    <2>5. f = d
      <3>1. PICK q : q = [d.calls EXCEPT ![i] = b]
        OBVIOUS
      <3>2. q = d.calls
        BY <1>1, <1>2, <2>3, <3>1
      <3>3. f = [d EXCEPT !.calls = q]
        BY <2>4, <3>1 DEF Sets
      <3> QED
        BY <1>2, <3>2, <3>3 DEF Decoders
    <2>6. PICK p : p = [j \in 1 .. Len(c.raw) - c.emitted |->
                           Argument(c.key, c.raw[c.emitted + j])]
      OBVIOUS
    <2>7. p = <<>>
      <3>1. Len(c.raw) - c.emitted = 0
        BY <2>1
      <3>2. 1 .. 0 = {}
        OBVIOUS
      <3> QED
        BY <2>6, <3>1, <3>2
    <2>8. Emit(d, <<>>) = d
      <3>1. PICK q : q = d.events \o <<>>
        OBVIOUS
      <3>2. q = d.events
        BY <1>2, <3>1
      <3>3. Emit(d, <<>>) = [d EXCEPT !.events = q]
        BY <3>1 DEF Emit
      <3> QED
        BY <1>2, <3>2, <3>3 DEF Decoders
    <2>9. f = [d EXCEPT !.calls[i].emitted = Len(c.raw)]
      BY <1>1, <2>2, <2>4 DEF Sets
    <2>10. EmitPendingArgumentDeltas(d, i) = Emit(f, p)
      BY <1>1, <1>5, <2>6, <2>9 DEF EmitPendingArgumentDeltas
    <2> QED
      BY <1>3, <2>5, <2>7, <2>8, <2>10
  <1> QED
    BY <1>4, <1>5

\* What the completion of a call makes of the decoder.
CallCompleted(d, e, i, key) ==
    /\ AtIndex(e, i, key) /\ e.reason = d.reason
    /\ DOMAIN e.calls = DOMAIN d.calls
    /\ \A j \in DOMAIN d.calls : e.calls[j].key = d.calls[j].key
    /\ IF d.calls[i].named /\ ~d.calls[i].completed
       THEN CompleteGrowth(d, e, key, Completed(key, CallOf(d, key).raw))
       ELSE e = d

\* CompleteCall: a call that is named and not complete is completed, once.
LEMMA CompleteCallFacts ==
    ASSUME NEW d, NEW i, NEW key, AtIndex(d, i, key), Tidy(d.calls[i]),
           NEW e, e = CompleteCall(d, i)
    PROVE  CallCompleted(d, e, i, key)
  <1>1. PICK c : c = d.calls[i]
    OBVIOUS
  <1>2. /\ d \in Decoders /\ c \in CallState /\ c.key = key /\ key \in Keys
        /\ i \in DOMAIN d.calls /\ d.calls \in Seq(CallState) /\ d.events \in Seq(Event)
    BY <1>1, CallIsTyped
  <1>3. EmitPendingArgumentDeltas(StartToolCallIfReady(d, i), i) = d
    BY TidyCallIsEmitted
  <1>4. c.started <=> c.named
    BY <1>1 DEF Tidy
  <1>5. CASE ~c.named \/ c.completed
    <2>1. e = d
      BY <1>1, <1>3, <1>4, <1>5 DEF CompleteCall
    <2> QED
      BY <1>1, <1>5, <2>1 DEF CallCompleted
  <1>6. CASE c.named /\ ~c.completed
    <2>1. PICK b : IsCompleted(b, c)
      BY DEF IsCompleted
    <2>2. /\ b \in CallState /\ b.key = key /\ b.named /\ b.started /\ b.completed
          /\ b.raw = c.raw /\ b.emitted = c.emitted
      BY <1>2, <1>4, <1>6, <2>1 DEF IsCompleted, CallState
    <2>3. PICK f : Sets(f, d, i, b)
      BY DEF Sets
    <2>4. /\ AtIndex(f, i, key) /\ f.calls[i] = b /\ Others(d, f, key)
          /\ f.events = d.events /\ f.reason = d.reason
      BY <2>2, <2>3, SetCall
    <2>5. PICK x : x = Completed(key, c.raw)
      OBVIOUS
    <2>6. x \in Event /\ x.kind = "completed" /\ x.key = key /\ x.raw = c.raw
      <3>1. c.raw \in Seq(Data)
        BY <1>2 DEF CallState
      <3> QED
        BY <1>2, <2>5, <3>1, EventFacts
    <2>7. PICK p : p = <<x>>
      OBVIOUS
    <2>8. Emits(e, f, p)
      <3>1. f = [d EXCEPT !.calls[i].completed = TRUE]
        BY <1>1, <2>1, <2>3 DEF IsCompleted, Sets
      <3>2. CompleteCall(d, i) = Emit(f, p)
        BY <1>1, <1>2, <1>3, <1>4, <1>6, <2>5, <2>7, <3>1 DEF CompleteCall
      <3> QED
        BY <3>2 DEF Emits
    <2>9. p \in Seq(Event)
      BY <2>6, <2>7, AtMostOne
    <2>10. AtIndex(e, i, key) /\ e.calls[i] = f.calls[i] /\ Others(f, e, key)
      BY <2>4, <2>8, <2>9, EmitAtIndex
    <2>11. e.reason = f.reason
      BY <2>4, <2>8, <2>9, EmitAtIndex
    <2>12. e.events = f.events \o p
      <3>1. f \in Decoders
        BY <2>4 DEF AtIndex
      <3> QED
        BY <2>8, <2>9, <3>1, EmitFacts
    <2>13. e.calls = f.calls
      <3>1. f \in Decoders
        BY <2>4 DEF AtIndex
      <3> QED
        BY <2>8, <2>9, <3>1, EmitFacts
    <2>14. DOMAIN e.calls = DOMAIN d.calls /\ \A j \in DOMAIN d.calls : e.calls[j].key = d.calls[j].key
      <3>1. PICK q : q = [d.calls EXCEPT ![i] = b]
        OBVIOUS
      <3>2. f = [d EXCEPT !.calls = q]
        BY <2>3, <3>1 DEF Sets
      <3>3. f.calls = q
        BY <1>2, <3>2 DEF Decoders
      <3>4. /\ DOMAIN q = DOMAIN d.calls /\ q[i] = b
            /\ \A j \in DOMAIN d.calls : j # i => q[j] = d.calls[j]
        BY <1>2, <3>1
      <3> QED
        BY <1>1, <1>2, <2>2, <2>13, <3>3, <3>4
    <2>15. CallOf(d, key) = c /\ CallOf(e, key) = b
      BY <1>1, <2>4, <2>10, CallAtIndex
    <2>16. Others(d, e, key)
      BY <2>4, <2>10 DEF Others
    <2>17. e \in Decoders /\ OneCallPerKey(e)
      BY <2>10 DEF AtIndex
    <2>18. CompleteGrowth(d, e, key, x)
      BY <1>6, <2>2, <2>4, <2>6, <2>7, <2>12, <2>15, <2>16, <2>17 DEF CompleteGrowth
    <2>19. x = Completed(key, CallOf(d, key).raw)
      BY <2>5, <2>15
    <2> QED
      BY <1>1, <1>6, <2>4, <2>10, <2>11, <2>14, <2>18, <2>19 DEF CallCompleted
  <1> QED
    BY <1>5, <1>6

-----------------------------------------------------------------------------
(* The calls of a choice, one after the other *)

CompleteNext(e, i, choice) ==
    IF e.calls[i].key[1] = choice THEN CompleteCall(e, i) ELSE e

\* The decoders with the calls of d, in their places.
WithCallsOf(d) ==
    {e \in Decoders : /\ DecoderOK(e) /\ DOMAIN e.calls = DOMAIN d.calls
                      /\ \A j \in DOMAIN d.calls : e.calls[j].key = d.calls[j].key}

\* The next call of the fold of CompleteChoiceToolCalls.
LEMMA CallsStayInPlace ==
    ASSUME NEW d, NEW e \in WithCallsOf(d), NEW i \in DOMAIN d.calls, NEW choice,
           NEW g, g = CompleteNext(e, i, choice)
    PROVE  /\ AtIndex(e, i, d.calls[i].key) /\ d.calls[i].key \in Keys
           /\ g \in WithCallsOf(d)
           /\ g.reason = e.reason
           /\ IF d.calls[i].key[1] = choice
              THEN CallCompleted(e, g, i, d.calls[i].key)
              ELSE g = e
  <1>1. PICK key : key = d.calls[i].key
    OBVIOUS
  <1>2. /\ e \in Decoders /\ DecoderOK(e) /\ OneCallPerKey(e) /\ DOMAIN e.calls = DOMAIN d.calls
        /\ \A j \in DOMAIN d.calls : e.calls[j].key = d.calls[j].key
    BY DEF WithCallsOf, DecoderOK
  <1>3. AtIndex(e, i, key)
    BY <1>1, <1>2 DEF AtIndex
  <1>4. key \in Keys /\ CallOf(e, key) = e.calls[i]
    BY <1>3, CallIsTyped, CallAtIndex
  <1>5. CASE key[1] = choice
    <2>1. g = CompleteCall(e, i)
      BY <1>1, <1>2, <1>5 DEF CompleteNext
    <2>2. Tidy(e.calls[i])
      BY <1>2, <1>4 DEF DecoderOK
    <2>3. CallCompleted(e, g, i, key)
      BY <1>3, <2>1, <2>2, CompleteCallFacts
    <2>4. DecoderOK(g)
      <3>1. CASE g = e
        BY <1>2, <3>1
      <3>2. CASE g # e
        <4>1. PICK x : CompleteGrowth(e, g, key, x)
          BY <2>3, <3>2 DEF CallCompleted
        <4> QED
          BY <1>2, <1>4, <4>1, CompleteGrowthIsFine
      <3> QED
        BY <3>1, <3>2
    <2>5. /\ g.reason = e.reason /\ DOMAIN g.calls = DOMAIN e.calls
          /\ \A j \in DOMAIN e.calls : g.calls[j].key = e.calls[j].key
      BY <2>3 DEF CallCompleted
    <2>6. g \in Decoders
      BY <2>4 DEF DecoderOK
    <2>7. g \in WithCallsOf(d)
      BY <1>2, <2>4, <2>5, <2>6 DEF WithCallsOf
    <2> QED
      BY <1>1, <1>3, <1>4, <1>5, <2>3, <2>5, <2>7
  <1>6. CASE key[1] # choice
    <2>1. g = e
      BY <1>1, <1>2, <1>6 DEF CompleteNext
    <2> QED
      BY <1>1, <1>3, <1>4, <1>6, <2>1
  <1> QED
    BY <1>5, <1>6

\* The decoder after each of its calls.
LEMMA CompletionIsFollowed ==
    ASSUME NEW d, DecoderOK(d), NEW choice
    PROVE  \E g : /\ g[0] = d
                  /\ \A k \in 1 .. Len(d.calls) : /\ g[k - 1] \in WithCallsOf(d)
                                                  /\ g[k] = CompleteNext(g[k - 1], k, choice)
                  /\ g[Len(d.calls)] = CompleteChoiceToolCalls(d, choice)
  <1> DEFINE n == Len(d.calls)
             B == WithCallsOf(d)
             F == [p \in (1 .. n) \X B |-> CompleteNext(p[2], p[1], choice)]
             q == [i \in DOMAIN d.calls |-> i]
             Is(it) == it = [t \in SUBSET (DOMAIN q) |-> IF t = {} THEN d
                              ELSE IF it[t \ {Max(t)}].calls[q[Max(t)]].key[1] = choice
                                   THEN CompleteCall(it[t \ {Max(t)}], q[Max(t)])
                                   ELSE it[t \ {Max(t)}]]
             c == CHOOSE it : Is(it)
  <1>0. d \in Decoders /\ d.calls \in Seq(CallState)
    BY DEF DecoderOK, Decoders
  <1>1. n \in Nat /\ DOMAIN d.calls = 1 .. n
    BY <1>0
  <1>2. d \in B
    BY <1>0 DEF WithCallsOf
  <1>3. \A k \in 1 .. n, a \in B :
           F[<<k, a>>] = CompleteNext(a, k, choice) /\ F[<<k, a>>] \in B
    <2>1. SUFFICES ASSUME NEW k \in 1 .. n, NEW a \in B
                   PROVE  F[<<k, a>>] = CompleteNext(a, k, choice) /\ F[<<k, a>>] \in B
      OBVIOUS
    <2>2. F[<<k, a>>] = CompleteNext(a, k, choice)
      OBVIOUS
    <2>3. CompleteNext(a, k, choice) \in B
      BY <1>1, CallsStayInPlace
    <2> QED
      BY <2>2, <2>3
  <1>4. CompleteChoiceToolCalls(d, choice) = c[1 .. n]
    <2>1. CompleteChoiceToolCalls(d, choice) = c[DOMAIN q]
      BY DEF CompleteChoiceToolCalls, FoldLeft, MapThenFoldSet
    <2>2. DOMAIN q = 1 .. n
      BY <1>1
    <2> QED
      BY <2>1, <2>2
  <1>4a. DOMAIN q = 1 .. n /\ \A i \in 1 .. n : q[i] = i
    BY <1>1
  <1> HIDE DEF F, n, B, q
  <1>5. Closed(F, n, B)
    BY <1>3 DEF Closed
  <1>6. PICK it : FoldBy(it, F, n, B, d)
    BY <1>1, <1>2, <1>5, FoldExists
  <1>7. Is(it)
    <2>1. ASSUME NEW t \in SUBSET (1 .. n), t # {}
          PROVE  F[<<Max(t), it[t \ {Max(t)}]>>] = CompleteNext(it[t \ {Max(t)}], Max(t), choice)
      <3>1. it[t \ {Max(t)}] \in B
        BY <1>6 DEF FoldBy
      <3>2. Max(t) \in 1 .. n
        BY <1>1, <2>1, MaxIsThere
      <3> QED
        BY <1>3, <3>1, <3>2
    <2>2. ASSUME NEW t \in SUBSET (1 .. n), t # {}
          PROVE  it[t] = IF it[t \ {Max(t)}].calls[q[Max(t)]].key[1] = choice
                         THEN CompleteCall(it[t \ {Max(t)}], q[Max(t)])
                         ELSE it[t \ {Max(t)}]
      <3>1. q[Max(t)] = Max(t)
        BY <1>1, <1>4a, <2>2, MaxIsThere
      <3>2. it[t] = F[<<Max(t), it[t \ {Max(t)}]>>]
        BY <1>6, <2>2 DEF FoldBy
      <3>3. it[t] = CompleteNext(it[t \ {Max(t)}], Max(t), choice)
        BY <2>1, <2>2, <3>2
      <3> QED
        BY <3>1, <3>3 DEF CompleteNext
    <2> QED
      BY <1>4a, <1>6, <2>2 DEF FoldBy
  <1>8. Is(c)
    BY <1>7
  <1> HIDE DEF c
  <1>9. c[{}] = d
    BY <1>4a, <1>8, {} \in SUBSET (1 .. n)
  <1>10. ASSUME NEW k \in 1 .. n, c[1 .. k - 1] \in B
         PROVE  c[1 .. k] = F[<<k, c[1 .. k - 1]>>]
    <2>1. /\ 1 .. k \in SUBSET (1 .. n) /\ 1 .. k # {} /\ Max(1 .. k) = k
          /\ (1 .. k) \ {k} = 1 .. k - 1
      BY <1>1, WholeInterval
    <2>2. c[1 .. k] = CompleteNext(c[1 .. k - 1], k, choice)
      <3>1. q[Max(1 .. k)] = k
        BY <1>4a, <2>1
      <3>2. c[1 .. k] = IF c[(1 .. k) \ {Max(1 .. k)}].calls[q[Max(1 .. k)]].key[1] = choice
                        THEN CompleteCall(c[(1 .. k) \ {Max(1 .. k)}], q[Max(1 .. k)])
                        ELSE c[(1 .. k) \ {Max(1 .. k)}]
        BY <1>4a, <1>8, <2>1
      <3> QED
        BY <2>1, <3>1, <3>2 DEF CompleteNext
    <2> QED
      BY <1>3, <1>10, <2>2
  <1>11. PICK g : Follows(g, F, n, B, d) /\ g[n] = c[1 .. n]
    BY <1>1, <1>2, <1>5, <1>9, <1>10, FoldIsFollowed
  <1>12. ASSUME NEW k \in 1 .. n
         PROVE  g[k - 1] \in B /\ g[k] = CompleteNext(g[k - 1], k, choice)
    <2>1. g[k - 1] \in B /\ g[k] = F[<<k, g[k - 1]>>]
      BY <1>1, <1>11 DEF Follows
    <2> QED
      BY <1>3, <2>1
  <1>13. g[0] = d
    BY <1>11 DEF Follows
  <1> QED
    BY <1>4, <1>11, <1>12, <1>13 DEF n, B

Reached(d, choice, k, key) ==
    key[1] = choice /\ \E i \in DOMAIN d.calls : i <= k /\ d.calls[i].key = key

\* The events that complete what was named and not complete before.
Completions(d, choice) ==
    {e \in Event : /\ e.kind = "completed" /\ e.key[1] = choice
                   /\ CallOf(d, e.key).named /\ ~CallOf(d, e.key).completed
                   /\ e.raw = CallOf(d, e.key).raw}

Completing(d, g, choice, k) ==
    /\ g \in WithCallsOf(d) /\ g.reason = d.reason
    /\ \A key \in Keys :
          /\ CallOf(g, key).named <=> CallOf(d, key).named
          /\ CallOf(g, key).raw = CallOf(d, key).raw
          /\ CallOf(g, key).completed <=>
                CallOf(d, key).completed \/ (CallOf(d, key).named /\ Reached(d, choice, k, key))
    /\ \E p \in Seq(Completions(d, choice)) : g.events = d.events \o p

\* Before the first call nothing is completed.
LEMMA CompletingStarts ==
    ASSUME NEW d, DecoderOK(d), NEW choice
    PROVE  Completing(d, d, choice, 0)
  <1>1. d \in Decoders /\ d.events \in Seq(Event) /\ d.calls \in Seq(CallState)
    BY DEF DecoderOK, Decoders
  <1>2. d \in WithCallsOf(d)
    BY <1>1 DEF WithCallsOf
  <1>3. \A key : ~Reached(d, choice, 0, key)
    BY <1>1 DEF Reached
  <1>4. d.events \o <<>> = d.events /\ <<>> \in Seq(Completions(d, choice))
    BY <1>1
  <1> QED
    BY <1>2, <1>3, <1>4 DEF Completing

\* One call more.
LEMMA CompletingGoesOn ==
    ASSUME NEW d, DecoderOK(d), NEW choice, NEW k \in Nat, k + 1 \in DOMAIN d.calls,
           NEW e, Completing(d, e, choice, k), NEW g, g = CompleteNext(e, k + 1, choice)
    PROVE  Completing(d, g, choice, k + 1)
  <1>1. PICK i : i = k + 1
    OBVIOUS
  <1>2. PICK key : key = d.calls[i].key
    OBVIOUS
  <1>3. e \in WithCallsOf(d) /\ i \in DOMAIN d.calls /\ g = CompleteNext(e, i, choice)
    BY <1>1 DEF Completing
  <1>4. /\ AtIndex(e, i, key) /\ key \in Keys /\ g \in WithCallsOf(d) /\ g.reason = e.reason
        /\ IF key[1] = choice THEN CallCompleted(e, g, i, key) ELSE g = e
    BY <1>2, <1>3, CallsStayInPlace
  <1>5. e.calls[i] = CallOf(e, key)
    BY <1>4, CallAtIndex
  <1>6. ASSUME NEW q \in Keys
        PROVE  /\ CallOf(e, q).named <=> CallOf(d, q).named
               /\ CallOf(e, q).raw = CallOf(d, q).raw
               /\ CallOf(e, q).completed <=>
                     CallOf(d, q).completed \/ (CallOf(d, q).named /\ Reached(d, choice, k, q))
    BY DEF Completing
  <1>7. ASSUME NEW q \in Keys
        PROVE  Reached(d, choice, i, q) <=>
                  Reached(d, choice, k, q) \/ (q = key /\ key[1] = choice)
    <2>1. DOMAIN d.calls \subseteq Nat
      <3>1. d.calls \in Seq(CallState)
        BY DEF DecoderOK, Decoders
      <3> QED
        BY <3>1
    <2>2. \A j \in DOMAIN d.calls : j <= i <=> j <= k \/ j = i
      BY <1>1, <2>1
    <2> QED
      BY <1>2, <1>3, <2>2 DEF Reached
  <1>8. PICK p : p \in Seq(Completions(d, choice)) /\ e.events = d.events \o p
    BY DEF Completing
  <1>9. g.reason = d.reason
    BY <1>4 DEF Completing
  <1>10. CASE g = e /\ ~(key[1] = choice /\ CallOf(e, key).named /\ ~CallOf(e, key).completed)
    <2>1. ASSUME NEW q \in Keys
          PROVE  CallOf(g, q).completed <=>
                    CallOf(d, q).completed \/ (CallOf(d, q).named /\ Reached(d, choice, i, q))
      <3>1. CASE q = key /\ key[1] = choice
        BY <1>6, <1>7, <1>10, <3>1
      <3>2. CASE ~(q = key /\ key[1] = choice)
        BY <1>6, <1>7, <1>10, <3>2
      <3> QED
        BY <3>1, <3>2
    <2>2. Completing(d, g, choice, i)
      BY <1>4, <1>6, <1>8, <1>9, <1>10, <2>1 DEF Completing
    <2> QED
      BY <1>1, <2>2
  <1>11. CASE key[1] = choice /\ CallOf(e, key).named /\ ~CallOf(e, key).completed
    <2>1. PICK x : x = Completed(key, CallOf(e, key).raw)
      OBVIOUS
    <2>2. CompleteGrowth(e, g, key, x)
      BY <1>4, <1>5, <1>11, <2>1 DEF CallCompleted
    <2>3. x \in Completions(d, choice)
      BY <1>4, <1>6, <1>11, <2>2 DEF Completions, CompleteGrowth
    <2>4. PICK r : r = Append(p, x)
      OBVIOUS
    <2>5. r \in Seq(Completions(d, choice))
      BY <1>8, <2>3, <2>4
    <2>6. g.events = d.events \o r
      <3>1. PICK s : s = d.events
        OBVIOUS
      <3>2. s \in Seq(Event) /\ p \in Seq(Event) /\ x \in Event
        <4>1. Completions(d, choice) \subseteq Event
          BY DEF Completions
        <4> QED
          BY <1>8, <2>3, <3>1, <4>1 DEF DecoderOK, Decoders
      <3>3. s \o Append(p, x) = Append(s \o p, x)
        BY <3>2, ConcatOfAppend
      <3>4. s \o p \in Seq(Event)
        BY <3>2, ConcatFacts
      <3>5. PICK t : t = s \o p
        OBVIOUS
      <3>6. Append(t, x) = t \o <<x>>
        BY <3>2, <3>4, <3>5
      <3>7. g.events = e.events \o <<x>>
        BY <2>2 DEF CompleteGrowth
      <3> QED
        BY <1>8, <2>4, <3>1, <3>3, <3>5, <3>6, <3>7
    <2>7. ASSUME NEW q \in Keys
          PROVE  /\ CallOf(g, q).named <=> CallOf(d, q).named
                 /\ CallOf(g, q).raw = CallOf(d, q).raw
                 /\ CallOf(g, q).completed <=>
                       CallOf(d, q).completed \/ (CallOf(d, q).named /\ Reached(d, choice, i, q))
      <3>1. CASE q = key
        BY <1>6, <1>7, <1>11, <2>2, <3>1 DEF CompleteGrowth
      <3>2. CASE q # key
        <4>1. CallOf(g, q) = CallOf(e, q)
          BY <2>2, <3>2 DEF CompleteGrowth, Others
        <4> QED
          BY <1>6, <1>7, <3>2, <4>1
      <3> QED
        BY <3>1, <3>2
    <2>8. Completing(d, g, choice, i)
      BY <1>4, <1>9, <2>5, <2>6, <2>7 DEF Completing
    <2> QED
      BY <1>1, <2>8
  <1> QED
    BY <1>4, <1>5, <1>10, <1>11 DEF CallCompleted

\* What the finish of a choice makes of the decoder.
ChoiceCompleted(d, g, choice) ==
    /\ DecoderOK(g) /\ g.reason = d.reason
    /\ \A key \in Keys :
          /\ CallOf(g, key).named <=> CallOf(d, key).named
          /\ CallOf(g, key).raw = CallOf(d, key).raw
          /\ CallOf(g, key).completed <=>
                CallOf(d, key).completed \/ (CallOf(d, key).named /\ key[1] = choice)
    /\ \E p \in Seq(Completions(d, choice)) : g.events = d.events \o p

\* CompleteChoiceToolCalls: the calls of the choice that are named.
LEMMA CompleteChoiceFacts ==
    ASSUME NEW d, DecoderOK(d), NEW choice, NEW e, e = CompleteChoiceToolCalls(d, choice)
    PROVE  ChoiceCompleted(d, e, choice)
  <1>1. PICK g : /\ g[0] = d
                 /\ \A k \in 1 .. Len(d.calls) : /\ g[k - 1] \in WithCallsOf(d)
                                                 /\ g[k] = CompleteNext(g[k - 1], k, choice)
                 /\ g[Len(d.calls)] = CompleteChoiceToolCalls(d, choice)
    BY CompletionIsFollowed
  <1>2. PICK n : n = Len(d.calls)
    OBVIOUS
  <1>3. n \in Nat /\ DOMAIN d.calls = 1 .. n
    BY <1>2 DEF DecoderOK, Decoders
  <1> DEFINE S == {k \in 0 .. n : Completing(d, g[k], choice, k)}
  <1>4. 0 \in S
    BY <1>1, <1>3, CompletingStarts
  <1>5. ASSUME NEW k \in 0 .. n - 1, k \in S PROVE k + 1 \in S
    <2>1. /\ k \in Nat /\ k + 1 \in 1 .. n /\ k + 1 \in DOMAIN d.calls /\ (k + 1) - 1 = k
          /\ k + 1 \in 0 .. n
      BY <1>3
    <2>2. g[k + 1] = CompleteNext(g[k], k + 1, choice)
      BY <1>1, <1>2, <2>1
    <2>3. Completing(d, g[k], choice, k)
      BY <1>5
    <2>4. Completing(d, g[k + 1], choice, k + 1)
      BY <2>1, <2>2, <2>3, CompletingGoesOn
    <2> QED
      BY <2>1, <2>4
  <1>6. n \in S
    <2> HIDE DEF S
    <2>1. 0 \in Int /\ n \in Int
      BY <1>3
    <2>2. \A k \in 0 .. n : k \in S
      BY <1>4, <1>5, <2>1, Upwards
    <2> QED
      BY <1>3, <2>2
  <1>7. Completing(d, e, choice, n)
    BY <1>1, <1>2, <1>6
  <1>8. ASSUME NEW key \in Keys, CallOf(d, key).named
        PROVE  Reached(d, choice, n, key) <=> key[1] = choice
    <2>1. ~NewCall(key).named
      BY DEF NewCall
    <2>2. Known(d, key)
      BY <1>8, <2>1, UnknownCall
    <2>3. PICK i \in DOMAIN d.calls : d.calls[i].key = key
      BY <2>2 DEF Known
    <2>4. i <= n
      BY <1>3
    <2> QED
      BY <2>3, <2>4 DEF Reached
  <1> QED
    BY <1>7, <1>8 DEF Completing, ChoiceCompleted, WithCallsOf

-----------------------------------------------------------------------------
(* One chunk *)

IsFragment(chunk, key) ==
    chunk.part.kind = "call" /\ <<chunk.choice, chunk.part.index>> = key
ArgumentsFor(chunk, key) == IF IsFragment(chunk, key) THEN ArgumentsIn(chunk.part) ELSE <<>>

\* What the part of a chunk makes of the calls and of the text.
CallsTaken(d, e, chunk) ==
    \A key \in Keys :
       /\ CallOf(e, key).named <=>
             CallOf(d, key).named \/ (IsFragment(chunk, key) /\ chunk.part.named)
       /\ CallOf(e, key).raw = CallOf(d, key).raw \o ArgumentsFor(chunk, key)
TextTaken(d, e, chunk) ==
    \A kind \in {"text", "reasoning"} :
       Written(e.events, kind) = Written(d.events, kind) \o TextIn(chunk, kind)

PartTaken(d, e, chunk, p) ==
    /\ QuietGrowth(d, e, p) /\ e.reason = d.reason
    /\ \A n \in DOMAIN p : p[n].kind # "end"
    /\ CallsTaken(d, e, chunk) /\ TextTaken(d, e, chunk)

\* The data of a call.
LEMMA CallsAreTyped ==
    ASSUME NEW d, DecoderOK(d), NEW key \in Keys
    PROVE  /\ CallOf(d, key) \in CallState /\ CallOf(d, key).raw \in Seq(Data)
           /\ Shown(CallOf(d, key)) \in Seq(Data)
           /\ CallOf(d, key).raw \o <<>> = CallOf(d, key).raw
           /\ Shown(CallOf(d, key)) \o <<>> = Shown(CallOf(d, key))
  <1>1. PICK c : c = CallOf(d, key)
    OBVIOUS
  <1>2. c \in CallState
    BY <1>1, CallOfIsTyped DEF DecoderOK
  <1>3. PICK raw : raw \in Seq(Data) /\ raw = c.raw
    BY <1>2 DEF CallState
  <1>4. PICK s : s \in Seq(Data) /\ s = Shown(c)
    BY <1>2, ShownIsTyped
  <1>5. raw \o <<>> = raw /\ s \o <<>> = s
    BY <1>3, <1>4
  <1> QED
    BY <1>1, <1>2, <1>3, <1>4, <1>5

\* Events that leave the calls alone.
LEMMA CallsUntouched ==
    ASSUME NEW d, DecoderOK(d), NEW e, NEW p \in Seq(Event), Emits(e, d, p),
           \A n \in DOMAIN p : p[n].kind \in {"text", "reasoning"}
    PROVE  QuietGrowth(d, e, p) /\ e.reason = d.reason /\ \A key : CallOf(e, key) = CallOf(d, key)
  <1>1. d \in Decoders /\ OneCallPerKey(d)
    BY DEF DecoderOK
  <1>2. /\ e \in Decoders /\ e.calls = d.calls /\ e.reason = d.reason
        /\ e.events = d.events \o p
    BY <1>1, EmitFacts
  <1>3. OneCallPerKey(e) /\ \A key : CallOf(e, key) = CallOf(d, key)
    BY <1>1, <1>2, SameCalls
  <1>4. ASSUME NEW key \in Keys PROVE ArgumentsOf(p, key) = <<>>
    <2>1. PICK A : A = {x \in Event : x.kind \in {"text", "reasoning"}}
      OBVIOUS
    <2>2. p \in Seq(A)
      BY <2>1
    <2>3. \A x \in A : x \notin ArgumentEvents(key)
      BY <2>1 DEF ArgumentEvents
    <2> QED
      BY <2>2, <2>3, NoArguments
  <1>5. ASSUME NEW key \in Keys
        PROVE  /\ Tidy(CallOf(e, key))
               /\ Shown(CallOf(d, key)) \o ArgumentsOf(p, key) = Shown(CallOf(e, key))
               /\ CallOf(e, key).named /\ ~CallOf(d, key).named =>
                     \E n \in DOMAIN p : p[n] = Started(key)
               /\ CallOf(e, key).completed <=> CallOf(d, key).completed
    <2>1. Tidy(CallOf(e, key))
      BY <1>3 DEF DecoderOK
    <2>2. Shown(CallOf(d, key)) \o ArgumentsOf(p, key) = Shown(CallOf(e, key))
      BY <1>3, <1>4, CallsAreTyped
    <2> QED
      BY <1>3, <2>1, <2>2
  <1>6. \A n \in DOMAIN p : p[n].kind # "completed"
    OBVIOUS
  <1> QED
    BY <1>2, <1>3, <1>5, <1>6 DEF QuietGrowth

\* TakePart: a fragment, a text, or nothing.
LEMMA TakePartFacts ==
    ASSUME NEW d, DecoderOK(d), NEW chunk \in Chunk,
           NEW e, e = TakePart(d, chunk.choice, chunk.part)
    PROVE  \E p : PartTaken(d, e, chunk, p)
  <1>1. PICK part : part = chunk.part
    OBVIOUS
  <1>2. PICK choice : choice = chunk.choice
    OBVIOUS
  <1>3. d \in Decoders /\ OneCallPerKey(d) /\ d.events \in Seq(Event)
    BY DEF DecoderOK, Decoders
  <1>4. \A kind \in {"text", "reasoning"} :
           Written(d.events, kind) \o <<>> = Written(d.events, kind)
    <2>1. SUFFICES ASSUME NEW kind \in {"text", "reasoning"}
                   PROVE  Written(d.events, kind) \o <<>> = Written(d.events, kind)
      OBVIOUS
    <2>2. PICK a : a = Written(d.events, kind)
      OBVIOUS
    <2>3. a \in Seq(Data)
      BY <1>3, <2>2, WrittenOfConcat
    <2> QED
      BY <2>2, <2>3
  <1>5. CASE part = Nothing
    <2>1. part.kind = "nothing"
      BY <1>5 DEF Nothing
    <2>2. e = d
      BY <1>1, <1>5 DEF TakePart
    <2>3. PICK p : p = <<>>
      OBVIOUS
    <2>4. p \in Seq(Event) /\ \A n \in DOMAIN p : FALSE
      BY <2>3
    <2>5. Emits(e, d, p)
      <3>1. PICK q : q = d.events \o p
        OBVIOUS
      <3>2. q = d.events
        BY <1>3, <2>3, <3>1
      <3>3. Emit(d, p) = [d EXCEPT !.events = q]
        BY <3>1 DEF Emit
      <3> QED
        BY <1>3, <2>2, <3>2, <3>3 DEF Emits, Decoders
    <2>6. QuietGrowth(d, e, p)
      BY <2>4, <2>5, CallsUntouched
    <2>7. CallsTaken(d, e, chunk)
      BY <1>1, <2>1, <2>2, CallsAreTyped DEF CallsTaken, IsFragment, ArgumentsFor
    <2>8. TextTaken(d, e, chunk)
      <3>1. part \notin TextPart
        BY <2>1 DEF TextPart
      <3> QED
        BY <1>1, <1>4, <2>2, <3>1 DEF TextTaken, TextIn
    <2> QED
      BY <2>2, <2>4, <2>6, <2>7, <2>8 DEF PartTaken
  <1>6. CASE part \in TextPart
    <2>1. part.kind \in {"text", "reasoning"} /\ part.data \in Data
      BY <1>6 DEF TextPart
    <2>2. PICK kind : kind \in {"text", "reasoning"} /\ kind = part.kind
      BY <2>1
    <2>3. PICK x : x = Delta(kind, part.data)
      OBVIOUS
    <2>4. x \in Event /\ x.kind = kind
      BY <2>1, <2>2, <2>3, EventFacts
    <2>5. PICK p : p = <<x>>
      OBVIOUS
    <2>6. p \in Seq(Event) /\ DOMAIN p = {1} /\ p[1] = x
      BY <2>4, <2>5
    <2>7. Emits(e, d, p)
      <3>1. part # Nothing /\ part.kind # "call"
        BY <2>1 DEF Nothing
      <3> QED
        BY <1>1, <2>2, <2>3, <2>5, <3>1 DEF TakePart, Emits
    <2>8. QuietGrowth(d, e, p) /\ e.reason = d.reason /\ \A key : CallOf(e, key) = CallOf(d, key)
      <3>1. \A n \in DOMAIN p : p[n].kind \in {"text", "reasoning"}
        BY <2>2, <2>4, <2>6
      <3> QED
        BY <2>6, <2>7, <3>1, CallsUntouched
    <2>9. CallsTaken(d, e, chunk)
      <3>1. \A key : ~IsFragment(chunk, key)
        BY <1>1, <2>1 DEF IsFragment
      <3> QED
        BY <2>8, <3>1, CallsAreTyped DEF CallsTaken, ArgumentsFor
    <2>10. TextTaken(d, e, chunk)
      <3>1. e.events = d.events \o p
        BY <2>8 DEF QuietGrowth
      <3>2. ASSUME NEW other \in {"text", "reasoning"}
            PROVE  Written(e.events, other) = Written(d.events, other) \o TextIn(chunk, other)
        <4>1. CASE other = kind
          <5>1. Written(p, other) = <<part.data>>
            BY <2>1, <2>3, <2>5, <4>1, OneText
          <5>2. TextIn(chunk, other) = <<part.data>>
            BY <1>1, <1>6, <2>2, <4>1 DEF TextIn
          <5> QED
            BY <1>3, <2>6, <3>1, <5>1, <5>2, WrittenOfConcat
        <4>2. CASE other # kind
          <5>1. \A n \in DOMAIN p : p[n].kind # other
            BY <2>4, <2>6, <4>2
          <5>2. Written(e.events, other) = Written(d.events, other)
            BY <1>3, <2>6, <3>1, <5>1, NoText
          <5>3. TextIn(chunk, other) = <<>>
            BY <1>1, <2>2, <4>2 DEF TextIn
          <5> QED
            BY <1>4, <5>2, <5>3
        <4> QED
          BY <4>1, <4>2
      <3> QED
        BY <3>2 DEF TextTaken
    <2>11. \A n \in DOMAIN p : p[n].kind # "end"
      BY <2>2, <2>4, <2>6
    <2> QED
      BY <2>8, <2>9, <2>10, <2>11 DEF PartTaken
  <1>7. CASE part \in CallPart
    <2>1. part.kind = "call" /\ part.index \in CallIndices
      BY <1>7 DEF CallPart
    <2>2. choice \in ChoiceIndices
      BY <1>2 DEF Chunk
    <2>3. PICK key : key = <<choice, part.index>>
      OBVIOUS
    <2>4. key \in Keys
      BY <2>1, <2>2, <2>3 DEF Keys
    <2>5. e = TakeFragment(d, choice, part)
      <3>1. part # Nothing
        BY <2>1 DEF Nothing
      <3> QED
        BY <1>1, <1>2, <2>1, <3>1 DEF TakePart
    <2>6. Tidy(CallOf(d, key))
      BY <2>4 DEF DecoderOK
    <2>7. FragmentTaken(d, e, key, part)
      BY <1>3, <1>7, <2>2, <2>3, <2>5, <2>6, TakeFragmentFacts
    <2>8. PICK p : /\ p \in Seq(QuietEvents(key)) /\ e.events = d.events \o p
                   /\ Shown(CallOf(d, key)) \o ArgumentsOf(p, key) = Shown(CallOf(e, key))
                   /\ CallOf(e, key).named /\ ~CallOf(d, key).named =>
                         \E n \in DOMAIN p : p[n] = Started(key)
      BY <2>7 DEF FragmentTaken
    <2>9. \A x \in QuietEvents(key) : x \in Event /\ x.kind \in {"started", "argument"} /\ x.key = key
      BY <2>4, EventFacts DEF QuietEvents, ArgumentEvents
    <2>10. p \in Seq(Event) /\ \A n \in DOMAIN p : p[n].kind \in {"started", "argument"}
      <3>1. QuietEvents(key) \subseteq Event
        BY <2>9
      <3>2. \A n \in DOMAIN p : p[n] \in QuietEvents(key)
        BY <2>8
      <3> QED
        BY <2>8, <2>9, <3>1, <3>2
    <2>11. Others(d, e, key)
      BY <2>7 DEF FragmentTaken
    <2>12. ASSUME NEW k \in Keys
           PROVE  /\ Tidy(CallOf(e, k))
                  /\ Shown(CallOf(d, k)) \o ArgumentsOf(p, k) = Shown(CallOf(e, k))
                  /\ CallOf(e, k).named /\ ~CallOf(d, k).named =>
                        \E n \in DOMAIN p : p[n] = Started(k)
                  /\ CallOf(e, k).completed <=> CallOf(d, k).completed
      <3>1. CASE k = key
        BY <2>7, <2>8, <3>1 DEF FragmentTaken
      <3>2. CASE k # key
        <4>1. CallOf(e, k) = CallOf(d, k)
          BY <2>11, <3>2 DEF Others
        <4>2. \A x \in QuietEvents(key) : x \notin ArgumentEvents(k)
          BY <2>9, <3>2 DEF ArgumentEvents
        <4>3. ArgumentsOf(p, k) = <<>>
          BY <2>8, <4>2, NoArguments
        <4>4. Tidy(CallOf(d, k))
          BY DEF DecoderOK
        <4> QED
          BY <4>1, <4>3, <4>4, CallsAreTyped
      <3> QED
        BY <3>1, <3>2
    <2>13. QuietGrowth(d, e, p)
      <3>1. e \in Decoders /\ OneCallPerKey(e)
        BY <2>7 DEF FragmentTaken
      <3> QED
        BY <2>8, <2>10, <2>12, <3>1 DEF QuietGrowth
    <2>14. CallsTaken(d, e, chunk)
      <3>1. ASSUME NEW k \in Keys
            PROVE  /\ CallOf(e, k).named <=>
                         CallOf(d, k).named \/ (IsFragment(chunk, k) /\ part.named)
                   /\ CallOf(e, k).raw = CallOf(d, k).raw \o ArgumentsFor(chunk, k)
        <4>1. IsFragment(chunk, k) <=> k = key
          BY <1>1, <1>2, <2>1, <2>3 DEF IsFragment
        <4>2. CASE k = key
          BY <1>1, <2>7, <4>1, <4>2 DEF FragmentTaken, ArgumentsFor
        <4>3. CASE k # key
          <5>1. CallOf(e, k) = CallOf(d, k)
            BY <2>11, <4>3 DEF Others
          <5> QED
            BY <4>1, <4>3, <5>1, CallsAreTyped DEF ArgumentsFor
        <4> QED
          BY <4>2, <4>3
      <3> QED
        BY <1>1, <3>1 DEF CallsTaken
    <2>15. TextTaken(d, e, chunk)
      <3>1. part \notin TextPart
        BY <2>1 DEF TextPart
      <3>2. ASSUME NEW kind \in {"text", "reasoning"}
            PROVE  Written(e.events, kind) = Written(d.events, kind) \o TextIn(chunk, kind)
        <4>1. \A n \in DOMAIN p : p[n].kind # kind
          BY <2>10
        <4>2. Written(e.events, kind) = Written(d.events, kind)
          BY <1>3, <2>8, <2>10, <4>1, NoText
        <4>3. TextIn(chunk, kind) = <<>>
          BY <1>1, <3>1 DEF TextIn
        <4> QED
          BY <1>4, <4>2, <4>3
      <3> QED
        BY <3>2 DEF TextTaken
    <2>16. e.reason = d.reason
      BY <2>7 DEF FragmentTaken
    <2>17. \A n \in DOMAIN p : p[n].kind # "end"
      BY <2>10
    <2> QED
      BY <2>13, <2>14, <2>15, <2>16, <2>17 DEF PartTaken
  <1> QED
    BY <1>1, <1>5, <1>6, <1>7, ChunkFacts

Finished(chunk, key) == chunk.reason # "none" /\ key[1] = chunk.choice

\* What a chunk makes of the decoder.
ChunkTaken(d, g, chunk) ==
    /\ DecoderOK(g) /\ CallsTaken(d, g, chunk) /\ TextTaken(d, g, chunk)
    /\ \A key \in Keys :
          CallOf(g, key).completed <=>
             CallOf(d, key).completed \/ (Finished(chunk, key) /\ CallOf(g, key).named)
    /\ \A n \in DOMAIN g.events :
          \/ n \in DOMAIN d.events /\ g.events[n] = d.events[n]
          \/ /\ g.events[n].kind # "end"
             /\ g.events[n].kind = "completed" =>
                   LET key == g.events[n].key IN
                   /\ key \in Keys /\ Finished(chunk, key) /\ CallOf(g, key).named
                   /\ ~CallOf(d, key).completed
                   /\ g.events[n].raw = CallOf(g, key).raw
    /\ g.reason = IF d.reason = "none" THEN chunk.reason ELSE d.reason

\* The decoder with this finish reason, unless it has one.
WithReason(g, h, reason) == g = [h EXCEPT !.reason = IF @ = "none" THEN reason ELSE @]

\* The first finish reason stays, and changes no call.
LEMMA WithReasonFacts ==
    ASSUME NEW h, DecoderOK(h), NEW reason \in Reasons, NEW g, WithReason(g, h, reason)
    PROVE  /\ DecoderOK(g) /\ g.events = h.events
           /\ \A key : CallOf(g, key) = CallOf(h, key)
           /\ g.reason = IF h.reason = "none" THEN reason ELSE h.reason
  <1>1. h \in Decoders
    BY DEF DecoderOK
  <1>2. PICK r : r = IF h.reason = "none" THEN reason ELSE h.reason
    OBVIOUS
  <1>3. g = [h EXCEPT !.reason = r]
    BY <1>1, <1>2 DEF WithReason, Decoders
  <1>4. g \in Decoders /\ g.calls = h.calls /\ g.events = h.events /\ g.reason = r
    BY <1>1, <1>2, <1>3 DEF Decoders
  <1>5. OneCallPerKey(g) /\ \A key : CallOf(g, key) = CallOf(h, key)
    BY <1>4, SameCalls DEF DecoderOK
  <1>6. CompletionsOK(g)
    BY <1>4, <1>5 DEF DecoderOK, CompletionsOK
  <1>7. DecoderOK(g)
    BY <1>4, <1>5, <1>6 DEF DecoderOK
  <1> QED
    BY <1>2, <1>4, <1>5, <1>7

\* TakeChunk: its part first, then the calls its finish reason completes.
LEMMA TakeChunkFacts ==
    ASSUME NEW d, DecoderOK(d), NEW chunk \in Chunk, NEW g, g = TakeChunk(d, chunk)
    PROVE  ChunkTaken(d, g, chunk)
  <1>1. PICK e : e = TakePart(d, chunk.choice, chunk.part)
    OBVIOUS
  <1>2. PICK p : PartTaken(d, e, chunk, p)
    BY <1>1, TakePartFacts
  <1>3. DecoderOK(e) /\ SameCompletions(d, e)
    BY <1>2, QuietGrowthIsFine DEF PartTaken
  <1>4. /\ d.events \in Seq(Event) /\ e.events \in Seq(Event) /\ p \in Seq(Event)
        /\ e.events = d.events \o p
    BY <1>2, <1>3 DEF DecoderOK, Decoders, PartTaken, QuietGrowth
  <1>5. ASSUME NEW n \in DOMAIN e.events
        PROVE  \/ n \in DOMAIN d.events /\ e.events[n] = d.events[n]
               \/ e.events[n].kind # "end" /\ e.events[n].kind # "completed"
    <2>1. Extended(e.events, d.events, p)
      BY <1>4, BeginningStays
    <2>2. /\ \A m \in DOMAIN d.events : e.events[m] = d.events[m]
          /\ n \in DOMAIN d.events \/ \E j \in DOMAIN p : e.events[n] = p[j]
      BY <2>1 DEF Extended
    <2>3. \A j \in DOMAIN p : p[j].kind # "end" /\ p[j].kind # "completed"
      BY <1>2 DEF PartTaken, QuietGrowth
    <2> QED
      BY <2>2, <2>3
  <1>6. ASSUME NEW key \in Keys
        PROVE  CallOf(e, key).completed <=> CallOf(d, key).completed
    BY <1>2 DEF PartTaken, QuietGrowth
  <1>7. e.reason = d.reason /\ CallsTaken(d, e, chunk) /\ TextTaken(d, e, chunk)
    BY <1>2 DEF PartTaken
  <1>8. CASE chunk.reason = "none"
    <2>1. g = e
      BY <1>1, <1>8 DEF TakeChunk
    <2>2. d.reason = IF d.reason = "none" THEN chunk.reason ELSE d.reason
      BY <1>8
    <2>3. \A key : ~Finished(chunk, key)
      BY <1>8 DEF Finished
    <2> QED
      BY <1>3, <1>5, <1>6, <1>7, <2>1, <2>2, <2>3 DEF ChunkTaken
  <1>9. CASE chunk.reason # "none"
    <2>1. chunk.reason \in Reasons
      BY <1>9 DEF Chunk
    <2>2. PICK h : h = CompleteChoiceToolCalls(e, chunk.choice)
      OBVIOUS
    <2>3. ChoiceCompleted(e, h, chunk.choice)
      BY <1>3, <2>2, CompleteChoiceFacts
    <2>4. WithReason(g, h, chunk.reason)
      BY <1>1, <1>9, <2>2 DEF TakeChunk, WithReason
    <2>5. DecoderOK(h) /\ h.reason = e.reason
      BY <2>3 DEF ChoiceCompleted
    <2>6. /\ DecoderOK(g) /\ g.events = h.events
          /\ \A key : CallOf(g, key) = CallOf(h, key)
          /\ g.reason = IF h.reason = "none" THEN chunk.reason ELSE h.reason
      BY <2>1, <2>4, <2>5, WithReasonFacts
    <2>7. PICK q : q \in Seq(Completions(e, chunk.choice)) /\ h.events = e.events \o q
      BY <2>3 DEF ChoiceCompleted
    <2>8. ASSUME NEW x \in Completions(e, chunk.choice)
          PROVE  /\ x \in Event /\ x.kind = "completed" /\ x.key \in Keys
                 /\ Finished(chunk, x.key) /\ CallOf(g, x.key).named
                 /\ ~CallOf(d, x.key).completed
                 /\ x.raw = CallOf(g, x.key).raw
      <3>1. /\ x \in Event /\ x.kind = "completed" /\ x.key[1] = chunk.choice
            /\ CallOf(e, x.key).named /\ ~CallOf(e, x.key).completed
            /\ x.raw = CallOf(e, x.key).raw
        BY DEF Completions
      <3>2. x.key \in Keys
        BY <3>1, KindOfEvent
      <3>3. /\ CallOf(h, x.key).named <=> CallOf(e, x.key).named
            /\ CallOf(h, x.key).raw = CallOf(e, x.key).raw
        BY <2>3, <3>2 DEF ChoiceCompleted
      <3> QED
        BY <1>6, <1>9, <2>6, <3>1, <3>2, <3>3 DEF Finished
    <2>9. q \in Seq(Event) /\ \A j \in DOMAIN q : q[j] \in Completions(e, chunk.choice)
      <3>1. Completions(e, chunk.choice) \subseteq Event
        BY DEF Completions
      <3> QED
        BY <2>7, <3>1
    <2>10. ASSUME NEW n \in DOMAIN h.events
           PROVE  \/ n \in DOMAIN e.events /\ h.events[n] = e.events[n]
                  \/ h.events[n] \in Completions(e, chunk.choice)
      <3>1. Extended(h.events, e.events, q)
        BY <1>4, <2>7, <2>9, BeginningStays
      <3>2. /\ \A m \in DOMAIN e.events : h.events[m] = e.events[m]
            /\ n \in DOMAIN e.events \/ \E j \in DOMAIN q : h.events[n] = q[j]
        BY <3>1 DEF Extended
      <3> QED
        BY <2>9, <3>2
    <2>11. ASSUME NEW n \in DOMAIN g.events
           PROVE  \/ n \in DOMAIN d.events /\ g.events[n] = d.events[n]
                  \/ /\ g.events[n].kind # "end"
                     /\ g.events[n].kind = "completed" =>
                           LET key == g.events[n].key IN
                           /\ key \in Keys /\ Finished(chunk, key) /\ CallOf(g, key).named
                           /\ ~CallOf(d, key).completed
                           /\ g.events[n].raw = CallOf(g, key).raw
      BY <1>5, <2>6, <2>8, <2>10
    <2>12. CallsTaken(d, g, chunk)
      BY <1>7, <2>3, <2>6 DEF CallsTaken, ChoiceCompleted
    <2>13. TextTaken(d, g, chunk)
      <3>1. ASSUME NEW kind \in {"text", "reasoning"}
            PROVE  Written(g.events, kind) = Written(e.events, kind)
        <4>1. \A j \in DOMAIN q : q[j].kind # kind
          BY <2>8, <2>9
        <4>2. PICK s : s \in Seq(Event) /\ s = e.events
          BY <1>4
        <4>3. Written(s \o q, kind) = Written(s, kind)
          BY <2>9, <4>1, <4>2, NoText
        <4> QED
          BY <2>6, <2>7, <4>2, <4>3
      <3> QED
        BY <1>7, <3>1 DEF TextTaken
    <2>14. ASSUME NEW key \in Keys
           PROVE  CallOf(g, key).completed <=>
                     CallOf(d, key).completed \/ (Finished(chunk, key) /\ CallOf(g, key).named)
      BY <1>6, <1>9, <2>3, <2>6 DEF ChoiceCompleted, Finished
    <2>15. g.reason = IF d.reason = "none" THEN chunk.reason ELSE d.reason
      BY <1>7, <2>5, <2>6
    <2> QED
      BY <2>6, <2>11, <2>12, <2>13, <2>14, <2>15 DEF ChunkTaken
  <1> QED
    BY <1>8, <1>9

-----------------------------------------------------------------------------
(* What the decoder has after each chunk *)

TextHeard(d, s, k) ==
    \A kind \in {"text", "reasoning"} :
       Written(d.events, kind) = TextOf(SubSeq(s, 1, k), kind)

Decoded(d, s, k) ==
    /\ DecoderOK(d)
    /\ CallsHeard(d, s, k) /\ CompletionsHeard(d, s, k)
    /\ TextHeard(d, s, k)
    /\ NoEndYet(d) /\ ReasonHeard(d, s, k)

\* The frames of the stream, one more.
LEMMA FramesUpTo ==
    ASSUME NEW s \in Seq(Chunk), NEW k \in 1 .. Len(s)
    PROVE  /\ s[k] \in Chunk /\ k - 1 \in 0 .. Len(s)
           /\ \A j \in DOMAIN s : j \in Nat /\ (j <= k <=> j <= k - 1 \/ j = k)
           /\ k \in DOMAIN s /\ k <= k
           /\ \A key : FragmentsOf(s, key) \subseteq DOMAIN s
           /\ \A key : CompleteAt(s, key) \subseteq DOMAIN s
           /\ Finishes(s, ChoiceIndices) \subseteq DOMAIN s
           /\ \A key : k \in FragmentsOf(s, key) <=> IsFragment(s[k], key)
           /\ k \in Finishes(s, ChoiceIndices) <=> s[k].reason # "none"
           /\ \A key : k \in CompleteAt(s, key) <=>
                          /\ Finished(s[k], key)
                          /\ \E j \in FragmentsOf(s, key) : j <= k /\ s[j].part.named
  <1>1. s[k] \in Chunk /\ k \in DOMAIN s /\ k \in Nat /\ k - 1 \in 0 .. Len(s) /\ DOMAIN s \subseteq Nat
    OBVIOUS
  <1>2. \A j \in DOMAIN s : j \in Nat /\ (j <= k <=> j <= k - 1 \/ j = k)
    BY <1>1
  <1>3. Finishes(s, ChoiceIndices) \subseteq DOMAIN s /\ \A key : Finishes(s, {key[1]}) \subseteq DOMAIN s
    BY DEF Finishes
  <1>4. \A key : FragmentsOf(s, key) \subseteq DOMAIN s /\ CompleteAt(s, key) \subseteq DOMAIN s
    BY <1>3 DEF FragmentsOf, CompleteAt
  <1>5. \A key : k \in FragmentsOf(s, key) <=> IsFragment(s[k], key)
    BY <1>1 DEF FragmentsOf, IsFragment
  <1>6. k \in Finishes(s, ChoiceIndices) <=> s[k].reason # "none"
    BY <1>1 DEF Finishes, Chunk
  <1>7. \A key : k \in Finishes(s, {key[1]}) <=> Finished(s[k], key)
    BY <1>1 DEF Finishes, Finished
  <1>8. \A key : k \in CompleteAt(s, key) <=>
                    /\ Finished(s[k], key)
                    /\ \E j \in FragmentsOf(s, key) : j <= k /\ s[j].part.named
    BY <1>7 DEF CompleteAt
  <1> QED
    BY <1>1, <1>2, <1>3, <1>4, <1>5, <1>6, <1>8

\* One chunk more.
LEMMA OneChunkMore ==
    ASSUME NEW s \in Seq(Chunk), NEW k \in 1 .. Len(s), NEW d, Decoded(d, s, k - 1),
           NEW g, g = TakeChunk(d, s[k])
    PROVE  Decoded(g, s, k)
  <1>1. PICK chunk : chunk = s[k]
    OBVIOUS
  <1>2. /\ chunk \in Chunk /\ k - 1 \in 0 .. Len(s) /\ k \in DOMAIN s /\ k <= k
        /\ \A j \in DOMAIN s : j \in Nat /\ (j <= k <=> j <= k - 1 \/ j = k)
    BY <1>1, FramesUpTo
  <1>3. /\ \A key : FragmentsOf(s, key) \subseteq DOMAIN s /\ CompleteAt(s, key) \subseteq DOMAIN s
        /\ Finishes(s, ChoiceIndices) \subseteq DOMAIN s
        /\ \A key : k \in FragmentsOf(s, key) <=> IsFragment(chunk, key)
        /\ k \in Finishes(s, ChoiceIndices) <=> chunk.reason # "none"
    BY <1>1, FramesUpTo
  <1>4. ASSUME NEW key
        PROVE  k \in CompleteAt(s, key) <=>
                  /\ Finished(chunk, key)
                  /\ \E j \in FragmentsOf(s, key) : j <= k /\ s[j].part.named
    BY <1>1, FramesUpTo
  <1>5. /\ DecoderOK(d) /\ CallsHeard(d, s, k - 1) /\ CompletionsHeard(d, s, k - 1)
        /\ TextHeard(d, s, k - 1) /\ NoEndYet(d) /\ ReasonHeard(d, s, k - 1)
    BY DEF Decoded
  <1>6. ChunkTaken(d, g, chunk)
    BY <1>1, <1>2, <1>5, TakeChunkFacts
  <1>7. DecoderOK(g) /\ CallsTaken(d, g, chunk) /\ TextTaken(d, g, chunk)
    BY <1>6 DEF ChunkTaken
  <1>8. ASSUME NEW key \in Keys PROVE CallOf(g, key).raw = ArgumentsUpTo(s, key, k)
    <2>1. CallOf(g, key).raw = CallOf(d, key).raw \o ArgumentsFor(chunk, key)
      BY <1>7 DEF CallsTaken
    <2>2. CallOf(d, key).raw = ArgumentsUpTo(s, key, k - 1)
      BY <1>5 DEF CallsHeard
    <2>3. ArgumentsFor(chunk, key) = ArgumentsAt(s, key, k)
      BY <1>1, <1>3 DEF ArgumentsFor, ArgumentsAt
    <2>4. ArgumentsUpTo(s, key, k) = ArgumentsUpTo(s, key, k - 1) \o ArgumentsAt(s, key, k)
      BY ArgumentsGrow
    <2> QED
      BY <2>1, <2>2, <2>3, <2>4
  <1>9. ASSUME NEW key \in Keys
        PROVE  CallOf(g, key).named <=>
                  \E j \in FragmentsOf(s, key) : j <= k /\ s[j].part.named
    <2>1. CallOf(g, key).named <=>
             CallOf(d, key).named \/ (IsFragment(chunk, key) /\ chunk.part.named)
      BY <1>7 DEF CallsTaken
    <2>2. CallOf(d, key).named <=> \E j \in FragmentsOf(s, key) : j <= k - 1 /\ s[j].part.named
      BY <1>5 DEF CallsHeard
    <2> QED
      BY <1>1, <1>2, <1>3, <2>1, <2>2
  <1>10. ASSUME NEW key \in Keys
         PROVE  CallOf(g, key).completed <=> \E j \in CompleteAt(s, key) : j <= k
    <2>1. CallOf(g, key).completed <=>
             CallOf(d, key).completed \/ (Finished(chunk, key) /\ CallOf(g, key).named)
      BY <1>6 DEF ChunkTaken
    <2>2. CallOf(d, key).completed <=> \E j \in CompleteAt(s, key) : j <= k - 1
      BY <1>5 DEF CallsHeard
    <2>3. k \in CompleteAt(s, key) <=> Finished(chunk, key) /\ CallOf(g, key).named
      BY <1>4, <1>9
    <2> QED
      BY <1>2, <1>3, <2>1, <2>2, <2>3
  <1>11. CallsHeard(g, s, k)
    BY <1>8, <1>9, <1>10 DEF CallsHeard
  <1>12. ASSUME NEW n \in DOMAIN g.events
         PROVE  \/ n \in DOMAIN d.events /\ g.events[n] = d.events[n]
                \/ /\ g.events[n].kind # "end"
                   /\ g.events[n].kind = "completed" =>
                         LET key == g.events[n].key IN
                         /\ key \in Keys /\ Finished(chunk, key) /\ CallOf(g, key).named
                         /\ ~CallOf(d, key).completed
                         /\ g.events[n].raw = CallOf(g, key).raw
    BY <1>6 DEF ChunkTaken
  <1>13. ASSUME NEW n \in DOMAIN g.events, g.events[n].kind = "completed"
         PROVE  CompletedIn(g.events[n], s, k)
    <2>1. CASE n \in DOMAIN d.events /\ g.events[n] = d.events[n]
      <3>1. PICK x : x = d.events[n]
        OBVIOUS
      <3>2. CompletedIn(x, s, k - 1)
        BY <1>5, <1>13, <2>1, <3>1 DEF CompletionsHeard
      <3>3. PICK i : /\ i \in CompleteAt(s, x.key)
                     /\ i <= k - 1 /\ x.raw = ArgumentsUpTo(s, x.key, i)
                     /\ \A j \in CompleteAt(s, x.key) : i <= j
        BY <3>2 DEF CompletedIn
      <3>4. i <= k
        BY <1>2, <1>3, <3>3
      <3>5. CompletedIn(x, s, k)
        BY <3>3, <3>4 DEF CompletedIn
      <3> QED
        BY <2>1, <3>1, <3>5
    <2>2. CASE ~(n \in DOMAIN d.events /\ g.events[n] = d.events[n])
      <3>1. PICK x : x = g.events[n]
        OBVIOUS
      <3>2. PICK key : key = x.key
        OBVIOUS
      <3>3. /\ key \in Keys /\ Finished(chunk, key) /\ CallOf(g, key).named
            /\ ~CallOf(d, key).completed
            /\ x.raw = CallOf(g, key).raw
        BY <1>12, <1>13, <2>2, <3>1, <3>2
      <3>4. k \in CompleteAt(s, key)
        BY <1>4, <1>9, <3>3
      <3>5. \A j \in CompleteAt(s, key) : ~(j <= k - 1)
        BY <1>5, <3>3 DEF CallsHeard
      <3>6. \A j \in CompleteAt(s, key) : k <= j
        <4>1. \A j \in Nat : ~(j <= k - 1) => k <= j
          BY <1>2
        <4> QED
          BY <1>2, <1>3, <3>5, <4>1
      <3>7. x.raw = ArgumentsUpTo(s, key, k)
        BY <1>8, <3>3
      <3>8. CompletedIn(x, s, k)
        BY <1>2, <3>2, <3>4, <3>6, <3>7 DEF CompletedIn
      <3> QED
        BY <3>1, <3>8
    <2> QED
      BY <2>1, <2>2
  <1>14. CompletionsHeard(g, s, k)
    BY <1>13 DEF CompletionsHeard
  <1>15. NoEndYet(g)
    BY <1>5, <1>12 DEF NoEndYet
  <1>16. TextHeard(g, s, k)
    <2>1. ASSUME NEW kind \in {"text", "reasoning"}
          PROVE  Written(g.events, kind) = TextOf(SubSeq(s, 1, k), kind)
      <3>1. Written(g.events, kind) = Written(d.events, kind) \o TextIn(chunk, kind)
        BY <1>7 DEF TextTaken
      <3>2. Written(d.events, kind) = TextOf(SubSeq(s, 1, k - 1), kind)
        BY <1>5 DEF TextHeard
      <3>3. TextOf(SubSeq(s, 1, k), kind)
               = TextOf(SubSeq(s, 1, k - 1), kind) \o TextIn(s[k], kind)
        BY TextGrows
      <3> QED
        BY <1>1, <3>1, <3>2, <3>3
    <2> QED
      BY <2>1 DEF TextHeard
  <1>17. ReasonHeard(g, s, k)
    <2>1. g.reason = IF d.reason = "none" THEN chunk.reason ELSE d.reason
      BY <1>6 DEF ChunkTaken
    <2>2. CASE \E i \in Finishes(s, ChoiceIndices) : i <= k - 1
      <3>1. PICK i \in Finishes(s, ChoiceIndices) :
               /\ i <= k - 1 /\ d.reason = s[i].reason
               /\ \A j \in Finishes(s, ChoiceIndices) : i <= j
        BY <1>5, <2>2 DEF ReasonHeard
      <3>2. d.reason # "none"
        BY <3>1 DEF Finishes
      <3>3. i <= k
        BY <1>2, <1>3, <3>1
      <3> QED
        BY <2>1, <3>1, <3>2, <3>3 DEF ReasonHeard
    <2>3. CASE ~\E i \in Finishes(s, ChoiceIndices) : i <= k - 1
      <3>1. d.reason = "none" /\ g.reason = chunk.reason
        BY <1>5, <2>1, <2>3 DEF ReasonHeard
      <3>2. \A j \in Finishes(s, ChoiceIndices) : k <= j
        <4>1. \A j \in Nat : ~(j <= k - 1) => k <= j
          BY <1>2
        <4> QED
          BY <1>2, <1>3, <2>3, <4>1
      <3>3. CASE chunk.reason # "none"
        BY <1>1, <1>2, <1>3, <3>1, <3>2, <3>3 DEF ReasonHeard
      <3>4. CASE chunk.reason = "none"
        <4>1. ~\E i \in Finishes(s, ChoiceIndices) : i <= k
          BY <1>2, <1>3, <2>3, <3>4
        <4> QED
          BY <3>1, <3>4, <4>1 DEF ReasonHeard
      <3> QED
        BY <3>3, <3>4
    <2> QED
      BY <2>2, <2>3
  <1> QED
    BY <1>7, <1>11, <1>14, <1>15, <1>16, <1>17 DEF Decoded

\* Before the first chunk.
LEMMA NothingDecoded ==
    ASSUME NEW s \in Seq(Chunk)
    PROVE  Decoded(Empty, s, 0)
  <1>1. /\ Empty.calls = <<>> /\ Empty.events = <<>> /\ Empty.reason = "none"
        /\ DOMAIN Empty.calls = {} /\ DOMAIN Empty.events = {}
        /\ Empty \in Decoders /\ OneCallPerKey(Empty)
    BY DEF Empty, Decoders, OneCallPerKey
  <1>2. \A key : CallOf(Empty, key) = NewCall(key)
    BY <1>1, UnknownCall DEF Known
  <1>3. \A key : /\ ~NewCall(key).named /\ ~NewCall(key).completed /\ NewCall(key).raw = <<>>
                 /\ Tidy(NewCall(key)) /\ Shown(NewCall(key)) = <<>>
    BY DEF NewCall, Tidy, Shown
  <1>4. \A key \in Keys : ArgumentsOf(<<>>, key) = <<>>
    BY KeptOfNothing DEF ArgumentsOf, Join
  <1>5. CompletionsOK(Empty)
    BY <1>1 DEF CompletionsOK
  <1>6. DecoderOK(Empty)
    BY <1>1, <1>2, <1>3, <1>4, <1>5 DEF DecoderOK
  <1>7. \A i \in DOMAIN s : ~(i <= 0)
    OBVIOUS
  <1>8. CallsHeard(Empty, s, 0)
    <2>1. \A key : /\ \A j \in FragmentsOf(s, key) : ~(j <= 0)
                   /\ \A j \in CompleteAt(s, key) : ~(j <= 0)
      BY <1>7 DEF FragmentsOf, CompleteAt, Finishes
    <2> QED
      BY <1>2, <1>3, <2>1, NoArgumentsYet DEF CallsHeard
  <1>9. CompletionsHeard(Empty, s, 0) /\ NoEndYet(Empty)
    BY <1>1 DEF CompletionsHeard, NoEndYet
  <1>10. TextHeard(Empty, s, 0)
    <2>1. SubSeq(s, 1, 0) = <<>>
      OBVIOUS
    <2>2. \A kind : Written(<<>>, kind) = <<>>
      BY KeptOfNothing DEF Written, Join
    <2>3. \A kind : TextOf(<<>>, kind) = <<>>
      <3>1. PICK e : e = <<>>
        OBVIOUS
      <3>2. [i \in DOMAIN e |-> e[i].part] = <<>>
        BY <3>1
      <3> QED
        BY <3>1, <3>2, KeptOfNothing DEF TextOf, Join
    <2> QED
      BY <1>1, <2>1, <2>2, <2>3 DEF TextHeard
  <1>11. ReasonHeard(Empty, s, 0)
    <2>1. \A i \in Finishes(s, ChoiceIndices) : ~(i <= 0)
      BY <1>7 DEF Finishes
    <2> QED
      BY <1>1, <2>1 DEF ReasonHeard
  <1> QED
    BY <1>6, <1>8, <1>9, <1>10, <1>11 DEF Decoded

SoundDecoders == {d \in Decoders : DecoderOK(d)}

\* The decoder after each chunk.
LEMMA DecodingIsFollowed ==
    ASSUME NEW s \in Seq(Chunk)
    PROVE  \E g : /\ g[0] = Empty
                  /\ \A k \in 1 .. Len(s) : g[k] = TakeChunk(g[k - 1], s[k])
                  /\ g[Len(s)] = FoldLeft(TakeChunk, Empty, s)
  <1> DEFINE n == Len(s)
             B == SoundDecoders
             F == [p \in (1 .. n) \X B |-> TakeChunk(p[2], s[p[1]])]
             Is(it) == it = [t \in SUBSET (1 .. n) |-> IF t = {} THEN Empty
                              ELSE TakeChunk(it[t \ {Max(t)}], s[Max(t)])]
             c == CHOOSE it : Is(it)
  <1>1. n \in Nat /\ DOMAIN s = 1 .. n /\ \A k \in 1 .. n : s[k] \in Chunk
    OBVIOUS
  <1>2. Empty \in B
    BY NothingDecoded DEF Decoded, DecoderOK, SoundDecoders
  <1>3. \A k \in 1 .. n, a \in B :
           F[<<k, a>>] = TakeChunk(a, s[k]) /\ F[<<k, a>>] \in B
    <2>1. SUFFICES ASSUME NEW k \in 1 .. n, NEW a \in B
                   PROVE  F[<<k, a>>] = TakeChunk(a, s[k]) /\ F[<<k, a>>] \in B
      OBVIOUS
    <2>2. F[<<k, a>>] = TakeChunk(a, s[k])
      OBVIOUS
    <2>3. PICK x : x = s[k]
      OBVIOUS
    <2>4. PICK g : g = TakeChunk(a, x)
      OBVIOUS
    <2>5. x \in Chunk /\ DecoderOK(a)
      BY <1>1, <2>3 DEF SoundDecoders
    <2>6. ChunkTaken(a, g, x)
      BY <2>4, <2>5, TakeChunkFacts
    <2>7. DecoderOK(g)
      BY <2>6 DEF ChunkTaken
    <2>8. g \in B
      BY <2>7 DEF SoundDecoders, DecoderOK
    <2> QED
      BY <2>2, <2>3, <2>4, <2>8
  <1>4. FoldLeft(TakeChunk, Empty, s) = c[1 .. n]
    BY <1>1 DEF FoldLeft, MapThenFoldSet
  <1> HIDE DEF F, n, B
  <1>5. Closed(F, n, B)
    BY <1>3 DEF Closed
  <1>6. PICK it : FoldBy(it, F, n, B, Empty)
    BY <1>1, <1>2, <1>5, FoldExists
  <1>7. Is(it)
    <2>1. ASSUME NEW t \in SUBSET (1 .. n), t # {}
          PROVE  F[<<Max(t), it[t \ {Max(t)}]>>] = TakeChunk(it[t \ {Max(t)}], s[Max(t)])
      <3>1. it[t \ {Max(t)}] \in B
        BY <1>6 DEF FoldBy
      <3>2. Max(t) \in 1 .. n
        BY <1>1, <2>1, MaxIsThere
      <3> QED
        BY <1>3, <3>1, <3>2
    <2> QED
      BY <1>6, <2>1 DEF FoldBy
  <1>8. Is(c)
    BY <1>7
  <1> HIDE DEF c
  <1>9. c[{}] = Empty
    BY <1>8, {} \in SUBSET (1 .. n)
  <1>10. ASSUME NEW k \in 1 .. n, c[1 .. k - 1] \in B
         PROVE  c[1 .. k] = F[<<k, c[1 .. k - 1]>>]
    <2>1. /\ 1 .. k \in SUBSET (1 .. n) /\ 1 .. k # {} /\ Max(1 .. k) = k
          /\ (1 .. k) \ {k} = 1 .. k - 1
      BY <1>1, WholeInterval
    <2>2. c[1 .. k] = TakeChunk(c[1 .. k - 1], s[k])
      BY <1>8, <2>1
    <2> QED
      BY <1>3, <1>10, <2>2
  <1>11. PICK g : Follows(g, F, n, B, Empty) /\ g[n] = c[1 .. n]
    BY <1>1, <1>2, <1>5, <1>9, <1>10, FoldIsFollowed
  <1>12. ASSUME NEW k \in 1 .. n PROVE g[k] = TakeChunk(g[k - 1], s[k])
    <2>1. g[k - 1] \in B /\ g[k] = F[<<k, g[k - 1]>>]
      BY <1>1, <1>11 DEF Follows
    <2> QED
      BY <1>3, <2>1
  <1>13. g[0] = Empty
    BY <1>11 DEF Follows
  <1> QED
    BY <1>4, <1>11, <1>12, <1>13 DEF n

\* After the last one.
LEMMA WholeStreamDecoded ==
    ASSUME NEW s \in Seq(Chunk)
    PROVE  \E d : /\ Decoded(d, s, Len(s))
                  /\ Decode(s) = IF d.reason = "none" THEN d.events
                                 ELSE Append(d.events, End(d.reason))
  <1>1. PICK g : /\ g[0] = Empty
                 /\ \A k \in 1 .. Len(s) : g[k] = TakeChunk(g[k - 1], s[k])
                 /\ g[Len(s)] = FoldLeft(TakeChunk, Empty, s)
    BY DecodingIsFollowed
  <1>2. PICK n : n = Len(s)
    OBVIOUS
  <1>3. n \in Nat
    BY <1>2
  <1> DEFINE S == {k \in 0 .. n : Decoded(g[k], s, k)}
  <1>4. 0 \in S
    BY <1>1, <1>3, NothingDecoded
  <1>5. ASSUME NEW k \in 0 .. n - 1, k \in S PROVE k + 1 \in S
    <2>1. PICK m : m = k + 1
      OBVIOUS
    <2>2. m \in 1 .. n /\ m - 1 = k /\ m \in 0 .. n
      BY <1>3, <2>1
    <2>3. Decoded(g[k], s, m - 1)
      BY <1>5, <2>2
    <2>4. g[m] = TakeChunk(g[k], s[m])
      BY <1>1, <1>2, <2>2
    <2>5. Decoded(g[m], s, m)
      BY <1>2, <2>2, <2>3, <2>4, OneChunkMore
    <2> QED
      BY <2>1, <2>2, <2>5
  <1>6. n \in S
    <2> HIDE DEF S
    <2>1. 0 \in Int /\ n \in Int
      BY <1>3
    <2>2. \A k \in 0 .. n : k \in S
      BY <1>4, <1>5, <2>1, Upwards
    <2> QED
      BY <1>3, <2>2
  <1>7. PICK d : d = g[n]
    OBVIOUS
  <1>8. d = FoldLeft(TakeChunk, Empty, s)
    BY <1>1, <1>2, <1>7
  <1>9. Decode(s) = IF d.reason = "none" THEN d.events ELSE Append(d.events, End(d.reason))
    BY <1>8 DEF Decode
  <1>10. Decoded(d, s, Len(s))
    BY <1>2, <1>6, <1>7
  <1> QED
    BY <1>9, <1>10

-----------------------------------------------------------------------------
(* A finished stream *)

\* The events of a stream that a finish reason ends.
Ends(c, d, events) ==
    /\ Decoded(d, c, Len(c)) /\ d.events \in Seq(Event)
    /\ d.reason \in Reasons /\ End(d.reason) \in Event
    /\ events = Append(d.events, End(d.reason))
    /\ events \in Seq(Event)
    /\ events = d.events \o <<End(d.reason)>>

FirstFinish(c, reason) ==
    \E i \in Finishes(c, ChoiceIndices) :
       /\ \A j \in Finishes(c, ChoiceIndices) : i <= j
       /\ reason = c[i].reason

\* A stream with a finish reason ends with the first one it has.
LEMMA FinishedStream ==
    ASSUME NEW c \in Seq(Chunk), \E j \in 1 .. Len(c) : c[j].reason # "none"
    PROVE  \E d : Ends(c, d, Decode(c)) /\ FirstFinish(c, d.reason)
  <1>1. PICK d : /\ Decoded(d, c, Len(c))
                 /\ Decode(c) = IF d.reason = "none" THEN d.events
                                ELSE Append(d.events, End(d.reason))
    BY WholeStreamDecoded
  <1>2. PICK n : n = Len(c)
    OBVIOUS
  <1>3. n \in Nat /\ DOMAIN c = 1 .. n /\ \A j \in 1 .. n : c[j] \in Chunk /\ j <= n
    BY <1>2
  <1>4. \E i \in Finishes(c, ChoiceIndices) : i <= n
    <2>1. PICK j \in 1 .. n : c[j].reason # "none"
      BY <1>2
    <2>2. j \in Finishes(c, ChoiceIndices)
      BY <1>3, <2>1, ChunkFacts DEF Finishes
    <2> QED
      BY <1>3, <2>1, <2>2
  <1>5. ReasonHeard(d, c, n) /\ DecoderOK(d)
    BY <1>1, <1>2 DEF Decoded
  <1>6. PICK i \in Finishes(c, ChoiceIndices) :
           d.reason = c[i].reason /\ \A j \in Finishes(c, ChoiceIndices) : i <= j
    BY <1>4, <1>5 DEF ReasonHeard
  <1>7. d.reason \in Reasons /\ d.reason # "none"
    <2>1. i \in 1 .. n /\ c[i].reason # "none"
      BY <1>3, <1>6 DEF Finishes
    <2>2. c[i].reason \in Reasons \cup {"none"}
      BY <1>3, <2>1, ChunkFacts
    <2> QED
      BY <1>6, <2>1, <2>2
  <1>8. PICK s : s \in Seq(Event) /\ s = d.events
    BY <1>5 DEF DecoderOK, Decoders
  <1>9. PICK e : e \in Event /\ e = End(d.reason)
    BY <1>7, EventFacts
  <1>10. /\ Append(s, e) \in Seq(Event) /\ Append(s, e) = s \o <<e>>
    BY <1>8, <1>9
  <1>11. Decode(c) = Append(s, e)
    BY <1>1, <1>7, <1>8, <1>9
  <1>12. Ends(c, d, Decode(c))
    BY <1>1, <1>7, <1>8, <1>9, <1>10, <1>11 DEF Ends
  <1>13. FirstFinish(c, d.reason)
    BY <1>6 DEF FirstFinish
  <1> QED
    BY <1>12, <1>13

\* The event at the end is neither text nor an argument nor a completed call.
LEMMA LastEvent ==
    ASSUME NEW c, NEW d, NEW events, Ends(c, d, events)
    PROVE  /\ DOMAIN d.events = 1 .. Len(d.events) /\ Len(d.events) \in Nat
           /\ DOMAIN events = 1 .. Len(d.events) + 1
           /\ \A n \in DOMAIN d.events : n \in DOMAIN events /\ events[n] = d.events[n]
           /\ \A n \in DOMAIN d.events : SubSeq(events, 1, n) = SubSeq(d.events, 1, n)
           /\ events[Len(d.events) + 1].kind = "end"
           /\ \A n \in DOMAIN events : n \in DOMAIN d.events \/ events[n].kind = "end"
  <1>1. PICK s : s \in Seq(Event) /\ s = d.events
    BY DEF Ends
  <1>2. PICK e : e \in Event /\ e = End(d.reason) /\ e.kind = "end"
    BY EventFacts DEF Ends
  <1>3. PICK t : t = <<e>>
    OBVIOUS
  <1>4. PICK x : x = s \o t
    OBVIOUS
  <1>5. x = events /\ x = Append(s, e)
    BY <1>1, <1>2, <1>3, <1>4 DEF Ends
  <1>6. Extended(x, s, t)
    <2>1. t \in Seq(Event)
      BY <1>2, <1>3
    <2> QED
      BY <1>1, <1>4, <2>1, BeginningStays
  <1>7. /\ DOMAIN s = 1 .. Len(s) /\ Len(s) \in Nat /\ DOMAIN x = 1 .. Len(s) + 1
        /\ x[Len(s) + 1] = e
    BY <1>1, <1>2, <1>5
  <1>8. \A n \in DOMAIN s : n \in DOMAIN x /\ x[n] = s[n] /\ SubSeq(x, 1, n) = SubSeq(s, 1, n)
    BY <1>6 DEF Extended
  <1>9. \A n \in DOMAIN x : n \in DOMAIN s \/ x[n].kind = "end"
    BY <1>2, <1>7
  <1> QED
    BY <1>1, <1>2, <1>5, <1>7, <1>8, <1>9

\* The text of the answer is the text of the stream.
LEMMA TextOfAnswer ==
    ASSUME NEW c \in Seq(Chunk), NEW d, NEW events, Ends(c, d, events),
           NEW kind \in {"text", "reasoning"}
    PROVE  Join(OfKind(events, {kind})) = TextOf(c, kind)
  <1>1. PICK s : s \in Seq(Event) /\ s = d.events
    BY DEF Ends
  <1>2. PICK t : t = <<End(d.reason)>>
    OBVIOUS
  <1>3. t \in Seq(Event) /\ \A n \in DOMAIN t : t[n].kind # kind
    <2>1. End(d.reason) \in Event /\ End(d.reason).kind = "end"
      BY EventFacts DEF Ends
    <2> QED
      BY <1>2, <2>1
  <1>4. events = s \o t
    BY <1>1, <1>2 DEF Ends
  <1>5. Written(s \o t, kind) = Written(s, kind)
    BY <1>1, <1>3, NoText
  <1>6. Written(s, kind) = TextOf(SubSeq(c, 1, Len(c)), kind)
    BY <1>1 DEF Ends, Decoded, TextHeard
  <1>7. SubSeq(c, 1, Len(c)) = c
    OBVIOUS
  <1>8. Join(OfKind(events, {kind})) = Written(events, kind)
    BY WrittenIs
  <1> QED
    BY <1>4, <1>5, <1>6, <1>7, <1>8

\* The finish reason of the answer is the one event of that kind.
LEMMA ReasonOfAnswer ==
    ASSUME NEW c \in Seq(Chunk), NEW d, NEW events, Ends(c, d, events)
    PROVE  FinishReason(events) = d.reason
  <1>1. PICK s : s \in Seq(Event) /\ s = d.events
    BY DEF Ends
  <1>2. PICK e : e \in Event /\ e = End(d.reason) /\ e.kind = "end" /\ e.reason = d.reason
    BY EventFacts DEF Ends
  <1>3. PICK S : S = {x \in Event : x.kind \in {"end"}}
    OBVIOUS
  <1>4. Kept(s, S) = <<>>
    <2>1. PICK A : A = {x \in Event : x.kind # "end"}
      OBVIOUS
    <2>2. \A n \in DOMAIN s : s[n] \in Event /\ s[n].kind # "end"
      BY <1>1 DEF Ends, Decoded, NoEndYet
    <2>3. s \in Seq(A)
      BY <1>1, <2>1, <2>2
    <2>4. \A x \in A : x \notin S
      BY <1>3, <2>1
    <2> QED
      BY <2>3, <2>4, NoneKept
  <1>5. Kept(Append(s, e), S) = <<e>>
    <2>1. e \in S
      BY <1>2, <1>3
    <2>0. s \in Seq(Event) /\ e \in Event
      BY <1>1, <1>2
    <2>2. Kept(Append(s, e), S) = IF e \in S THEN Append(Kept(s, S), e) ELSE Kept(s, S)
      BY <2>0, KeptOfAppend
    <2>3. Append(<<>>, e) = <<e>>
      OBVIOUS
    <2> QED
      BY <1>4, <2>1, <2>2, <2>3
  <1>6. OfKind(events, {"end"}) = <<e>>
    BY <1>1, <1>2, <1>3, <1>5 DEF OfKind, Ends
  <1>7. <<e>> # <<>> /\ Len(<<e>>) = 1 /\ <<e>>[1] = e
    OBVIOUS
  <1> QED
    BY <1>2, <1>6, <1>7 DEF FinishReason

\* The end adds no arguments.
LEMMA ArgumentsOfAnswer ==
    ASSUME NEW c \in Seq(Chunk), NEW d, NEW events, Ends(c, d, events), NEW key
    PROVE  ArgumentsOf(events, key) = ArgumentsOf(d.events, key)
  <1>1. PICK s : s \in Seq(Event) /\ s = d.events
    BY DEF Ends
  <1>2. PICK e : e \in Event /\ e = End(d.reason) /\ e.kind = "end"
    BY EventFacts DEF Ends
  <1>3. PICK A : A = {e}
    OBVIOUS
  <1>0. PICK t : t = <<e>>
    OBVIOUS
  <1>4. t = <<e>> /\ t \in Seq(A) /\ t \in Seq(Event)
    BY <1>0, <1>2, <1>3
  <1>5. \A x \in A : x \notin ArgumentEvents(key)
    BY <1>2, <1>3 DEF ArgumentEvents
  <1>6. ArgumentsOf(t, key) = <<>>
    BY <1>4, <1>5, NoArguments
  <1>7. PICK a : a = ArgumentsOf(s, key)
    OBVIOUS
  <1>8. a \in Seq(Data)
    BY <1>1, <1>7, ArgumentsAreData
  <1>9. ArgumentsOf(s \o t, key) = a \o <<>>
    BY <1>1, <1>4, <1>6, <1>7, ArgumentsOfConcat
  <1>10. a \o <<>> = a
    BY <1>8
  <1> QED
    BY <1>1, <1>2, <1>4, <1>7, <1>9, <1>10 DEF Ends

-----------------------------------------------------------------------------
(* What the loop takes from an answer *)

BeginsWith(b, a) ==
    /\ a \in Seq(Data) /\ b \in Seq(Data) /\ Len(a) <= Len(b)
    /\ \A j \in 1 .. Len(a) : b[j] = a[j]

\* The arguments sent until a frame are the beginning of those sent later.
LEMMA ArgumentsOnlyGrow ==
    ASSUME NEW s \in Seq(Chunk), NEW key, NEW i \in 0 .. Len(s), NEW n, n = Len(s)
    PROVE  BeginsWith(ArgumentsUpTo(s, key, n), ArgumentsUpTo(s, key, i))
  <1> DEFINE S == {k \in i .. n : BeginsWith(ArgumentsUpTo(s, key, k), ArgumentsUpTo(s, key, i))}
  <1>1. n \in Nat /\ i \in Nat /\ i <= n /\ n \in Int /\ i \in Int
    OBVIOUS
  <1>2. i \in S
    <2>1. PICK a : a = ArgumentsUpTo(s, key, i)
      OBVIOUS
    <2>2. a \in Seq(Data)
      BY <2>1, ArgumentsUpToAreData
    <2>3. BeginsWith(a, a)
      BY <2>2 DEF BeginsWith
    <2> QED
      BY <1>1, <2>1, <2>3
  <1>3. ASSUME NEW k \in i .. n - 1, k \in S PROVE k + 1 \in S
    <2>1. PICK m : m = k + 1
      OBVIOUS
    <2>2. m \in 1 .. Len(s) /\ m - 1 = k /\ m \in i .. n /\ k \in 0 .. Len(s) /\ m \in 0 .. Len(s)
      BY <1>1, <2>1
    <2>3. PICK a : a = ArgumentsUpTo(s, key, i)
      OBVIOUS
    <2>4. PICK b : b = ArgumentsUpTo(s, key, k)
      OBVIOUS
    <2>5. PICK t : t = ArgumentsAt(s, key, m)
      OBVIOUS
    <2>6. PICK c : c = ArgumentsUpTo(s, key, m)
      OBVIOUS
    <2>7. BeginsWith(b, a)
      BY <1>3, <2>3, <2>4
    <2>8. c = b \o t
      BY <2>2, <2>4, <2>5, <2>6, ArgumentsGrow
    <2>9. b \in Seq(Data) /\ c \in Seq(Data)
      BY <2>2, <2>4, <2>6, ArgumentsUpToAreData
    <2>10. t \in Seq(Data)
      <3>1. CASE m \in FragmentsOf(s, key)
        <4>1. PICK p : p = s[m].part
          OBVIOUS
        <4>2. s[m] \in Chunk
          BY <2>2
        <4>3. p \in CallPart
          BY <3>1, <4>1, <4>2, ChunkFacts DEF FragmentsOf
        <4>4. p.data \in Data \/ p.data = "none"
          BY <4>3 DEF CallPart
        <4>5. t = ArgumentsIn(p)
          BY <2>5, <3>1, <4>1 DEF ArgumentsAt
        <4> QED
          BY <4>4, <4>5 DEF ArgumentsIn
      <3>2. CASE m \notin FragmentsOf(s, key)
        BY <2>5, <3>2 DEF ArgumentsAt
      <3> QED
        BY <3>1, <3>2
    <2>11. Len(c) = Len(b) + Len(t) /\ \A j \in 1 .. Len(b) : c[j] = b[j]
      BY <2>8, <2>9, <2>10, ConcatFacts
    <2>12. Len(b) \in Nat /\ Len(t) \in Nat /\ Len(a) \in Nat
      BY <2>7, <2>9, <2>10 DEF BeginsWith
    <2>13. BeginsWith(c, a)
      BY <2>7, <2>9, <2>11, <2>12 DEF BeginsWith
    <2> QED
      BY <2>1, <2>2, <2>3, <2>6, <2>13
  <1>4. n \in S
    <2> HIDE DEF S
    <2>1. \A k \in i .. n : k \in S
      BY <1>1, <1>2, <1>3, Upwards
    <2> QED
      BY <1>1, <2>1
  <1> QED
    BY <1>4

\* What has the credential at its beginning has it.
LEMMA LongerHasCredential ==
    ASSUME NEW a, NEW b, BeginsWith(b, a), HasCredential(a)
    PROVE  HasCredential(b)
  <1>1. PICK i \in 1 .. Len(a) - 1 : a[i] = "head" /\ a[i + 1] = "tail"
    BY DEF HasCredential
  <1>2. /\ Len(a) \in Nat /\ Len(b) \in Nat /\ Len(a) <= Len(b)
        /\ \A j \in 1 .. Len(a) : b[j] = a[j]
    BY DEF BeginsWith
  <1>3. i \in 1 .. Len(b) - 1 /\ i \in 1 .. Len(a) /\ i + 1 \in 1 .. Len(a)
    BY <1>2
  <1>4. b[i] = "head" /\ b[i + 1] = "tail"
    BY <1>1, <1>2, <1>3
  <1> QED
    BY <1>3, <1>4 DEF HasCredential

\* A call that is complete was named, started, and all its arguments were shown.
LEMMA CompleteCalls ==
    ASSUME NEW c \in Seq(Chunk), NEW d, NEW events, Ends(c, d, events),
           NEW key \in Keys, NEW i \in CompleteAt(c, key)
    PROVE  /\ i \in 1 .. Len(c)
           /\ \E n \in DOMAIN events : events[n] = Started(key)
           /\ \E n \in DOMAIN events : events[n].kind = "completed" /\ events[n].key = key
           /\ ArgumentsOf(events, key) = ArgumentsUpTo(c, key, Len(c))
  <1>1. PICK m : m = Len(c)
    OBVIOUS
  <1>2. m \in Nat /\ DOMAIN c = 1 .. m /\ \A j \in DOMAIN c : j <= m
    BY <1>1
  <1>3. i \in DOMAIN c /\ \E j \in FragmentsOf(c, key) : j <= i /\ c[j].part.named
    BY DEF CompleteAt, Finishes
  <1>4. FragmentsOf(c, key) \subseteq DOMAIN c
    BY DEF FragmentsOf
  <1>5. DecoderOK(d) /\ CallsHeard(d, c, m)
    BY <1>1 DEF Ends, Decoded
  <1>6. CallOf(d, key).named /\ CallOf(d, key).completed
    <2>1. \E j \in FragmentsOf(c, key) : j <= m /\ c[j].part.named
      BY <1>2, <1>3, <1>4
    <2>2. i <= m
      BY <1>2, <1>3
    <2> QED
      BY <1>5, <2>1, <2>2 DEF CallsHeard
  <1>7. PICK n \in DOMAIN d.events : d.events[n] = Started(key)
    BY <1>5, <1>6 DEF DecoderOK
  <1>8. PICK k \in DOMAIN d.events : d.events[k].kind = "completed" /\ d.events[k].key = key
    BY <1>5, <1>6 DEF DecoderOK
  <1>9. \A x \in DOMAIN d.events : x \in DOMAIN events /\ events[x] = d.events[x]
    BY LastEvent
  <1>10. ArgumentsOf(events, key) = ArgumentsUpTo(c, key, m)
    <2>1. ArgumentsOf(events, key) = ArgumentsOf(d.events, key)
      BY ArgumentsOfAnswer
    <2>2. ArgumentsOf(d.events, key) = Shown(CallOf(d, key))
      BY <1>5 DEF DecoderOK
    <2>3. Shown(CallOf(d, key)) = CallOf(d, key).raw
      BY <1>6 DEF Shown
    <2>4. CallOf(d, key).raw = ArgumentsUpTo(c, key, m)
      BY <1>5 DEF CallsHeard
    <2> QED
      BY <2>1, <2>2, <2>3, <2>4
  <1> QED
    BY <1>1, <1>2, <1>3, <1>7, <1>8, <1>9, <1>10

\* What passes containsCredentialEcho has no credential in text, reasoning or calls.
LEMMA CleanAnswer ==
    ASSUME NEW c \in Seq(Chunk), NEW d, NEW events, Ends(c, d, events),
           ~ContainsCredentialEcho(events)
    PROVE  /\ ~HasCredential(TextOf(c, "text"))
           /\ ~HasCredential(TextOf(c, "reasoning"))
           /\ \A key \in Keys : \A i \in CompleteAt(c, key) :
                 ~HasCredential(ArgumentsUpTo(c, key, i))
  <1>1. \A kinds \in {{"text"}, {"reasoning"}, {"text", "reasoning", "argument"}} :
           ~HasCredential(Join(OfKind(events, kinds)))
    BY DEF ContainsCredentialEcho
  <1>2. ~HasCredential(TextOf(c, "text"))
    <2>1. Join(OfKind(events, {"text"})) = TextOf(c, "text")
      BY TextOfAnswer
    <2>2. ~HasCredential(Join(OfKind(events, {"text"})))
      BY <1>1
    <2> QED
      BY <2>1, <2>2
  <1>3. ~HasCredential(TextOf(c, "reasoning"))
    <2>1. Join(OfKind(events, {"reasoning"})) = TextOf(c, "reasoning")
      BY TextOfAnswer
    <2>2. ~HasCredential(Join(OfKind(events, {"reasoning"})))
      BY <1>1
    <2> QED
      BY <2>1, <2>2
  <1>4. ASSUME NEW key \in Keys, NEW i \in CompleteAt(c, key)
        PROVE  ~HasCredential(ArgumentsUpTo(c, key, i))
    <2>1. /\ i \in 1 .. Len(c)
          /\ \E n \in DOMAIN events : events[n] = Started(key)
          /\ ArgumentsOf(events, key) = ArgumentsUpTo(c, key, Len(c))
      BY CompleteCalls
    <2>2. key \in CallsOf(events)
      <3>1. Started(key).kind = "started" /\ Started(key).key = key
        BY EventFacts
      <3> QED
        BY <2>1, <3>1 DEF CallsOf
    <2>3. ~HasCredential(ArgumentsUpTo(c, key, Len(c)))
      BY <2>1, <2>2 DEF ContainsCredentialEcho
    <2>4. i \in 0 .. Len(c)
      BY <2>1
    <2>5. BeginsWith(ArgumentsUpTo(c, key, Len(c)), ArgumentsUpTo(c, key, i))
      BY <2>4, ArgumentsOnlyGrow
    <2> QED
      BY <2>3, <2>5, LongerHasCredential
  <1> QED
    BY <1>2, <1>3, <1>4

WholeAt(c, key) ==
    CHOOSE i \in CompleteAt(c, key) : \A j \in CompleteAt(c, key) : i <= j

\* The frame at which a call is whole is the first of those that complete it.
LEMMA WholeIsTheFirst ==
    ASSUME NEW c \in Seq(Chunk), NEW key, NEW i \in CompleteAt(c, key),
           \A j \in CompleteAt(c, key) : i <= j
    PROVE  WholeAt(c, key) = i
  <1>1. CompleteAt(c, key) \subseteq Nat
    <2>1. DOMAIN c \subseteq Nat
      OBVIOUS
    <2> QED
      BY <2>1 DEF CompleteAt, Finishes
  <1> DEFINE First(n) == \A j \in CompleteAt(c, key) : n <= j
  <1>2. \A n \in CompleteAt(c, key) : First(n) => n = i
    BY <1>1
  <1>3. First(i)
    OBVIOUS
  <1>4. WholeAt(c, key) = CHOOSE n \in CompleteAt(c, key) : First(n)
    BY DEF WholeAt
  <1> HIDE DEF First
  <1> QED
    BY <1>2, <1>3, <1>4

CountedCalls(events) ==
    {x \in Event : x.kind = "completed" /\ \E i \in DOMAIN events : events[i] = Started(x.key)}

\* A completed event is of a call that the loop counts, and has its arguments.
LEMMA CompletedEvents ==
    ASSUME NEW c \in Seq(Chunk), NEW d, NEW events, Ends(c, d, events),
           NEW n \in DOMAIN events, events[n].kind = "completed"
    PROVE  /\ n \in DOMAIN d.events /\ events[n] = d.events[n]
           /\ events[n] \in CountedCalls(events)
           /\ events[n].key \in Keys /\ CompleteAt(c, events[n].key) # {}
           /\ events[n] = Completed(events[n].key,
                ArgumentsUpTo(c, events[n].key, WholeAt(c, events[n].key)))
           /\ events[n].raw = ArgumentsOf(SubSeq(events, 1, n), events[n].key)
  <1>1. n \in DOMAIN d.events /\ events[n] = d.events[n]
    BY LastEvent
  <1>2. SubSeq(events, 1, n) = SubSeq(d.events, 1, n)
    BY <1>1, LastEvent
  <1>3. PICK e : e = events[n]
    OBVIOUS
  <1>4. e \in Event /\ e.kind = "completed"
    BY <1>3 DEF Ends
  <1>5. e = Completed(e.key, e.raw) /\ e.key \in Keys
    BY <1>4, KindOfEvent
  <1>6. DecoderOK(d) /\ CompletionsOK(d) /\ CompletionsHeard(d, c, Len(c))
    BY DEF Ends, Decoded, DecoderOK
  <1>7. CallOf(d, e.key).completed /\ e.raw = ArgumentsOf(SubSeq(d.events, 1, n), e.key)
    BY <1>1, <1>3, <1>4, <1>6 DEF CompletionsOK
  <1>8. \E i \in DOMAIN events : events[i] = Started(e.key)
    <2>1. CallOf(d, e.key).named
      BY <1>5, <1>6, <1>7 DEF DecoderOK, Tidy
    <2>2. PICK k \in DOMAIN d.events : d.events[k] = Started(e.key)
      BY <1>5, <1>6, <2>1 DEF DecoderOK
    <2>3. k \in DOMAIN events /\ events[k] = d.events[k]
      BY LastEvent
    <2> QED
      BY <2>2, <2>3
  <1>9. e \in CountedCalls(events)
    BY <1>4, <1>8 DEF CountedCalls
  <1>10. CompletedIn(e, c, Len(c))
    BY <1>1, <1>3, <1>4, <1>6 DEF CompletionsHeard
  <1>11. PICK i \in CompleteAt(c, e.key) :
            e.raw = ArgumentsUpTo(c, e.key, i) /\ \A j \in CompleteAt(c, e.key) : i <= j
    BY <1>10 DEF CompletedIn
  <1>12. WholeAt(c, e.key) = i
    BY <1>11, WholeIsTheFirst
  <1>13. e = Completed(e.key, ArgumentsUpTo(c, e.key, WholeAt(c, e.key)))
    BY <1>5, <1>11, <1>12
  <1> QED
    BY <1>1, <1>2, <1>3, <1>5, <1>7, <1>9, <1>11, <1>13

\* CompletedCalls keeps them.
LEMMA CompletedCallsIs ==
    ASSUME NEW events
    PROVE  CompletedCalls(events) = Kept(events, CountedCalls(events))
  BY DEF CompletedCalls, CountedCalls

\* The three parts of CallsAreWhole.
AreTheWholeCalls(calls, c) ==
    {calls[i] : i \in DOMAIN calls} =
       {Completed(key, ArgumentsUpTo(c, key, WholeAt(c, key))) :
           key \in {k \in Keys : CompleteAt(c, k) # {}}}
AreSeveralCalls(calls) ==
    \A i, j \in DOMAIN calls : calls[i].key = calls[j].key => i = j
ShowTheirArguments(events) ==
    \A i \in DOMAIN events :
       events[i].kind = "completed" =>
          events[i].raw = ArgumentsOf(SubSeq(events, 1, i), events[i].key)

\* The completed calls of a finished stream are what CallsAreWhole says.
LEMMA WholeCalls ==
    ASSUME NEW c \in Seq(Chunk), NEW d, NEW events, Ends(c, d, events),
           NEW calls, calls = CompletedCalls(events)
    PROVE  /\ AreTheWholeCalls(calls, c) /\ AreSeveralCalls(calls)
           /\ ShowTheirArguments(events)
  <1>1. PICK S : S = CountedCalls(events)
    OBVIOUS
  <1>2. events \in Seq(Event) /\ calls = Kept(events, S)
    BY <1>1, CompletedCallsIs DEF Ends
  <1>3. \A i \in DOMAIN calls : \E n \in DOMAIN events : events[n] \in S /\ events[n] = calls[i]
    BY <1>2, KeptElements
  <1>4. \A n \in DOMAIN events : events[n] \in S => \E i \in DOMAIN calls : calls[i] = events[n]
    BY <1>2, KeptElements
  <1>5. \A x \in S : x.kind = "completed"
    BY <1>1 DEF CountedCalls
  <1> DEFINE W(key) == Completed(key, ArgumentsUpTo(c, key, WholeAt(c, key)))
             K == {k \in Keys : CompleteAt(c, k) # {}}
  <1>6. ASSUME NEW n \in DOMAIN events, events[n].kind = "completed"
        PROVE  events[n] \in S /\ events[n].key \in K /\ events[n] = W(events[n].key)
    BY <1>1, <1>6, CompletedEvents
  <1>7. ASSUME NEW key \in K
        PROVE  \E n \in DOMAIN events : events[n].kind = "completed" /\ events[n].key = key
    <2>1. PICK i : i \in CompleteAt(c, key)
      OBVIOUS
    <2>2. key \in Keys
      OBVIOUS
    <2> QED
      BY <2>1, <2>2, CompleteCalls
  <1>8. \A i \in DOMAIN calls : \E key \in K : calls[i] = W(key)
    <2> HIDE DEF W, K
    <2> QED
      BY <1>3, <1>5, <1>6
  <1>9. \A key \in K : \E i \in DOMAIN calls : calls[i] = W(key)
    <2> HIDE DEF W, K
    <2> QED
      BY <1>4, <1>6, <1>7
  <1>10. {calls[i] : i \in DOMAIN calls} = {W(key) : key \in K}
    <2> HIDE DEF W, K
    <2> QED
      BY <1>8, <1>9
  <1>11. \A i, j \in DOMAIN calls : calls[i].key = calls[j].key => i = j
    <2>1. ASSUME NEW m \in DOMAIN events, NEW n \in DOMAIN events,
                 events[m] \in S, events[n] \in S, events[m].key = events[n].key
          PROVE  m = n
      <3>1. events[m].kind = "completed" /\ events[n].kind = "completed"
        BY <1>5, <2>1
      <3>2. m \in DOMAIN d.events /\ events[m] = d.events[m]
        BY <3>1, CompletedEvents
      <3>3. n \in DOMAIN d.events /\ events[n] = d.events[n]
        BY <3>1, CompletedEvents
      <3>4. CompletionsOK(d)
        BY DEF Ends, Decoded, DecoderOK
      <3> QED
        BY <2>1, <3>1, <3>2, <3>3, <3>4 DEF CompletionsOK
    <2> QED
      BY <1>2, <2>1, KeptKeysDiffer
  <1>12. ShowTheirArguments(events)
    BY CompletedEvents DEF ShowTheirArguments
  <1>13. AreTheWholeCalls(calls, c) /\ AreSeveralCalls(calls)
    BY <1>10, <1>11 DEF AreTheWholeCalls, AreSeveralCalls
  <1> QED
    BY <1>12, <1>13

-----------------------------------------------------------------------------
(* What each point of the call knows *)

\* What each point of the call knows: nothing is read before the response, a
\* result exists only at the end, and a deterministic failure was decided by the
\* status alone.
CallInv ==
    /\ pc \in {"fetch", "read", "cancel", "done"}
    /\ pc = "fetch" => heard = <<>>
    /\ pc # "done" => result = Pending
    /\ error \in {"none", "malformed_stream", "transport", "abort"}
    /\ result.kind = "answer" => ~timedOut /\ ~callerAborted
    /\ result.kind = "failed" /\ result.code \in DeterministicFailures
          => status \in {"401", "429"} /\ heard = <<>>

\* The codes of failures that are not HTTP statuses are ambiguous.
LEMMA OtherCodes ==
    ASSUME NEW s, NEW kind \in {"timeout", "malformed_stream", "transport"}
    PROVE  Classify(kind, s) \notin DeterministicFailures
BY DEF Classify, DeterministicFailures

\* Only the two refusals have deterministic codes.
LEMMA HttpCodes ==
    ASSUME NEW s, Classify("http", s) \in DeterministicFailures
    PROVE  s \in {"401", "429"}
BY DEF Classify, HttpCode, DeterministicFailures

\* A result that neither answers nor fails deterministically.
Harmless(r) ==
    /\ r.kind # "answer"
    /\ ~(r.kind = "failed" /\ r.code \in DeterministicFailures)

\* The fields of a failure.
LEMMA FailureFields ==
    ASSUME NEW code
    PROVE  Failure(code).kind = "failed" /\ Failure(code).code = code
BY DEF Failure

\* The kind of an answer.
LEMMA AnswerFields ==
    ASSUME NEW events
    PROVE  Answer(events).kind = "answer"
BY DEF Answer

\* Everything thrown but a status ends in a harmless result.
LEMMA CaughtIsHarmless ==
    ASSUME NEW s, NEW thrown, thrown # "http"
    PROVE  Harmless(Caught(thrown, s))
<1>1. Harmless(Cancelled)
  BY DEF Harmless, Cancelled
<1>2. ASSUME NEW kind \in {"timeout", "malformed_stream", "transport"}
      PROVE  Harmless(Failure(Classify(kind, s)))
  BY <1>2, OtherCodes, FailureFields DEF Harmless
<1> QED
  BY <1>1, <1>2 DEF Caught

\* A chunk sequence ends in an answer or in a harmless failure.
LEMMA ReturnedIsSafe ==
    ASSUME NEW chunks
    PROVE  Harmless(Returned(chunks)) \/ Returned(chunks).kind = "answer"
<1> DEFINE events == Decode(chunks)
<1>1. CASE ContainsCredentialEcho(events)
  <2>1. Returned(chunks) = Failure(Classify("malformed_stream", status))
    BY <1>1 DEF Returned
  <2> QED
    BY <2>1, OtherCodes, FailureFields DEF Harmless
<1>2. CASE ~ContainsCredentialEcho(events)
  BY <1>2, AnswerFields DEF Returned
<1> QED
  BY <1>1, <1>2

\* A new call knows nothing yet.
LEMMA InitCall == Init => CallInv
BY DEF Init, CallInv, Pending, DeterministicFailures

\* A call that ends with a harmless result, or with an answer while nothing was
\* aborted.
LEMMA FinishKeeps ==
    ASSUME CallInv, NEW r, Finish(r),
           \/ Harmless(r)
           \/ r.kind = "answer" /\ ~Aborted
    PROVE  CallInv'
BY DEF CallInv, Finish, Harmless, Aborted

\* A call that throws while its reader is cancelled.
LEMMA ThrowKeeps ==
    ASSUME CallInv, pc # "done", NEW e \in {"malformed_stream", "transport", "abort"},
           ThrowInLoop(e)
    PROVE  CallInv'
BY DEF CallInv, ThrowInLoop, Pending

\* Every step of the call keeps the invariant.
LEMMA NextCall == CallInv /\ [Next]_vars => CallInv'
<1> SUFFICES ASSUME CallInv, [Next]_vars PROVE CallInv'
  OBVIOUS
<1>1. ASSUME NEW s \in Statuses, Respond(s) PROVE CallInv'
  <2>1. CASE pc' = "read" /\ UNCHANGED <<timedOut, callerAborted, error, result>>
    BY <1>1, <2>1 DEF CallInv, Respond, Pending
  <2>2. CASE s = "not_a_stream" /\ Finish(Caught("malformed_stream", s))
    BY <2>2, FinishKeeps, CaughtIsHarmless
  <2>3. CASE s \in {"401", "429", "5xx", "other"} /\ Finish(Caught("http", s))
    <3>1. Caught("http", s) = Failure(Classify("http", s))
      BY <1>1 DEF Caught, Respond, Aborted
    <3>2. /\ result' = Failure(Classify("http", s)) /\ pc' = "done"
          /\ error' = "none" /\ status' = s /\ heard' = heard /\ heard = <<>>
      BY <1>1, <2>3, <3>1 DEF Finish, Respond, CallInv
    <3>3. result'.kind = "failed" /\ result'.code = Classify("http", s)
      BY <3>2, FailureFields
    <3> QED
      BY <3>2, <3>3, HttpCodes DEF CallInv
  <2> QED
    BY <1>1, <2>1, <2>2, <2>3 DEF Respond
<1>2. CASE Unreachable
  BY <1>2, FinishKeeps, CaughtIsHarmless DEF Unreachable
<1>3. CASE AbortFetch
  BY <1>3, FinishKeeps, CaughtIsHarmless DEF AbortFetch
<1>4. ASSUME NEW segment \in Segments, Read(segment) PROVE CallInv'
  <2>1. CASE ThrowInLoop("malformed_stream")
    BY <1>4, <2>1, ThrowKeeps DEF Read
  <2>2. ASSUME NEW chunks, Finish(Returned(chunks)) PROVE CallInv'
    BY <1>4, <2>2, FinishKeeps, ReturnedIsSafe DEF Read
  <2>3. CASE UNCHANGED <<pc, timedOut, callerAborted, error, result>>
    BY <1>4, <2>3 DEF CallInv, Read, TakeSegment, Hear, Pending
  <2> QED
    BY <1>4, <2>1, <2>2, <2>3 DEF Read, TakeSegment
<1>5. ASSUME NEW rest \in Rests, Eof(rest) PROVE CallInv'
  <2>1. CASE ThrowInLoop("malformed_stream")
    BY <1>5, <2>1, ThrowKeeps DEF Eof
  <2>2. ASSUME NEW chunks, Finish(Returned(chunks)) PROVE CallInv'
    BY <1>5, <2>2, FinishKeeps, ReturnedIsSafe DEF Eof
  <2>3. CASE Finish(Caught("malformed_stream", status))
    BY <2>3, FinishKeeps, CaughtIsHarmless
  <2> QED
    BY <1>5, <2>1, <2>2, <2>3 DEF Eof
<1>6. CASE Broken
  BY <1>6, ThrowKeeps DEF Broken
<1>7. CASE AbortRead
  BY <1>7, ThrowKeeps DEF AbortRead
<1>8. CASE CancelReader
  <2>1. error # "http"
    BY DEF CallInv
  <2> QED
    BY <1>8, <2>1, FinishKeeps, CaughtIsHarmless DEF CancelReader
<1>9. CASE TimerFires
  BY <1>9 DEF CallInv, TimerFires, Pending
<1>10. CASE CallerAborts
  BY <1>10 DEF CallInv, CallerAborts, Pending
<1>11. CASE UNCHANGED vars
  BY <1>11 DEF CallInv, vars
<1> QED
  BY <1>1, <1>2, <1>3, <1>4, <1>5, <1>6, <1>7, <1>8, <1>9, <1>10, <1>11 DEF Next

\* CallInv holds at every point of every call.
THEOREM CallInvariant == Spec => []CallInv
BY InitCall, NextCall, PTL DEF Spec

\* A step is recorded as failed only if the Provider refused the request: the
\* codes of errors.ts and the set of deterministic codes of the loop agree, for
\* every interleaving of frames, errors, timer and abort.
THEOREM OnlyRefusalsFailAStep == Spec => []StepFailsOnlyIfRefused
<1>1. CallInv => StepFailsOnlyIfRefused
  BY DEF CallInv, StepFailsOnlyIfRefused, Verdict
<1> QED
  BY <1>1, CallInvariant, PTL

\* An aborted call never delivers an answer.
THEOREM AbortedCallsDoNotAnswer == Spec => []NoAnswerAfterAbort
<1>1. CallInv => NoAnswerAfterAbort
  BY DEF CallInv, NoAnswerAfterAbort, Answered
<1> QED
  BY <1>1, CallInvariant, PTL

-----------------------------------------------------------------------------
(* What an answer is of *)

\* What the call has heard its reader has read, and an answer is what the
\* decoder makes of it.
TransportInv ==
    /\ timedOut \in BOOLEAN /\ callerAborted \in BOOLEAN
    /\ status \in Statuses \cup {"none"}
    /\ pc = "done" <=> result.kind # "pending"
    /\ heard \in Seq(Wire) /\ Len(heard) <= MaxStream
    /\ ReaderOK(reader, heard)
    /\ Answered =>
          /\ ~reader.bad /\ reader.terminal
          /\ result = Answer(Decode(reader.chunks))
          /\ ~ContainsCredentialEcho(Decode(reader.chunks))

\* The parts of it that a step without a result changes.
Hearing ==
    /\ heard \in Seq(Wire) /\ Len(heard) <= MaxStream
    /\ ReaderOK(reader, heard)

\* The kinds of results differ.
LEMMA ResultKinds ==
    /\ \A code : Failure(code).kind = "failed"
    /\ Cancelled.kind = "cancelled" /\ Pending.kind = "pending"
    /\ \A events : Answer(events).kind = "answer" /\ Answer(events).events = events
  BY DEF Failure, Cancelled, Pending, Answer

\* What is thrown is never an answer.
LEMMA CaughtKinds ==
    ASSUME NEW thrown, NEW s
    PROVE  Caught(thrown, s).kind \in {"failed", "cancelled"}
  BY ResultKinds DEF Caught

\* An answer is the decoded stream, without the credential.
LEMMA ReturnedKinds ==
    ASSUME NEW chunks, NEW r, r = Returned(chunks)
    PROVE  \/ r.kind = "failed"
           \/ /\ r.kind = "answer" /\ r = Answer(Decode(chunks))
              /\ ~ContainsCredentialEcho(Decode(chunks))
  <1>1. CASE ContainsCredentialEcho(Decode(chunks))
    BY <1>1, ResultKinds DEF Returned
  <1>2. CASE ~ContainsCredentialEcho(Decode(chunks))
    BY <1>2, ResultKinds DEF Returned
  <1> QED
    BY <1>1, <1>2

\* A new call has heard nothing.
LEMMA InitTransport == Init => TransportInv
  <1> SUFFICES ASSUME Init PROVE TransportInv
    OBVIOUS
  <1>1. /\ heard = <<>> /\ reader = Unread /\ result = Pending /\ pc = "fetch"
        /\ timedOut \in BOOLEAN /\ callerAborted \in BOOLEAN /\ status = "none"
    BY DEF Init
  <1>2. heard \in Seq(Wire) /\ Len(heard) <= MaxStream
    BY <1>1, TransportAssumption
  <1>3. Unread \in Readers
    BY DEF Unread, Readers
  <1>4. Gathered(<<>>, FALSE, FALSE, <<>>)
    BY DEF Gathered
  <1>5. ReaderOK(reader, heard)
    BY <1>1, <1>3, <1>4 DEF ReaderOK, Unread
  <1>6. result.kind = "pending"
    BY <1>1, ResultKinds
  <1> QED
    BY <1>1, <1>2, <1>5, <1>6 DEF TransportInv, Answered

\* What arrives is a sequence of frames.
LEMMA SegmentsAreSequences ==
    /\ \A segment \in Segments : segment \in Seq(Wire)
    /\ \A rest \in Rests : rest \in Seq(Wire)
  <1>1. ASSUME NEW segment \in Segments PROVE segment \in Seq(Wire)
    <2>1. PICK n \in 1 .. MaxSegment : segment \in [1 .. n -> Wire]
      BY DEF Segments
    <2>2. n \in Nat
      BY TransportAssumption
    <2> QED
      BY <2>1, <2>2, IsASequence
  <1>2. ASSUME NEW rest \in Rests PROVE rest \in Seq(Wire)
    <2>1. CASE rest = <<>>
      BY <2>1
    <2>2. CASE rest \in [1 .. 1 -> Wire]
      BY <2>2, IsASequence
    <2> QED
      BY <2>1, <2>2 DEF Rests
  <1> QED
    BY <1>1, <1>2

\* What arrives is read, or over the limit.
LEMMA HearKeeps ==
    ASSUME Hearing, NEW segment \in Seq(Wire), Hear(segment)
    PROVE  /\ Hearing' /\ status' = status
           /\ ~OverLimit(segment) => reader' = Consume(segment)
  <1>1. CASE OverLimit(segment)
    BY <1>1 DEF Hear, Hearing
  <1>2. CASE ~OverLimit(segment)
    <2>1. heard' = heard \o segment /\ reader' = Consume(segment) /\ status' = status
      BY <1>2 DEF Hear
    <2>2. PICK h : h = heard \o segment
      OBVIOUS
    <2>3. h \in Seq(Wire) /\ Len(h) = Len(heard) + Len(segment)
      BY <2>2, ConcatFacts DEF Hearing
    <2>4. Len(h) <= MaxStream
      <3>1. Len(heard) \in Nat /\ Len(segment) \in Nat /\ MaxStream \in Nat
        BY TransportAssumption DEF Hearing
      <3> QED
        BY <1>2, <2>3, <3>1 DEF OverLimit
    <2>5. ReaderOK(Consume(segment), h)
      BY <2>2, ConsumeKeepsReader DEF Hearing
    <2> QED
      BY <2>1, <2>2, <2>3, <2>4, <2>5 DEF Hearing
  <1> QED
    BY <1>1, <1>2

\* Steps that end the call without an answer, and steps that do not end it.
LEMMA FinishWithoutAnswer ==
    ASSUME TransportInv, Hearing', status' \in Statuses \cup {"none"},
           NEW r, Finish(r), r.kind \in {"failed", "cancelled"}
    PROVE  TransportInv'
  <1>1. result'.kind \in {"failed", "cancelled"} /\ pc' = "done"
    BY DEF Finish
  <1>2. timedOut' \in BOOLEAN /\ callerAborted' \in BOOLEAN
    BY DEF Finish, TransportInv
  <1> QED
    BY <1>1, <1>2 DEF TransportInv, Hearing, Answered

\* A call that ends with what its reader has.
LEMMA FinishWithAnswer ==
    ASSUME TransportInv, Hearing', status' \in Statuses \cup {"none"},
           ~reader'.bad, reader'.terminal, Finish(Returned(reader'.chunks))
    PROVE  TransportInv'
  <1>1. PICK c : c = reader'.chunks
    OBVIOUS
  <1>2. PICK r : r = Returned(reader'.chunks)
    OBVIOUS
  <1>3. result' = r /\ pc' = "done" /\ timedOut' \in BOOLEAN /\ callerAborted' \in BOOLEAN
    BY <1>2 DEF Finish, TransportInv
  <1>4. \/ r.kind = "failed"
        \/ /\ r.kind = "answer" /\ r = Answer(Decode(c))
           /\ ~ContainsCredentialEcho(Decode(c))
    BY <1>1, <1>2, ReturnedKinds
  <1> QED
    BY <1>1, <1>3, <1>4 DEF TransportInv, Hearing, Answered

\* A call that goes on.
LEMMA NoResultYet ==
    ASSUME TransportInv, CallInv, Hearing', pc # "done", pc' # "done",
           status' \in Statuses \cup {"none"}, result' = result,
           timedOut' \in BOOLEAN, callerAborted' \in BOOLEAN
    PROVE  TransportInv'
  <1>1. result' = Pending /\ result'.kind = "pending"
    BY ResultKinds DEF CallInv
  <1> QED
    BY <1>1 DEF TransportInv, Hearing, Answered

\* Every step of the call keeps the two invariants.
LEMMA NextTransport == CallInv /\ TransportInv /\ [Next]_vars => TransportInv'
  <1> SUFFICES ASSUME CallInv, TransportInv, [Next]_vars PROVE TransportInv'
    OBVIOUS
  <1>1. Hearing /\ status \in Statuses \cup {"none"}
    BY DEF TransportInv, Hearing
  <1>2. UNCHANGED <<reader, heard>> => Hearing'
    BY <1>1 DEF Hearing
  <1>3. timedOut \in BOOLEAN /\ callerAborted \in BOOLEAN
    BY DEF TransportInv
  <1>4. ASSUME NEW s \in Statuses, Respond(s) PROVE TransportInv'
    <2>1. Hearing' /\ status' \in Statuses \cup {"none"} /\ pc = "fetch"
      BY <1>2, <1>4 DEF Respond
    <2>2. CASE pc' = "read" /\ UNCHANGED <<timedOut, callerAborted, error, result>>
      BY <1>3, <2>1, <2>2, NoResultYet
    <2>3. CASE Finish(Caught("malformed_stream", s))
      BY <2>1, <2>3, CaughtKinds, FinishWithoutAnswer
    <2>4. CASE Finish(Caught("http", s))
      BY <2>1, <2>4, CaughtKinds, FinishWithoutAnswer
    <2> QED
      BY <1>4, <2>2, <2>3, <2>4 DEF Respond
  <1>5. CASE Unreachable
    BY <1>1, <1>2, <1>5, CaughtKinds, FinishWithoutAnswer DEF Unreachable
  <1>6. CASE AbortFetch
    BY <1>1, <1>2, <1>6, CaughtKinds, FinishWithoutAnswer DEF AbortFetch
  <1>7. ASSUME NEW segment \in Segments, Read(segment) PROVE TransportInv'
    <2>1. segment \in Seq(Wire) /\ pc = "read" /\ Hear(segment)
      BY <1>7, SegmentsAreSequences DEF Read, TakeSegment
    <2>2. /\ Hearing' /\ status' = status
          /\ ~OverLimit(segment) => reader' = Consume(segment)
      BY <1>1, <2>1, HearKeeps
    <2>3. CASE ThrowInLoop("malformed_stream")
      BY <1>1, <1>3, <2>1, <2>2, <2>3, NoResultYet DEF ThrowInLoop
    <2>4. CASE /\ ~OverLimit(segment) /\ ~Consume(segment).bad
               /\ Consume(segment).done /\ Consume(segment).terminal
               /\ Finish(Returned(Consume(segment).chunks))
      <3>1. ~reader'.bad /\ reader'.terminal /\ Finish(Returned(reader'.chunks))
        BY <2>2, <2>4
      <3> QED
        BY <1>1, <2>2, <3>1, FinishWithAnswer
    <2>5. CASE UNCHANGED <<pc, timedOut, callerAborted, error, result>>
      BY <1>1, <1>3, <2>1, <2>2, <2>5, NoResultYet
    <2> QED
      BY <1>7, <2>3, <2>4, <2>5 DEF Read, TakeSegment
  <1>8. ASSUME NEW rest \in Rests, Eof(rest) PROVE TransportInv'
    <2>1. rest \in Seq(Wire) /\ pc = "read" /\ Hear(rest)
      BY <1>8, SegmentsAreSequences DEF Eof
    <2>2. /\ Hearing' /\ status' = status
          /\ ~OverLimit(rest) => reader' = Consume(rest)
      BY <1>1, <2>1, HearKeeps
    <2>3. CASE ThrowInLoop("malformed_stream")
      BY <1>1, <1>3, <2>1, <2>2, <2>3, NoResultYet DEF ThrowInLoop
    <2>4. CASE Finish(Caught("malformed_stream", status))
      BY <1>1, <2>2, <2>4, CaughtKinds, FinishWithoutAnswer
    <2>5. CASE /\ ~OverLimit(rest) /\ ~Consume(rest).bad /\ Consume(rest).terminal
               /\ Finish(Returned(Consume(rest).chunks))
      <3>1. ~reader'.bad /\ reader'.terminal /\ Finish(Returned(reader'.chunks))
        BY <2>2, <2>5
      <3> QED
        BY <1>1, <2>2, <3>1, FinishWithAnswer
    <2> QED
      BY <1>8, <2>3, <2>4, <2>5 DEF Eof
  <1>9. CASE Broken
    BY <1>1, <1>2, <1>3, <1>9, NoResultYet DEF Broken, ThrowInLoop
  <1>10. CASE AbortRead
    BY <1>1, <1>2, <1>3, <1>10, NoResultYet DEF AbortRead, ThrowInLoop
  <1>11. CASE CancelReader
    BY <1>1, <1>2, <1>11, CaughtKinds, FinishWithoutAnswer DEF CancelReader
  <1>12. CASE TimerFires
    BY <1>1, <1>2, <1>3, <1>12, NoResultYet DEF TimerFires
  <1>13. CASE CallerAborts
    BY <1>1, <1>2, <1>3, <1>13, NoResultYet DEF CallerAborts
  <1>14. CASE UNCHANGED vars
    BY <1>14 DEF TransportInv, Answered, vars
  <1> QED
    BY <1>4, <1>5, <1>6, <1>7, <1>8, <1>9, <1>10, <1>11, <1>12, <1>13, <1>14 DEF Next

\* What the reader has is what was heard, at every point of the call.
THEOREM TransportInvariant == Spec => [](CallInv /\ TransportInv)
  <1>1. Init => CallInv /\ TransportInv
    BY InitCall, InitTransport
  <1>2. (CallInv /\ TransportInv) /\ [Next]_vars => (CallInv /\ TransportInv)'
    BY NextCall, NextTransport
  <1> QED
    BY <1>1, <1>2, PTL DEF Spec

\* The variables keep their types.
THEOREM TypesAreKept == Spec => []TypeOK
  <1>1. CallInv /\ TransportInv => TypeOK
    BY DEF CallInv, TransportInv, TypeOK, ReaderOK, Readers
  <1> QED
    BY <1>1, TransportInvariant, PTL

\* What is known of the frames behind an answer.
LEMMA AnswerIsOfAStream ==
    ASSUME TransportInv, Answered
    PROVE  /\ \E c \in Seq(Chunk) : \E d :
                 Stream = c /\ Ends(c, d, result.events) /\ FirstFinish(c, d.reason)
           /\ ~ContainsCredentialEcho(result.events)
           /\ \A i \in DOMAIN heard : heard[i] # Bad
  <1>1. /\ ~reader.bad /\ reader.terminal /\ heard \in Seq(Wire) /\ ReaderOK(reader, heard)
        /\ result = Answer(Decode(reader.chunks))
        /\ ~ContainsCredentialEcho(Decode(reader.chunks))
    BY DEF TransportInv
  <1>2. PICK c : c = reader.chunks
    OBVIOUS
  <1>3. Stream = c
    BY <1>1, <1>2, ReaderHasTheStream
  <1>4. c \in Seq(Frames) /\ Gathered(c, reader.done, reader.terminal, heard)
    BY <1>1, <1>2 DEF ReaderOK, Readers
  <1>5. c \in Seq(Chunk)
    BY <1>4, FramesAreChunks
  <1>6. \E j \in 1 .. Len(c) : c[j].reason # "none"
    BY <1>1, <1>4 DEF Gathered
  <1>7. PICK d : Ends(c, d, Decode(c)) /\ FirstFinish(c, d.reason)
    BY <1>5, <1>6, FinishedStream
  <1>8. result.events = Decode(c)
    BY <1>1, <1>2, ResultKinds
  <1>9. ASSUME NEW i \in DOMAIN heard PROVE heard[i] # Bad
    <2>1. Len(c) \in Nat /\ Len(heard) \in Nat /\ i \in 1 .. Len(heard)
      BY <1>1, <1>4
    <2>2. CASE i \in 1 .. Len(c)
      <3>1. heard[i] = c[i] /\ c[i] \in Frames
        BY <1>4, <2>2 DEF Gathered
      <3> QED
        BY <3>1, FramesAreChunks
    <2>3. CASE i \in Len(c) + 1 .. Len(heard)
      <3>1. heard[i] = Done
        BY <1>4, <2>3 DEF Gathered
      <3> QED
        BY <3>1, FramesAreChunks
    <2> QED
      BY <2>1, <2>2, <2>3
  <1> QED
    BY <1>1, <1>2, <1>3, <1>5, <1>7, <1>8, <1>9

\* An answer has the text and the finish reason of the stream, and nothing that
\* could not be read or came after the end.
THEOREM AnswersMatchTheStream == Spec => []AnswerMatchesStream
  <1>1. ASSUME TransportInv PROVE AnswerMatchesStream
    <2>1. SUFFICES ASSUME Answered
                   PROVE  /\ \A i \in DOMAIN heard : heard[i] # Bad
                          /\ Len(heard) <= MaxStream
                          /\ AssistantContent(result.events) = TextOf(Stream, "text")
                          /\ PrivateReasoning(result.events) = TextOf(Stream, "reasoning")
                          /\ \E i \in Finishes(Stream, ChoiceIndices) :
                                /\ \A j \in Finishes(Stream, ChoiceIndices) : i <= j
                                /\ FinishReason(result.events) = Stream[i].reason
      BY DEF AnswerMatchesStream
    <2>2. /\ \E c \in Seq(Chunk) : \E d :
                Stream = c /\ Ends(c, d, result.events) /\ FirstFinish(c, d.reason)
          /\ ~ContainsCredentialEcho(result.events)
          /\ \A i \in DOMAIN heard : heard[i] # Bad
      BY <1>1, <2>1, AnswerIsOfAStream
    <2> PICK c \in Seq(Chunk) : \E d :
              Stream = c /\ Ends(c, d, result.events) /\ FirstFinish(c, d.reason)
      BY <2>2
    <2> PICK d : Stream = c /\ Ends(c, d, result.events) /\ FirstFinish(c, d.reason)
      OBVIOUS
    <2>3. Len(heard) <= MaxStream
      BY <1>1 DEF TransportInv
    <2>4. AssistantContent(result.events) = TextOf(c, "text")
      BY <2>2, TextOfAnswer DEF AssistantContent
    <2>5. PrivateReasoning(result.events) = TextOf(c, "reasoning")
      BY <2>2, TextOfAnswer DEF PrivateReasoning
    <2>6. FinishReason(result.events) = d.reason
      BY <2>2, ReasonOfAnswer
    <2> QED
      BY <2>2, <2>3, <2>4, <2>5, <2>6 DEF FirstFinish
  <1> QED
    BY <1>1, TransportInvariant, PTL

\* No credential in what the loop takes from an answer.
THEOREM AnswersHaveNoCredential == Spec => []NothingTakenHasTheCredential
  <1>1. ASSUME TransportInv PROVE NothingTakenHasTheCredential
    <2>1. SUFFICES ASSUME Answered
                   PROVE  /\ ~HasCredential(TextOf(Stream, "text"))
                          /\ ~HasCredential(TextOf(Stream, "reasoning"))
                          /\ \A key \in Keys : \A i \in CompleteAt(Stream, key) :
                                ~HasCredential(ArgumentsUpTo(Stream, key, i))
      BY DEF NothingTakenHasTheCredential
    <2>2. /\ \E c \in Seq(Chunk) : \E d :
                Stream = c /\ Ends(c, d, result.events) /\ FirstFinish(c, d.reason)
          /\ ~ContainsCredentialEcho(result.events)
          /\ \A i \in DOMAIN heard : heard[i] # Bad
      BY <1>1, <2>1, AnswerIsOfAStream
    <2> PICK c \in Seq(Chunk) : \E d :
              Stream = c /\ Ends(c, d, result.events) /\ FirstFinish(c, d.reason)
      BY <2>2
    <2> PICK d : Stream = c /\ Ends(c, d, result.events) /\ FirstFinish(c, d.reason)
      OBVIOUS
    <2> QED
      BY <2>2, CleanAnswer
  <1> QED
    BY <1>1, TransportInvariant, PTL

\* The completed calls of an answer are those that the stream named and finished.
THEOREM CompletedCallsAreWhole == Spec => []CallsAreWhole
  <1>1. ASSUME TransportInv PROVE CallsAreWhole
    <2>1. SUFFICES ASSUME Answered PROVE CallsAreWhole
      BY DEF CallsAreWhole
    <2>2. /\ \E c \in Seq(Chunk) : \E d :
                Stream = c /\ Ends(c, d, result.events) /\ FirstFinish(c, d.reason)
          /\ ~ContainsCredentialEcho(result.events)
          /\ \A i \in DOMAIN heard : heard[i] # Bad
      BY <1>1, <2>1, AnswerIsOfAStream
    <2> PICK c \in Seq(Chunk) : \E d :
              Stream = c /\ Ends(c, d, result.events) /\ FirstFinish(c, d.reason)
      BY <2>2
    <2> PICK d : Stream = c /\ Ends(c, d, result.events) /\ FirstFinish(c, d.reason)
      OBVIOUS
    <2>3. PICK calls : calls = CompletedCalls(result.events)
      OBVIOUS
    <2>4. /\ AreTheWholeCalls(calls, c) /\ AreSeveralCalls(calls)
          /\ ShowTheirArguments(result.events)
      BY <2>2, <2>3, WholeCalls
    <2>5. AreTheWholeCalls(CompletedCalls(result.events), Stream)
      BY <2>2, <2>3, <2>4
    <2>6. AreSeveralCalls(CompletedCalls(result.events))
      BY <2>3, <2>4
    <2> QED
      BY <2>4, <2>5, <2>6
         DEF CallsAreWhole, AreTheWholeCalls, AreSeveralCalls, ShowTheirArguments, WholeAt
  <1> QED
    BY <1>1, TransportInvariant, PTL
=============================================================================
