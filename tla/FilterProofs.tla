----------------------------- MODULE FilterProofs -----------------------------
(***************************************************************************)
(* What Filter returns.  Filter is recursive, so its lemmas go by          *)
(* induction; the provers take no predicate as a parameter, so induction   *)
(* is stated for the set of the values that have the property.             *)
(***************************************************************************)
EXTENDS Filter, Integers, SequenceTheorems, WellFoundedInduction, TLAPS

------------------------------------------------------------------------------
(* Induction. *)

\* A set of naturals has a least element.
LEMMA NatMin ==
  ASSUME NEW T \in SUBSET Nat, T # {}
  PROVE  \E n \in T : \A m \in T : n <= m
<1>1. IsWellFoundedOn(OpToRel(<, Nat), Nat)
  BY NatLessThanWellFounded
<1>2. PICK n \in T : \A m \in T : ~(<<m, n>> \in OpToRel(<, Nat))
  BY <1>1, WFMin
<1>3. \A m \in T : ~(m < n)
  <2> TAKE m \in T
  <2>1. n \in Nat /\ m \in Nat
    OBVIOUS
  <2>2. ~(<<m, n>> \in OpToRel(<, Nat))
    BY <1>2
  <2> QED
    BY <2>1, <2>2, Zenon DEF OpToRel
<1> HIDE <1>1, <1>2
<1>4. n \in Nat /\ \A m \in T : m \in Nat
  OBVIOUS
<1> QED
  BY <1>3, <1>4

\* Induction, for a set of numbers in the place of a predicate.
LEMMA NatInduct ==
  ASSUME NEW Good, 0 \in Good, \A n \in Nat : n \in Good => n + 1 \in Good
  PROVE  Nat \subseteq Good
<1> SUFFICES ASSUME ~(Nat \subseteq Good) PROVE FALSE
  OBVIOUS
<1>1. PICK n \in Nat \ Good : \A m \in Nat \ Good : n <= m
  BY NatMin
<1>2. n # 0
  OBVIOUS
<1>3. n - 1 \in Nat /\ ~(n <= n - 1) /\ (n - 1) + 1 = n
  BY <1>2
<1>4. n - 1 \in Good
  BY <1>1, <1>3
<1> QED
  BY <1>3, <1>4

\* Induction over the length of a sequence, likewise.
LEMMA SeqInduct ==
  ASSUME NEW T, NEW Good, <<>> \in Good,
         \A s \in Seq(T), e \in T : s \in Good => Append(s, e) \in Good
  PROVE  Seq(T) \subseteq Good
<1> DEFINE N == {n \in Nat : \A s \in Seq(T) : Len(s) = n => s \in Good}
<1>1. 0 \in N
  <2>1. \A s \in Seq(T) : Len(s) = 0 => s = <<>>
    OBVIOUS
  <2> QED
    BY <2>1
<1>2. ASSUME NEW n \in Nat, n \in N PROVE n + 1 \in N
  <2> SUFFICES ASSUME NEW s \in Seq(T), Len(s) = n + 1 PROVE s \in Good
    OBVIOUS
  <2>1. SubSeq(s, 1, n) \in Seq(T) /\ Len(SubSeq(s, 1, n)) = n /\ s[n + 1] \in T
    OBVIOUS
  <2>2. Append(SubSeq(s, 1, n), s[n + 1]) = s
    OBVIOUS
  <2>3. SubSeq(s, 1, n) \in Good
    BY <1>2, <2>1
  <2> QED
    BY <2>1, <2>2, <2>3
<1> HIDE DEF N
<1>3. Nat \subseteq N
  BY <1>1, <1>2, NatInduct
<1> QED
  BY <1>3 DEF N

------------------------------------------------------------------------------
(* The recursion. *)

Kept(k, e, S) == IF e \in S THEN Append(k, e) ELSE k

\* The recursion of Filter, unfolded.
Unfolds(f, s, S, n) ==
  f = [i \in 0..n |-> IF i = 0 THEN <<>>
                      ELSE IF s[i] \in S THEN Append(f[i - 1], s[i])
                      ELSE f[i - 1]]

LEMMA UnfoldsAt ==
  ASSUME NEW f, NEW s, NEW S, NEW n \in Nat, Unfolds(f, s, S, n)
  PROVE  f[0] = <<>> /\ \A i \in 1..n : f[i] = Kept(f[i - 1], s[i], S)
<1> DEFINE F == [i \in 0..n |-> IF i = 0 THEN <<>>
                                ELSE IF s[i] \in S THEN Append(f[i - 1], s[i])
                                ELSE f[i - 1]]
<1>1. f = F
  BY DEF Unfolds
<1>2. \A i \in 0..n : F[i] = IF i = 0 THEN <<>> ELSE Kept(f[i - 1], s[i], S)
  BY DEF Kept
<1> HIDE DEF F
<1>3. f[0] = <<>>
  BY <1>1, <1>2
<1>4. ASSUME NEW i \in 1..n PROVE f[i] = Kept(f[i - 1], s[i], S)
  <2>1. i \in 0..n /\ i # 0
    OBVIOUS
  <2> QED
    BY <1>1, <1>2, <2>1
<1> QED
  BY <1>3, <1>4

LEMMA Unfolding ==
  ASSUME NEW s, NEW S, NEW n \in Nat
  PROVE  \E f : Unfolds(f, s, S, n)
<1> DEFINE Good == {m \in Nat : \E f : Unfolds(f, s, S, m)}
<1>1. 0 \in Good
  <2>1. Unfolds([i \in 0..0 |-> <<>>], s, S, 0)
    BY DEF Unfolds
  <2> QED
    BY <2>1
<1>2. ASSUME NEW m \in Nat, m \in Good PROVE m + 1 \in Good
  <2>1. PICK f : Unfolds(f, s, S, m)
    BY <1>2
  <2> DEFINE g == [i \in 0..(m + 1) |-> IF i <= m THEN f[i] ELSE Kept(f[m], s[m + 1], S)]
  <2>2. /\ f[0] = <<>>
        /\ \A i \in 1..m : f[i] = Kept(f[i - 1], s[i], S)
    BY <2>1, UnfoldsAt
  <2>3. g[0] = <<>>
    BY <2>2
  <2>4. ASSUME NEW i \in 1..(m + 1)
        PROVE  g[i] = IF s[i] \in S THEN Append(g[i - 1], s[i]) ELSE g[i - 1]
    <3>1. g[i - 1] = f[i - 1]
      OBVIOUS
    <3>2. CASE i <= m
      BY <2>2, <3>1, <3>2 DEF Kept
    <3>3. CASE i = m + 1
      BY <3>1, <3>3 DEF Kept
    <3> QED
      BY <3>2, <3>3
  <2>5. Unfolds(g, s, S, m + 1)
    <3> DEFINE G == [i \in 0..(m + 1) |-> IF i = 0 THEN <<>>
                      ELSE IF s[i] \in S THEN Append(g[i - 1], s[i])
                      ELSE g[i - 1]]
    <3>1. \A i \in 0..(m + 1) : g[i] = G[i]
      BY <2>3, <2>4
    <3>2. g = G
      BY <3>1
    <3> QED
      BY <3>2 DEF Unfolds
  <2> QED
    BY <2>5
<1> HIDE DEF Good
<1>3. Nat \subseteq Good
  BY <1>1, <1>2, NatInduct
<1> QED
  BY <1>3 DEF Good

LEMMA FilterUnfolds ==
  ASSUME NEW T, NEW s \in Seq(T), NEW S
  PROVE  \E f : /\ Unfolds(f, s, S, Len(s))
                /\ f[0] = <<>>
                /\ \A i \in 1..Len(s) : f[i] = Kept(f[i - 1], s[i], S)
                /\ Filter(s, S) = f[Len(s)]
<1> DEFINE f == CHOOSE f : Unfolds(f, s, S, Len(s))
<1>1. Unfolds(f, s, S, Len(s))
  BY Unfolding
<1>2. Filter(s, S) = f[Len(s)]
  BY DEF Filter, Unfolds
<1> HIDE DEF f
<1>3. f[0] = <<>> /\ \A i \in 1..Len(s) : f[i] = Kept(f[i - 1], s[i], S)
  BY <1>1, UnfoldsAt
<1> QED
  BY <1>1, <1>2, <1>3

------------------------------------------------------------------------------
(* Filter, by the end of the sequence. *)

LEMMA FilterEmpty == \A S : Filter(<<>>, S) = <<>>
<1> TAKE S
<1>1. <<>> \in Seq({}) /\ Len(<<>>) = 0
  OBVIOUS
<1> QED
  BY <1>1, FilterUnfolds

LEMMA FilterAppend ==
  ASSUME NEW T, NEW s \in Seq(T), NEW e \in T, NEW S
  PROVE  Filter(Append(s, e), S) = Kept(Filter(s, S), e, S)
<1> DEFINE r == Append(s, e)
           n == Len(s)
<1>0. r \in Seq(T) /\ Len(r) = n + 1 /\ n \in Nat /\ r[n + 1] = e /\ \A i \in 1..n : r[i] = s[i]
  OBVIOUS
<1>1. PICK f : f[0] = <<>> /\ (\A i \in 1..n : f[i] = Kept(f[i - 1], s[i], S)) /\ Filter(s, S) = f[n]
  BY FilterUnfolds
<1> HIDE DEF r
<1>2. PICK g : g[0] = <<>> /\ (\A i \in 1..Len(r) : g[i] = Kept(g[i - 1], r[i], S)) /\ Filter(r, S) = g[Len(r)]
  BY <1>0, FilterUnfolds
<1> HIDE DEF n
<1>3. \A i \in 0..n : g[i] = f[i]
  <2> DEFINE Good == {i \in Nat : i <= n => g[i] = f[i]}
  <2>1. 0 \in Good
    BY <1>1, <1>2
  <2>2. ASSUME NEW i \in Nat, i \in Good PROVE i + 1 \in Good
    <3> SUFFICES ASSUME i + 1 <= n PROVE g[i + 1] = f[i + 1]
      OBVIOUS
    <3>1. i + 1 \in 1..n /\ i + 1 \in 1..Len(r) /\ (i + 1) - 1 = i /\ i <= n
      BY <1>0
    <3>2. g[i + 1] = Kept(g[i], r[i + 1], S) /\ f[i + 1] = Kept(f[i], s[i + 1], S)
      BY <1>1, <1>2, <3>1
    <3> QED
      BY <1>0, <2>2, <3>1, <3>2
  <2> HIDE DEF Good
  <2>3. Nat \subseteq Good
    BY <2>1, <2>2, NatInduct
  <2> QED
    BY <1>0, <2>3 DEF Good
<1>4. n + 1 \in 1..Len(r) /\ (n + 1) - 1 = n /\ n \in 0..n
  BY <1>0
<1>5. g[n + 1] = Kept(g[n], r[n + 1], S)
  BY <1>2, <1>4
<1> QED
  BY <1>0, <1>1, <1>2, <1>3, <1>4, <1>5 DEF r, n

LEMMA FilterType ==
  ASSUME NEW T, NEW s \in Seq(T), NEW S
  PROVE  Filter(s, S) \in Seq(T \cap S)
<1> DEFINE Good == {r \in Seq(T) : Filter(r, S) \in Seq(T \cap S)}
<1>1. <<>> \in Good
  <2>1. <<>> \in Seq(T) /\ <<>> \in Seq(T \cap S)
    OBVIOUS
  <2> QED
    BY <2>1, FilterEmpty, Zenon
<1>2. ASSUME NEW r \in Seq(T), NEW e \in T, r \in Good PROVE Append(r, e) \in Good
  <2>1. Append(r, e) \in Seq(T) /\ Filter(r, S) \in Seq(T \cap S)
    BY <1>2
  <2>2. Kept(Filter(r, S), e, S) \in Seq(T \cap S)
    BY <2>1 DEF Kept
  <2> QED
    BY <2>1, <2>2, FilterAppend
<1> HIDE DEF Good
<1>3. Seq(T) \subseteq Good
  BY <1>1, <1>2, SeqInduct
<1> QED
  BY <1>3 DEF Good

LEMMA KeptConcat ==
  ASSUME NEW S, NEW s \in Seq(S), NEW t \in Seq(S), NEW e
  PROVE  Kept(s \o t, e, S) = s \o Kept(t, e, S)
<1>1. e \in S => Append(s \o t, e) = s \o Append(t, e)
  OBVIOUS
<1> QED
  BY <1>1 DEF Kept

LEMMA FilterConcat ==
  ASSUME NEW T, NEW s \in Seq(T), NEW t \in Seq(T), NEW S
  PROVE  Filter(s \o t, S) = Filter(s, S) \o Filter(t, S)
<1> DEFINE Good == {r \in Seq(T) : Filter(s \o r, S) = Filter(s, S) \o Filter(r, S)}
<1>0. Filter(s, S) \in Seq(T \cap S)
  BY FilterType
<1>1. <<>> \in Good
  <2>1. s \o <<>> = s /\ <<>> \in Seq(T) /\ Filter(s, S) \o <<>> = Filter(s, S)
    BY <1>0
  <2> QED
    BY <2>1, FilterEmpty
<1>2. ASSUME NEW r \in Seq(T), NEW e \in T, r \in Good PROVE Append(r, e) \in Good
  <2>1. s \o r \in Seq(T) /\ Append(r, e) \in Seq(T) /\ s \o Append(r, e) = Append(s \o r, e)
    OBVIOUS
  <2>2. Filter(s \o Append(r, e), S) = Kept(Filter(s, S) \o Filter(r, S), e, S)
    BY <1>2, <2>1, FilterAppend
  <2>3. Filter(Append(r, e), S) = Kept(Filter(r, S), e, S)
    BY FilterAppend
  <2>4. Kept(Filter(s, S) \o Filter(r, S), e, S) = Filter(s, S) \o Kept(Filter(r, S), e, S)
    <3>1. Filter(s, S) \in Seq(T \cap S) /\ Filter(r, S) \in Seq(T \cap S)
      BY FilterType
    <3>2. Seq(T \cap S) \subseteq Seq(S)
      OBVIOUS
    <3> QED
      BY <3>1, <3>2, KeptConcat, Zenon
  <2> QED
    BY <2>1, <2>2, <2>3, <2>4
<1> HIDE DEF Good
<1>3. Seq(T) \subseteq Good
  BY <1>1, <1>2, SeqInduct
<1> QED
  BY <1>3 DEF Good

LEMMA FilterOne ==
  ASSUME NEW e, NEW S
  PROVE  Filter(<<e>>, S) = IF e \in S THEN <<e>> ELSE <<>>
<1>1. <<>> \in Seq({e}) /\ e \in {e}
  OBVIOUS
<1>2. Filter(Append(<<>>, e), S) = Kept(Filter(<<>>, S), e, S)
  BY <1>1, FilterAppend
<1>3. Append(<<>>, e) = <<e>>
  OBVIOUS
<1> QED
  BY <1>2, <1>3, FilterEmpty DEF Kept

------------------------------------------------------------------------------
(* Filter on places: which of 1, 2, ..., n a set holds. *)

Places(n) == [i \in 1..n |-> i]

LEMMA PlacesAppend ==
  ASSUME NEW n \in Nat
  PROVE  /\ Places(n) \in Seq(Nat) /\ Len(Places(n)) = n
         /\ Places(n + 1) = Append(Places(n), n + 1)
         /\ Places(0) = <<>>
<1>1. Places(n) \in Seq(Nat) /\ Len(Places(n)) = n /\ Places(n + 1) \in Seq(Nat)
  BY DEF Places
<1>2. Append(Places(n), n + 1) = [i \in 1..(n + 1) |-> i]
  <2> DEFINE A == Append(Places(n), n + 1)
  <2>1. A \in Seq(Nat) /\ Len(A) = n + 1 /\ \A i \in 1..(n + 1) : A[i] = i
    BY <1>1 DEF Places
  <2> DEFINE B == [i \in 1..(n + 1) |-> i]
  <2>2. B \in Seq(Nat) /\ Len(B) = n + 1 /\ \A i \in 1..(n + 1) : B[i] = i
    OBVIOUS
  <2> HIDE DEF A, B
  <2>3. A = B
    BY <2>1, <2>2, SeqEqual
  <2> QED
    BY <2>3 DEF A, B
<1>3. Places(0) = <<>>
  BY DEF Places
<1> QED
  BY <1>1, <1>2, <1>3 DEF Places

\* p lists the members of S up to n, all of them and in their order; what is in
\* S without a gap from 1 keeps its place.
Lists(p, n, S) ==
  /\ p \in Seq(Nat) /\ Len(p) <= n
  /\ \A i \in 1..Len(p) : p[i] \in S /\ p[i] \in 1..n
  /\ \A i, j \in 1..Len(p) : i < j => p[i] < p[j]
  /\ \A m \in 1..n : m \in S => \E i \in 1..Len(p) : p[i] = m
  /\ \A m \in 1..n : 1..m \subseteq S => m <= Len(p) /\ p[m] = m

LEMMA FilterPlaces ==
  ASSUME NEW n \in Nat, NEW S
  PROVE  Lists(Filter(Places(n), S), n, S)
<1> DEFINE Good == {m \in Nat : Lists(Filter(Places(m), S), m, S)}
<1>1. 0 \in Good
  <2>1. Filter(Places(0), S) = <<>>
    BY PlacesAppend, FilterEmpty
  <2>2. <<>> \in Seq(Nat) /\ Len(<<>>) = 0 /\ 1..0 = {}
    OBVIOUS
  <2>3. Lists(<<>>, 0, S)
    BY <2>2 DEF Lists
  <2> QED
    BY <2>1, <2>3
<1>2. ASSUME NEW k \in Nat, k \in Good PROVE k + 1 \in Good
  <2> DEFINE p == Filter(Places(k), S)
             q == Filter(Places(k + 1), S)
  <2>1. q = Kept(p, k + 1, S)
    <3>1. Places(k) \in Seq(Nat) /\ Places(k + 1) = Append(Places(k), k + 1)
      BY PlacesAppend, Zenon
    <3>2. Filter(Append(Places(k), k + 1), S) = Kept(p, k + 1, S)
      BY <3>1, FilterAppend
    <3> QED
      BY <3>1, <3>2, Zenon
  <2>2. Lists(p, k, S)
    BY <1>2
  <2> HIDE DEF p, q
  <2>3. CASE k + 1 \notin S
    <3>1. q = p
      BY <2>1, <2>3 DEF Kept
    <3>2. \A m \in 1..(k + 1) : m \in S \/ 1..m \subseteq S => m \in 1..k
      BY <2>3
    <3> QED
      BY <2>2, <3>1, <3>2 DEF Lists, q
  <2>4. CASE k + 1 \in S
    <3>1. q = Append(p, k + 1)
      BY <2>1, <2>4 DEF Kept
    <3>2. p \in Seq(Nat) /\ Len(p) \in Nat /\ Len(p) <= k
      BY <2>2 DEF Lists
    <3>3. /\ q \in Seq(Nat) /\ Len(q) = Len(p) + 1 /\ q[Len(p) + 1] = k + 1
          /\ \A i \in 1..Len(p) : q[i] = p[i]
      BY <3>1, <3>2
    <3> DEFINE l == Len(p)
    <3>0. /\ \A i \in 1..l : q[i] \in S /\ q[i] \in 1..k
          /\ \A i, j \in 1..l : i < j => q[i] < q[j]
      BY <2>2, <3>2, <3>3 DEF Lists
    <3> HIDE DEF l
    <3>4. \A i \in 1..Len(q) : q[i] \in S /\ q[i] \in 1..(k + 1)
      <4> TAKE i \in 1..Len(q)
      <4>1. i \in 1..l \/ i = l + 1
        BY <3>2, <3>3 DEF l
      <4> QED
        BY <2>4, <3>0, <3>3, <4>1 DEF l
    <3>5. \A i, j \in 1..Len(q) : i < j => q[i] < q[j]
      <4> SUFFICES ASSUME NEW i \in 1..Len(q), NEW j \in 1..Len(q), i < j PROVE q[i] < q[j]
        OBVIOUS
      <4>0. Len(q) = l + 1 /\ l \in Nat
        BY <3>2, <3>3 DEF l
      <4>1. i \in 1..l /\ (j \in 1..l \/ j = l + 1)
        BY <4>0
      <4>2. q[i] \in 1..k /\ q[l + 1] = k + 1
        BY <3>0, <3>3, <4>1 DEF l
      <4> QED
        BY <3>0, <4>1, <4>2
    <3>6. ASSUME NEW m \in 1..(k + 1), m \in S PROVE \E i \in 1..Len(q) : q[i] = m
      <4>1. CASE m = k + 1
        BY <3>2, <3>3, <4>1
      <4>2. CASE m \in 1..k
        <5>1. PICK i \in 1..Len(p) : p[i] = m
          BY <2>2, <3>6, <4>2 DEF Lists
        <5> QED
          BY <3>2, <3>3, <5>1
      <4> QED
        BY <4>1, <4>2
    <3>7. ASSUME NEW m \in 1..(k + 1), 1..m \subseteq S PROVE m <= Len(q) /\ q[m] = m
      <4>1. CASE m \in 1..k
        <5>1. m <= Len(p) /\ p[m] = m
          BY <2>2, <3>7, <4>1 DEF Lists
        <5> QED
          BY <3>2, <3>3, <4>1, <5>1
      <4>2. CASE m = k + 1
        <5>1. k <= Len(p)
          <6>1. CASE k = 0
            BY <3>2, <6>1
          <6>2. CASE k \in 1..k
            <7>1. 1..k \subseteq S
              BY <3>7, <4>2
            <7> QED
              BY <2>2, <6>2, <7>1 DEF Lists
          <6> QED
            BY <6>1, <6>2
        <5> QED
          BY <3>2, <3>3, <4>2, <5>1
      <4> QED
        BY <4>1, <4>2
    <3> QED
      BY <3>2, <3>3, <3>4, <3>5, <3>6, <3>7 DEF Lists, q
  <2> QED
    BY <2>3, <2>4
<1> HIDE DEF Good
<1>3. Nat \subseteq Good
  BY <1>1, <1>2, NatInduct
<1> QED
  BY <1>3 DEF Good

===============================================================================
