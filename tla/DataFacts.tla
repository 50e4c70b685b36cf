----------------------------- MODULE DataFacts ------------------------------
(***************************************************************************)
(* Facts about naturals and sequences that the other proofs need:         *)
(* least and greatest members, induction on a set of numbers, functions   *)
(* defined by recursion, what was selected from a sequence.  Induction is *)
(* on sets, which the provers can instantiate, in place of predicates.    *)
(***************************************************************************)
EXTENDS Subsequences, FiniteSetsExt, FiniteSetTheorems, WellFoundedInduction, TLAPS

(* A set of naturals has a least member ...                                 *)
LEMMA LeastNatural ==
  ASSUME NEW T \in SUBSET Nat, T # {}
  PROVE  \E m \in T : \A k \in T : m <= k
<1> DEFINE R == {ss \in Nat \X Nat : ss[1] < ss[2]}
<1>1. IsWellFoundedOn(R, Nat)
  BY NatLessThanWellFounded, Zenon DEF OpToRel
<1>2. PICK m \in T : \A k \in T : ~(<<k, m>> \in R)
  <2> HIDE DEF R
  <2> QED BY <1>1, WFMin
<1>3. \A k \in T : m <= k
  <2>1. TAKE k \in T
  <2>2. ~(k < m)
    <3>1. <<k, m>> \in Nat \X Nat OBVIOUS
    <3>2. <<k, m>> \notin R BY <1>2
    <3> QED BY <3>1, <3>2
  <2> QED BY <2>2
<1> QED BY <1>3

(* ... which Min picks, and if it is bounded a greatest, which Max picks.    *)
LEMMA MinOfNaturals ==
  ASSUME NEW S \in SUBSET Nat, S # {}
  PROVE  Min(S) \in S /\ \A x \in S : Min(S) <= x
BY LeastNatural DEF Min

LEMMA MaxOfBounded ==
  ASSUME NEW S \in SUBSET Nat, S # {}, NEW b \in Nat, \A x \in S : x <= b
  PROVE  Max(S) \in S /\ \A x \in S : x <= Max(S)
<1> DEFINE U == {n \in Nat : \A x \in S : x <= n}
<1>1. PICK m \in U : \A k \in U : m <= k
  BY LeastNatural
<1>2. m \in S
  <2>1. SUFFICES ASSUME m \notin S PROVE FALSE OBVIOUS
  <2>2. \A x \in S : x <= m - 1 /\ m - 1 \in Nat
    BY <2>1, <1>1
  <2>3. m - 1 \in U
    BY <2>2
  <2> QED BY <2>3, <1>1
<1> QED BY <1>1, <1>2 DEF Max

(* Induction: what holds at 0 and goes from one number to the next, for the  *)
(* numbers up to N, holds for all of them.                                   *)
LEMMA UpTo ==
  ASSUME NEW N \in Nat, NEW P, 0 \in P,
         \A n \in 0 .. N - 1 : n \in P => n + 1 \in P
  PROVE  0 .. N \subseteq P
<1> DEFINE T == {n \in 0 .. N : n \notin P}
<1> SUFFICES ASSUME T # {} PROVE FALSE
  OBVIOUS
<1>1. T \in SUBSET Nat
  OBVIOUS
<1>2. PICK m \in T : \A k \in T : m <= k
  <2> HIDE DEF T
  <2> QED BY <1>1, LeastNatural
<1>3. m \in 0 .. N /\ m \notin P /\ m # 0
  OBVIOUS
<1>4. m - 1 \in 0 .. N - 1 /\ (m - 1) + 1 = m /\ m - 1 \notin T
  BY <1>2, <1>3
<1> QED BY <1>3, <1>4

(* A function is defined by its value at 0 and by its step G from each       *)
(* number to the next.                                                       *)
Recursive(f, N, S, a, G) ==
    f \in [0 .. N -> S] /\ f[0] = a /\ \A n \in 1 .. N : f[n] = G[n][f[n - 1]]

LEMMA Recursion ==
  ASSUME NEW N \in Nat, NEW S, NEW a \in S, NEW G \in [1 .. N -> [S -> S]]
  PROVE  \E f : Recursive(f, N, S, a, G)
<1> DEFINE Good(f, n) == f \in [0 .. n -> S] /\ f[0] = a /\ \A k \in 1 .. n : f[k] = G[k][f[k - 1]]
           P == {n \in 0 .. N : \E f : Good(f, n)}
<1>1. 0 \in P
  <2>1. Good([n \in 0 .. 0 |-> a], 0)
    OBVIOUS
  <2> HIDE DEF Good
  <2> QED BY <2>1
<1>2. ASSUME NEW n \in 0 .. N - 1, n \in P PROVE n + 1 \in P
  <2>1. PICK f : Good(f, n)
    BY <1>2
  <2>0. f \in [0 .. n -> S] /\ f[0] = a /\ \A k \in 1 .. n : f[k] = G[k][f[k - 1]]
    BY <2>1
  <2> DEFINE m == n + 1
  <2>2. m \in 1 .. N /\ n \in 0 .. n /\ m - 1 = n /\ n \in Nat
    OBVIOUS
  <2>3. G[m][f[n]] \in S
    BY <2>0, <2>2
  <2> DEFINE g == [k \in 0 .. m |-> IF k = m THEN G[m][f[n]] ELSE f[k]]
  <2>4. g \in [0 .. m -> S]
    <3>1. ASSUME NEW k \in 0 .. m, k # m PROVE f[k] \in S
      BY <2>0, <2>2, <3>1
    <3> HIDE DEF m
    <3> QED BY <2>3, <3>1
  <2>5. ASSUME NEW k \in 1 .. m PROVE g[k] = G[k][g[k - 1]]
    <3>1. CASE k = m
      <4>1. g[k - 1] = f[n] /\ g[k] = G[m][f[n]]
        BY <2>2, <3>1
      <4> QED BY <3>1, <4>1
    <3>2. CASE k # m
      <4>1. k \in 1 .. n /\ k - 1 \in 0 .. m /\ k - 1 # m /\ k \in 0 .. m
        BY <2>2, <3>2
      <4>2. g[k] = f[k] /\ g[k - 1] = f[k - 1]
        BY <3>2, <4>1
      <4> QED BY <2>0, <4>1, <4>2
    <3> QED BY <3>1, <3>2
  <2>6. g[0] = a
    BY <2>0, <2>2
  <2>7. Good(g, m)
    BY <2>4, <2>5, <2>6
  <2> HIDE DEF Good, g
  <2>8. m \in 0 .. N
    BY <2>2
  <2> QED BY <2>7, <2>8
<1>3. 0 .. N \subseteq P
  <2> HIDE DEF P
  <2> QED BY <1>1, <1>2, UpTo
<1>4. PICK f : Good(f, N)
  <2> HIDE DEF Good
  <2> QED BY <1>3
<1> QED BY <1>4 DEF Recursive

(* What is kept of a sequence.                                              *)
Keeps(f, X, s, K) ==
    /\ f \in [0 .. Len(s) -> Seq(X)]
    /\ f[0] = <<>> /\ f[Len(s)] = Kept(s, K)
    /\ \A n \in 1 .. Len(s) :
          f[n] = IF n \in K THEN Append(f[n - 1], s[n]) ELSE f[n - 1]

LEMMA KeptIs ==
  ASSUME NEW X, NEW s \in Seq(X), NEW K
  PROVE  \E f : Keeps(f, X, s, K)
<1> DEFINE N == Len(s)
           G == [n \in 1 .. N |-> [r \in Seq(X) |-> IF n \in K THEN Append(r, s[n]) ELSE r]]
           Eq(f) == f = [n \in 0 .. N |->
                           IF n = 0 THEN <<>>
                           ELSE IF n \in K THEN Append(f[n - 1], s[n]) ELSE f[n - 1]]
<1>1. N \in Nat /\ <<>> \in Seq(X)
  OBVIOUS
<1>2. G \in [1 .. N -> [Seq(X) -> Seq(X)]]
  <2>1. ASSUME NEW n \in 1 .. N, NEW r \in Seq(X) PROVE (IF n \in K THEN Append(r, s[n]) ELSE r) \in Seq(X)
    OBVIOUS
  <2> QED BY <2>1
<1>3. PICK f \in [0 .. N -> Seq(X)] : f[0] = <<>> /\ \A n \in 1 .. N : f[n] = G[n][f[n - 1]]
  <2> DEFINE S == Seq(X)
             a == <<>>
  <2>1. a \in S /\ G \in [1 .. N -> [S -> S]]
    BY <1>1, <1>2
  <2>2. N \in Nat
    BY <1>1
  <2> HIDE DEF G, N, S, a
  <2>3. \E f : Recursive(f, N, S, a, G)
    BY <2>1, <2>2, Recursion
  <2> QED BY <2>3 DEF S, a, Recursive
<1>4. ASSUME NEW n \in 1 .. N
      PROVE  f[n] = IF n \in K THEN Append(f[n - 1], s[n]) ELSE f[n - 1]
  <2>0. n - 1 \in 0 .. N
    BY <1>1
  <2>1. f[n - 1] \in Seq(X)
    BY <1>3, <2>0
  <2>2. G[n] = [r \in Seq(X) |-> IF n \in K THEN Append(r, s[n]) ELSE r]
    OBVIOUS
  <2>3. f[n] = G[n][f[n - 1]]
    BY <1>3
  <2> HIDE DEF G
  <2> QED BY <2>1, <2>2, <2>3
<1>5. Eq(f)
  <2>1. ASSUME NEW n \in 0 .. N
        PROVE  f[n] = IF n = 0 THEN <<>>
                      ELSE IF n \in K THEN Append(f[n - 1], s[n]) ELSE f[n - 1]
    <3>1. n = 0 \/ n \in 1 .. N
      BY <1>1
    <3>2. CASE n = 0
      BY <1>3, <3>2
    <3>3. CASE n \in 1 .. N
      <4>1. n # 0
        BY <3>3
      <4> QED BY <1>4, <3>3, <4>1
    <3> QED BY <3>1, <3>2, <3>3
  <2>2. f = [n \in 0 .. N |-> f[n]]
    BY <1>3
  <2> HIDE DEF N
  <2> QED BY <2>1, <2>2
<1>6. ASSUME NEW g, Eq(g) PROVE g = f
  <2> DEFINE P == {n \in 0 .. N : g[n] = f[n]}
  <2>1. 0 \in P
    BY <1>1, <1>3, <1>6
  <2>2. ASSUME NEW n \in 0 .. N - 1, n \in P PROVE n + 1 \in P
    <3>1. n + 1 \in 1 .. N /\ (n + 1) - 1 = n /\ g[n] = f[n]
      BY <1>1, <2>2
    <3>2. g[n + 1] = IF n + 1 \in K THEN Append(g[n], s[n + 1]) ELSE g[n]
      <4> DEFINE m == n + 1
      <4>1. m \in 0 .. N /\ m # 0 /\ m - 1 = n
        BY <1>1, <3>1
      <4> HIDE DEF m, N
      <4>2. g[m] = IF m \in K THEN Append(g[m - 1], s[m]) ELSE g[m - 1]
        BY <1>6, <4>1
      <4> QED BY <4>1, <4>2 DEF m
    <3>3. f[n + 1] = IF n + 1 \in K THEN Append(f[n], s[n + 1]) ELSE f[n]
      BY <1>4, <3>1
    <3> QED BY <1>1, <3>1, <3>2, <3>3
  <2>3. 0 .. N \subseteq P
    <3> HIDE DEF P, N
    <3> QED BY <1>1, <2>1, <2>2, UpTo
  <2>4. \A n \in 0 .. N : g[n] = f[n]
    BY <2>3
  <2>5. g = [n \in 0 .. N |-> g[n]]
    BY <1>6
  <2> QED BY <2>4, <2>5
<1>7. (CHOOSE g : Eq(g)) = f
  <2> HIDE DEF Eq
  <2> QED BY <1>5, <1>6
<1>8. Kept(s, K) = (CHOOSE g : Eq(g))[N]
  BY DEF Kept
<1>9. f[N] = Kept(s, K)
  <2> HIDE DEF Eq, N
  <2> QED BY <1>7, <1>8
<1> HIDE DEF Eq
<1>10. \A n \in 1 .. N : f[n] = IF n \in K THEN Append(f[n - 1], s[n]) ELSE f[n - 1]
  BY <1>4
<1> QED BY <1>3, <1>9, <1>10, Zenon DEF Keeps

LEMMA KeptHas ==
  ASSUME NEW X, NEW s \in Seq(X), NEW K \in SUBSET DOMAIN s
  PROVE  /\ Kept(s, K) \in Seq(X)
         /\ \A j \in DOMAIN Kept(s, K) : \E n \in K : Kept(s, K)[j] = s[n]
         /\ \A n \in K : \E j \in DOMAIN Kept(s, K) : Kept(s, K)[j] = s[n]
         /\ (\A m, n \in K : s[m] = s[n] => m = n) =>
               \A i, j \in DOMAIN Kept(s, K) : Kept(s, K)[i] = Kept(s, K)[j] => i = j
<1>0. PICK f : Keeps(f, X, s, K)
  BY KeptIs
<1>1. /\ f \in [0 .. Len(s) -> Seq(X)]
      /\ f[0] = <<>> /\ f[Len(s)] = Kept(s, K)
      /\ \A n \in 1 .. Len(s) :
            f[n] = IF n \in K THEN Append(f[n - 1], s[n]) ELSE f[n - 1]
  BY <1>0 DEF Keeps
<1> DEFINE N == Len(s)
           Holds(n) ==
             /\ \A j \in DOMAIN f[n] : \E k \in K : k <= n /\ f[n][j] = s[k]
             /\ \A k \in K : k <= n => \E j \in DOMAIN f[n] : f[n][j] = s[k]
             /\ (\A k, m \in K : s[k] = s[m] => k = m) =>
                   \A i, j \in DOMAIN f[n] : f[n][i] = f[n][j] => i = j
           P == {n \in 0 .. N : Holds(n)}
<1>2. N \in Nat /\ DOMAIN s = 1 .. N
  OBVIOUS
<1>3. 0 \in P
  BY <1>1, <1>2
<1>4. ASSUME NEW n \in 0 .. N - 1, n \in P PROVE n + 1 \in P
  <2> DEFINE m == n + 1
  <2>1. m \in 1 .. N /\ m - 1 = n /\ n \in 0 .. N /\ f[n] \in Seq(X) /\ n \in Nat /\ s[m] \in X
    BY <1>1, <1>2
  <2>2. f[m] = IF m \in K THEN Append(f[n], s[m]) ELSE f[n]
    BY <1>1, <2>1
  <2>3. Holds(n)
    BY <1>4
  <2>4. \A k \in K : k \in 1 .. N
    BY <1>2
  <2>5. Holds(m)
    <3>1. CASE m \notin K
      <4>1. \A k \in K : k <= m <=> k <= n
        BY <2>1, <2>4, <3>1
      <4> HIDE DEF m
      <4> QED BY <2>2, <2>3, <3>1, <4>1
    <3>2. CASE m \in K
      <4> HIDE DEF m
      <4>1. /\ f[m] = Append(f[n], s[m]) /\ Len(f[n]) \in Nat
            /\ DOMAIN f[n] = 1 .. Len(f[n]) /\ DOMAIN f[m] = 1 .. Len(f[n]) + 1
            /\ f[m][Len(f[n]) + 1] = s[m] /\ \A j \in 1 .. Len(f[n]) : f[m][j] = f[n][j]
        BY <2>1, <2>2, <3>2
      <4>2. \A k \in K : k <= m <=> (k <= n \/ k = m)
        BY <2>1, <2>4
      <4>3. \A j \in DOMAIN f[m] : j = Len(f[n]) + 1 \/ j \in DOMAIN f[n]
        BY <4>1
      <4>4. ASSUME NEW j \in DOMAIN f[m] PROVE \E k \in K : k <= m /\ f[m][j] = s[k]
        <5>1. CASE j = Len(f[n]) + 1
          BY <2>4, <3>2, <4>1, <4>2, <5>1
        <5>2. CASE j \in DOMAIN f[n]
          BY <2>3, <4>1, <4>2, <5>2
        <5> QED BY <4>3, <5>1, <5>2
      <4>5. ASSUME NEW k \in K, k <= m PROVE \E j \in DOMAIN f[m] : f[m][j] = s[k]
        <5>1. CASE k = m
          <6>1. Len(f[n]) + 1 \in DOMAIN f[m]
            BY <4>1
          <6> QED BY <4>1, <5>1, <6>1
        <5>2. CASE k <= n
          <6>1. PICK j \in DOMAIN f[n] : f[n][j] = s[k]
            BY <2>3, <5>2
          <6>2. j \in DOMAIN f[m] /\ f[m][j] = s[k]
            BY <4>1, <6>1
          <6> QED BY <6>2
        <5> QED BY <4>2, <4>5, <5>1, <5>2
      <4>6. ASSUME \A k, o \in K : s[k] = s[o] => k = o,
                   NEW i \in DOMAIN f[m], NEW j \in DOMAIN f[m], f[m][i] = f[m][j]
            PROVE  i = j
        <5>1. \A q \in DOMAIN f[n] : f[m][q] # s[m]
          <6>1. SUFFICES ASSUME NEW q \in DOMAIN f[n], f[m][q] = s[m] PROVE FALSE
            OBVIOUS
          <6>2. PICK k \in K : k <= n /\ f[n][q] = s[k]
            BY <2>3
          <6>3. k = m
            BY <3>2, <4>1, <4>6, <6>1, <6>2
          <6> QED BY <2>1, <6>2, <6>3
        <5>2. CASE i \in DOMAIN f[n] /\ j \in DOMAIN f[n]
          BY <2>3, <4>1, <4>6, <5>2
        <5>3. CASE i = Len(f[n]) + 1 /\ j = Len(f[n]) + 1
          BY <5>3
        <5>4. CASE i = Len(f[n]) + 1 /\ j \in DOMAIN f[n]
          BY <4>1, <4>6, <5>1, <5>4
        <5>5. CASE j = Len(f[n]) + 1 /\ i \in DOMAIN f[n]
          BY <4>1, <4>6, <5>1, <5>5
        <5> QED BY <4>3, <5>2, <5>3, <5>4, <5>5
      <4> QED BY <4>4, <4>5, <4>6
    <3> QED BY <3>1, <3>2
  <2> HIDE DEF Holds
  <2> QED BY <2>1, <2>5
<1>5. 0 .. N \subseteq P
  <2> HIDE DEF P, N
  <2> QED BY <1>2, <1>3, <1>4, UpTo
<1>6. Holds(N) /\ f[N] \in Seq(X) /\ f[N] = Kept(s, K)
  <2>1. N \in 0 .. N
    BY <1>2
  <2>2. N \in P
    BY <1>5, <2>1
  <2> QED BY <1>1, <2>1, <2>2
<1>7. \A k \in K : k <= N
  BY <1>2
<1> QED BY <1>6, <1>7
=============================================================================
