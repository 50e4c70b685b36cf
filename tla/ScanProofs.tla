----------------------------- MODULE ScanProofs -----------------------------
(***************************************************************************)
(* What one scan of the engine does for what a policy demands, for every   *)
(* policy and payload: path patterns match what their grammar says, the    *)
(* findings on a leaf are the demands on it, the marks hide what they      *)
(* demand, and the audit log gets an event for each of them.               *)
(***************************************************************************)
EXTENDS Demands, DataFacts, SequenceTheorems

-----------------------------------------------------------------------------
(* Path patterns.                                                          *)

PathSegment == [kind : {"key", "index"}, name : STRING]
PatternSegment ==
    [kind : {"key", "index", "wildkey", "wildindex", "descend"}, name : STRING \cup {"*", ".."}]
Token == [sep : {".", "[]", ".."}, sel : STRING]
Written == [sep : STRING, sel : STRING]

(* f[n] is what the first n of the sequences flatten to. *)
Flattens(f, X, seqs) ==
    /\ f \in [0 .. Len(seqs) -> Seq(X)]
    /\ f[0] = <<>> /\ f[Len(seqs)] = FlattenSeq(seqs)
    /\ \A n \in 1 .. Len(seqs) : f[n] = f[n - 1] \o seqs[n]

LEMMA FlattenIs ==
  ASSUME NEW X, NEW seqs \in Seq(Seq(X)), seqs # <<>>
  PROVE  \E f : Flattens(f, X, seqs)
<1> DEFINE N == Len(seqs)
           S == Seq(X)
           a == <<>>
           G == [n \in 1 .. N |-> [r \in S |-> r \o seqs[n]]]
           Eq(f) == f = [n \in 1 .. N |-> IF n = 1 THEN seqs[n] ELSE f[n - 1] \o seqs[n]]
<1>1. N \in Nat \ {0} /\ a \in S
  OBVIOUS
<1>2. \A n \in 1 .. N : seqs[n] \in S
  OBVIOUS
<1>3. G \in [1 .. N -> [S -> S]]
  <2>1. ASSUME NEW n \in 1 .. N, NEW r \in S PROVE r \o seqs[n] \in S
    BY <1>2
  <2> HIDE DEF S, N
  <2> QED BY <2>1
<1>4. PICK f : Recursive(f, N, S, a, G)
  <2>1. N \in Nat /\ a \in S
    BY <1>1
  <2> HIDE DEF G, N, S, a
  <2> QED BY <1>3, <2>1, Recursion
<1>5. f \in [0 .. N -> S] /\ f[0] = a /\ \A n \in 1 .. N : f[n] = G[n][f[n - 1]]
  <2> HIDE DEF G, N, S, a
  <2> QED BY <1>4 DEF Recursive
<1>6. ASSUME NEW n \in 1 .. N PROVE f[n - 1] \in S /\ f[n] = f[n - 1] \o seqs[n]
  <2>0. n - 1 \in 0 .. N
    BY <1>1
  <2>1. f[n - 1] \in S
    <3> HIDE DEF S, N
    <3> QED BY <1>5, <2>0
  <2>2. G[n] = [r \in S |-> r \o seqs[n]]
    OBVIOUS
  <2>3. f[n] = G[n][f[n - 1]]
    BY <1>5
  <2> HIDE DEF G, S, N
  <2> QED BY <2>1, <2>2, <2>3
<1> DEFINE g == [n \in 1 .. N |-> f[n]]
<1>7. Eq(g)
  <2>1. ASSUME NEW n \in 1 .. N
        PROVE  g[n] = IF n = 1 THEN seqs[n] ELSE g[n - 1] \o seqs[n]
    <3>1. CASE n = 1
      <4>1. f[n] = f[n - 1] \o seqs[n]
        BY <1>6
      <4>2. n - 1 = 0
        BY <3>1
      <4>3. f[1] = <<>> \o seqs[1]
        BY <1>5, <3>1, <4>1, <4>2, Zenon
      <4>4. seqs[1] \in Seq(X)
        BY <1>1, <1>2
      <4>5. f[1] = seqs[1]
        BY <4>3, <4>4
      <4> QED BY <3>1, <4>5
    <3>2. CASE n # 1
      <4>1. n - 1 \in 1 .. N
        BY <1>1, <3>2
      <4> QED BY <1>6, <3>2, <4>1
    <3> QED BY <3>1, <3>2
  <2>2. g = [n \in 1 .. N |-> g[n]]
    OBVIOUS
  <2> HIDE DEF g, N
  <2> QED BY <2>1, <2>2
<1>8. ASSUME NEW h, Eq(h) PROVE h = g
  <2> DEFINE P == {n \in 0 .. N : n = 0 \/ h[n] = f[n]}
  <2>1. 0 \in P
    BY <1>1
  <2>2. ASSUME NEW n \in 0 .. N - 1, n \in P PROVE n + 1 \in P
    <3> DEFINE m == n + 1
    <3>1. m \in 1 .. N /\ m - 1 = n /\ m \in 0 .. N
      BY <1>1
    <3>2. h[m] = IF m = 1 THEN seqs[m] ELSE h[m - 1] \o seqs[m]
      <4> HIDE DEF m, N
      <4> QED BY <1>8, <3>1
    <3>3. g[m] = IF m = 1 THEN seqs[m] ELSE g[m - 1] \o seqs[m]
      <4> HIDE DEF m, N, g
      <4> QED BY <1>7, <3>1
    <3>4. g[m] = f[m] /\ (m # 1 => g[m - 1] = f[m - 1] /\ h[m - 1] = f[m - 1])
      BY <1>1, <2>2
    <3> HIDE DEF m, g
    <3>5. h[m] = f[m]
      BY <3>2, <3>3, <3>4
    <3> QED BY <3>1, <3>5 DEF m
  <2>3. 0 .. N \subseteq P
    <3>1. N \in Nat
      BY <1>1
    <3> HIDE DEF P, N
    <3> QED BY <2>1, <2>2, <3>1, UpTo
  <2>4. \A n \in 1 .. N : h[n] = f[n]
    BY <1>1, <2>3
  <2>5. h = [n \in 1 .. N |-> h[n]]
    BY <1>8
  <2> HIDE DEF N
  <2> QED BY <2>4, <2>5
<1>9. (CHOOSE h : Eq(h)) = g
  <2> HIDE DEF Eq, g
  <2> QED BY <1>7, <1>8
<1>10. FlattenSeq(seqs) = (CHOOSE h : Eq(h))[N]
  BY <1>1 DEF FlattenSeq
<1>11. g[N] = f[N]
  BY <1>1
<1>12. f[N] = FlattenSeq(seqs)
  <2> HIDE DEF Eq, g, N
  <2> QED BY <1>9, <1>10, <1>11
<1>13. \A n \in 1 .. N : f[n] = f[n - 1] \o seqs[n]
  BY <1>6
<1> HIDE DEF G
<1> QED BY <1>5, <1>12, <1>13, Zenon DEF Flattens

(* The places from which the path goes on as segment seg wants it and then   *)
(* from a place in T.                                                        *)
Back(T, seg, path) ==
    IF seg = Descend
    THEN {pi \in 1 .. Len(path) + 1 : \E q \in pi .. Len(path) + 1 : q \in T}
    ELSE {pi \in 1 .. Len(path) : Fits(path[pi], seg) /\ pi + 1 \in T}

LEMMA MatchIs ==
  ASSUME NEW Y, NEW Z, NEW segs \in Seq(Y), NEW path \in Seq(Z)
  PROVE  LET m == Match(segs, path) IN
         /\ m[Len(segs) + 1] = {Len(path) + 1}
         /\ \A si \in 1 .. Len(segs) : m[si] = Back(m[si + 1], segs[si], path)
<1> DEFINE N == Len(segs)
           S == SUBSET (1 .. Len(path) + 1)
           a == {Len(path) + 1}
           G == [k \in 1 .. N |-> [T \in S |-> Back(T, segs[N + 1 - k], path)]]
           Eq(m) == m = [si \in 1 .. N + 1 |->
                IF si > N THEN {Len(path) + 1}
                ELSE IF segs[si] = Descend
                     THEN {pi \in 1 .. Len(path) + 1 :
                              \E q \in SkipFrom(pi) .. Len(path) + 1 : q \in m[si + 1]}
                     ELSE {pi \in 1 .. Len(path) : Fits(path[pi], segs[si]) /\ pi + 1 \in m[si + 1]}]
<1>1. N \in Nat /\ a \in S /\ Len(path) \in Nat
  OBVIOUS
<1>2. G \in [1 .. N -> [S -> S]]
  <2>1. ASSUME NEW k \in 1 .. N, NEW T \in S PROVE Back(T, segs[N + 1 - k], path) \in S
    BY <1>1 DEF Back
  <2> HIDE DEF S, N
  <2> QED BY <2>1
<1>3. PICK f : Recursive(f, N, S, a, G)
  <2> HIDE DEF G, N, S, a
  <2> QED BY <1>1, <1>2, Recursion
<1>4. f \in [0 .. N -> S] /\ f[0] = a /\ \A n \in 1 .. N : f[n] = G[n][f[n - 1]]
  <2> HIDE DEF G, N, S, a
  <2> QED BY <1>3 DEF Recursive
<1> DEFINE g == [si \in 1 .. N + 1 |-> f[N + 1 - si]]
<1>5. ASSUME NEW si \in 1 .. N PROVE g[si] = Back(g[si + 1], segs[si], path)
  <2> DEFINE k == N + 1 - si
  <2>1. k \in 1 .. N /\ k - 1 \in 0 .. N /\ N + 1 - k = si /\ N + 1 - (si + 1) = k - 1
        /\ si \in 1 .. N + 1 /\ si + 1 \in 1 .. N + 1
    BY <1>1
  <2>2. f[k] = G[k][f[k - 1]] /\ f[k - 1] \in S
    <3> HIDE DEF S, N, G, k
    <3> QED BY <1>4, <2>1
  <2>3. G[k][f[k - 1]] = Back(f[k - 1], segs[si], path)
    <3>1. G[k] = [T \in S |-> Back(T, segs[N + 1 - k], path)]
      BY <2>1
    <3> HIDE DEF G, S, k, N
    <3> QED BY <2>1, <2>2, <3>1
  <2>4. g[si] = f[k] /\ g[si + 1] = f[k - 1]
    BY <2>1
  <2> HIDE DEF g, k, G
  <2> QED BY <2>2, <2>3, <2>4
<1>6. g[N + 1] = a
  BY <1>1, <1>4
<1>7. Eq(g)
  <2>1. ASSUME NEW si \in 1 .. N + 1
        PROVE  g[si] = IF si > N THEN {Len(path) + 1}
                ELSE IF segs[si] = Descend
                     THEN {pi \in 1 .. Len(path) + 1 :
                              \E q \in SkipFrom(pi) .. Len(path) + 1 : q \in g[si + 1]}
                     ELSE {pi \in 1 .. Len(path) : Fits(path[pi], segs[si]) /\ pi + 1 \in g[si + 1]}
    <3>1. CASE si > N
      <4>1. si = N + 1
        BY <1>1, <3>1
      <4> HIDE DEF g
      <4> QED BY <1>6, <3>1, <4>1
    <3>2. CASE ~(si > N)
      <4>1. si \in 1 .. N
        BY <1>1, <3>2
      <4> HIDE DEF g, N
      <4> QED BY <1>5, <3>2, <4>1 DEF Back, SkipFrom
    <3> QED BY <3>1, <3>2
  <2>2. g = [si \in 1 .. N + 1 |-> g[si]]
    OBVIOUS
  <2> HIDE DEF g, N
  <2> QED BY <2>1, <2>2
<1> DEFINE m == CHOOSE h : Eq(h)
<1>8. Match(segs, path) = m
  BY DEF Match
<1>9. Eq(m)
  <2> HIDE DEF Eq, g
  <2> QED BY <1>7
<1> HIDE DEF m
<1>10. m[N + 1] = {Len(path) + 1}
  BY <1>1, <1>9
<1>11. ASSUME NEW si \in 1 .. N PROVE m[si] = Back(m[si + 1], segs[si], path)
  <2>1. si \in 1 .. N + 1 /\ ~(si > N)
    BY <1>1
  <2> HIDE DEF N
  <2> QED BY <1>9, <2>1 DEF Back, SkipFrom
<1> QED BY <1>8, <1>10, <1>11

(* One segment fits what its token names.                                   *)
LEMMA FitsAsNamed ==
  ASSUME NEW p \in PathSegment, NEW k \in STRING
  PROVE  /\ Fits(p, IF k = "*" THEN WildKey ELSE Key(k)) <=> p.kind = "key" /\ k \in {"*", p.name}
         /\ Fits(p, IF k = "*" THEN WildIndex ELSE Index(k)) <=> p.kind = "index" /\ k \in {"*", p.name}
<1>1. p.kind \in {"key", "index"} /\ p = [kind |-> p.kind, name |-> p.name]
  BY DEF PathSegment
<1>2. CASE k = "*"
  BY <1>1, <1>2 DEF Fits, WildKey, WildIndex
<1>3. CASE k # "*"
  BY <1>1, <1>3 DEF Fits, Key, Index
<1> QED BY <1>2, <1>3

(* Token t takes the stretch of the path after c, up to e. *)
Takes(t, path, c, e) ==
    LET more == e - c IN
    \/ more >= 1 /\ Picks(t, path[e]) /\ (more = 1 \/ t.sep = "..")
    \/ more >= 0 /\ t.sep = ".." /\ t.sel = ""

(* The segments of a token, where they stand in segs, match as it says.     *)
LEMMA TokenMatches ==
  ASSUME NEW t \in Token, NEW path \in Seq(PathSegment), NEW segs \in Seq(PatternSegment),
         NEW o \in Nat, NEW z \in Nat, z = o + Len(Segments(t)), z <= Len(segs),
         \A j \in 1 .. Len(Segments(t)) : segs[o + j] = Segments(t)[j],
         NEW c \in 0 .. Len(path)
  PROVE  c + 1 \in Match(segs, path)[o + 1] <=>
             \E e \in 0 .. Len(path) : Takes(t, path, c, e) /\ e + 1 \in Match(segs, path)[z + 1]
<1> DEFINE L == Len(path)
           m == Match(segs, path)
           key == IF t.sel = "*" THEN WildKey ELSE Key(t.sel)
           pos == IF t.sel = "*" THEN WildIndex ELSE Index(t.sel)
<1>1. L \in Nat /\ Len(segs) \in Nat /\ t.sep \in {".", "[]", ".."} /\ t.sel \in STRING
  BY DEF Token
<1>2. \A si \in 1 .. Len(segs) : m[si] = Back(m[si + 1], segs[si], path)
  BY MatchIs
<1>3. \A p \in 1 .. L : path[p] \in PathSegment
  OBVIOUS
<1>4. \A p \in 1 .. L : /\ Fits(path[p], key) <=> path[p].kind = "key" /\ t.sel \in {"*", path[p].name}
                        /\ Fits(path[p], pos) <=> path[p].kind = "index" /\ t.sel \in {"*", path[p].name}
  BY <1>1, <1>3, FitsAsNamed
<1>5. key # Descend /\ pos # Descend
  BY DEF WildKey, WildIndex, Key, Index, Descend
<1>6. c \in Nat /\ c <= L
  BY <1>1
<1> SUFFICES c + 1 \in m[o + 1] <=> \E e \in 0 .. L : Takes(t, path, c, e) /\ e + 1 \in m[z + 1]
  OBVIOUS
<1> HIDE DEF m, key, pos
<1>7. CASE t.sep = "."
  <2>1. Segments(t) = <<key>>
    BY <1>7 DEF Segments, key
  <2>2. z = o + 1 /\ o + 1 \in 1 .. Len(segs)
    BY <1>1, <2>1
  <2>3. segs[o + 1] = key
    BY <2>1
  <2>4. c + 1 \in m[o + 1] <=> c + 1 <= L /\ Fits(path[c + 1], key) /\ (c + 1) + 1 \in m[z + 1]
    <3>1. m[o + 1] = Back(m[z + 1], key, path)
      BY <1>2, <2>2, <2>3
    <3> HIDE DEF L
    <3> QED BY <1>1, <1>5, <1>6, <3>1 DEF Back, L
  <2>5. \A e \in 0 .. L : Takes(t, path, c, e) <=> e = c + 1 /\ Fits(path[e], key)
    <3> TAKE e \in 0 .. L
    <3>1. CASE e = c + 1
      <4>1. e - c = 1 /\ e \in 1 .. L
        BY <1>1, <1>6, <3>1
      <4> QED BY <1>4, <1>7, <3>1, <4>1 DEF Takes, Picks
    <3>2. CASE e # c + 1
      <4>1. e - c # 1
        BY <1>1, <1>6, <3>2
      <4> QED BY <1>7, <3>2, <4>1 DEF Takes
    <3> QED BY <3>1, <3>2
  <2>6. c + 1 <= L => c + 1 \in 0 .. L
    BY <1>1, <1>6
  <2>7. \A e \in 0 .. L : e = c + 1 => c + 1 <= L
    BY <1>1
  <2> HIDE DEF L
  <2> QED BY <2>4, <2>5, <2>6, <2>7
<1>8. CASE t.sep = "[]"
  <2>1. Segments(t) = <<pos>>
    BY <1>8 DEF Segments, pos
  <2>2. z = o + 1 /\ o + 1 \in 1 .. Len(segs)
    BY <1>1, <2>1
  <2>3. segs[o + 1] = pos
    BY <2>1
  <2>4. c + 1 \in m[o + 1] <=> c + 1 <= L /\ Fits(path[c + 1], pos) /\ (c + 1) + 1 \in m[z + 1]
    <3>1. m[o + 1] = Back(m[z + 1], pos, path)
      BY <1>2, <2>2, <2>3
    <3> HIDE DEF L
    <3> QED BY <1>1, <1>5, <1>6, <3>1 DEF Back, L
  <2>5. \A e \in 0 .. L : Takes(t, path, c, e) <=> e = c + 1 /\ Fits(path[e], pos)
    <3> TAKE e \in 0 .. L
    <3>1. CASE e = c + 1
      <4>1. e - c = 1 /\ e \in 1 .. L
        BY <1>1, <1>6, <3>1
      <4> QED BY <1>4, <1>8, <3>1, <4>1 DEF Takes, Picks
    <3>2. CASE e # c + 1
      <4>1. e - c # 1
        BY <1>1, <1>6, <3>2
      <4> QED BY <1>8, <3>2, <4>1 DEF Takes
    <3> QED BY <3>1, <3>2
  <2>6. c + 1 <= L => c + 1 \in 0 .. L
    BY <1>1, <1>6
  <2>7. \A e \in 0 .. L : e = c + 1 => c + 1 <= L
    BY <1>1
  <2> HIDE DEF L
  <2> QED BY <2>4, <2>5, <2>6, <2>7
<1>9. CASE t.sep = ".." /\ t.sel = ""
  <2>1. Segments(t) = <<Descend>>
    BY <1>9 DEF Segments
  <2>2. z = o + 1 /\ o + 1 \in 1 .. Len(segs)
    BY <1>1, <2>1
  <2>3. segs[o + 1] = Descend
    BY <2>1
  <2>4. c + 1 \in m[o + 1] <=> \E q \in c + 1 .. L + 1 : q \in m[z + 1]
    <3>1. m[o + 1] = Back(m[z + 1], Descend, path)
      BY <1>2, <2>2, <2>3
    <3> QED BY <1>1, <1>6, <3>1 DEF Back
  <2>5. \A e \in 0 .. L : Takes(t, path, c, e) <=> e >= c
    <3> TAKE e \in 0 .. L
    <3>1. e - c >= 0 <=> e >= c
      BY <1>1, <1>6
    <3>2. e - c >= 1 => e - c >= 0
      BY <1>1, <1>6
    <3> QED BY <1>9, <3>1, <3>2 DEF Takes
  <2>6. \A q \in c + 1 .. L + 1 : q - 1 \in 0 .. L /\ q - 1 >= c /\ (q - 1) + 1 = q
    BY <1>1, <1>6
  <2>7. \A e \in 0 .. L : e >= c => e + 1 \in c + 1 .. L + 1
    BY <1>1, <1>6
  <2> HIDE DEF L
  <2> QED BY <2>4, <2>5, <2>6, <2>7
<1>10. CASE t.sep = ".." /\ t.sel # ""
  <2>1. Segments(t) = <<Descend, key>>
    BY <1>10 DEF Segments, key
  <2>2. z = o + 2 /\ o + 1 \in 1 .. Len(segs) /\ o + 2 \in 1 .. Len(segs) /\ (o + 1) + 1 = o + 2
    BY <1>1, <2>1
  <2>3. segs[o + 1] = Descend /\ segs[o + 2] = key
    BY <2>1
  <2>4. c + 1 \in m[o + 1] <=> \E q \in c + 1 .. L + 1 : q \in m[o + 2]
    <3>1. m[o + 1] = Back(m[o + 2], Descend, path)
      BY <1>2, <2>2, <2>3
    <3> QED BY <1>1, <1>6, <3>1 DEF Back
  <2>5. m[o + 2] = {q \in 1 .. L : Fits(path[q], key) /\ q + 1 \in m[z + 1]}
    <3>1. m[o + 2] = Back(m[(o + 2) + 1], key, path)
      BY <1>2, <2>2, <2>3
    <3> QED BY <1>5, <2>2, <3>1 DEF Back
  <2>6. \A e \in 0 .. L : Takes(t, path, c, e) <=> e \in c + 1 .. L + 1 /\ e \in 1 .. L /\ Fits(path[e], key)
    <3> TAKE e \in 0 .. L
    <3>1. e - c >= 1 <=> e \in c + 1 .. L + 1
      BY <1>1, <1>6
    <3>2. e \in c + 1 .. L + 1 => e \in 1 .. L
      BY <1>1, <1>6
    <3> HIDE DEF L
    <3> QED BY <1>4, <1>10, <3>1, <3>2 DEF Takes, Picks
  <2>7. \A q \in 1 .. L : q \in 0 .. L
    BY <1>1
  <2> HIDE DEF L
  <2> QED BY <2>4, <2>5, <2>6, <2>7
<1> QED BY <1>1, <1>7, <1>8, <1>9, <1>10

(* The tokens after the first i can take the path after c.                  *)
Cuts(cut, pattern, path, i, c) ==
    /\ cut \in [i .. Len(pattern) -> 0 .. Len(path)]
    /\ cut[i] = c /\ cut[Len(pattern)] = Len(path)
    /\ \A k \in i + 1 .. Len(pattern) : Takes(pattern[k], path, cut[k - 1], cut[k])

CoversFrom(pattern, path, i, c) == \E cut : Cuts(cut, pattern, path, i, c)

(* A cut of the rest is a stretch for the next token and a cut of what is    *)
(* left then.                                                                *)
LEMMA NextStretch ==
  ASSUME NEW X, NEW pattern \in Seq(X), NEW Z, NEW path \in Seq(Z),
         NEW i \in 0 .. Len(pattern) - 1, NEW c \in 0 .. Len(path)
  PROVE  CoversFrom(pattern, path, i, c) <=>
             \E e \in 0 .. Len(path) :
                Takes(pattern[i + 1], path, c, e) /\ CoversFrom(pattern, path, i + 1, e)
<1> DEFINE n == Len(pattern)
           L == Len(path)
           j == i + 1
<1>1. /\ n \in Nat /\ i \in Nat /\ j \in Nat /\ j <= n /\ j # i /\ j - 1 = i
      /\ i \in i .. n /\ j \in i .. n /\ j \in j .. n /\ n \in i .. n /\ n \in j .. n /\ n # i
      /\ j \in i + 1 .. n
      /\ \A k \in j .. n : k \in i .. n /\ k # i
      /\ \A k \in j + 1 .. n : k \in i + 1 .. n /\ k - 1 \in j .. n
      /\ \A k \in i + 1 .. n : k = j \/ k \in j + 1 .. n
      /\ \A k \in i .. n : k = i \/ k \in j .. n
  OBVIOUS
<1>2. ASSUME NEW cut, Cuts(cut, pattern, path, i, c)
      PROVE  \E e \in 0 .. L : Takes(pattern[j], path, c, e) /\ CoversFrom(pattern, path, j, e)
  <2>1. cut \in [i .. n -> 0 .. L] /\ cut[i] = c /\ cut[n] = L
        /\ \A k \in i + 1 .. n : Takes(pattern[k], path, cut[k - 1], cut[k])
    BY <1>2 DEF Cuts
  <2> DEFINE rest == [k \in j .. n |-> cut[k]]
  <2>2. Takes(pattern[j], path, c, cut[j]) /\ cut[j] \in 0 .. L
    <3> HIDE DEF n, L, j
    <3> QED BY <1>1, <2>1
  <2>3. Cuts(rest, pattern, path, j, cut[j])
    <3>1. rest \in [j .. n -> 0 .. L] /\ rest[j] = cut[j] /\ rest[n] = L
      <4> HIDE DEF n, L, j
      <4> QED BY <1>1, <2>1
    <3>2. ASSUME NEW k \in j + 1 .. n PROVE Takes(pattern[k], path, rest[k - 1], rest[k])
      <4>1. k - 1 \in j .. n /\ k \in j .. n /\ k \in i + 1 .. n
        BY <1>1
      <4> HIDE DEF n, L, j
      <4> QED BY <2>1, <4>1
    <3> HIDE DEF rest, j
    <3> QED BY <3>1, <3>2 DEF Cuts
  <2> HIDE DEF rest, j, n, L
  <2> QED BY <2>2, <2>3 DEF CoversFrom
<1>3. ASSUME NEW e \in 0 .. L, Takes(pattern[j], path, c, e), NEW rest, Cuts(rest, pattern, path, j, e)
      PROVE  CoversFrom(pattern, path, i, c)
  <2>1. rest \in [j .. n -> 0 .. L] /\ rest[j] = e /\ rest[n] = L
        /\ \A k \in j + 1 .. n : Takes(pattern[k], path, rest[k - 1], rest[k])
    BY <1>3 DEF Cuts
  <2> DEFINE cut == [k \in i .. n |-> IF k = i THEN c ELSE rest[k]]
  <2>2. cut \in [i .. n -> 0 .. L] /\ cut[i] = c /\ cut[n] = L
    <3> HIDE DEF n, L, j
    <3> QED BY <1>1, <2>1 DEF L
  <2>3. ASSUME NEW k \in i + 1 .. n PROVE Takes(pattern[k], path, cut[k - 1], cut[k])
    <3>1. CASE k = j
      <4>1. cut[k - 1] = c /\ cut[k] = e
        <5> HIDE DEF n, L, j
        <5> QED BY <1>1, <2>1, <3>1
      <4> HIDE DEF cut
      <4> QED BY <1>3, <3>1, <4>1
    <3>2. CASE k # j
      <4>1. k \in j + 1 .. n /\ k - 1 \in j .. n /\ k \in j .. n
        BY <1>1, <3>2
      <4>2. cut[k - 1] = rest[k - 1] /\ cut[k] = rest[k]
        <5> HIDE DEF n, L, j
        <5> QED BY <1>1, <4>1
      <4> HIDE DEF cut
      <4> QED BY <2>1, <4>1, <4>2
    <3> QED BY <3>1, <3>2
  <2> HIDE DEF cut
  <2>4. Cuts(cut, pattern, path, i, c)
    BY <2>2, <2>3 DEF Cuts
  <2> QED BY <2>4 DEF CoversFrom
<1> HIDE DEF n, L
<1> QED BY <1>2, <1>3 DEF CoversFrom, n, L

(* A compiled pattern matches the paths that the grammar of patterns says it *)
(* stands for, whatever ".." skips and wherever wildcards stand.             *)
THEOREM PathsAsWritten ==
  ASSUME NEW pattern \in Seq(Written), Compiles(pattern),
         NEW path \in Seq(PathSegment)
  PROVE  Matches(compile_path(pattern), path) <=> Covers(pattern, path)
<1> DEFINE n == Len(pattern)
           L == Len(path)
           seqs == [k \in DOMAIN pattern |-> Segments(pattern[k])]
           segs == compile_path(pattern)
           m == Match(segs, path)
<1>1. /\ n \in Nat \ {0} /\ L \in Nat /\ DOMAIN pattern = 1 .. n
      /\ \A k \in 1 .. n : pattern[k] \in Token
  <2>1. n \in Nat \ {0} /\ L \in Nat /\ DOMAIN pattern = 1 .. n
    BY DEF Compiles
  <2>2. ASSUME NEW k \in 1 .. n PROVE pattern[k] \in Token
    <3>1. pattern[k] \in Written
      OBVIOUS
    <3>2. pattern[k].sep \in {".", "[]", ".."}
      BY <2>1 DEF Compiles
    <3> QED BY <3>1, <3>2 DEF Token, Written
  <2> QED BY <2>1, <2>2
<1>2. \A t \in Token : Segments(t) \in Seq(PatternSegment)
  <2> TAKE t \in Token
  <2>1. t.sep \in {".", "[]", ".."} /\ t.sel \in STRING
    BY DEF Token
  <2> DEFINE key == IF t.sel = "*" THEN WildKey ELSE Key(t.sel)
             pos == IF t.sel = "*" THEN WildIndex ELSE Index(t.sel)
  <2>2. Descend \in PatternSegment /\ key \in PatternSegment /\ pos \in PatternSegment
    <3>1. \A k \in STRING : Key(k) \in PatternSegment /\ Index(k) \in PatternSegment
      BY DEF PatternSegment, Key, Index
    <3>2. /\ Descend \in PatternSegment /\ WildKey \in PatternSegment
          /\ WildIndex \in PatternSegment
      BY DEF PatternSegment, Descend, WildKey, WildIndex
    <3> QED BY <2>1, <3>1, <3>2
  <2> HIDE DEF key, pos
  <2>3. <<key>> \in Seq(PatternSegment) /\ <<pos>> \in Seq(PatternSegment)
        /\ <<Descend>> \in Seq(PatternSegment) /\ <<Descend, key>> \in Seq(PatternSegment)
    BY <2>2
  <2>4. CASE t.sep = "."
    BY <2>3, <2>4 DEF Segments, key
  <2>5. CASE t.sep = "[]"
    BY <2>3, <2>5 DEF Segments, pos
  <2>6. CASE t.sep = ".."
    BY <2>3, <2>6 DEF Segments, key
  <2> QED BY <2>1, <2>4, <2>5, <2>6
<1>3. /\ seqs \in Seq(Seq(PatternSegment)) /\ Len(seqs) = n /\ seqs # <<>>
      /\ \A k \in 1 .. n : seqs[k] = Segments(pattern[k]) /\ seqs[k] \in Seq(PatternSegment)
  BY <1>1, <1>2
<1>4. PICK f : Flattens(f, PatternSegment, seqs)
  BY <1>3, FlattenIs
<1> HIDE DEF seqs
<1>5. /\ f \in [0 .. n -> Seq(PatternSegment)] /\ f[0] = <<>> /\ f[n] = segs
      /\ \A k \in 1 .. n : f[k] = f[k - 1] \o seqs[k]
  BY <1>3, <1>4 DEF Flattens, compile_path, seqs
<1>6. \A k \in 0 .. n : f[k] \in Seq(PatternSegment) /\ Len(f[k]) \in Nat
  BY <1>5
<1>7. segs \in Seq(PatternSegment)
  BY <1>1, <1>5, <1>6
<1> HIDE DEF segs
<1> DEFINE Holds(i) ==
             /\ Len(f[i]) <= Len(segs) /\ \A j \in 1 .. Len(f[i]) : segs[j] = f[i][j]
             /\ \A c \in 0 .. L : c + 1 \in m[Len(f[i]) + 1] <=> CoversFrom(pattern, path, i, c)
           P == {r \in 0 .. n : Holds(n - r)}
<1>8. 0 \in P
  <2>1. m[Len(segs) + 1] = {L + 1}
    BY <1>7, MatchIs
  <2>2. ASSUME NEW c \in 0 .. L PROVE CoversFrom(pattern, path, n, c) <=> c = L
    <3>1. ASSUME c = L PROVE CoversFrom(pattern, path, n, c)
      <4> DEFINE cut == [k \in n .. n |-> L]
      <4>1. cut \in [n .. n -> 0 .. L] /\ cut[n] = L
        BY <1>1
      <4>2. \A k \in n + 1 .. n : FALSE
        BY <1>1
      <4>3. Cuts(cut, pattern, path, n, c)
        <5> HIDE DEF cut
        <5> QED BY <3>1, <4>1, <4>2 DEF Cuts
      <4> HIDE DEF cut
      <4> QED BY <4>3 DEF CoversFrom
    <3> QED BY <3>1 DEF CoversFrom, Cuts
  <2>3. \A c \in 0 .. L : c + 1 \in m[Len(segs) + 1] <=> c = L
    BY <1>1, <2>1
  <2>4. n - 0 = n /\ 0 \in 0 .. n
    BY <1>1
  <2>5. Len(segs) \in Nat
    BY <1>7
  <2> HIDE DEF n, L, m
  <2>6. Holds(n)
    BY <1>5, <2>2, <2>3, <2>5
  <2> HIDE DEF Holds
  <2> QED BY <2>4, <2>6
<1>9. ASSUME NEW r \in 0 .. n - 1, r \in P PROVE r + 1 \in P
  <2> DEFINE i == n - (r + 1)
             t == pattern[i + 1]
  <2>1. /\ i + 1 = n - r /\ i \in 0 .. n - 1 /\ i \in 0 .. n /\ i + 1 \in 1 .. n /\ (i + 1) - 1 = i
        /\ i + 1 \in 0 .. n /\ r + 1 \in 0 .. n
    BY <1>1
  <2>2. Holds(i + 1)
    <3> HIDE DEF Holds, i
    <3> QED BY <1>9, <2>1
  <2> HIDE DEF i, n
  <2>3. /\ t \in Token /\ Segments(t) \in Seq(PatternSegment) /\ f[i] \in Seq(PatternSegment)
        /\ Len(f[i]) \in Nat /\ f[i + 1] = f[i] \o Segments(t)
    BY <1>1, <1>2, <1>3, <1>5, <1>6, <2>1
  <2> DEFINE o == Len(f[i])
             z == Len(f[i + 1])
  <2>4. /\ z \in Nat /\ z = o + Len(Segments(t)) /\ Len(Segments(t)) \in Nat
        /\ \A j \in 1 .. o : f[i + 1][j] = f[i][j] /\ j \in 1 .. z
        /\ \A j \in 1 .. Len(Segments(t)) : f[i + 1][o + j] = Segments(t)[j] /\ o + j \in 1 .. z
    <3> DEFINE a == f[i]
               b == Segments(t)
    <3>1. a \in Seq(PatternSegment) /\ b \in Seq(PatternSegment) /\ f[i + 1] = a \o b
      BY <2>3
    <3> HIDE DEF a, b
    <3>2. /\ Len(a \o b) \in Nat /\ Len(a \o b) = Len(a) + Len(b) /\ Len(b) \in Nat
          /\ \A j \in 1 .. Len(a) : (a \o b)[j] = a[j] /\ j \in 1 .. Len(a \o b)
          /\ \A j \in 1 .. Len(b) : (a \o b)[Len(a) + j] = b[j] /\ Len(a) + j \in 1 .. Len(a \o b)
      BY <3>1
    <3> QED BY <3>1, <3>2 DEF a, b
  <2>5. z <= Len(segs) /\ \A j \in 1 .. z : segs[j] = f[i + 1][j]
    BY <2>2
  <2>6. o <= Len(segs) /\ \A j \in 1 .. o : segs[j] = f[i][j]
    <3>1. Len(segs) \in Nat
      BY <1>7
    <3> HIDE DEF o, z, t
    <3> QED BY <2>3, <2>4, <2>5, <3>1 DEF o
  <2>7. \A j \in 1 .. Len(Segments(t)) : segs[o + j] = Segments(t)[j]
    BY <2>4, <2>5
  <2>8. ASSUME NEW c \in 0 .. L
        PROVE  c + 1 \in m[o + 1] <=> CoversFrom(pattern, path, i, c)
    <3>1. c + 1 \in m[o + 1] <=> \E e \in 0 .. L : Takes(t, path, c, e) /\ e + 1 \in m[z + 1]
      <4>1. o \in Nat /\ t \in Token
        BY <2>3
      <4>2. z \in Nat /\ z = o + Len(Segments(t)) /\ z <= Len(segs)
        BY <2>4, <2>5
      <4> HIDE DEF t, o, z
      <4> QED BY <1>7, <2>7, <4>1, <4>2, TokenMatches
    <3>2. CoversFrom(pattern, path, i, c) <=>
             \E e \in 0 .. L : Takes(t, path, c, e) /\ CoversFrom(pattern, path, i + 1, e)
      BY <2>1, NextStretch DEF n
    <3>3. \A e \in 0 .. L : e + 1 \in m[z + 1] <=> CoversFrom(pattern, path, i + 1, e)
      BY <2>2
    <3> HIDE DEF t, o, z, m, L
    <3> QED BY <3>1, <3>2, <3>3
  <2>9. Holds(i)
    BY <2>6, <2>8
  <2> HIDE DEF Holds
  <2> QED BY <2>1, <2>9 DEF i
<1>10. 0 .. n \subseteq P
  <2>1. n \in Nat
    BY <1>1
  <2> HIDE DEF P, n
  <2> QED BY <1>8, <1>9, <2>1, UpTo
<1>11. Holds(0)
  <2>1. n - n = 0 /\ n \in 0 .. n
    BY <1>1
  <2>2. n \in P
    <3> HIDE DEF P, n
    <3> QED BY <1>10, <2>1
  <2> HIDE DEF Holds
  <2> QED BY <2>1, <2>2
<1>12. 1 \in m[1] <=> CoversFrom(pattern, path, 0, 0)
  <2>1. 0 \in 0 .. L /\ 0 + 1 = 1 /\ Len(f[0]) = 0
    BY <1>1, <1>5
  <2>2. \A c \in 0 .. L : c + 1 \in m[Len(f[0]) + 1] <=> CoversFrom(pattern, path, 0, c)
    BY <1>11
  <2> HIDE DEF m, L
  <2> QED BY <2>1, <2>2
<1>13. CoversFrom(pattern, path, 0, 0) <=> Covers(pattern, path)
  <2>1. 0 + 1 = 1
    OBVIOUS
  <2> QED BY <1>1, <2>1 DEF CoversFrom, Cuts, Covers, Takes
<1> QED BY <1>12, <1>13 DEF Matches, segs

-----------------------------------------------------------------------------
(* Which rule decides.                                                     *)

(* The engine holds a policy that the loader lets through, with its patterns *)
(* compiled.                                                                 *)
EngineOK ==
    /\ IsPolicy(engine.policy) /\ engine.vault \in BOOLEAN
    /\ \A i \in DOMAIN rules : RuleOK(rules[i])
    /\ \A i \in DOMAIN rules :
          engine.paths[i] = IF Compiles(rules[i].match) THEN compile_path(rules[i].match) ELSE <<>>

Rule0 == 0 .. Len(rules)

LEMMA RulesAre ==
  ASSUME EngineOK
  PROVE  /\ Len(rules) \in Nat /\ DOMAIN rules = 1 .. Len(rules)
         /\ \A i \in DOMAIN rules :
               /\ rules[i].action \in DOMAIN SEVERITY
               /\ rules[i].match \in Seq(Written)
               /\ rules[i].match # <<>> => Compiles(rules[i].match)
               /\ rules[i].scope = "result" => rules[i].action = "block"
               /\ i \in Rule0 /\ i # 0
         /\ 0 \in Rule0 /\ Rule0 \subseteq Nat
<1>1. rules \in Seq(Range(rules))
  BY DEF EngineOK, IsPolicy, rules
<1>2. Len(rules) \in Nat /\ DOMAIN rules = 1 .. Len(rules)
  BY <1>1
<1>3. ASSUME NEW i \in DOMAIN rules
      PROVE  rules[i].action \in DOMAIN SEVERITY /\ rules[i].match \in Seq(Written)
  <2>1. rules[i] \in Range(rules)
    BY DEF Range
  <2> QED BY <2>1 DEF EngineOK, IsPolicy, rules, Written
<1>4. \A i \in DOMAIN rules : RuleOK(rules[i])
  BY DEF EngineOK
<1>5. 0 \in Rule0 /\ Rule0 \subseteq Nat /\ \A i \in DOMAIN rules : i \in Rule0 /\ i # 0
  BY <1>2 DEF Rule0
<1> QED BY <1>2, <1>3, <1>4, <1>5 DEF RuleOK

LEMMA FirstIs ==
  ASSUME NEW S \in SUBSET Nat, 0 \notin S
  PROVE  /\ First(S) = 0 <=> S = {}
         /\ \A i : FirstIn(S, i) <=> First(S) = i /\ i # 0
         /\ First(S) # 0 => First(S) \in S
<1>1. CASE S = {}
  BY <1>1 DEF First, FirstIn
<1>2. CASE S # {}
  <2>1. Min(S) \in S /\ \A x \in S : Min(S) <= x
    BY <1>2, MinOfNaturals
  <2>2. First(S) = Min(S) /\ Min(S) # 0
    BY <1>2, <2>1 DEF First
  <2>3. ASSUME NEW i, FirstIn(S, i) PROVE i = Min(S)
    <3>1. i \in S /\ i <= Min(S) /\ Min(S) <= i
      BY <2>1, <2>3 DEF FirstIn
    <3>2. i \in Nat /\ Min(S) \in Nat
      BY <2>1, <3>1
    <3> QED BY <3>1, <3>2
  <2>4. FirstIn(S, Min(S))
    BY <2>1 DEF FirstIn
  <2> QED BY <1>2, <2>1, <2>2, <2>3, <2>4
<1> QED BY <1>1, <1>2

(* The rule that pins a leaf is found by trying the compiled paths in order, *)
(* the rule for an entity by trying the lists.                               *)
LEMMA PinnedIs ==
  ASSUME EngineOK, NEW l, IsLeaf(l)
  PROVE  /\ \A i : i \in DOMAIN rules /\ Pins(i, l) <=> PinnedBy(l) = i /\ i # 0
         /\ PinnedBy(l) # 0 => PinnedBy(l) \in DOMAIN rules
<1> DEFINE S == {i \in DOMAIN rules :
                   rules[i].match # <<>> /\ tool \in rules[i].tools /\ Matches(engine.paths[i], l.path)}
           T == {j \in DOMAIN rules :
                   rules[j].match # <<>> /\ tool \in rules[j].tools /\ Covers(rules[j].match, l.path)}
<1>1. l.path \in Seq(PathSegment)
  BY DEF IsLeaf, PathSegment
<1>2. ASSUME NEW i \in DOMAIN rules, rules[i].match # <<>>
      PROVE  Matches(engine.paths[i], l.path) <=> Covers(rules[i].match, l.path)
  <2>1. Compiles(rules[i].match) /\ rules[i].match \in Seq(Written)
    BY <1>2, RulesAre
  <2>2. engine.paths[i] = compile_path(rules[i].match)
    BY <2>1 DEF EngineOK
  <2> QED BY <1>1, <2>1, <2>2, PathsAsWritten
<1>3. S = T
  BY <1>2
<1>4. S \in SUBSET Nat /\ 0 \notin S
  BY RulesAre
<1>5. PinnedBy(l) = First(S)
  BY DEF PinnedBy
<1>6. \A i : Pins(i, l) <=> FirstIn(T, i)
  BY DEF Pins
<1>7. \A i : FirstIn(S, i) => i \in DOMAIN rules
  BY DEF FirstIn
<1>8. First(S) # 0 => First(S) \in DOMAIN rules
  <2>1. S \subseteq DOMAIN rules
    OBVIOUS
  <2> HIDE DEF S
  <2> QED BY <1>4, <2>1, FirstIs
<1> HIDE DEF S, T
<1> QED BY <1>3, <1>4, <1>5, <1>6, <1>7, <1>8, FirstIs

LEMMA RuleForIs ==
  ASSUME EngineOK, NEW e
  PROVE  /\ \A i : i \in DOMAIN rules /\ Decides(i, e) <=> RuleFor(e) = i /\ i # 0
         /\ RuleFor(e) = 0 <=> e \notin Covered
         /\ RuleFor(e) # 0 => RuleFor(e) \in DOMAIN rules
<1> DEFINE S == {i \in DOMAIN rules : e \in rules[i].entities}
<1>1. S \in SUBSET Nat /\ 0 \notin S
  BY RulesAre
<1>2. RuleFor(e) = First(S)
  BY DEF RuleFor
<1>3. \A i : Decides(i, e) <=> FirstIn(S, i)
  BY DEF Decides
<1>4. \A i : FirstIn(S, i) => i \in DOMAIN rules
  BY DEF FirstIn
<1>5. S = {} <=> e \notin Covered
  BY DEF Covered
<1>6. First(S) # 0 => First(S) \in DOMAIN rules
  <2>1. S \subseteq DOMAIN rules
    OBVIOUS
  <2> HIDE DEF S
  <2> QED BY <1>1, <2>1, FirstIs
<1> HIDE DEF S
<1> QED BY <1>1, <1>2, <1>3, <1>4, <1>5, <1>6, FirstIs

-----------------------------------------------------------------------------
(* What is found.                                                          *)

Reported == [place : Nat, entity : STRING, tier : {1, 2}, conf : Nat]
AnySpan  == [place : Nat, entity : STRING \cup Range(Columns) \cup {"STRUCTURAL"},
             tier : {0, 1, 2}, conf : Nat]

LEMMA MinOfTwo ==
  ASSUME NEW a \in Nat, NEW b \in Nat
  PROVE  Min({a, b}) = IF a > b THEN b ELSE a
<1>1. {a, b} \in SUBSET Nat /\ {a, b} # {}
  OBVIOUS
<1>2. Min({a, b}) \in {a, b} /\ \A x \in {a, b} : Min({a, b}) <= x
  BY <1>1, MinOfNaturals
<1> QED BY <1>2

(* Capping is scoring, and leaves all but the confidence as it is.          *)
LEMMA CappedIs ==
  ASSUME NEW s \in AnySpan
  PROVE  /\ Capped(s) = Scored(s) /\ Capped(s) \in AnySpan
         /\ Capped(s).entity = s.entity /\ Capped(s).tier = s.tier /\ Capped(s).place = s.place
         /\ s.tier = 2 => Capped(s).conf <= NerMax
         /\ s.tier # 2 => Capped(s) = s
<1>1. NerMax \in Nat /\ s.conf \in Nat /\ s.place \in Nat /\ s.tier \in {0, 1, 2}
  BY EngineAssumption DEF AnySpan
<1>2. CASE s.tier = 2
  <2> DEFINE c == IF s.conf > NerMax THEN NerMax ELSE s.conf
  <2>1. Capped(s) = [s EXCEPT !.conf = c]
    BY <1>1, <1>2, MinOfTwo DEF Capped
  <2>2. c \in Nat /\ c <= NerMax
    BY <1>1
  <2>3. Scored(s) = [s EXCEPT !.conf = c]
    BY <1>2 DEF Scored, AnySpan
  <2> HIDE DEF c
  <2> QED BY <1>2, <2>1, <2>2, <2>3 DEF AnySpan
<1>3. CASE s.tier # 2
  BY <1>3 DEF Capped, Scored
<1> QED BY <1>2, <1>3

(* The field around a value is named by the last key of its path.           *)
LEMMA FieldIs ==
  ASSUME NEW l, IsLeaf(l)
  PROVE  /\ HasField(l) => NamedBy(l) = {Field(l.path)}
         /\ ~HasField(l) => NamedBy(l) = {}
<1> DEFINE path == l.path
           D == DOMAIN path
           K == {n \in D : path[n].kind = "key"}
           last == Max(K)
<1>1. path \in Seq(PathSegment) /\ D = 1 .. Len(path) /\ Len(path) \in Nat
  BY DEF IsLeaf, PathSegment
<1>2. ASSUME HasField(l) PROVE NamedBy(l) = {Field(l.path)}
  <2>1. K \in SUBSET Nat /\ K # {} /\ \A x \in K : x <= Len(path)
    BY <1>1, <1>2 DEF HasField
  <2>2. last \in K /\ \A x \in K : x <= last
    <3> HIDE DEF K
    <3> QED BY <1>1, <2>1, MaxOfBounded
  <2> HIDE DEF last
  <2>3. {m \in D : path[m].kind = "key" /\ \A o \in D : o > m => path[o].kind # "key"} = {last}
    <3>1. ASSUME NEW m \in D, path[m].kind = "key", \A o \in D : o > m => path[o].kind # "key"
          PROVE  m = last
      <4>1. m \in K /\ last \in D /\ path[last].kind = "key"
        BY <2>2, <3>1
      <4>2. m <= last /\ ~(last > m)
        BY <2>2, <3>1, <4>1
      <4>3. m \in Nat /\ last \in Nat
        BY <2>1, <2>2
      <4> QED BY <4>2, <4>3
    <3>2. ASSUME NEW o \in D, o > last PROVE path[o].kind # "key"
      <4>1. o \in Nat /\ last \in Nat
        BY <1>1, <2>1, <2>2
      <4>2. ~(o <= last)
        BY <3>2, <4>1
      <4> QED BY <2>2, <4>2
    <3>3. last \in D /\ path[last].kind = "key"
      BY <2>2
    <3> HIDE DEF D, path
    <3> QED BY <3>1, <3>2, <3>3
  <2>4. Field(l.path) = path[last].name
    BY DEF Field, last
  <2>5. NamedBy(l) = {path[n].name :
           n \in {m \in D : path[m].kind = "key" /\ \A o \in D : o > m => path[o].kind # "key"}}
    BY DEF NamedBy
  <2> HIDE DEF D, path
  <2> QED BY <2>3, <2>4, <2>5
<1>3. ASSUME ~HasField(l) PROVE NamedBy(l) = {}
  BY <1>3 DEF HasField, NamedBy
<1> QED BY <1>2, <1>3

(* Tier 0 reports what the name of the field says.                          *)
LEMMA ColumnIs ==
  ASSUME NEW l, IsLeaf(l)
  PROVE  /\ ColumnSpans(l) \in Seq(AnySpan) /\ Len(ColumnSpans(l)) \in {0, 1}
         /\ ByName(l) = Range(ColumnSpans(l))
         /\ \A s \in ByName(l) : s \in AnySpan /\ s.tier = 0 /\ s.entity # "STRUCTURAL"
<1> DEFINE S(k) == [place |-> 0, entity |-> Columns[k], tier |-> 0, conf |-> ColumnConf]
           k0 == Field(l.path)
           Keys == DOMAIN Columns \ ExemptKeys
<1>1. ASSUME NEW k \in DOMAIN Columns
      PROVE  S(k) \in AnySpan /\ S(k).tier = 0 /\ S(k).entity # "STRUCTURAL"
  <2>1. Columns[k] \in Range(Columns) /\ Columns[k] # "STRUCTURAL" /\ ColumnConf \in Nat
    BY EngineAssumption DEF Range
  <2> QED BY <2>1 DEF AnySpan
<1>2. ByName(l) = {S(k) : k \in IF l.kind = "empty" THEN {} ELSE NamedBy(l) \cap Keys}
  BY DEF ByName
<1> HIDE DEF S
<1>3. CASE HasField(l) /\ l.kind # "empty" /\ k0 \in Keys
  <2>1. NamedBy(l) = {k0}
    BY <1>3, FieldIs
  <2>2. ColumnSpans(l) = <<S(k0)>>
    BY <1>3 DEF ColumnSpans, S
  <2>3. ByName(l) = {S(k0)}
    <3> HIDE DEF k0, Keys
    <3> QED BY <1>2, <1>3, <2>1
  <2>4. S(k0) \in AnySpan /\ S(k0).tier = 0 /\ S(k0).entity # "STRUCTURAL"
    BY <1>1, <1>3
  <2> HIDE DEF k0
  <2>5. <<S(k0)>> \in Seq(AnySpan) /\ Len(<<S(k0)>>) = 1 /\ Range(<<S(k0)>>) = {S(k0)}
    BY <2>4 DEF Range
  <2> QED BY <2>2, <2>3, <2>4, <2>5
<1>4. CASE ~(HasField(l) /\ l.kind # "empty" /\ k0 \in Keys)
  <2>1. ColumnSpans(l) = <<>>
    BY <1>4 DEF ColumnSpans
  <2>2. ByName(l) = {}
    <3>1. CASE l.kind = "empty"
      BY <1>2, <3>1
    <3>2. CASE ~HasField(l)
      BY <1>2, <3>2, FieldIs
    <3>3. CASE HasField(l) /\ k0 \notin Keys
      <4>1. NamedBy(l) = {k0}
        BY <3>3, FieldIs
      <4> HIDE DEF k0, Keys
      <4> QED BY <1>2, <3>3, <4>1
    <3> QED BY <1>4, <3>1, <3>2, <3>3
  <2>3. Range(<<>>) = {}
    BY DEF Range
  <2> QED BY <2>1, <2>2, <2>3
<1> QED BY <1>3, <1>4

(* All the spans of a leaf, as the policy is to see them; none is there twice. *)
Scores(l) == {Scored(x) : x \in Range(l.spans) \cup ByName(l)}

LEMMA SpansAre ==
  ASSUME NEW l, IsLeaf(l)
  PROVE  /\ Spans(l) \in Seq(AnySpan)
         /\ Range(Spans(l)) = Scores(l)
         /\ \A s \in Scores(l) : /\ s \in AnySpan
                                 /\ s.tier = 2 => s.entity \in NerEntities /\ s.conf <= NerMax
                                 /\ s # PolicyMatch
         /\ \A m, n \in DOMAIN Spans(l) : Spans(l)[m] = Spans(l)[n] => m = n
<1> DEFINE A == ColumnSpans(l)
           B == l.spans
           c == Len(A)
           all == A \o B
<1>1. A \in Seq(AnySpan) /\ c \in {0, 1} /\ ByName(l) = Range(A)
      /\ \A s \in Range(A) : s \in AnySpan /\ s.tier = 0 /\ s.entity # "STRUCTURAL"
  BY ColumnIs
<1>2. B \in Seq(Reported) /\ (\A s \in Range(B) : s.tier = 2 => s.entity \in NerEntities)
      /\ \A m, n \in DOMAIN B : Capped(B[m]) = Capped(B[n]) => m = n
  BY DEF IsLeaf, Reported
<1>3. Reported \subseteq AnySpan /\ \A s \in Reported : s.tier # 0
  BY DEF Reported, AnySpan
<1> HIDE DEF A, B
<1>4. B \in Seq(AnySpan) /\ \A s \in Range(B) : s \in AnySpan /\ s.tier # 0
  <2>1. \A n \in DOMAIN B : B[n] \in Reported /\ B[n] \in AnySpan
    BY <1>2, <1>3
  <2>2. B \in Seq(AnySpan)
    BY <1>2, <2>1
  <2> QED BY <1>3, <2>1, <2>2 DEF Range
<1>5. /\ all \in Seq(AnySpan) /\ DOMAIN all = 1 .. c + Len(B) /\ Len(B) \in Nat /\ c \in Nat
      /\ DOMAIN A = 1 .. c /\ DOMAIN B = 1 .. Len(B)
      /\ \A n \in 1 .. c : all[n] = A[n]
      /\ \A n \in DOMAIN all : n > c => n - c \in DOMAIN B /\ all[n] = B[n - c]
      /\ \A n \in DOMAIN B : c + n \in DOMAIN all /\ all[c + n] = B[n]
      /\ \A n \in DOMAIN all : n \in 1 .. c \/ n > c
  BY <1>1, <1>4
<1>6. Spans(l) = [n \in DOMAIN all |-> Capped(all[n])]
  BY DEF Spans, A, B
<1>7. \A n \in DOMAIN all : all[n] \in AnySpan /\ Capped(all[n]) \in AnySpan
  BY <1>5, CappedIs
<1>8. Spans(l) \in Seq(AnySpan) /\ DOMAIN Spans(l) = DOMAIN all
  <2>1. c + Len(B) \in Nat
    BY <1>5
  <2> HIDE DEF all, c
  <2> QED BY <1>5, <1>6, <1>7, <2>1
<1>9. Range(all) = Range(B) \cup ByName(l)
  <2>1. ASSUME NEW n \in DOMAIN all PROVE all[n] \in Range(A) \cup Range(B)
    <3> HIDE DEF all, c
    <3> QED BY <1>5 DEF Range
  <2>2. ASSUME NEW n \in DOMAIN A PROVE A[n] \in Range(all)
    <3>1. n \in DOMAIN all /\ all[n] = A[n]
      BY <1>5
    <3> HIDE DEF all, c
    <3> QED BY <3>1 DEF Range
  <2>3. ASSUME NEW n \in DOMAIN B PROVE B[n] \in Range(all)
    <3>1. c + n \in DOMAIN all /\ all[c + n] = B[n]
      BY <1>5
    <3> HIDE DEF all, c
    <3> QED BY <3>1 DEF Range
  <2> HIDE DEF all
  <2> QED BY <1>1, <2>1, <2>2, <2>3 DEF Range
<1> HIDE DEF all
<1>10. Range(Spans(l)) = {Capped(x) : x \in Range(all)}
  BY <1>6 DEF Range
<1>11. \A x \in Range(all) : x \in AnySpan /\ Capped(x) = Scored(x)
  BY <1>7, CappedIs DEF Range
<1>12. Range(Spans(l)) = Scores(l)
  BY <1>9, <1>10, <1>11 DEF Scores, B
<1>13. ASSUME NEW s \in Scores(l)
       PROVE  /\ s \in AnySpan
              /\ s.tier = 2 => s.entity \in NerEntities /\ s.conf <= NerMax
              /\ s # PolicyMatch
  <2>1. PICK x \in Range(all) : s = Capped(x)
    BY <1>10, <1>12
  <2>2. /\ x \in AnySpan /\ s \in AnySpan /\ s.entity = x.entity /\ s.tier = x.tier
        /\ s.tier = 2 => s.conf <= NerMax
    BY <1>11, <2>1, CappedIs
  <2>3. CASE x \in Range(A)
    BY <1>1, <2>2, <2>3 DEF PolicyMatch
  <2>4. CASE x \in Range(B)
    BY <1>2, <1>4, <2>2, <2>4 DEF PolicyMatch
  <2> QED BY <1>1, <1>9, <2>1, <2>3, <2>4
<1>14. ASSUME NEW m \in DOMAIN all, NEW n \in DOMAIN all, Spans(l)[m] = Spans(l)[n] PROVE m = n
  <2>1. Capped(all[m]) = Capped(all[n])
    BY <1>6, <1>14
  <2>2. all[m].tier = all[n].tier
    BY <1>7, <2>1, CappedIs
  <2>3. \A k \in DOMAIN all : k \in 1 .. c => all[k].tier = 0
    BY <1>1, <1>5 DEF Range
  <2>4. \A k \in DOMAIN all : k > c => all[k].tier # 0
    BY <1>4, <1>5 DEF Range
  <2>5. CASE m \in 1 .. c /\ n \in 1 .. c
    <3>1. c \in {0, 1}
      BY <1>1
    <3> HIDE DEF c
    <3> QED BY <2>5, <3>1
  <2>6. CASE m > c /\ n > c
    <3>1. m - c = n - c
      BY <1>2, <1>5, <2>1, <2>6
    <3>2. m \in Int /\ n \in Int
      BY <1>5
    <3> HIDE DEF c
    <3> QED BY <1>5, <3>1, <3>2
  <2> QED BY <1>5, <2>2, <2>3, <2>4, <2>5, <2>6
<1> QED BY <1>8, <1>12, <1>13, <1>14

(* The spans that are found on a leaf: all that can be, save those of        *)
(* entities that no rule covers, when detectors are skipped.                 *)
FoundOn(l) ==
    IF l.kind = "other" THEN <<>>
    ELSE Kept(Spans(l), {n \in DOMAIN Spans(l) : IsFound(l, Spans(l)[n])})

LEMMA FindsWhatIsThere ==
  ASSUME EngineOK, NEW l, IsLeaf(l), NEW s \in Scores(l)
  PROVE  l.kind # "other" /\ IsFound(l, s) <=> s \in Findable(l) /\ (Skips => s.entity \in Covered)
<1>1. engine.policy.ner \in {"off", "auto", "on"}
  BY DEF EngineOK, IsPolicy
<1>2. s.tier = 2 => s.entity \in NerEntities
  BY SpansAre
<1>3. ASSUME s.tier = 2
      PROVE  engine.ner /\ s.entity \in NerWanted <=>
                 NerLooksFor(s.entity) /\ (Skips => s.entity \in Covered)
  <2>1. CASE Skips
    <3>1. (NerEntities \cap Covered) \cap NerOnly = Covered \cap NerOnly
      BY EngineAssumption
    <3> QED BY <1>1, <1>2, <1>3, <2>1, <3>1 DEF NerWanted, NerLooksFor, Skips
  <2>2. CASE ~Skips
    BY <1>1, <1>2, <1>3, <2>2 DEF NerWanted, NerLooksFor, Skips
  <2> QED BY <2>1, <2>2
<1>4. CASE s.tier = 2
  <2>1. IsFound(l, s) <=> /\ s.conf >= engine.policy.minConf /\ l.kind = "text"
                          /\ engine.ner /\ s.entity \in NerWanted
    BY <1>4 DEF IsFound, NerAsked
  <2>2. s \in Findable(l) <=> /\ l.kind # "other" /\ s.conf >= engine.policy.minConf
                              /\ l.kind = "text" /\ NerLooksFor(s.entity)
    BY <1>4 DEF Findable, Scores
  <2> QED BY <1>3, <1>4, <2>1, <2>2
<1>5. CASE s.tier # 2
  <2>1. IsFound(l, s) <=> s.conf >= engine.policy.minConf /\ (Skips => s.entity \in Covered)
    BY <1>5 DEF IsFound
  <2>2. s \in Findable(l) <=> l.kind # "other" /\ s.conf >= engine.policy.minConf
    BY <1>5 DEF Findable, Scores
  <2> QED BY <2>1, <2>2
<1> QED BY <1>4, <1>5

LEMMA FoundIs ==
  ASSUME EngineOK, NEW l, IsLeaf(l)
  PROVE  /\ FoundOn(l) \in Seq(AnySpan)
         /\ Range(FoundOn(l)) = {s \in Findable(l) : Skips => s.entity \in Covered}
         /\ Findable(l) \subseteq Scores(l)
         /\ \A m, n \in DOMAIN FoundOn(l) : FoundOn(l)[m] = FoundOn(l)[n] => m = n
<1> DEFINE F == {s \in Findable(l) : Skips => s.entity \in Covered}
           K == {n \in DOMAIN Spans(l) : IsFound(l, Spans(l)[n])}
           kept == Kept(Spans(l), K)
<1>1. Findable(l) \subseteq Scores(l)
  BY DEF Findable, Scores
<1>2. CASE l.kind = "other"
  <2>1. Findable(l) = {}
    BY <1>2 DEF Findable
  <2>2. FoundOn(l) = <<>> /\ Range(<<>>) = {}
    BY <1>2 DEF FoundOn, Range
  <2> QED BY <2>1, <2>2
<1>3. CASE l.kind # "other"
  <2>1. FoundOn(l) = kept
    BY <1>3 DEF FoundOn
  <2>2. Spans(l) \in Seq(AnySpan) /\ K \in SUBSET DOMAIN Spans(l) /\ Range(Spans(l)) = Scores(l)
        /\ \A m, n \in K : Spans(l)[m] = Spans(l)[n] => m = n
    BY SpansAre
  <2>3. F = {Spans(l)[n] : n \in K}
    <3>1. \A s \in Scores(l) : IsFound(l, s) <=> s \in F
      BY <1>3, FindsWhatIsThere
    <3>2. F \subseteq Scores(l)
      BY <1>1
    <3>3. Scores(l) = {Spans(l)[n] : n \in DOMAIN Spans(l)}
      BY <2>2 DEF Range
    <3> HIDE DEF F
    <3> QED BY <3>1, <3>2, <3>3
  <2> HIDE DEF K
  <2>4. /\ kept \in Seq(AnySpan)
        /\ \A j \in DOMAIN kept : \E n \in K : kept[j] = Spans(l)[n]
        /\ \A n \in K : \E j \in DOMAIN kept : kept[j] = Spans(l)[n]
        /\ \A i, j \in DOMAIN kept : kept[i] = kept[j] => i = j
    BY <2>2, KeptHas
  <2> HIDE DEF kept, F
  <2>5. Range(kept) = F
    BY <2>3, <2>4 DEF Range
  <2> QED BY <1>1, <2>1, <2>4, <2>5 DEF F
<1> QED BY <1>2, <1>3

-----------------------------------------------------------------------------
(* The findings on a leaf are the demands on it.                           *)

SpanDemand(s) == [span |-> s, action |-> ActionFor(s.entity), rule |-> RuleFor(s.entity)]

PinDemand(l) == [span |-> PolicyMatch, action |-> rules[PinnedBy(l)].action, rule |-> PinnedBy(l)]

LEMMA DemandsAre ==
  ASSUME EngineOK, NEW l, IsLeaf(l)
  PROVE  Demands(l) = (IF PinnedBy(l) = 0 THEN {} ELSE {PinDemand(l)})
                      \cup {SpanDemand(s) : s \in Findable(l)}
<1> DEFINE A == {[span |-> PolicyMatch, action |-> rules[i].action, rule |-> i] :
                   i \in {j \in DOMAIN rules : Pins(j, l)}}
           B == {[span |-> x[1], action |-> rules[x[2]].action, rule |-> x[2]] :
                   x \in {y \in Findable(l) \X DOMAIN rules : Decides(y[2], y[1].entity)}}
           C == {[span |-> s, action |-> engine.policy.default, rule |-> 0] :
                   s \in {y \in Findable(l) : y.entity \notin Covered}}
           S == {SpanDemand(s) : s \in Findable(l)}
           P == IF PinnedBy(l) = 0 THEN {} ELSE {PinDemand(l)}
<1>1. A = P
  <2>1. CASE PinnedBy(l) = 0
    <3>1. {j \in DOMAIN rules : Pins(j, l)} = {}
      BY <2>1, PinnedIs
    <3> QED BY <2>1, <3>1
  <2>2. CASE PinnedBy(l) # 0
    <3>1. {j \in DOMAIN rules : Pins(j, l)} = {PinnedBy(l)}
      BY <2>2, PinnedIs
    <3> QED BY <2>2, <3>1 DEF PinDemand
  <2> QED BY <2>1, <2>2
<1>2. ASSUME NEW s \in Findable(l) PROVE SpanDemand(s) \in B \cup C
  <2>1. CASE RuleFor(s.entity) = 0
    <3>1. SpanDemand(s) = [span |-> s, action |-> engine.policy.default, rule |-> 0]
      BY <2>1 DEF SpanDemand, ActionFor
    <3>2. s.entity \notin Covered
      BY <2>1, RuleForIs
    <3> QED BY <3>1, <3>2
  <2>2. CASE RuleFor(s.entity) # 0
    <3> DEFINE i == RuleFor(s.entity)
    <3>1. i \in DOMAIN rules /\ Decides(i, s.entity)
      BY <2>2, RuleForIs
    <3>2. SpanDemand(s) = [span |-> s, action |-> rules[i].action, rule |-> i]
      BY <2>2 DEF SpanDemand, ActionFor
    <3> HIDE DEF i
    <3>3. <<s, i>> \in {y \in Findable(l) \X DOMAIN rules : Decides(y[2], y[1].entity)}
      BY <3>1
    <3>4. [span |-> s, action |-> rules[i].action, rule |-> i] \in B
      BY <3>3
    <3> QED BY <3>2, <3>4
  <2> QED BY <2>1, <2>2
<1>3. ASSUME NEW b \in B PROVE b \in S
  <2>1. PICK s \in Findable(l), i \in DOMAIN rules :
           Decides(i, s.entity) /\ b = [span |-> s, action |-> rules[i].action, rule |-> i]
    OBVIOUS
  <2>2. i = RuleFor(s.entity) /\ i # 0
    BY <2>1, RuleForIs
  <2>3. b = SpanDemand(s)
    BY <2>1, <2>2 DEF SpanDemand, ActionFor
  <2> QED BY <2>3
<1>4. ASSUME NEW b \in C PROVE b \in S
  <2>1. PICK s \in Findable(l) :
           s.entity \notin Covered /\ b = [span |-> s, action |-> engine.policy.default, rule |-> 0]
    OBVIOUS
  <2>2. RuleFor(s.entity) = 0
    BY <2>1, RuleForIs
  <2>3. b = SpanDemand(s)
    BY <2>1, <2>2 DEF SpanDemand, ActionFor
  <2> QED BY <2>3
<1>5. B \cup C = S
  <2> HIDE DEF B, C
  <2> QED BY <1>2, <1>3, <1>4
<1>6. Demands(l) = A \cup B \cup C
  BY DEF Demands
<1> HIDE DEF A, B, C, S, P
<1>7. Demands(l) = P \cup S
  BY <1>1, <1>5, <1>6
<1> QED BY <1>7 DEF P, S

(* The actions that can be taken. *)
Acts == DOMAIN SEVERITY \ (IF engine.vault THEN {} ELSE {"tokenize"})

Finding == [leaf : Nat, span : {s \in AnySpan : s.tier = 2 => s.conf <= NerMax},
            action : Acts, rule : Rule0]

LEMMA EffectiveIs ==
  ASSUME EngineOK, NEW a \in DOMAIN SEVERITY
  PROVE  /\ Effective(a) \in Acts
         /\ Effective(a) = "allow" <=> a = "allow"
         /\ a = "block" => Effective(a) = "block"
BY DEF Effective, Acts, SEVERITY, EngineOK

(* Finding f is what demand d asks for. *)
Meets(f, d) == f.span = d.span /\ f.action = Effective(d.action) /\ f.rule = d.rule

(* It needs to be found, unless detectors may be skipped for it. *)
Needed(d) == d.rule # 0 \/ d.action # "allow"

LEMMA DemandsHave ==
  ASSUME EngineOK, NEW l, IsLeaf(l), NEW d \in Demands(l)
  PROVE  /\ d.action \in DOMAIN SEVERITY /\ d.rule \in Rule0
         /\ d.span \in AnySpan /\ (d.span.tier = 2 => d.span.conf <= NerMax)
         /\ d.rule # 0 => d.rule \in DOMAIN rules /\ d.action = rules[d.rule].action
<1>1. CASE PinnedBy(l) # 0 /\ d = PinDemand(l)
  <2>1. PinnedBy(l) \in DOMAIN rules
    BY <1>1, PinnedIs
  <2>2. PolicyMatch \in AnySpan /\ PolicyMatch.tier # 2
    BY EngineAssumption DEF PolicyMatch, AnySpan
  <2> QED BY <1>1, <2>1, <2>2, RulesAre DEF PinDemand
<1>2. ASSUME NEW s \in Findable(l), d = SpanDemand(s)
      PROVE  /\ d.action \in DOMAIN SEVERITY /\ d.rule \in Rule0
             /\ d.span \in AnySpan /\ (d.span.tier = 2 => d.span.conf <= NerMax)
             /\ d.rule # 0 => d.rule \in DOMAIN rules /\ d.action = rules[d.rule].action
  <2>1. s \in Scores(l)
    BY FoundIs
  <2>2. s \in AnySpan /\ (s.tier = 2 => s.conf <= NerMax)
    BY <2>1, SpansAre
  <2>3. d.span = s /\ d.action = ActionFor(s.entity) /\ d.rule = RuleFor(s.entity)
    BY <1>2 DEF SpanDemand
  <2>4. engine.policy.default \in DOMAIN SEVERITY
    BY DEF EngineOK, IsPolicy
  <2>5. RuleFor(s.entity) # 0 => RuleFor(s.entity) \in DOMAIN rules
    BY RuleForIs
  <2> QED BY <2>2, <2>3, <2>4, <2>5, RulesAre DEF ActionFor
<1> QED BY <1>1, <1>2, DemandsAre

LEMMA LeafFindingsAre ==
  ASSUME EngineOK, NEW i \in Nat, IsLeaf(payload[i])
  PROVE  LET LF == LeafFindings(i)
             D == Demands(payload[i])
         IN  /\ LF \in Seq(Finding)
             /\ \A n \in DOMAIN LF : LF[n].leaf = i /\ \E d \in D : Meets(LF[n], d)
             /\ \A d \in D : Needed(d) => \E n \in DOMAIN LF : Meets(LF[n], d)
             /\ \A m, n \in DOMAIN LF : LF[m].span = LF[n].span => m = n
<1> DEFINE l == payload[i]
           F(s, action, rule) ==
               [leaf |-> i, span |-> s, action |-> Effective(action), rule |-> rule]
           found == FoundOn(l)
           A == IF PinnedBy(l) = 0 THEN <<>>
                ELSE <<F(PolicyMatch, rules[PinnedBy(l)].action, PinnedBy(l))>>
           B == [n \in DOMAIN found |->
                   F(found[n], ActionFor(found[n].entity), RuleFor(found[n].entity))]
           LF == A \o B
           D == Demands(l)
           c == Len(A)
<1>1. LeafFindings(i) = LF
  BY DEF LeafFindings, FoundOn
<1>2. ASSUME NEW d \in D
      PROVE  F(d.span, d.action, d.rule) \in Finding /\ Meets(F(d.span, d.action, d.rule), d)
  BY DemandsHave, EffectiveIs DEF Finding, Meets
<1>3. found \in Seq(AnySpan) /\ DOMAIN found = 1 .. Len(found) /\ Len(found) \in Nat
      /\ Range(found) = {s \in Findable(l) : Skips => s.entity \in Covered}
      /\ \A m, n \in DOMAIN found : found[m] = found[n] => m = n
  BY FoundIs
<1>4. D = (IF PinnedBy(l) = 0 THEN {} ELSE {PinDemand(l)}) \cup {SpanDemand(s) : s \in Findable(l)}
  BY DemandsAre
<1> HIDE DEF found, l, D
<1>5. /\ A \in Seq(Finding) /\ c \in {0, 1} /\ DOMAIN A = 1 .. c
      /\ c = 0 <=> PinnedBy(l) = 0
      /\ \A n \in DOMAIN A : A[n].leaf = i /\ A[n].span = PolicyMatch /\ Meets(A[n], PinDemand(l))
                             /\ PinDemand(l) \in D
  <2>1. CASE PinnedBy(l) = 0
    <3>1. A = <<>>
      BY <2>1
    <3> HIDE DEF A
    <3> QED BY <2>1, <3>1
  <2>2. CASE PinnedBy(l) # 0
    <3> DEFINE d == PinDemand(l)
               f == F(d.span, d.action, d.rule)
    <3>1. d \in D
      BY <1>4, <2>2
    <3>2. f \in Finding /\ Meets(f, d)
      BY <1>2, <3>1
    <3>3. A = <<f>> /\ f.leaf = i /\ f.span = PolicyMatch
      BY <2>2 DEF PinDemand
    <3> HIDE DEF f, d, A
    <3> QED BY <2>2, <3>1, <3>2, <3>3 DEF d
  <2> QED BY <2>1, <2>2
<1>6. ASSUME NEW n \in DOMAIN found
      PROVE  /\ found[n] \in Findable(l) /\ SpanDemand(found[n]) \in D /\ B[n] \in Finding
             /\ B[n].leaf = i /\ B[n].span = found[n] /\ Meets(B[n], SpanDemand(found[n]))
  <2> DEFINE s == found[n]
             d == SpanDemand(s)
             f == F(d.span, d.action, d.rule)
  <2>1. s \in Range(found)
    BY DEF Range
  <2>2. s \in Findable(l) /\ d \in D
    BY <1>3, <1>4, <2>1
  <2>3. f \in Finding /\ Meets(f, d)
    BY <1>2, <2>2
  <2>4. B[n] = f /\ f.leaf = i /\ f.span = s
    BY DEF SpanDemand
  <2> HIDE DEF f, d, s, B
  <2> QED BY <2>2, <2>3, <2>4 DEF d, s
<1>7. B \in Seq(Finding) /\ DOMAIN B = DOMAIN found /\ Len(B) = Len(found)
  <2>1. DOMAIN B = DOMAIN found
    OBVIOUS
  <2>2. \A n \in DOMAIN found : B[n] \in Finding
    BY <1>6
  <2>3. B = [n \in DOMAIN found |-> B[n]]
    OBVIOUS
  <2> HIDE DEF B
  <2> QED BY <1>3, <2>1, <2>2, <2>3
<1> HIDE DEF A, B
<1>8. /\ LF \in Seq(Finding) /\ DOMAIN LF = 1 .. c + Len(B) /\ Len(B) \in Nat /\ c \in Nat
      /\ DOMAIN A = 1 .. c /\ DOMAIN B = 1 .. Len(B)
      /\ \A n \in 1 .. c : LF[n] = A[n]
      /\ \A n \in DOMAIN LF : n > c => n - c \in DOMAIN B /\ LF[n] = B[n - c]
      /\ \A n \in DOMAIN B : c + n \in DOMAIN LF /\ LF[c + n] = B[n]
      /\ \A n \in DOMAIN A : n \in DOMAIN LF /\ LF[n] = A[n]
      /\ \A n \in DOMAIN LF : n \in 1 .. c \/ n > c
  BY <1>5, <1>7
<1> HIDE DEF LF, c
<1>9. ASSUME NEW n \in DOMAIN LF
      PROVE  LF[n].leaf = i /\ \E d \in D : Meets(LF[n], d)
  <2>1. CASE n \in 1 .. c
    BY <1>5, <1>8, <2>1
  <2>2. CASE n > c
    BY <1>6, <1>7, <1>8, <2>2
  <2> QED BY <1>8, <2>1, <2>2
<1>10. ASSUME NEW d \in D, Needed(d) PROVE \E n \in DOMAIN LF : Meets(LF[n], d)
  <2>1. CASE PinnedBy(l) # 0 /\ d = PinDemand(l)
    <3>1. c = 1 /\ 1 \in DOMAIN A
      BY <1>5, <2>1
    <3>2. 1 \in DOMAIN LF /\ LF[1] = A[1] /\ Meets(A[1], d)
      BY <1>5, <1>8, <2>1, <3>1
    <3> QED BY <3>2
  <2>2. ASSUME NEW s \in Findable(l), d = SpanDemand(s)
        PROVE  \E n \in DOMAIN LF : Meets(LF[n], d)
    <3>1. Skips => s.entity \in Covered
      <4>1. CASE RuleFor(s.entity) = 0
        BY <1>10, <2>2, <4>1 DEF Needed, SpanDemand, ActionFor, Skips
      <4>2. CASE RuleFor(s.entity) # 0
        BY <4>2, RuleForIs
      <4> QED BY <4>1, <4>2
    <3>2. s \in Range(found)
      BY <1>3, <3>1
    <3>3. PICK n \in DOMAIN found : found[n] = s
      BY <3>2 DEF Range
    <3>4. Meets(B[n], d)
      BY <1>6, <2>2, <3>3
    <3>5. c + n \in DOMAIN LF /\ LF[c + n] = B[n]
      BY <1>7, <1>8
    <3> QED BY <3>4, <3>5
  <2> QED BY <1>4, <2>1, <2>2
<1>11. ASSUME NEW m \in DOMAIN LF, NEW n \in DOMAIN LF, LF[m].span = LF[n].span
       PROVE  m = n
  <2>1. \A k \in DOMAIN LF : k \in 1 .. c => LF[k].span = PolicyMatch
    BY <1>5, <1>8
  <2>2. ASSUME NEW k \in DOMAIN LF, k > c
        PROVE  k - c \in DOMAIN found /\ LF[k].span = found[k - c] /\ LF[k].span # PolicyMatch
    <3>1. k - c \in DOMAIN found /\ LF[k] = B[k - c]
      BY <1>7, <1>8, <2>2
    <3>2. found[k - c] \in Scores(l) /\ LF[k].span = found[k - c]
      BY <1>6, <3>1, FoundIs DEF l
    <3>3. found[k - c] # PolicyMatch
      BY <3>2, SpansAre DEF l
    <3> QED BY <3>1, <3>2, <3>3
  <2>3. CASE m \in 1 .. c /\ n \in 1 .. c
    BY <1>5, <2>3
  <2>4. CASE m > c /\ n > c
    <3>1. m - c = n - c
      BY <1>3, <1>11, <2>2, <2>4
    <3>2. m \in Int /\ n \in Int
      BY <1>8
    <3> QED BY <1>8, <3>1, <3>2
  <2> QED BY <1>8, <1>11, <2>1, <2>2, <2>3, <2>4
<1> QED BY <1>1, <1>8, <1>9, <1>10, <1>11 DEF l, D

(* A leaf withholds its payload exactly if a rule of scope "result" applies. *)
Bans(l) == \E d \in Demands(l) : d.rule # 0 /\ rules[d.rule].scope = "result"

LEMMA StopIs ==
  ASSUME EngineOK, NEW i \in Nat, IsLeaf(payload[i])
  PROVE  /\ Bans(payload[i]) <=> Stop(i) # 0
         /\ Stop(i) # 0 => Stop(i) \in DOMAIN LeafFindings(i)
                            /\ Withholds(LeafFindings(i)[Stop(i)].rule)
<1> DEFINE LF == LeafFindings(i)
           D == Demands(payload[i])
           S == {n \in DOMAIN LF : Withholds(LF[n].rule)}
<1>1. /\ LF \in Seq(Finding)
      /\ \A n \in DOMAIN LF : \E d \in D : Meets(LF[n], d)
      /\ \A d \in D : Needed(d) => \E n \in DOMAIN LF : Meets(LF[n], d)
  BY LeafFindingsAre
<1>2. Stop(i) = First(S)
  BY DEF Stop
<1>3. S \in SUBSET Nat /\ 0 \notin S
  BY <1>1
<1>4. (First(S) = 0 <=> S = {}) /\ (First(S) # 0 => First(S) \in S)
  <2> HIDE DEF S
  <2> QED BY <1>3, FirstIs
<1>5. ASSUME NEW d \in D, d.rule # 0, rules[d.rule].scope = "result" PROVE S # {}
  <2>1. PICK n \in DOMAIN LF : Meets(LF[n], d)
    BY <1>1, <1>5 DEF Needed
  <2>2. d.rule \in DOMAIN rules
    BY <1>5, DemandsHave
  <2>3. rules[d.rule].action = "block"
    BY <1>5, <2>2, RulesAre
  <2>4. Withholds(LF[n].rule)
    BY <1>5, <2>1, <2>3 DEF Meets, Withholds
  <2> QED BY <2>4
<1>6. ASSUME NEW n \in S PROVE Bans(payload[i])
  <2>1. PICK d \in D : Meets(LF[n], d)
    BY <1>1
  <2>2. d.rule # 0 /\ rules[d.rule].scope = "result"
    BY <2>1 DEF Meets, Withholds
  <2> QED BY <2>2 DEF Bans
<1>7. Bans(payload[i]) <=> S # {}
  BY <1>5, <1>6 DEF Bans
<1>8. \A n \in S : n \in DOMAIN LF /\ Withholds(LF[n].rule)
  OBVIOUS
<1> HIDE DEF S
<1> QED BY <1>2, <1>4, <1>7, <1>8

-----------------------------------------------------------------------------
(* What becomes of it.                                                     *)

LEMMA Severities ==
  /\ \A a \in DOMAIN SEVERITY : SEVERITY[a] \in 0 .. 5
  /\ \A a, b \in DOMAIN SEVERITY : SEVERITY[a] <= SEVERITY[b] /\ SEVERITY[b] <= SEVERITY[a] => a = b
BY DEF SEVERITY

LEMMA SeverestLeads ==
  ASSUME NEW F, F # {}, \A f \in F : f.action \in DOMAIN SEVERITY
  PROVE  \E f \in F : Leads(F, f)
<1> DEFINE S == {SEVERITY[f.action] : f \in F}
<1>1. S \in SUBSET Nat /\ S # {} /\ \A x \in S : x <= 5
  BY Severities
<1>2. Max(S) \in S /\ \A x \in S : x <= Max(S)
  <2> HIDE DEF S
  <2> QED BY <1>1, MaxOfBounded
<1>3. PICK f \in F : SEVERITY[f.action] = Max(S)
  BY <1>2
<1>4. \A g \in F : SEVERITY[g.action] <= SEVERITY[f.action]
  BY <1>2, <1>3
<1> QED BY <1>4 DEF Leads

Mark == [place : Nat, action : Acts \ {"allow"}]

LEMMA MarksAre ==
  ASSUME findings \in Seq(Finding), NEW i
  PROVE  /\ \A m \in Marks(i) : /\ m \in Mark
                                /\ \E f \in Range(findings) : f.leaf = i /\ m.action = f.action
         /\ \A f \in Range(findings) : f.leaf = i /\ f.action # "allow" =>
                \E m \in Marks(i) : /\ m.place \in {0, f.span.place}
                                    /\ SEVERITY[f.action] <= SEVERITY[m.action]
<1> DEFINE F == {f \in Range(findings) : f.leaf = i /\ f.action # "allow"}
           whole == payload[i].kind # "text" \/ \E f \in F : f.span.place = 0
           Place(f) == IF whole THEN 0 ELSE f.span.place
           Cluster(p) == {f \in F : Place(f) = p}
           lead(p) == CHOOSE f \in Cluster(p) : Leads(Cluster(p), f)
           M(p) == [place |-> p, action |-> lead(p).action]
<1>1. \A f \in Range(findings) : f \in Finding
  BY DEF Range
<1>2. \A f \in Finding : f.action \in Acts /\ f.action \in DOMAIN SEVERITY /\ f.span.place \in Nat
  BY DEF Finding, Acts, AnySpan
<1>3. Marks(i) = {M(p) : p \in {Place(f) : f \in F}}
  BY DEF Marks
<1>4. ASSUME NEW f \in F
      PROVE  /\ lead(Place(f)) \in F /\ Leads(Cluster(Place(f)), lead(Place(f)))
             /\ Place(f) \in Nat /\ Place(f) \in {0, f.span.place}
             /\ SEVERITY[f.action] <= SEVERITY[lead(Place(f)).action]
  <2> DEFINE C == Cluster(Place(f))
  <2>1. f \in C /\ \A g \in C : g \in F /\ g.action \in DOMAIN SEVERITY
    BY <1>1, <1>2
  <2>2. \E g \in C : Leads(C, g)
    <3> HIDE DEF C
    <3> QED BY <2>1, SeverestLeads
  <2>3. lead(Place(f)) \in C /\ Leads(C, lead(Place(f)))
    <3>1. lead(Place(f)) = CHOOSE g \in C : Leads(C, g)
      OBVIOUS
    <3> HIDE DEF C, lead
    <3> QED BY <2>2, <3>1
  <2>4. Place(f) \in Nat /\ Place(f) \in {0, f.span.place}
    BY <1>1, <1>2
  <2> HIDE DEF C, lead, Place
  <2>5. SEVERITY[f.action] <= SEVERITY[lead(Place(f)).action]
    BY <2>1, <2>3 DEF Leads
  <2> QED BY <2>1, <2>3, <2>4, <2>5 DEF C
<1> HIDE DEF lead, Place
<1>5. ASSUME NEW m \in Marks(i)
      PROVE  m \in Mark /\ \E f \in Range(findings) : f.leaf = i /\ m.action = f.action
  <2>1. PICK f \in F : m = M(Place(f))
    BY <1>3
  <2> DEFINE g == lead(Place(f))
  <2>2. g \in F /\ m.place = Place(f) /\ m.action = g.action /\ Place(f) \in Nat
        /\ m = [place |-> Place(f), action |-> g.action]
    BY <1>4, <2>1
  <2> HIDE DEF g
  <2>3. g \in Range(findings) /\ g.leaf = i /\ g.action \in Acts \ {"allow"}
    BY <1>1, <1>2, <2>2
  <2> QED BY <2>2, <2>3 DEF Mark
<1>6. ASSUME NEW f \in F
      PROVE  \E m \in Marks(i) : m.place \in {0, f.span.place} /\ SEVERITY[f.action] <= SEVERITY[m.action]
  <2>1. M(Place(f)) \in Marks(i)
    BY <1>3
  <2>2. M(Place(f)).place = Place(f) /\ M(Place(f)).action = lead(Place(f)).action
    OBVIOUS
  <2>3. /\ Place(f) \in {0, f.span.place}
        /\ SEVERITY[f.action] <= SEVERITY[lead(Place(f)).action]
    BY <1>4
  <2> HIDE DEF M
  <2> QED BY <2>1, <2>2, <2>3
<1> QED BY <1>5, <1>6

-----------------------------------------------------------------------------
(* The scan.                                                               *)

Event == [scan : Nat, leaf : Nat, span : AnySpan, action : Acts, rule : Rule0,
          hashed : {"value", "nothing"}]

(* Each finding is a demand on its leaf, and none is there twice. *)
Sound ==
    /\ \A n \in DOMAIN findings : /\ findings[n].leaf \in DOMAIN payload
                                  /\ \E d \in Demands(payload[findings[n].leaf]) : Meets(findings[n], d)
    /\ \A m, n \in DOMAIN findings :
          findings[m].leaf = findings[n].leaf /\ findings[m].span = findings[n].span => m = n

(* The first N leaves withhold nothing, and what they need is found. *)
Complete(N) ==
    \A i \in 1 .. N :
        /\ ~Bans(payload[i])
        /\ \A d \in Demands(payload[i]) :
              Needed(d) => \E n \in DOMAIN findings : findings[n].leaf = i /\ Meets(findings[n], d)

(* The marks of a leaf hide what it demands and no more. *)
WellMarked(l, M) ==
    /\ M \subseteq Mark
    /\ \A d \in Demands(l) : Hidden(M, d)
    /\ \A m \in M : \E d \in Demands(l) : m.action = Effective(d.action)

Rewritten ==
    DOMAIN out = DOMAIN payload /\ \A i \in DOMAIN payload : WellMarked(payload[i], out[i])

(* Event e is a full record of what leaf i of scan k demands with d. *)
Tells(e, k, leaves, i, d) ==
    Records(e, k, i, d) /\ (e.hashed = "value" \/ leaves[i].kind = "other")

(* The log has one event for each demand of the leaves of scan k. *)
Told(log, k, leaves) ==
    \A i \in DOMAIN leaves : \A d \in Demands(leaves[i]) :
        Needed(d) =>
            \E n \in DOMAIN log :
                /\ Tells(log[n], k, leaves, i, d)
                /\ \A m \in DOMAIN log : Tells(log[m], k, leaves, i, d) => m = n

Owned(e) ==
    /\ e.scan = scan /\ e.leaf \in DOMAIN payload
    /\ \E d \in Demands(payload[e.leaf]) : Records(e, scan, e.leaf, d)

WithheldBy(log) == log # <<>> /\ Withholds(log[Len(log)].rule)

ScanTypes ==
    /\ IsPayload(payload) /\ scan \in Nat /\ at \in 1 .. Len(payload) + 1 /\ stage \in Stages
    /\ findings \in Seq(Finding) /\ events \in Seq(Event) /\ sink \in Seq(Event)
    /\ \A marks \in Range(out) : marks \subseteq Mark

Walking ==
    /\ \A n \in DOMAIN findings : findings[n].leaf < at
    /\ Complete(at - 1)
    /\ \A n \in DOMAIN sink : sink[n].scan # scan

Refusing ==
    /\ at \in DOMAIN payload /\ Bans(payload[at])
    /\ \E f \in Range(findings) : f.action = "block"
    /\ WithheldBy(sink \o events)

ScanInv ==
    /\ ScanTypes
    /\ Sound
    /\ \A n \in DOMAIN events : Owned(events[n])
    /\ stage \notin {"emit", "refuse"} => events = <<>>
    /\ stage = "walk" => Walking
    /\ stage \in {"emit", "done"} => Complete(Len(payload)) /\ Rewritten /\ Told(sink \o events, scan, payload)
    /\ stage \in {"refuse", "blocked"} => Refusing

(* What depends on the engine and the tool alone stays while they do.       *)
LEMMA PolicyKept ==
  ASSUME UNCHANGED <<engine, tool>>
  PROVE  /\ \A l : Demands(l)' = Demands(l) /\ (Bans(l)' <=> Bans(l))
         /\ \A a : Effective(a)' = Effective(a)
         /\ \A M, d : Hidden(M, d)' <=> Hidden(M, d)
         /\ \A l, M : WellMarked(l, M)' <=> WellMarked(l, M)
         /\ \A e, k, i, d : Records(e, k, i, d)' <=> Records(e, k, i, d)
         /\ \A f, d : Meets(f, d)' <=> Meets(f, d)
         /\ \A i : Withholds(i)' <=> Withholds(i)
         /\ rules' = rules /\ Acts' = Acts /\ Rule0' = Rule0 /\ Mark' = Mark
         /\ Finding' = Finding /\ Event' = Event
         /\ EngineOK' <=> EngineOK
<1>1. rules' = rules /\ Acts' = Acts
  BY DEF rules, Acts
<1>2. ASSUME NEW l PROVE Demands(l)' = Demands(l)
  BY DEF Demands, Pins, Decides, FirstIn, Findable, NerLooksFor, ByName, NamedBy, Covered, Scored,
         PolicyMatch, rules, Covers, Picks
<1>3. ASSUME NEW a PROVE Effective(a)' = Effective(a)
  BY DEF Effective
<1>4. Rule0' = Rule0 /\ Mark' = Mark
  BY <1>1 DEF Rule0, Mark
<1>5. Finding' = Finding /\ Event' = Event
  BY <1>1, <1>4 DEF Finding, Event
<1>6. ASSUME NEW l PROVE Bans(l)' <=> Bans(l)
  BY <1>1, <1>2 DEF Bans
<1>7. ASSUME NEW M, NEW d PROVE Hidden(M, d)' <=> Hidden(M, d)
  BY <1>3 DEF Hidden
<1>8. ASSUME NEW l, NEW M PROVE WellMarked(l, M)' <=> WellMarked(l, M)
  BY <1>2, <1>3, <1>4, <1>7 DEF WellMarked
<1>9. ASSUME NEW e, NEW k, NEW i, NEW d PROVE Records(e, k, i, d)' <=> Records(e, k, i, d)
  BY <1>3 DEF Records
<1>10. ASSUME NEW f, NEW d PROVE Meets(f, d)' <=> Meets(f, d)
  BY <1>3 DEF Meets
<1>11. ASSUME NEW i PROVE Withholds(i)' <=> Withholds(i)
  BY <1>1 DEF Withholds
<1>12. EngineOK' <=> EngineOK
  BY <1>1 DEF EngineOK, IsPolicy
<1> QED BY <1>1, <1>2, <1>3, <1>4, <1>5, <1>6, <1>7, <1>8, <1>9, <1>10, <1>11, <1>12

LEMMA StartKeeps ==
  ASSUME EngineOK, ScanInv, UNCHANGED <<engine, tool>>, events = <<>>,
         Start(scan', payload'), scan' \in Nat, IsPayload(payload'),
         \A n \in DOMAIN sink : sink[n].scan # scan'
  PROVE  ScanInv'
<1>1. /\ stage' = "walk" /\ at' = 1 /\ findings' = <<>> /\ out' = <<>>
      /\ events' = <<>> /\ sink' = sink
  BY DEF Start
<1>2. payload' \in Seq(Range(payload')) /\ Len(payload') \in Nat
  BY DEF IsPayload
<1>3. ScanTypes'
  <2>1. sink' \in Seq(Event')
    BY <1>1, PolicyKept DEF ScanInv, ScanTypes
  <2>2. findings' \in Seq(Finding') /\ events' \in Seq(Event') /\ \A marks \in Range(out') : FALSE
    BY <1>1 DEF Range
  <2>3. at' \in 1 .. Len(payload') + 1 /\ stage' \in Stages
    BY <1>1, <1>2 DEF Stages
  <2> QED BY <2>1, <2>2, <2>3 DEF ScanTypes
<1>4. Sound' /\ \A n \in DOMAIN events' : Owned(events[n])'
  BY <1>1 DEF Sound
<1>5. Walking'
  <2>1. Complete(at - 1)'
    <3>1. \A i \in 1 .. at' - 1 : FALSE
      BY <1>1
    <3> QED BY <3>1 DEF Complete
  <2> QED BY <1>1, <2>1 DEF Walking
<1> QED BY <1>1, <1>3, <1>4, <1>5 DEF ScanInv

(* What depends on the scan and its payload as well stays while they do.     *)
LEMMA ScanKept ==
  ASSUME UNCHANGED <<engine, tool>>, scan' = scan, payload' = payload
  PROVE  /\ \A e : Owned(e)' <=> Owned(e)
         /\ findings' = findings => (Sound' <=> Sound) /\ \A N : Complete(N)' <=> Complete(N)
         /\ out' = out => (Rewritten' <=> Rewritten)
<1>1. ASSUME NEW e PROVE Owned(e)' <=> Owned(e)
  BY PolicyKept DEF Owned
<1>2. ASSUME findings' = findings PROVE Sound' <=> Sound
  BY <1>2, PolicyKept DEF Sound
<1>3. ASSUME findings' = findings, NEW N PROVE Complete(N)' <=> Complete(N)
  BY <1>3, PolicyKept DEF Complete
<1>4. ASSUME out' = out PROVE Rewritten' <=> Rewritten
  BY <1>4, PolicyKept DEF Rewritten
<1> QED BY <1>1, <1>2, <1>3, <1>4

LEMMA LogKept ==
  ASSUME UNCHANGED <<engine, tool>>
  PROVE  /\ \A log, k, leaves : Told(log, k, leaves)' <=> Told(log, k, leaves)
         /\ \A log : WithheldBy(log)' <=> WithheldBy(log)
<1>1. ASSUME NEW e, NEW k, NEW leaves, NEW i, NEW d
      PROVE  Tells(e, k, leaves, i, d)' <=> Tells(e, k, leaves, i, d)
  BY PolicyKept DEF Tells
<1>2. ASSUME NEW log, NEW k, NEW leaves
      PROVE  Told(log, k, leaves)' <=> Told(log, k, leaves)
  BY <1>1, PolicyKept DEF Told
<1>3. ASSUME NEW log PROVE WithheldBy(log)' <=> WithheldBy(log)
  BY PolicyKept DEF WithheldBy
<1> QED BY <1>2, <1>3

LEMMA LeavesAre ==
  ASSUME IsPayload(payload)
  PROVE  /\ Len(payload) \in Nat /\ DOMAIN payload = 1 .. Len(payload)
         /\ \A i \in DOMAIN payload : IsLeaf(payload[i]) /\ i \in Nat
<1>1. payload \in Seq(Range(payload)) /\ \A l \in Range(payload) : IsLeaf(l)
  BY DEF IsPayload
<1> QED BY <1>1 DEF Range

(* The findings with some p of those on the next leaf. *)
LEMMA MoreFindings ==
  ASSUME ScanTypes, Sound, Walking, at \in DOMAIN payload, NEW p \in Seq(Finding),
         \A n \in DOMAIN p : p[n].leaf = at /\ \E d \in Demands(payload[at]) : Meets(p[n], d),
         \A m, n \in DOMAIN p : p[m].span = p[n].span => m = n
  PROVE  LET g == findings \o p IN
         /\ g \in Seq(Finding) /\ Len(findings) \in Nat /\ Len(g) = Len(findings) + Len(p)
         /\ \A n \in DOMAIN findings : n \in DOMAIN g /\ g[n] = findings[n]
         /\ \A n \in DOMAIN p : Len(findings) + n \in DOMAIN g /\ g[Len(findings) + n] = p[n]
         /\ \A n \in DOMAIN g : /\ g[n].leaf \in DOMAIN payload /\ g[n].leaf < at + 1
                                /\ \E d \in Demands(payload[g[n].leaf]) : Meets(g[n], d)
         /\ \A m, n \in DOMAIN g : g[m].leaf = g[n].leaf /\ g[m].span = g[n].span => m = n
<1> DEFINE g == findings \o p
           D(i) == Demands(payload[i])
           c == Len(findings)
<1>1. findings \in Seq(Finding) /\ at \in Nat /\ \A i \in DOMAIN payload : i \in Nat
  BY LeavesAre DEF ScanTypes
<1>2. /\ g \in Seq(Finding) /\ c \in Nat /\ Len(g) = c + Len(p)
      /\ \A n \in DOMAIN findings : n \in DOMAIN g /\ g[n] = findings[n]
      /\ \A n \in DOMAIN p : c + n \in DOMAIN g /\ g[c + n] = p[n]
      /\ \A n \in DOMAIN g : \/ n \in DOMAIN findings /\ g[n] = findings[n]
                             \/ n - c \in DOMAIN p /\ g[n] = p[n - c] /\ n \in Int
  <2>1. /\ c \in Nat /\ Len(p) \in Nat /\ DOMAIN findings = 1 .. c /\ DOMAIN p = 1 .. Len(p)
        /\ g \in Seq(Finding) /\ Len(g) = c + Len(p) /\ DOMAIN g = 1 .. c + Len(p)
    BY <1>1
  <2>2. \A n \in 1 .. c + Len(p) : g[n] = IF n <= c THEN findings[n] ELSE p[n - c]
    BY <1>1
  <2> HIDE DEF c, g
  <2>3. \A n \in DOMAIN findings : n \in DOMAIN g /\ g[n] = findings[n]
    BY <2>1, <2>2
  <2>4. \A n \in DOMAIN p : c + n \in DOMAIN g /\ g[c + n] = p[n]
    <3> TAKE n \in DOMAIN p
    <3>1. c + n \in 1 .. c + Len(p) /\ ~(c + n <= c) /\ (c + n) - c = n
      BY <2>1
    <3> QED BY <2>1, <2>2, <3>1
  <2>5. \A n \in DOMAIN g : \/ n \in DOMAIN findings /\ g[n] = findings[n]
                            \/ n - c \in DOMAIN p /\ g[n] = p[n - c] /\ n \in Int
    <3> TAKE n \in DOMAIN g
    <3>1. n \in 1 .. c + Len(p) /\ n \in Int
      BY <2>1
    <3>2. CASE n <= c
      <4>1. n \in 1 .. c
        BY <2>1, <3>1, <3>2
      <4>2. g[n] = findings[n]
        BY <2>2, <3>1, <3>2
      <4> QED BY <2>1, <4>1, <4>2
    <3>3. CASE ~(n <= c)
      <4>1. n - c \in 1 .. Len(p)
        BY <2>1, <3>1, <3>3
      <4>2. g[n] = p[n - c]
        BY <2>2, <3>1, <3>3
      <4> QED BY <2>1, <3>1, <4>1, <4>2
    <3> QED BY <3>2, <3>3
  <2> QED BY <2>1, <2>3, <2>4, <2>5
<1> HIDE DEF c, g
<1>3. \A n \in DOMAIN findings :
         /\ findings[n].leaf \in DOMAIN payload /\ findings[n].leaf < at
         /\ \E d \in D(findings[n].leaf) : Meets(findings[n], d)
  BY DEF Sound, Walking
<1>4. \A n \in DOMAIN g :
         /\ g[n].leaf \in DOMAIN payload /\ g[n].leaf < at + 1
         /\ \E d \in D(g[n].leaf) : Meets(g[n], d)
  <2> TAKE n \in DOMAIN g
  <2>1. CASE n \in DOMAIN findings /\ g[n] = findings[n]
    <3>1. findings[n].leaf \in Nat
      BY <1>1, <1>3, <2>1
    <3>2. findings[n].leaf < at + 1
      BY <1>1, <1>3, <2>1, <3>1
    <3> QED BY <1>3, <2>1, <3>2
  <2>2. CASE n - c \in DOMAIN p /\ g[n] = p[n - c]
    <3>1. at < at + 1
      BY <1>1
    <3> QED BY <2>2, <3>1
  <2> QED BY <1>2, <2>1, <2>2
<1>5. \A m, n \in DOMAIN g : g[m].leaf = g[n].leaf /\ g[m].span = g[n].span => m = n
  <2> SUFFICES ASSUME NEW m \in DOMAIN g, NEW n \in DOMAIN g,
                      g[m].leaf = g[n].leaf, g[m].span = g[n].span
               PROVE  m = n
    OBVIOUS
  <2>1. ASSUME NEW k \in DOMAIN findings PROVE findings[k].leaf # at
    <3>1. findings[k].leaf < at /\ findings[k].leaf \in Nat
      BY <1>1, <1>3
    <3> QED BY <1>1, <3>1
  <2>2. CASE m \in DOMAIN findings /\ n \in DOMAIN findings
    BY <1>2, <2>2 DEF Sound
  <2>3. CASE m - c \in DOMAIN p /\ g[m] = p[m - c] /\ m \in Int
             /\ n - c \in DOMAIN p /\ g[n] = p[n - c] /\ n \in Int
    <3>1. m - c = n - c
      BY <2>3
    <3> QED BY <1>2, <2>3, <3>1
  <2>4. CASE m \in DOMAIN findings /\ n - c \in DOMAIN p /\ g[n] = p[n - c]
    BY <1>2, <2>1, <2>4
  <2>5. CASE n \in DOMAIN findings /\ m - c \in DOMAIN p /\ g[m] = p[m - c]
    BY <1>2, <2>1, <2>5
  <2> QED BY <1>2, <2>2, <2>3, <2>4, <2>5
<1> QED BY <1>2, <1>4, <1>5 DEF c, g

LEMMA SoundNext ==
  ASSUME UNCHANGED <<engine, tool>>, payload' = payload,
         \A n \in DOMAIN findings' :
            /\ findings'[n].leaf \in DOMAIN payload
            /\ \E d \in Demands(payload[findings'[n].leaf]) : Meets(findings'[n], d),
         \A m, n \in DOMAIN findings' :
            findings'[m].leaf = findings'[n].leaf /\ findings'[m].span = findings'[n].span => m = n
  PROVE  Sound'
<1>1. ASSUME NEW n \in DOMAIN findings'
      PROVE  /\ findings'[n].leaf \in DOMAIN payload'
             /\ \E d \in Demands(payload[findings[n].leaf])' : Meets(findings[n], d)'
  <2>1. PICK d \in Demands(payload[findings'[n].leaf]) : Meets(findings'[n], d)
    OBVIOUS
  <2>2. d \in Demands(payload[findings[n].leaf])' /\ Meets(findings[n], d)'
    BY <2>1, PolicyKept
  <2> QED BY <2>2
<1> QED BY <1>1 DEF Sound

LEMMA WalkKeeps ==
  ASSUME EngineOK, ScanInv, UNCHANGED <<engine, tool>>, Walk
  PROVE  ScanInv'
<1> DEFINE LF == LeafFindings(at)
           D(i) == Demands(payload[i])
           c == Len(findings)
<1>1. /\ stage = "walk" /\ at <= Len(payload) /\ Stop(at) = 0
      /\ findings' = findings \o LF /\ at' = at + 1
      /\ scan' = scan /\ payload' = payload /\ stage' = stage /\ out' = out /\ events' = events /\ sink' = sink
  BY DEF Walk
<1>2. ScanTypes /\ Sound /\ Walking /\ events = <<>>
  BY <1>1 DEF ScanInv
<1>3. Len(payload) \in Nat /\ at \in DOMAIN payload /\ at \in Nat /\ IsLeaf(payload[at])
  <2>1. IsPayload(payload) /\ at \in 1 .. Len(payload) + 1
    BY <1>2 DEF ScanTypes
  <2>2. /\ Len(payload) \in Nat /\ DOMAIN payload = 1 .. Len(payload)
        /\ \A i \in DOMAIN payload : IsLeaf(payload[i])
    BY <2>1, LeavesAre
  <2>3. at \in DOMAIN payload
    BY <1>1, <2>1, <2>2
  <2> QED BY <2>1, <2>2, <2>3
<1>4. /\ LF \in Seq(Finding)
      /\ \A n \in DOMAIN LF : LF[n].leaf = at /\ \E d \in D(at) : Meets(LF[n], d)
      /\ \A d \in D(at) : Needed(d) => \E n \in DOMAIN LF : Meets(LF[n], d)
      /\ \A m, n \in DOMAIN LF : LF[m].span = LF[n].span => m = n
  BY <1>3, LeafFindingsAre
<1>5. ~Bans(payload[at])
  BY <1>1, <1>3, StopIs
<1> HIDE DEF LF
<1>6. /\ findings' \in Seq(Finding)
      /\ \A n \in DOMAIN findings : n \in DOMAIN findings' /\ findings'[n] = findings[n]
      /\ \A n \in DOMAIN LF : c + n \in DOMAIN findings' /\ findings'[c + n] = LF[n]
      /\ \A n \in DOMAIN findings' :
            /\ findings'[n].leaf \in DOMAIN payload /\ findings'[n].leaf < at + 1
            /\ \E d \in D(findings'[n].leaf) : Meets(findings'[n], d)
      /\ \A m, n \in DOMAIN findings' :
            findings'[m].leaf = findings'[n].leaf /\ findings'[m].span = findings'[n].span => m = n
  BY <1>1, <1>2, <1>3, <1>4, MoreFindings
<1> HIDE DEF c
<1>7. \A i \in 1 .. at :
         /\ ~Bans(payload[i])
         /\ \A d \in D(i) : Needed(d) => \E n \in DOMAIN findings' : findings'[n].leaf = i /\ Meets(findings'[n], d)
  <2> TAKE i \in 1 .. at
  <2>1. CASE i = at
    <3>1. ASSUME NEW d \in D(i), Needed(d)
          PROVE  \E n \in DOMAIN findings' : findings'[n].leaf = i /\ Meets(findings'[n], d)
      <4>1. PICK n \in DOMAIN LF : Meets(LF[n], d)
        BY <1>4, <2>1, <3>1
      <4>2. c + n \in DOMAIN findings' /\ findings'[c + n] = LF[n] /\ LF[n].leaf = i
        BY <1>4, <1>6, <2>1
      <4> QED BY <4>1, <4>2
    <3> QED BY <1>5, <2>1, <3>1
  <2>2. CASE i # at
    <3>1. i \in 1 .. at - 1
      BY <1>3, <2>2
    <3> QED BY <1>2, <1>6, <3>1 DEF Walking, Complete
  <2> QED BY <2>1, <2>2
<1>8. ScanTypes'
  <2>1. findings' \in Seq(Finding') /\ events' \in Seq(Event') /\ sink' \in Seq(Event') /\ Mark' = Mark
    BY <1>1, <1>2, <1>6, PolicyKept DEF ScanTypes
  <2>2. at' \in 1 .. Len(payload) + 1
    BY <1>1, <1>3
  <2> QED BY <1>1, <1>2, <2>1, <2>2 DEF ScanTypes
<1>9. Sound'
  BY <1>1, <1>6, SoundNext
<1>10. Walking'
  <2>1. at' - 1 = at
    BY <1>1, <1>3
  <2>2. ASSUME NEW i \in 1 .. at PROVE ~Bans(payload[i])'
    BY <1>1, <1>7, PolicyKept
  <2>3. ASSUME NEW i \in 1 .. at, NEW d \in Demands(payload[i])', Needed(d)
        PROVE  \E n \in DOMAIN findings' : findings'[n].leaf = i /\ Meets(findings[n], d)'
    <3>1. d \in D(i)
      BY <1>1, PolicyKept
    <3>2. PICK n \in DOMAIN findings' : findings'[n].leaf = i /\ Meets(findings'[n], d)
      BY <1>7, <2>3, <3>1
    <3>3. Meets(findings[n], d)'
      BY <3>2, PolicyKept
    <3> QED BY <3>2, <3>3
  <2>4. Complete(at - 1)'
    BY <2>1, <2>2, <2>3 DEF Complete
  <2> QED BY <1>1, <1>2, <1>6, <2>4 DEF Walking
<1> QED BY <1>1, <1>2, <1>8, <1>9, <1>10 DEF ScanInv

(* Each of the findings F is a demand on its leaf. *)
Grounded(F) ==
    /\ F \in Seq(Finding)
    /\ \A n \in DOMAIN F : /\ F[n].leaf \in DOMAIN payload
                          /\ \E d \in Demands(payload[F[n].leaf]) : Meets(F[n], d)

(* E has the events of the findings F. *)
Writes(E, F, known) ==
    /\ E \in Seq(Event) /\ DOMAIN E = DOMAIN F /\ Len(E) = Len(F)
    /\ \A n \in DOMAIN F :
          /\ Owned(E[n]) /\ E[n].rule = F[n].rule
          /\ E[n].hashed = IF F[n].leaf \in known THEN "value" ELSE "nothing"
          /\ \A i, d : Records(E[n], scan, i, d) <=> F[n].leaf = i /\ Meets(F[n], d)

LEMMA EventsAre ==
  ASSUME NEW F, NEW known, scan \in Nat, Grounded(F)
  PROVE  Writes(Events(F, known), F, known)
<1>0. /\ F \in Seq(Finding)
      /\ \A n \in DOMAIN F : /\ F[n].leaf \in DOMAIN payload
                            /\ \E d \in Demands(payload[F[n].leaf]) : Meets(F[n], d)
  BY DEF Grounded
<1> DEFINE E == Events(F, known)
<1>1. ASSUME NEW n \in DOMAIN F
      PROVE  /\ E[n] \in Event /\ Owned(E[n]) /\ E[n].rule = F[n].rule
             /\ E[n].hashed = IF F[n].leaf \in known THEN "value" ELSE "nothing"
             /\ \A i, d : Records(E[n], scan, i, d) <=> F[n].leaf = i /\ Meets(F[n], d)
  <2> DEFINE h == IF F[n].leaf \in known THEN "value" ELSE "nothing"
  <2>1. E[n] = [scan |-> scan, leaf |-> F[n].leaf, span |-> F[n].span, action |-> F[n].action,
                rule |-> F[n].rule, hashed |-> h]
    BY DEF Events
  <2>2. F[n] \in Finding /\ h \in {"value", "nothing"}
    BY <1>0
  <2> HIDE DEF h, E
  <2>3. E[n] \in Event
    BY <2>1, <2>2 DEF Event, Finding
  <2>4. \A i, d : Records(E[n], scan, i, d) <=> F[n].leaf = i /\ Meets(F[n], d)
    BY <2>1 DEF Records, Meets
  <2>5. Owned(E[n])
    BY <1>0, <2>1, <2>4 DEF Owned
  <2> QED BY <2>1, <2>3, <2>4, <2>5 DEF h
<1>2. DOMAIN E = DOMAIN F /\ E = [n \in DOMAIN F |-> E[n]]
  BY DEF Events
<1>3. DOMAIN F = 1 .. Len(F) /\ Len(F) \in Nat
  BY <1>0
<1> HIDE DEF E
<1>4. E \in Seq(Event) /\ Len(E) = Len(F)
  BY <1>1, <1>2, <1>3
<1> QED BY <1>1, <1>2, <1>4 DEF E, Writes

LEMMA WithholdKeeps ==
  ASSUME EngineOK, ScanInv, UNCHANGED <<engine, tool>>, Withhold
  PROVE  ScanInv'
<1> DEFINE LF == LeafFindings(at)
           D(i) == Demands(payload[i])
           s == Stop(at)
           p == SubSeq(LF, 1, s)
           c == Len(findings)
           E == Events(findings', {at})
<1>1. /\ stage = "walk" /\ at <= Len(payload) /\ s # 0
      /\ findings' = findings \o p /\ events' = E /\ stage' = "refuse"
      /\ scan' = scan /\ payload' = payload /\ at' = at /\ out' = out /\ sink' = sink
  BY DEF Withhold
<1>2. ScanTypes /\ Sound /\ Walking /\ events = <<>>
  BY <1>1 DEF ScanInv
<1>3. Len(payload) \in Nat /\ at \in DOMAIN payload /\ at \in Nat /\ IsLeaf(payload[at])
  <2>1. IsPayload(payload) /\ at \in 1 .. Len(payload) + 1
    BY <1>2 DEF ScanTypes
  <2>2. /\ Len(payload) \in Nat /\ DOMAIN payload = 1 .. Len(payload)
        /\ \A i \in DOMAIN payload : IsLeaf(payload[i])
    BY <2>1, LeavesAre
  <2>3. at \in DOMAIN payload
    BY <1>1, <2>1, <2>2
  <2> QED BY <2>1, <2>2, <2>3
<1>4. /\ LF \in Seq(Finding)
      /\ \A n \in DOMAIN LF : LF[n].leaf = at /\ \E d \in D(at) : Meets(LF[n], d)
      /\ \A m, n \in DOMAIN LF : LF[m].span = LF[n].span => m = n
  BY <1>3, LeafFindingsAre
<1>5. Bans(payload[at]) /\ s \in DOMAIN LF /\ Withholds(LF[s].rule)
  BY <1>1, <1>3, StopIs
<1> HIDE DEF LF, s
<1>6. /\ p \in Seq(Finding) /\ Len(p) = s /\ DOMAIN p = 1 .. s /\ s \in Nat \ {0}
      /\ \A n \in DOMAIN p : n \in DOMAIN LF /\ p[n] = LF[n]
  <2>1. DOMAIN LF = 1 .. Len(LF) /\ Len(LF) \in Nat /\ s \in 1 .. Len(LF)
    BY <1>4, <1>5
  <2> QED BY <1>4, <2>1
<1> HIDE DEF p
<1>7. /\ \A n \in DOMAIN p : p[n].leaf = at /\ \E d \in D(at) : Meets(p[n], d)
      /\ \A m, n \in DOMAIN p : p[m].span = p[n].span => m = n
  BY <1>4, <1>6
<1>8. /\ findings' \in Seq(Finding) /\ c \in Nat /\ Len(findings') = c + s
      /\ c + s \in DOMAIN findings' /\ findings'[c + s] = p[s] /\ p[s] = LF[s]
      /\ \A n \in DOMAIN findings' :
            /\ findings'[n].leaf \in DOMAIN payload
            /\ \E d \in D(findings'[n].leaf) : Meets(findings'[n], d)
      /\ \A m, n \in DOMAIN findings' :
            findings'[m].leaf = findings'[n].leaf /\ findings'[m].span = findings'[n].span => m = n
  <2>1. s \in DOMAIN p
    BY <1>6
  <2> QED BY <1>1, <1>2, <1>3, <1>6, <1>7, <2>1, MoreFindings
<1> HIDE DEF c, E
<1>9. /\ E \in Seq(Event) /\ Len(E) = c + s /\ DOMAIN E = DOMAIN findings'
      /\ \A n \in DOMAIN E : Owned(E[n])
      /\ E[c + s].rule = LF[s].rule
  <2>1. scan \in Nat
    BY <1>2 DEF ScanTypes
  <2>2. /\ E \in Seq(Event) /\ DOMAIN E = DOMAIN findings' /\ Len(E) = Len(findings')
        /\ \A n \in DOMAIN findings' : Owned(E[n]) /\ E[n].rule = findings'[n].rule
    <3>1. Grounded(findings')
      BY <1>8 DEF Grounded
    <3>2. Writes(E, findings', {at})
      BY <2>1, <3>1, EventsAre DEF E
    <3> QED BY <3>2 DEF Writes
  <2> QED BY <1>8, <2>2
<1>10. \E f \in Range(findings') : f.action = "block"
  <2>1. PICK d \in D(at) : Meets(LF[s], d)
    BY <1>4, <1>5
  <2>2. d.rule # 0 /\ rules[d.rule].action = "block"
    BY <1>5, <2>1 DEF Meets, Withholds
  <2>3. d.action = "block" /\ d.action \in DOMAIN SEVERITY
    BY <1>3, <2>2, DemandsHave
  <2>4. LF[s].action = "block"
    BY <2>1, <2>3, EffectiveIs DEF Meets
  <2>5. LF[s] \in Range(findings')
    BY <1>8 DEF Range
  <2> QED BY <2>4, <2>5
<1>11. WithheldBy(sink \o E)
  <2>1. sink \in Seq(Event) /\ Len(E) # 0
    BY <1>2, <1>6, <1>8, <1>9 DEF ScanTypes
  <2>2. Len(sink \o E) = Len(sink) + Len(E) /\ Len(sink) \in Nat /\ Len(E) \in Nat /\ sink \o E \in Seq(Event)
    BY <1>9, <2>1
  <2>3. (sink \o E)[Len(sink) + Len(E)] = E[Len(E)]
    BY <1>9, <2>1, <2>2
  <2>4. sink \o E # <<>>
    BY <2>1, <2>2
  <2>5. Withholds(E[Len(E)].rule)
    BY <1>5, <1>9
  <2> QED BY <2>2, <2>3, <2>4, <2>5 DEF WithheldBy
<1>12. ScanTypes'
  <2>1. findings' \in Seq(Finding') /\ events' \in Seq(Event') /\ sink' \in Seq(Event') /\ Mark' = Mark
    BY <1>1, <1>2, <1>8, <1>9, PolicyKept DEF ScanTypes
  <2> QED BY <1>1, <1>2, <2>1 DEF ScanTypes, Stages
<1>13. Sound'
  BY <1>1, <1>8, SoundNext
<1>14. \A n \in DOMAIN events' : Owned(events[n])'
  BY <1>1, <1>9, ScanKept
<1>15. Refusing'
  <2>1. Bans(payload[at])'
    BY <1>1, <1>5, PolicyKept
  <2>2. WithheldBy(sink \o events)'
    BY <1>1, <1>11, LogKept
  <2> QED BY <1>1, <1>3, <1>10, <2>1, <2>2 DEF Refusing
<1> QED BY <1>1, <1>12, <1>13, <1>14, <1>15 DEF ScanInv

(* What the rewritten leaves hide is what the policy demands.                *)
LEMMA MarksMeet ==
  ASSUME EngineOK, ScanTypes, Sound, Complete(Len(payload)), NEW i \in DOMAIN payload
  PROVE  WellMarked(payload[i], Marks(i))
<1> DEFINE M == Marks(i)
           D == Demands(payload[i])
<1>1. findings \in Seq(Finding) /\ IsLeaf(payload[i]) /\ i \in 1 .. Len(payload)
  BY LeavesAre DEF ScanTypes
<1>2. /\ \A m \in M : m \in Mark /\ \E f \in Range(findings) : f.leaf = i /\ m.action = f.action
      /\ \A f \in Range(findings) : f.leaf = i /\ f.action # "allow" =>
            \E m \in M : m.place \in {0, f.span.place} /\ SEVERITY[f.action] <= SEVERITY[m.action]
  BY <1>1, MarksAre
<1> HIDE DEF M
<1>3. ASSUME NEW d \in D PROVE Hidden(M, d)
  <2>1. CASE d.action = "allow"
    BY <2>1 DEF Hidden
  <2>2. CASE d.action # "allow"
    <3>1. PICK n \in DOMAIN findings : findings[n].leaf = i /\ Meets(findings[n], d)
      BY <1>1, <2>2 DEF Complete, Needed
    <3> DEFINE f == findings[n]
    <3>2. f \in Range(findings) /\ f.leaf = i /\ f.span = d.span /\ f.action = Effective(d.action)
      BY <3>1 DEF Range, Meets
    <3>3. f.action # "allow" /\ f.action \in DOMAIN SEVERITY
      <4>1. d.action \in DOMAIN SEVERITY
        BY <1>1, DemandsHave
      <4>2. Effective(d.action) # "allow" /\ Effective(d.action) \in Acts
        BY <2>2, <4>1, EffectiveIs
      <4> QED BY <3>2, <4>2 DEF Acts
    <3> HIDE DEF f
    <3>4. PICK m \in M : m.place \in {0, f.span.place} /\ SEVERITY[f.action] <= SEVERITY[m.action]
      BY <1>2, <3>2, <3>3
    <3>5. m.action \in DOMAIN SEVERITY
      BY <1>2 DEF Mark, Acts
    <3>6. SEVERITY[m.action] \in Nat /\ SEVERITY[f.action] \in Nat
      BY <3>3, <3>5, Severities
    <3>7. SEVERITY[m.action] >= SEVERITY[Effective(d.action)]
      BY <3>2, <3>4, <3>6
    <3> QED BY <3>2, <3>4, <3>7 DEF Hidden
  <2> QED BY <2>1, <2>2
<1>4. ASSUME NEW m \in M PROVE \E d \in D : m.action = Effective(d.action)
  <2>1. PICK n \in DOMAIN findings : findings[n].leaf = i /\ m.action = findings[n].action
    BY <1>2 DEF Range
  <2>2. PICK d \in D : Meets(findings[n], d)
    BY <2>1 DEF Sound
  <2> QED BY <2>1, <2>2 DEF Meets
<1> QED BY <1>2, <1>3, <1>4 DEF WellMarked, M

(* All events of a scan make the log complete.                               *)
LEMMA EventsTell ==
  ASSUME EngineOK, ScanTypes, Sound, Complete(Len(payload)), \A n \in DOMAIN sink : sink[n].scan # scan
  PROVE  Told(sink \o Events(findings, {i \in DOMAIN payload : payload[i].kind # "other"}), scan, payload)
<1> DEFINE known == {i \in DOMAIN payload : payload[i].kind # "other"}
           E == Events(findings, known)
           log == sink \o E
           c == Len(sink)
<1>1. findings \in Seq(Finding) /\ scan \in Nat /\ sink \in Seq(Event) /\ DOMAIN payload = 1 .. Len(payload)
  BY LeavesAre DEF ScanTypes
<1>2. /\ E \in Seq(Event) /\ DOMAIN E = DOMAIN findings
      /\ \A n \in DOMAIN findings :
            /\ E[n].hashed = IF findings[n].leaf \in known THEN "value" ELSE "nothing"
            /\ \A i, d : Records(E[n], scan, i, d) <=> findings[n].leaf = i /\ Meets(findings[n], d)
  <2>1. Grounded(findings)
    BY <1>1 DEF Grounded, Sound
  <2>2. Writes(E, findings, known)
    <3> HIDE DEF known
    <3> QED BY <1>1, <2>1, EventsAre
  <2> QED BY <2>2 DEF Writes
<1> HIDE DEF E
<1>3. /\ \A n \in DOMAIN E : c + n \in DOMAIN log /\ log[c + n] = E[n] /\ n \in Nat
      /\ \A n \in DOMAIN log : \/ n \in DOMAIN sink /\ log[n] = sink[n]
                               \/ n - c \in DOMAIN E /\ log[n] = E[n - c] /\ n \in Int
      /\ c \in Nat
  <2>1. /\ c \in Nat /\ Len(E) \in Nat /\ DOMAIN sink = 1 .. c /\ DOMAIN E = 1 .. Len(E)
        /\ DOMAIN log = 1 .. c + Len(E)
    BY <1>1, <1>2
  <2>2. \A n \in 1 .. c + Len(E) : log[n] = IF n <= c THEN sink[n] ELSE E[n - c]
    BY <1>1, <1>2
  <2> HIDE DEF c, log
  <2>3. ASSUME NEW n \in DOMAIN E PROVE c + n \in DOMAIN log /\ log[c + n] = E[n] /\ n \in Nat
    <3>1. c + n \in 1 .. c + Len(E) /\ ~(c + n <= c) /\ (c + n) - c = n /\ n \in Nat
      BY <2>1
    <3> QED BY <2>1, <2>2, <3>1
  <2>4. ASSUME NEW n \in DOMAIN log
        PROVE  \/ n \in DOMAIN sink /\ log[n] = sink[n]
               \/ n - c \in DOMAIN E /\ log[n] = E[n - c] /\ n \in Int
    <3>1. n \in 1 .. c + Len(E) /\ n \in Int
      BY <2>1
    <3>2. CASE n <= c
      <4>1. n \in 1 .. c
        BY <2>1, <3>1, <3>2
      <4>2. log[n] = sink[n]
        BY <2>2, <3>1, <3>2
      <4> QED BY <2>1, <4>1, <4>2
    <3>3. CASE ~(n <= c)
      <4>1. n - c \in 1 .. Len(E)
        BY <2>1, <3>1, <3>3
      <4>2. log[n] = E[n - c]
        BY <2>2, <3>1, <3>3
      <4> QED BY <2>1, <3>1, <4>1, <4>2
    <3> QED BY <3>2, <3>3
  <2> QED BY <2>1, <2>3, <2>4
<1> HIDE DEF c, log
<1> SUFFICES ASSUME NEW i \in DOMAIN payload, NEW d \in Demands(payload[i]), Needed(d)
             PROVE  \E n \in DOMAIN log :
                      /\ Tells(log[n], scan, payload, i, d)
                      /\ \A m \in DOMAIN log : Tells(log[m], scan, payload, i, d) => m = n
  BY DEF Told, log, E
<1>4. PICK n \in DOMAIN findings : findings[n].leaf = i /\ Meets(findings[n], d)
  BY <1>1 DEF Complete
<1>5. c + n \in DOMAIN log /\ log[c + n] = E[n] /\ n \in Nat
  BY <1>2, <1>3
<1>6. Tells(E[n], scan, payload, i, d)
  BY <1>2, <1>4 DEF Tells
<1>7. ASSUME NEW m \in DOMAIN log, Tells(log[m], scan, payload, i, d) PROVE m = c + n
  <2>1. Records(log[m], scan, i, d)
    BY <1>7 DEF Tells
  <2>2. CASE m \in DOMAIN sink /\ log[m] = sink[m]
    BY <2>1, <2>2 DEF Records
  <2>3. CASE m - c \in DOMAIN E /\ log[m] = E[m - c] /\ m \in Int
    <3>1. findings[m - c].leaf = i /\ Meets(findings[m - c], d) /\ m - c \in DOMAIN findings
      BY <1>2, <2>1, <2>3
    <3>2. findings[m - c].span = findings[n].span
      BY <1>4, <3>1 DEF Meets
    <3>3. m - c = n
      BY <1>4, <3>1, <3>2 DEF Sound
    <3> QED BY <1>3, <1>5, <2>3, <3>3
  <2> QED BY <1>3, <2>2, <2>3
<1> QED BY <1>5, <1>6, <1>7

LEMMA RebuildKeeps ==
  ASSUME EngineOK, ScanInv, UNCHANGED <<engine, tool>>, Rebuild
  PROVE  ScanInv'
<1> DEFINE known == {i \in DOMAIN payload : payload[i].kind # "other"}
           E == Events(findings, known)
           R == [i \in DOMAIN payload |-> Marks(i)]
<1>1. /\ stage = "walk" /\ at > Len(payload) /\ events' = E /\ out' = R /\ stage' = "emit"
      /\ scan' = scan /\ payload' = payload /\ at' = at /\ findings' = findings /\ sink' = sink
  BY DEF Rebuild
<1>2. ScanTypes /\ Sound /\ Walking /\ events = <<>>
  BY <1>1 DEF ScanInv
<1>3. Complete(Len(payload))
  <2>1. at - 1 = Len(payload)
    BY <1>1, <1>2, LeavesAre DEF ScanTypes
  <2> QED BY <1>2, <2>1 DEF Walking
<1>4. \A i \in DOMAIN payload : WellMarked(payload[i], Marks(i))
  BY <1>2, <1>3, MarksMeet
<1>5. Told(sink \o E, scan, payload)
  BY <1>2, <1>3, EventsTell DEF Walking
<1>6. E \in Seq(Event) /\ \A n \in DOMAIN E : Owned(E[n])
  <2>1. findings \in Seq(Finding) /\ scan \in Nat
    BY <1>2 DEF ScanTypes
  <2>2. Grounded(findings)
    BY <1>2, <2>1 DEF Grounded, Sound
  <2>3. Writes(E, findings, known)
    <3> HIDE DEF known
    <3> QED BY <2>1, <2>2, EventsAre
  <2> QED BY <2>3 DEF Writes
<1>7. DOMAIN R = DOMAIN payload /\ \A i \in DOMAIN payload : WellMarked(payload[i], R[i]) /\ R[i] \subseteq Mark
  BY <1>4 DEF WellMarked
<1> HIDE DEF E, R
<1>8. ScanTypes'
  <2>1. findings' \in Seq(Finding') /\ events' \in Seq(Event') /\ sink' \in Seq(Event')
    BY <1>1, <1>2, <1>6, PolicyKept DEF ScanTypes
  <2>2. \A marks \in Range(out') : marks \subseteq Mark'
    BY <1>1, <1>7, PolicyKept DEF Range
  <2> QED BY <1>1, <1>2, <2>1, <2>2 DEF ScanTypes, Stages
<1>9. \A n \in DOMAIN events' : Owned(events[n])'
  BY <1>1, <1>6, ScanKept
<1>10. Sound' /\ Complete(Len(payload))'
  BY <1>1, <1>2, <1>3, ScanKept
<1>11. Rewritten'
  BY <1>1, <1>7, PolicyKept DEF Rewritten
<1>12. Told(sink \o events, scan, payload)'
  BY <1>1, <1>5, LogKept
<1> QED BY <1>1, <1>8, <1>9, <1>10, <1>11, <1>12 DEF ScanInv

LEMMA EmitKeeps ==
  ASSUME EngineOK, ScanInv, UNCHANGED <<engine, tool>>, Emit
  PROVE  ScanInv'
<1>1. /\ events # <<>> /\ sink' = Append(sink, Head(events)) /\ events' = Tail(events)
      /\ scan' = scan /\ payload' = payload /\ stage' = stage /\ at' = at /\ findings' = findings /\ out' = out
  BY DEF Emit
<1>2. ScanTypes /\ Sound /\ stage \in {"emit", "refuse"} /\ \A n \in DOMAIN events : Owned(events[n])
  BY <1>1 DEF ScanInv
<1>3. /\ sink' \in Seq(Event) /\ events' \in Seq(Event) /\ sink' \o events' = sink \o events
      /\ \A n \in DOMAIN events' : n + 1 \in DOMAIN events /\ events'[n] = events[n + 1]
  <2>1. events \in Seq(Event) /\ sink \in Seq(Event)
    BY <1>2 DEF ScanTypes
  <2>2. Head(events) \in Event /\ events' \in Seq(Event) /\ events = <<Head(events)>> \o events'
    BY <1>1, <2>1
  <2>3. sink' \in Seq(Event)
    BY <1>1, <2>1, <2>2
  <2>4. sink' = sink \o <<Head(events)>>
    BY <1>1, <2>1, <2>2
  <2>5. sink' \o events' = sink \o (<<Head(events)>> \o events')
    BY <2>1, <2>2, <2>4
  <2>6. \A n \in DOMAIN events' : n + 1 \in DOMAIN events /\ events'[n] = events[n + 1]
    BY <1>1, <2>1
  <2> QED BY <2>2, <2>3, <2>5, <2>6
<1>4. ScanTypes'
  <2>1. findings' \in Seq(Finding') /\ events' \in Seq(Event') /\ sink' \in Seq(Event') /\ Mark' = Mark
    BY <1>1, <1>2, <1>3, PolicyKept DEF ScanTypes
  <2> QED BY <1>1, <1>2, <2>1 DEF ScanTypes
<1>5. \A n \in DOMAIN events' : Owned(events[n])'
  <2>1. \A n \in DOMAIN events' : Owned(events'[n])
    BY <1>2, <1>3
  <2> QED BY <1>1, <2>1, ScanKept
<1>6. Sound' /\ \A N : Complete(N)' <=> Complete(N)
  BY <1>1, <1>2, ScanKept
<1>7. Rewritten' <=> Rewritten
  BY <1>1, ScanKept
<1>8. stage = "emit" => Told(sink \o events, scan, payload)'
  BY <1>1, <1>3, LogKept DEF ScanInv
<1>9. stage = "refuse" => Refusing'
  <2>1. ASSUME stage = "refuse" PROVE Refusing'
    <3>1. Refusing
      BY <2>1 DEF ScanInv
    <3>2. Bans(payload[at])'
      BY <1>1, <3>1, PolicyKept DEF Refusing
    <3>3. WithheldBy(sink \o events)'
      BY <1>1, <1>3, <3>1, LogKept DEF Refusing
    <3> QED BY <1>1, <3>1, <3>2, <3>3 DEF Refusing
  <2> QED BY <2>1
<1> QED BY <1>1, <1>2, <1>4, <1>5, <1>6, <1>7, <1>8, <1>9 DEF ScanInv

LEMMA FinishKeeps ==
  ASSUME EngineOK, ScanInv, UNCHANGED <<engine, tool>>, Finish
  PROVE  ScanInv'
<1>1. /\ events = <<>>
      /\ \/ stage = "emit" /\ stage' = "done"
         \/ stage = "refuse" /\ stage' = "blocked"
      /\ scan' = scan /\ payload' = payload /\ at' = at /\ findings' = findings /\ out' = out
      /\ events' = events /\ sink' = sink
  BY DEF Finish
<1>2. ScanTypes'
  BY <1>1, PolicyKept DEF ScanInv, ScanTypes, Stages
<1>3. Sound' /\ \A N : Complete(N)' <=> Complete(N)
  BY <1>1, ScanKept DEF ScanInv
<1>4. (Rewritten' <=> Rewritten) /\ (Told(sink \o events, scan, payload)' <=> Told(sink \o events, scan, payload))
  BY <1>1, ScanKept, LogKept
<1>5. Refusing' <=> Refusing
  <2>1. Bans(payload[at])' <=> Bans(payload[at])
    BY <1>1, PolicyKept
  <2>2. WithheldBy(sink \o events)' <=> WithheldBy(sink \o events)
    BY <1>1, LogKept
  <2> QED BY <1>1, <2>1, <2>2 DEF Refusing
<1> QED BY <1>1, <1>2, <1>3, <1>4, <1>5 DEF ScanInv

LEMMA RaiseKeeps ==
  ASSUME EngineOK, ScanInv, UNCHANGED <<engine, tool>>, Raise
  PROVE  ScanInv'
<1>1. /\ stage' = "raised" /\ out' = <<>> /\ events' = <<>>
      /\ scan' = scan /\ payload' = payload /\ at' = at /\ findings' = findings /\ sink' = sink
  BY DEF Raise
<1>2. ScanTypes'
  <2>1. findings' \in Seq(Finding') /\ events' \in Seq(Event') /\ sink' \in Seq(Event')
    BY <1>1, PolicyKept DEF ScanInv, ScanTypes
  <2>2. \A marks \in Range(out') : FALSE
    BY <1>1 DEF Range
  <2> QED BY <1>1, <2>1, <2>2 DEF ScanInv, ScanTypes, Stages
<1>3. Sound'
  BY <1>1, ScanKept DEF ScanInv
<1> QED BY <1>1, <1>2, <1>3 DEF ScanInv

LEMMA ScanStepKeeps ==
  ASSUME EngineOK, ScanInv, UNCHANGED <<engine, tool>>, ScanStep
  PROVE  ScanInv'
BY WalkKeeps, WithholdKeeps, RebuildKeeps, EmitKeeps, FinishKeeps, RaiseKeeps
   DEF ScanStep, DetectorRaises, VaultRaises, SinkRaises

(* The engine is done with a scan, finished or not, or nothing happens to it. *)
LEMMA RestKeeps ==
  ASSUME EngineOK, ScanInv, UNCHANGED <<engine, tool, scan, payload, at, findings, out, sink>>,
         \/ stage' = "idle" /\ events' = <<>>
         \/ stage' = stage /\ events' = events
  PROVE  ScanInv'
<1>1. ScanTypes'
  <2>1. findings' \in Seq(Finding') /\ events' \in Seq(Event') /\ sink' \in Seq(Event') /\ Mark' = Mark
    <3>1. events \in Seq(Event) /\ <<>> \in Seq(Event)
      BY DEF ScanInv, ScanTypes
    <3>2. events' \in Seq(Event)
      <4>1. events' = events \/ events' = <<>>
        OBVIOUS
      <4> QED BY <3>1, <4>1
    <3> QED BY <3>2, PolicyKept DEF ScanInv, ScanTypes
  <2> QED BY <2>1 DEF ScanInv, ScanTypes, Stages
<1>2. Sound' /\ \A N : Complete(N)' <=> Complete(N)
  BY ScanKept DEF ScanInv
<1>3. CASE stage' = "idle" /\ events' = <<>>
  BY <1>1, <1>2, <1>3 DEF ScanInv
<1>4. CASE stage' = stage /\ events' = events
  <2>1. (Rewritten' <=> Rewritten) /\ (Told(sink \o events, scan, payload)' <=> Told(sink \o events, scan, payload))
    BY <1>4, ScanKept, LogKept
  <2>2. Refusing' <=> Refusing
    <3>1. Bans(payload[at])' <=> Bans(payload[at])
      BY PolicyKept
    <3>2. WithheldBy(sink \o events)' <=> WithheldBy(sink \o events)
      BY <1>4, LogKept
    <3> QED BY <3>1, <3>2 DEF Refusing
  <2>3. Walking' <=> Walking
    BY <1>2 DEF Walking
  <2>4. \A n \in DOMAIN events' : Owned(events[n])'
    BY <1>4, ScanKept DEF ScanInv
  <2> QED BY <1>1, <1>2, <1>4, <2>1, <2>2, <2>3, <2>4 DEF ScanInv
<1> QED BY <1>3, <1>4

(* A scan goes on while its stage is one of these, and writes events of its  *)
(* own payload only.                                                         *)
LEMMA ScanStepIs ==
  ASSUME ScanInv, ScanStep
  PROVE  /\ stage \in {"walk", "emit", "refuse"} /\ stage' # "idle"
         /\ scan' = scan /\ payload' = payload
         /\ \/ sink' = sink
            \/ \E e \in Event : Owned(e) /\ sink' = Append(sink, e)
<1>1. CASE Emit
  <2>1. events # <<>> /\ sink' = Append(sink, Head(events)) /\ stage \in {"emit", "refuse"}
    BY <1>1 DEF Emit, ScanInv
  <2>2. 1 \in DOMAIN events /\ Head(events) = events[1] /\ Head(events) \in Event
    BY <2>1 DEF ScanInv, ScanTypes
  <2>3. Owned(Head(events))
    BY <2>2 DEF ScanInv
  <2> QED BY <1>1, <2>1, <2>2, <2>3 DEF Emit
<1>2. CASE ~Emit
  BY <1>2 DEF ScanStep, Walk, Withhold, Rebuild, Finish, DetectorRaises, VaultRaises, SinkRaises, Raise, ScanInv
<1> QED BY <1>1, <1>2

(* What is in the log of another scan's payload stays as it is. *)
LEMMA ToldStays ==
  ASSUME NEW log \in Seq(Event), NEW e, NEW k, NEW leaves, Told(log, k, leaves), e.scan # k
  PROVE  Told(Append(log, e), k, leaves)
<1> DEFINE L == Append(log, e)
<1>1. /\ DOMAIN L = 1 .. Len(log) + 1 /\ Len(log) \in Nat /\ DOMAIN log = 1 .. Len(log)
      /\ \A n \in 1 .. Len(log) : L[n] = log[n]
      /\ L[Len(log) + 1] = e
  OBVIOUS
<1> HIDE DEF L
<1> SUFFICES ASSUME NEW i \in DOMAIN leaves, NEW d \in Demands(leaves[i]), Needed(d)
             PROVE  \E n \in DOMAIN L :
                      /\ Tells(L[n], k, leaves, i, d)
                      /\ \A m \in DOMAIN L : Tells(L[m], k, leaves, i, d) => m = n
  BY DEF Told, L
<1>2. PICK n \in DOMAIN log :
         /\ Tells(log[n], k, leaves, i, d)
         /\ \A m \in DOMAIN log : Tells(log[m], k, leaves, i, d) => m = n
  BY DEF Told
<1>3. n \in DOMAIN L /\ L[n] = log[n]
  BY <1>1
<1>4. ~Tells(e, k, leaves, i, d)
  BY DEF Tells, Records
<1>5. ASSUME NEW m \in DOMAIN L, Tells(L[m], k, leaves, i, d) PROVE m = n
  <2>1. m \in DOMAIN log
    <3>1. m # Len(log) + 1
      BY <1>1, <1>4, <1>5
    <3> QED BY <1>1, <3>1
  <2> QED BY <1>1, <1>2, <1>5, <2>1
<1> QED BY <1>2, <1>3, <1>5

LEMMA AuditedIs ==
  ASSUME NEW k, NEW leaves, sink \in Seq(Event), Told(sink, k, leaves)
  PROVE  Audited(k, leaves)
<1> SUFFICES ASSUME NEW i \in DOMAIN leaves, NEW d \in Demands(leaves[i]), Needed(d)
             PROVE  Cardinality({n \in DOMAIN sink :
                        /\ Records(sink[n], k, i, d)
                        /\ sink[n].hashed = "value" \/ leaves[i].kind = "other"}) = 1
  BY DEF Audited, Needed
<1> DEFINE S == {n \in DOMAIN sink : Tells(sink[n], k, leaves, i, d)}
<1>1. PICK n \in DOMAIN sink :
         /\ Tells(sink[n], k, leaves, i, d)
         /\ \A m \in DOMAIN sink : Tells(sink[m], k, leaves, i, d) => m = n
  BY DEF Told
<1>2. S = {n}
  BY <1>1
<1>3. Cardinality(S) = 1
  <2> HIDE DEF S
  <2> QED BY <1>2, FS_Singleton
<1> QED BY <1>3 DEF Tells

LEMMA BannedIs ==
  ASSUME NEW leaves
  PROVE  Banned(leaves) <=> \E i \in DOMAIN leaves : Bans(leaves[i])
BY DEF Banned, Bans

(* What may be handed on of the leaves of scan k: the marks are what the     *)
(* policy demands, nothing is withheld, and all of it is in the log.         *)
Cleared(k, leaves, marks) ==
    /\ \A i \in DOMAIN leaves : WellMarked(leaves[i], marks[i]) /\ ~Bans(leaves[i])
    /\ Told(sink, k, leaves)

LEMMA ClearedIs ==
  ASSUME sink \in Seq(Event), NEW k, NEW leaves, NEW marks, Cleared(k, leaves, marks)
  PROVE  Scrubbed(leaves, marks) /\ ~Banned(leaves) /\ Audited(k, leaves)
BY AuditedIs, BannedIs DEF Cleared, Scrubbed, WellMarked

LEMMA ToldRemains ==
  ASSUME ScanInv, UNCHANGED <<engine, tool>>, sink' = sink \/ ScanStep,
         NEW k, NEW leaves, Told(sink, k, leaves), k # scan \/ sink' = sink
  PROVE  Told(sink, k, leaves)'
<1>1. Told(sink', k, leaves)
  <2>1. CASE sink' = sink
    BY <2>1
  <2>2. CASE sink' # sink
    <3>1. PICK e \in Event : Owned(e) /\ sink' = Append(sink, e)
      BY <2>2, ScanStepIs
    <3>2. e.scan # k
      BY <2>2, <3>1 DEF Owned
    <3>3. sink \in Seq(Event)
      BY DEF ScanInv, ScanTypes
    <3> QED BY <3>1, <3>2, <3>3, ToldStays
  <2> QED BY <2>1, <2>2
<1> QED BY <1>1, LogKept

LEMMA ClearedStays ==
  ASSUME ScanInv, UNCHANGED <<engine, tool>>, sink' = sink \/ ScanStep,
         NEW k, NEW leaves, NEW marks, Cleared(k, leaves, marks), k # scan \/ sink' = sink
  PROVE  Cleared(k, leaves, marks)'
BY ToldRemains, PolicyKept DEF Cleared

(* A scan that is done has cleared its payload, as it was rewritten, and as  *)
(* it was if nothing in it was modified.                                     *)
LEMMA DoneClears ==
  ASSUME EngineOK, ScanInv, stage = "done"
  PROVE  /\ Cleared(scan, payload, out) /\ DOMAIN out = DOMAIN payload
         /\ ~Modified => Cleared(scan, payload, [i \in DOMAIN payload |-> {}])
<1>1. Complete(Len(payload)) /\ Rewritten /\ Sound /\ ScanTypes /\ Told(sink \o events, scan, payload) /\ events = <<>>
  BY DEF ScanInv
<1>2. sink \o events = sink
  BY <1>1 DEF ScanTypes
<1>3. Told(sink, scan, payload)
  BY <1>1, <1>2
<1>4. \A i \in DOMAIN payload : ~Bans(payload[i])
  BY <1>1, LeavesAre DEF Complete, ScanTypes
<1>5. ASSUME ~Modified, NEW i \in DOMAIN payload PROVE WellMarked(payload[i], {})
  <2>1. ASSUME NEW d \in Demands(payload[i]) PROVE d.action = "allow"
    <3>1. CASE Needed(d)
      <4>1. PICK n \in DOMAIN findings : findings[n].leaf = i /\ Meets(findings[n], d)
        BY <1>1, <3>1, LeavesAre DEF Complete, ScanTypes
      <4>2. findings[n].action = "allow"
        BY <1>5 DEF Modified, Range
      <4>3. d.action \in DOMAIN SEVERITY
        BY <1>1, LeavesAre, DemandsHave DEF ScanTypes
      <4> QED BY <4>1, <4>2, <4>3, EffectiveIs DEF Meets
    <3>2. CASE ~Needed(d)
      BY <3>2 DEF Needed
    <3> QED BY <3>1, <3>2
  <2> QED BY <2>1 DEF WellMarked, Hidden
<1> QED BY <1>1, <1>3, <1>4, <1>5 DEF Cleared, Rewritten

(* The entities that are acted on: those the policy names, of a payload that *)
(* is withheld at least one.                                                 *)
Hot(l) == {d.span.entity : d \in {x \in Demands(l) : x.action # "allow"}}

Acted == {f.span.entity : f \in {x \in Range(findings) : x.action # "allow"}}

LEMMA ActedIs ==
  ASSUME EngineOK, ScanInv
  PROVE  /\ \A x \in Acted : \E i \in DOMAIN payload : x \in Hot(payload[i])
         /\ stage = "done" => \A i \in DOMAIN payload : Hot(payload[i]) \subseteq Acted
         /\ stage = "blocked" => Acted # {}
         /\ Modified <=> Acted # {}
<1>1. ScanTypes /\ Sound
  BY DEF ScanInv
<1>2. \A i \in DOMAIN payload : IsLeaf(payload[i])
  BY <1>1, LeavesAre DEF ScanTypes
<1>3. ASSUME NEW i \in DOMAIN payload, NEW d \in Demands(payload[i]), NEW f, Meets(f, d)
      PROVE  f.span = d.span /\ (f.action = "allow" <=> d.action = "allow")
  <2>1. d.action \in DOMAIN SEVERITY
    BY <1>2, DemandsHave
  <2> QED BY <1>3, <2>1, EffectiveIs DEF Meets
<1>4. ASSUME NEW f \in Range(findings), f.action # "allow"
      PROVE  \E i \in DOMAIN payload : f.span.entity \in Hot(payload[i])
  <2>1. PICK n \in DOMAIN findings : f = findings[n]
    BY DEF Range
  <2>2. f.leaf \in DOMAIN payload /\ \E d \in Demands(payload[f.leaf]) : Meets(f, d)
    BY <1>1, <2>1 DEF Sound
  <2>3. PICK d \in Demands(payload[f.leaf]) : Meets(f, d)
    BY <2>2
  <2>4. f.span = d.span /\ d.action # "allow"
    BY <1>3, <1>4, <2>2, <2>3
  <2>5. f.span.entity \in Hot(payload[f.leaf])
    BY <2>4 DEF Hot
  <2> QED BY <2>2, <2>5
<1>5. ASSUME stage = "done", NEW i \in DOMAIN payload, NEW x \in Hot(payload[i]) PROVE x \in Acted
  <2>1. PICK d \in Demands(payload[i]) : d.action # "allow" /\ x = d.span.entity
    BY DEF Hot
  <2>2. Complete(Len(payload)) /\ i \in 1 .. Len(payload)
    BY <1>1, <1>5, LeavesAre DEF ScanInv, ScanTypes
  <2>3. PICK n \in DOMAIN findings : Meets(findings[n], d)
    BY <2>1, <2>2 DEF Complete, Needed
  <2>4. findings[n].span = d.span /\ findings[n].action # "allow" /\ findings[n] \in Range(findings)
    BY <1>3, <2>1, <2>3 DEF Range
  <2> QED BY <2>1, <2>4 DEF Acted
<1>6. ASSUME stage = "blocked" PROVE Acted # {}
  <2>1. PICK f \in Range(findings) : f.action = "block"
    BY <1>6 DEF ScanInv, Refusing
  <2>2. f.span.entity \in Acted
    BY <2>1 DEF Acted
  <2> QED BY <2>2
<1> QED BY <1>4, <1>5, <1>6 DEF Acted, Modified
=============================================================================
