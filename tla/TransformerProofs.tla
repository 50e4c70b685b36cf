------------------------- MODULE TransformerProofs -------------------------
(***************************************************************************)
(* Proofs about Transformer, for texts and findings of any number, and, in *)
(* the last part, about Checksums, for numbers of any length.  The two     *)
(* share nothing.                                                          *)
(*                                                                         *)
(* ClustersInv is the invariant of merge_clusters' loop.  TextInv is that  *)
(* of transform_text's: up to Frontier, the start of the last cluster      *)
(* replaced, the text is the original, so the offsets of the clusters      *)
(* still to come are right.                                                *)
(***************************************************************************)
EXTENDS Transformer, Checksums, SequenceTheorems, TLAPS

(* What the proofs use of the types; the characters a marker was made from  *)
(* are TextInv's concern.                                                   *)
Types ==
    /\ findings \in Seq(Finding)
    /\ Len(findings) <= MaxFindings
    /\ whole \in BOOLEAN
    /\ clusters \in Seq(Cluster)
    /\ replaced \in 0 .. Len(clusters)

Under(i, c) == c.start <= findings[i].start /\ findings[i].end <= c.end

AsSevere(i, j) == SEVERITY[findings[i].action] >= SEVERITY[findings[j].action]

Crossed(p) == \E i \in Actionable : findings[i].start < p /\ p < findings[i].end

(* A cluster: an extent every inner point of which a finding crosses, led   *)
(* by one of its findings.                                                  *)
GoodExtent(lead, a, b) ==
    /\ lead \in Actionable
    /\ a <= findings[lead].start /\ findings[lead].end <= b
    /\ \A p \in a + 1 .. b - 1 : Crossed(p)

ClustersInv ==
    /\ merged \subseteq Actionable
    /\ \A n \in DOMAIN clusters :
           /\ clusters[n].start < clusters[n].end
           /\ GoodExtent(clusters[n].lead, clusters[n].start, clusters[n].end)
    /\ \A m, n \in DOMAIN clusters : m < n => clusters[m].end <= clusters[n].start
    /\ \A i \in merged : \E n \in DOMAIN clusters :
           Under(i, clusters[n]) /\ AsSevere(clusters[n].lead, i)
    /\ clusters # <<>> =>
           \A i \in Actionable \ merged : clusters[Len(clusters)].start <= findings[i].start
    /\ whole => clusters = <<>>

MergeInv == Types /\ ClustersInv

LEMMA SeverityType == \A a \in Actions : SEVERITY[a] \in Nat
  BY TransformerAssumption DEF SEVERITY

LEMMA FindingType ==
  ASSUME Types, NEW i \in Actionable
  PROVE  /\ i \in 1 .. MaxFindings /\ i \in Nat
         /\ findings[i].start \in 0 .. Length - 1
         /\ findings[i].end \in Chars
         /\ findings[i].start < findings[i].end
         /\ findings[i].conf \in Nat
         /\ SEVERITY[findings[i].action] \in Nat
<1>1. findings[i] \in Finding /\ i \in 1 .. Len(findings)
  BY DEF Types, Actionable
<1>2. /\ findings[i].start \in 0 .. Length - 1 /\ findings[i].end \in Chars
      /\ findings[i].action \in Actions /\ findings[i].conf \in Confidences
      /\ findings[i].start < findings[i].end
  BY <1>1 DEF Finding
<1>3. i \in 1 .. MaxFindings /\ i \in Nat
  BY <1>1, TransformerAssumption DEF Types
<1> QED
  BY <1>2, <1>3, SeverityType, TransformerAssumption

LEMMA MergeInvInit == Init => MergeInv
<1> SUFFICES ASSUME Init PROVE MergeInv
  OBVIOUS
<1>1. PICK n \in 0 .. MaxFindings : findings \in [1 .. n -> Finding]
  BY DEF Init
<1>2. findings \in Seq(Finding) /\ Len(findings) = n
  BY <1>1, TransformerAssumption
<1> QED
  BY <1>1, <1>2, TransformerAssumption DEF Init, MergeInv, Types, ClustersInv

(* Absorb and OpenCluster, and the rest that leaves the clusters alone. *)
LEMMA AbsorbKeepsMergeInv ==
  ASSUME MergeInv, NEW i \in DOMAIN findings, Absorb(i)
  PROVE  MergeInv'
<1> DEFINE k == Len(clusters)
           c == clusters[k]
           d == clusters'[k]
<1> USE DEF MergeInv
<1>1. i \in Actionable \ merged /\ clusters # <<>> /\ findings[i].start < c.end
  BY DEF Absorb, IsNext, Overlaps, LastEnd
<1>2. k \in DOMAIN clusters /\ k \in Nat /\ c \in Cluster
  BY <1>1 DEF Types
<1>3. c.lead \in Actionable /\ c.start \in 0 .. Length - 1 /\ c.end \in Chars /\ c.start < c.end
  BY <1>2 DEF ClustersInv, GoodExtent, Cluster
<1>4. /\ findings[i].start \in Nat /\ findings[i].end \in Chars
      /\ findings[i].start < findings[i].end
      /\ i \in 1 .. MaxFindings
      /\ c.start <= findings[i].start
  BY <1>1, FindingType DEF ClustersInv
<1>5. /\ d.start = c.start /\ d.end = EndWith(i)
      /\ d.lead = IF Outranks(i, c.lead) THEN i ELSE c.lead
      /\ Len(clusters') = k /\ DOMAIN clusters' = DOMAIN clusters
      /\ clusters' \in Seq(Cluster)
      /\ \A n \in DOMAIN clusters : n # k => clusters'[n] = clusters[n]
  <2>1. EndWith(i) \in Chars
    BY <1>1, <1>3, <1>4 DEF EndWith, LastEnd
  <2>2. [start |-> c.start, end |-> EndWith(i),
         lead |-> IF Outranks(i, c.lead) THEN i ELSE c.lead] \in Cluster
    BY <2>1, <1>2, <1>4 DEF Cluster
  <2> QED BY <1>2, <2>2 DEF Absorb, Types
<1>6. d.end \in Chars /\ d.end >= c.end /\ d.end >= findings[i].end
      /\ (d.end = c.end \/ d.end = findings[i].end)
  BY <1>1, <1>3, <1>4, <1>5 DEF EndWith, LastEnd, Chars
<1>7. UNCHANGED <<findings, whole, replaced, text>> /\ merged' = merged \cup {i} /\ ~whole
  BY DEF Absorb
<1>8. Actionable' = Actionable
  BY <1>7 DEF Actionable
<1>9. AsSevere(d.lead, i) /\ AsSevere(d.lead, c.lead)
  <2>1. SEVERITY[findings[i].action] \in Nat /\ SEVERITY[findings[c.lead].action] \in Nat
    BY <1>1, <1>3, FindingType
  <2>2. CASE Outranks(i, c.lead)
    <3>1. d.lead = i
      BY <2>2, <1>5
    <3>2. \/ SEVERITY[findings[i].action] > SEVERITY[findings[c.lead].action]
          \/ SEVERITY[findings[i].action] = SEVERITY[findings[c.lead].action]
      BY <2>2 DEF Outranks
    <3> HIDE DEF c, d
    <3> QED BY <3>1, <3>2, <2>1 DEF AsSevere
  <2>3. CASE ~Outranks(i, c.lead)
    <3>1. d.lead = c.lead
      BY <2>3, <1>5
    <3>2. ~(SEVERITY[findings[i].action] > SEVERITY[findings[c.lead].action])
      BY <2>3 DEF Outranks
    <3> HIDE DEF c, d
    <3> QED BY <3>1, <3>2, <2>1 DEF AsSevere
  <2> QED BY <2>2, <2>3
<1>10. GoodExtent(d.lead, d.start, d.end)
  <2>1. \A p \in d.start + 1 .. d.end - 1 : Crossed(p)
    <3> SUFFICES ASSUME NEW p \in d.start + 1 .. d.end - 1 PROVE Crossed(p)
      OBVIOUS
    <3>1. CASE p < c.end
      <4>1. p \in c.start + 1 .. c.end - 1
        BY <3>1, <1>3, <1>5, <1>6 DEF Chars
      <4> QED BY <4>1, <1>2 DEF ClustersInv, GoodExtent
    <3>2. CASE c.end <= p
      BY <3>2, <1>1, <1>3, <1>4, <1>5, <1>6 DEF Crossed, Chars
    <3> QED BY <3>1, <3>2, <1>3, <1>5, <1>6 DEF Chars
  <2>2. c.start <= findings[c.lead].start /\ findings[c.lead].end <= c.end
    BY <1>2 DEF ClustersInv, GoodExtent
  <2> QED BY <2>1, <2>2, <1>1, <1>3, <1>4, <1>5, <1>6, FindingType DEF GoodExtent, Chars
<1>12. Types'
  BY <1>5, <1>7 DEF Types
<1>13. \A j \in merged \cup {i} : \E n \in DOMAIN clusters :
           Under(j, clusters'[n]) /\ AsSevere(clusters'[n].lead, j)
  <2>1. Under(i, d) /\ AsSevere(d.lead, i)
    BY <1>4, <1>5, <1>6, <1>9 DEF Under
  <2>2. ASSUME NEW j \in merged
        PROVE \E n \in DOMAIN clusters :
                Under(j, clusters'[n]) /\ AsSevere(clusters'[n].lead, j)
    <3>1. PICK n \in DOMAIN clusters : Under(j, clusters[n]) /\ AsSevere(clusters[n].lead, j)
      BY DEF ClustersInv
    <3>2. CASE n # k
      BY <3>1, <3>2, <1>5
    <3>3. CASE n = k
      <4>1. j \in Actionable /\ d.lead \in Actionable
        BY <1>1, <1>3, <1>5 DEF ClustersInv
      <4>2. AsSevere(d.lead, j)
        BY <3>1, <3>3, <1>3, <1>9, <4>1, FindingType DEF AsSevere
      <4>3. Under(j, d)
        BY <3>1, <3>3, <1>3, <1>5, <1>6, <4>1, FindingType DEF Under, Chars
      <4> QED BY <4>2, <4>3, <3>3
    <3> QED BY <3>2, <3>3
  <2> QED BY <2>1, <2>2, <1>2
<1>14. ClustersInv'
  <2>1. (merged \subseteq Actionable)'
    BY <1>1, <1>7, <1>8 DEF ClustersInv
  <2>2. (\A n \in DOMAIN clusters :
           /\ clusters[n].start < clusters[n].end
           /\ GoodExtent(clusters[n].lead, clusters[n].start, clusters[n].end))'
    <3>1. \A n \in DOMAIN clusters :
           /\ clusters'[n].start < clusters'[n].end
           /\ GoodExtent(clusters'[n].lead, clusters'[n].start, clusters'[n].end)
      BY <1>3, <1>5, <1>6, <1>10 DEF ClustersInv, Chars
    <3> QED BY <3>1, <1>5, <1>7, <1>8 DEF GoodExtent, Crossed
  <2>3. (\A m, n \in DOMAIN clusters : m < n => clusters[m].end <= clusters[n].start)'
    BY <1>2, <1>5 DEF ClustersInv, Types
  <2>4. (\A j \in merged : \E n \in DOMAIN clusters :
           Under(j, clusters[n]) /\ AsSevere(clusters[n].lead, j))'
    BY <1>13, <1>5, <1>7 DEF Under, AsSevere
  <2>5. (clusters # <<>> =>
           \A j \in Actionable \ merged : clusters[Len(clusters)].start <= findings[j].start)'
    BY <1>1, <1>5, <1>7, <1>8 DEF ClustersInv
  <2> QED BY <2>1, <2>2, <2>3, <2>4, <2>5, <1>7 DEF ClustersInv
<1> QED BY <1>12, <1>14

LEMMA OpenClusterKeepsMergeInv ==
  ASSUME MergeInv, NEW i \in DOMAIN findings, OpenCluster(i)
  PROVE  MergeInv'
<1> DEFINE k == Len(clusters)
           f == findings[i]
           new == [start |-> f.start, end |-> f.end, lead |-> i]
<1> USE DEF MergeInv
<1>1. i \in Actionable \ merged
  BY DEF OpenCluster, IsNext
<1>2. /\ f.start \in 0 .. Length - 1 /\ f.end \in Chars /\ f.start < f.end
      /\ i \in 1 .. MaxFindings /\ SEVERITY[f.action] \in Nat
  BY <1>1, FindingType
<1>3. new \in Cluster
  BY <1>2 DEF Cluster
<1>4. UNCHANGED <<findings, whole, replaced, text>> /\ merged' = merged \cup {i} /\ ~whole
      /\ clusters' = Append(clusters, new)
  BY DEF OpenCluster
<1>5. /\ clusters' \in Seq(Cluster) /\ Len(clusters') = k + 1 /\ k \in Nat
      /\ DOMAIN clusters' = 1 .. k + 1 /\ DOMAIN clusters = 1 .. k
      /\ clusters'[k + 1] = new
      /\ \A n \in 1 .. k : clusters'[n] = clusters[n]
  BY <1>3, <1>4 DEF Types
<1>6. Actionable' = Actionable
  BY <1>4 DEF Actionable
<1>7. GoodExtent(i, f.start, f.end)
  BY <1>1, <1>2 DEF GoodExtent, Crossed, Chars
<1>8. \A m \in 1 .. k : clusters[m].end <= f.start
  <2> SUFFICES ASSUME NEW m \in 1 .. k PROVE clusters[m].end <= f.start
    OBVIOUS
  <2>1. clusters[k].end <= f.start /\ k \in 1 .. k
    <3>1. ~Overlaps(i) /\ clusters # <<>>
      BY <1>5 DEF OpenCluster
    <3>2. clusters[k] \in Cluster
      BY <1>5, <3>1 DEF Types
    <3>3. clusters[k].end \in Int /\ f.start \in Int
      BY <3>2, <1>2, TransformerAssumption DEF Cluster, Chars
    <3>4. ~(f.start < clusters[k].end)
      BY <3>1 DEF Overlaps, LastEnd
    <3> QED BY <3>3, <3>4, <1>5
  <2>2. CASE m = k
    BY <2>1, <2>2
  <2>3. CASE m < k
    <3>1. clusters[m].end <= clusters[k].start /\ clusters[k].start < clusters[k].end
      BY <2>1, <2>3, <1>5 DEF ClustersInv
    <3>2. clusters[m] \in Cluster /\ clusters[k] \in Cluster
      BY <2>1, <1>5 DEF Types
    <3>3. clusters[m].end \in Int /\ clusters[k].end \in Int
      BY <3>2, TransformerAssumption DEF Cluster, Chars
    <3>4. clusters[k].start \in Int
      BY <3>2, TransformerAssumption DEF Cluster
    <3>5. f.start \in Int
      BY <1>2, TransformerAssumption
    <3> QED BY <3>1, <3>3, <3>4, <3>5, <2>1
  <2>4. m = k \/ m < k
    BY <2>1
  <2> QED BY <2>2, <2>3, <2>4
<1>9. Types'
  BY <1>4, <1>5 DEF Types
<1>10. ClustersInv'
  <2>1. (merged \subseteq Actionable)'
    BY <1>1, <1>4, <1>6 DEF ClustersInv
  <2>2. (\A n \in DOMAIN clusters :
           /\ clusters[n].start < clusters[n].end
           /\ GoodExtent(clusters[n].lead, clusters[n].start, clusters[n].end))'
    <3>1. ASSUME NEW n \in 1 .. k + 1
          PROVE  /\ clusters'[n].start < clusters'[n].end
                 /\ GoodExtent(clusters'[n].lead, clusters'[n].start, clusters'[n].end)
      <4>1. CASE n = k + 1
        BY <4>1, <1>2, <1>5, <1>7
      <4>2. CASE n \in 1 .. k
        BY <4>2, <1>5 DEF ClustersInv
      <4> QED BY <4>1, <4>2, <1>5
    <3> QED BY <3>1, <1>4, <1>5, <1>6 DEF GoodExtent, Crossed
  <2>3. (\A m, n \in DOMAIN clusters : m < n => clusters[m].end <= clusters[n].start)'
    <3>1. ASSUME NEW m \in 1 .. k + 1, NEW n \in 1 .. k + 1, m < n
          PROVE  clusters'[m].end <= clusters'[n].start
      <4>1. CASE n = k + 1
        BY <3>1, <4>1, <1>5, <1>8
      <4>2. CASE n \in 1 .. k
        BY <3>1, <4>2, <1>5 DEF ClustersInv
      <4> QED BY <4>1, <4>2, <1>5
    <3> QED BY <3>1, <1>5
  <2>4. (\A j \in merged : \E n \in DOMAIN clusters :
           Under(j, clusters[n]) /\ AsSevere(clusters[n].lead, j))'
    <3>1. Under(i, new) /\ AsSevere(new.lead, i)
      BY <1>2 DEF Under, AsSevere, Chars
    <3>2. ASSUME NEW j \in merged \cup {i}
          PROVE  \E n \in 1 .. k + 1 :
                     Under(j, clusters'[n]) /\ AsSevere(clusters'[n].lead, j)
      BY <3>1, <1>5 DEF ClustersInv
    <3> QED BY <3>2, <1>4, <1>5 DEF Under, AsSevere
  <2>5. (clusters # <<>> =>
           \A j \in Actionable \ merged : clusters[Len(clusters)].start <= findings[j].start)'
    <3>1. ASSUME NEW j \in Actionable \ merged, j # i PROVE f.start <= findings[j].start
      BY <3>1, <1>2, FindingType DEF OpenCluster, IsNext, Before
    <3> QED BY <3>1, <1>4, <1>5, <1>6
  <2> QED BY <2>1, <2>2, <2>3, <2>4, <2>5, <1>4 DEF ClustersInv
<1> QED BY <1>9, <1>10

(* What putting one element in the place of a stretch of a sequence does. *)
Spliced(s, a, x, b) == SubSeq(s, 1, a) \o <<x>> \o SubSeq(s, b + 1, Len(s))

IsSplice(t, s, a, x, b) ==
    /\ Len(t) = a + 1 + Len(s) - b
    /\ \A n \in 1 .. a : t[n] = s[n]
    /\ t[a + 1] = x
    /\ \A n \in 1 .. Len(s) - b : t[a + 1 + n] = s[b + n]

LEMMA Splice ==
  ASSUME NEW S, NEW s \in Seq(S), NEW x \in S,
         NEW a \in Nat, NEW b \in Nat, a <= b, b <= Len(s)
  PROVE  Spliced(s, a, x, b) \in Seq(S) /\ IsSplice(Spliced(s, a, x, b), s, a, x, b)
<1> DEFINE p == SubSeq(s, 1, a)
           q == SubSeq(s, b + 1, Len(s))
<1>1. p \in Seq(S) /\ Len(p) = a /\ \A n \in 1 .. a : p[n] = s[n]
  OBVIOUS
<1>2. q \in Seq(S) /\ Len(q) = Len(s) - b /\ \A n \in 1 .. Len(s) - b : q[n] = s[b + n]
  OBVIOUS
<1>3. <<x>> \in Seq(S) /\ Len(<<x>>) = 1 /\ <<x>>[1] = x
  OBVIOUS
<1> DEFINE px == p \o <<x>>
<1>4. px \in Seq(S) /\ Len(px) = a + 1 /\ px[a + 1] = x /\ \A n \in 1 .. a : px[n] = s[n]
  BY <1>1, <1>3
<1> HIDE DEF p, q, px
<1>5. /\ px \o q \in Seq(S) /\ Len(px \o q) = a + 1 + Len(s) - b
      /\ \A n \in 1 .. a + 1 : (px \o q)[n] = px[n]
      /\ \A n \in 1 .. Len(s) - b : (px \o q)[a + 1 + n] = q[n]
  <2>1. Len(q) \in Nat /\ Len(px) \in Nat
    BY <1>2, <1>4
  <2>2. /\ px \o q \in Seq(S) /\ Len(px \o q) = Len(px) + Len(q)
        /\ \A n \in 1 .. Len(px) + Len(q) :
               (px \o q)[n] = IF n <= Len(px) THEN px[n] ELSE q[n - Len(px)]
    BY <1>2, <1>4, ConcatProperties
  <2>3. Len(px) = a + 1 /\ Len(q) = Len(s) - b
    BY <1>2, <1>4
  <2>4. \A n \in 1 .. a + 1 : (px \o q)[n] = px[n]
    BY <2>2, <2>3
  <2>5. ASSUME NEW n \in 1 .. Len(s) - b PROVE (px \o q)[a + 1 + n] = q[n]
    <3>1. a + 1 + n \in 1 .. Len(px) + Len(q) /\ ~(a + 1 + n <= Len(px))
          /\ a + 1 + n - Len(px) = n
      BY <2>3
    <3> QED BY <3>1, <2>2
  <2> QED BY <2>2, <2>3, <2>4, <2>5
<1>6. (px \o q)[a + 1] = x /\ \A n \in 1 .. a : (px \o q)[n] = s[n]
  BY <1>4, <1>5
<1>7. \A n \in 1 .. Len(s) - b : (px \o q)[a + 1 + n] = s[b + n]
  BY <1>2, <1>5
<1>8. px \o q = Spliced(s, a, x, b)
  BY DEF p, q, px, Spliced
<1> QED BY <1>5, <1>6, <1>7, <1>8 DEF IsSplice

-----------------------------------------------------------------------------
(* The text.                                                               *)

(* Where the part of the text begins that transform_text is done with. *)
Frontier == IF replaced = 0 THEN Length ELSE clusters[FromTheRight + 1].start

IsMarkerOf(t, c) == t.lead = c.lead /\ t.from = c.start /\ t.to = c.end

(* The leaf is a string: original up to the frontier, a marker for every    *)
(* cluster behind it.                                                       *)
StringText ==
    /\ Frontier <= Len(text)
    /\ \A k \in 1 .. Frontier : text[k] = Original[k]
    /\ \A n \in FromTheRight + 1 .. Len(clusters) :
           \E m \in Frontier + 1 .. Len(text) : IsMarkerOf(text[m], clusters[n])
    /\ replaced > 0 => Actionable \subseteq merged

(* The leaf is no string: still the original, or one marker of highest rank. *)
WholeText ==
    \/ text = Original
    \/ \E i \in Actionable :
           /\ \A j \in Actionable : ~Outranks(j, i)
           /\ text = <<[lead |-> i, from |-> 0, to |-> Length,
                        of |-> [n \in 1 .. Length |-> n]]>>

GoodMarker(m) ==
    /\ m.of = [n \in 1 .. m.to - m.from |-> m.from + n]
    /\ m.lead \in Actionable
    /\ m.from <= findings[m.lead].start /\ findings[m.lead].end <= m.to
    /\ whole \/ \A p \in m.from + 1 .. m.to - 1 : Crossed(p)

TextInv ==
    /\ text \in Seq(Item)
    /\ OffsetsHold
    /\ \A n \in DOMAIN text : text[n].lead # 0 => GoodMarker(text[n])
    /\ ~whole => StringText
    /\ whole => WholeText

IInv == MergeInv /\ TextInv

LEMMA OriginalType ==
  /\ Original \in Seq(Item) /\ Len(Original) = Length /\ DOMAIN Original = Chars
  /\ \A k \in Chars : /\ Original[k].lead = 0 /\ Original[k].from = k - 1
                       /\ Original[k].to = k
<1>1. \A k \in Chars : [lead |-> 0, from |-> k - 1, to |-> k, of |-> <<k>>] \in Item
  BY TransformerAssumption DEF Chars, Item
<1>2. Original \in [1 .. Length -> Item]
  BY <1>1 DEF Original, Chars
<1>3. Original \in Seq(Item) /\ Len(Original) = Length
  BY <1>2, TransformerAssumption
<1> QED BY <1>3, TransformerAssumption DEF Original, Chars

LEMMA OriginalOffsets ==
  ASSUME text = Original PROVE OffsetsHold
<1>1. Length \in Nat /\ Length >= 1
  BY TransformerAssumption
<1>2. text # <<>> /\ Len(text) = Length
  BY <1>1, OriginalType
<1> QED BY <1>1, <1>2, OriginalType DEF OffsetsHold, Chars

LEMMA TextInvInit == Init => TextInv
<1> SUFFICES ASSUME Init PROVE TextInv
  OBVIOUS
<1>1. text = Original /\ clusters = <<>> /\ replaced = 0
  BY DEF Init
<1>2. text \in Seq(Item) /\ OffsetsHold
  BY <1>1, OriginalType, OriginalOffsets
<1>3. \A n \in DOMAIN text : text[n].lead # 0 => GoodMarker(text[n])
  BY <1>1, OriginalType
<1>4. StringText
  BY <1>1, OriginalType, TransformerAssumption DEF StringText, Frontier, FromTheRight
<1> QED BY <1>1, <1>2, <1>3, <1>4 DEF TextInv, WholeText

(* While clusters are made the text stays as it is. *)
LEMMA MergeKeepsTextInv ==
  ASSUME IInv, MergeInv', NEW i \in DOMAIN findings, Absorb(i) \/ OpenCluster(i)
  PROVE  TextInv'
<1>1. /\ UNCHANGED <<findings, whole, replaced, text>> /\ ~whole
      /\ i \in Actionable \ merged
  BY DEF Absorb, OpenCluster, IsNext
<1>2. replaced = 0
  BY <1>1 DEF IInv, TextInv, StringText, MergeInv, Types
<1>3. StringText'
  BY <1>1, <1>2 DEF IInv, TextInv, StringText, Frontier, FromTheRight, MergeInv, Types
<1>4. OffsetsHold' /\ (\A n \in DOMAIN text : text[n].lead # 0 => GoodMarker(text[n]))'
  BY <1>1 DEF IInv, TextInv, OffsetsHold, GoodMarker, Crossed, Actionable
<1> QED BY <1>1, <1>3, <1>4 DEF IInv, TextInv

LEMMA SliceOfOriginal ==
  ASSUME text \in Seq(Item), NEW a \in Nat, NEW b \in Nat, a < b, b <= Len(text), b <= Length,
         \A k \in a + 1 .. b : text[k] = Original[k], NEW lead
  PROVE  MarkerFor(lead, a, b) = [lead |-> lead, from |-> a, to |-> b,
                                  of |-> [n \in 1 .. b - a |-> a + n]]
<1>1. Slice(a, b) = SubSeq(text, a + 1, b)
  BY DEF Slice
<1>2. /\ DOMAIN Slice(a, b) = 1 .. b - a
      /\ \A n \in 1 .. b - a : Slice(a, b)[n] = text[a + n]
  BY <1>1
<1>3. \A n \in 1 .. b - a : Slice(a, b)[n].to = a + n
  <2> SUFFICES ASSUME NEW n \in 1 .. b - a PROVE Slice(a, b)[n].to = a + n
    OBVIOUS
  <2>1. a + n \in a + 1 .. b /\ a + n \in Chars
    BY TransformerAssumption DEF Chars
  <2> QED BY <2>1, <1>2, OriginalType
<1> QED BY <1>2, <1>3 DEF MarkerFor

LEMMA ReplaceWholeKeepsTextInv ==
  ASSUME IInv, MergeInv', ReplaceWhole
  PROVE  TextInv'
<1>1. PICK i \in Actionable :
          /\ \A j \in Actionable : ~Outranks(j, i)
          /\ text' = <<MarkerFor(i, 0, Length)>>
  BY DEF ReplaceWhole
<1>2. text = Original /\ whole /\ UNCHANGED <<findings, whole, merged, clusters, replaced>>
  BY DEF ReplaceWhole
<1> DEFINE marker == [lead |-> i, from |-> 0, to |-> Length, of |-> [n \in 1 .. Length |-> n]]
<1>3. Length \in Nat /\ Length >= 1
  BY TransformerAssumption
<1>4. MarkerFor(i, 0, Length) = marker
  <2>1. MarkerFor(i, 0, Length) = [lead |-> i, from |-> 0, to |-> Length,
                                   of |-> [n \in 1 .. Length - 0 |-> 0 + n]]
    BY <1>2, <1>3, OriginalType, SliceOfOriginal
  <2>2. [n \in 1 .. Length - 0 |-> 0 + n] = [n \in 1 .. Length |-> n]
    BY <1>3
  <2> QED BY <2>1, <2>2
<1>5. text' = <<marker>>
  BY <1>1, <1>4
<1>6. i \in 1 .. MaxFindings /\ findings[i].start \in 0 .. Length - 1 /\ findings[i].end \in Chars
  BY <1>1, FindingType DEF IInv, MergeInv
<1>7. marker \in Item
  <2>1. [n \in 1 .. Length |-> n] \in Seq(Chars)
    BY <1>3 DEF Chars
  <2> QED BY <2>1, <1>3, <1>6, TransformerAssumption DEF Item, Chars
<1> HIDE DEF marker
<1>8. Len(text') = 1 /\ text'[1] = marker /\ text' # <<>> /\ text' \in Seq(Item)
      /\ DOMAIN text' = {1}
  BY <1>5, <1>7
<1>9. OffsetsHold'
  BY <1>8 DEF OffsetsHold, marker
<1>10. (\A n \in DOMAIN text : text[n].lead # 0 => GoodMarker(text[n]))'
  <2>1. /\ marker.of = [n \in 1 .. marker.to - marker.from |-> marker.from + n]
        /\ marker.lead = i /\ marker.from = 0 /\ marker.to = Length
    <3>1. [n \in 1 .. Length |-> n] = [n \in 1 .. Length - 0 |-> 0 + n]
      BY <1>3
    <3> QED BY <3>1 DEF marker
  <2>2. i \in Actionable'
    BY <1>1, <1>2 DEF Actionable
  <2>3. marker.from <= findings[i].start /\ findings[i].end <= marker.to
    BY <2>1, <1>3, <1>6 DEF Chars
  <2> QED BY <2>1, <2>2, <2>3, <1>2, <1>8 DEF GoodMarker
<1>11. WholeText'
  BY <1>1, <1>2, <1>5 DEF WholeText, marker, Actionable, Outranks
<1> QED BY <1>2, <1>8, <1>9, <1>10, <1>11 DEF TextInv

(* The text after one round of transform_text's loop. *)
LEMMA ReplaceSplices ==
  ASSUME IInv, Replace
  PROVE  LET c == clusters[FromTheRight]
         IN  /\ FromTheRight \in DOMAIN clusters
             /\ c \in Cluster /\ c.start < c.end /\ c.end <= Frontier
             /\ Frontier' = c.start
             /\ text' \in Seq(Item)
             /\ Len(text') = c.start + 1 + Len(text) - c.end
             /\ \A n \in 1 .. c.start : text'[n] = Original[n]
             /\ text'[c.start + 1] = [lead |-> c.lead, from |-> c.start, to |-> c.end,
                                      of |-> [n \in 1 .. c.end - c.start |-> c.start + n]]
             /\ \A n \in 1 .. Len(text) - c.end : text'[c.start + 1 + n] = text[c.end + n]
<1> DEFINE u == FromTheRight
           c == clusters[u]
<1>1. /\ ~whole /\ replaced < Len(clusters) /\ replaced' = replaced + 1
      /\ UNCHANGED <<findings, whole, merged, clusters>>
      /\ text' = Slice(0, c.start) \o <<MarkerFor(c.lead, c.start, c.end)>>
                                   \o Slice(c.end, Len(text))
  BY DEF Replace
<1>2. /\ replaced \in Nat /\ Len(clusters) \in Nat /\ u \in 1 .. Len(clusters)
      /\ DOMAIN clusters = 1 .. Len(clusters)
      /\ u = Len(clusters) - replaced
  BY <1>1 DEF IInv, MergeInv, Types, FromTheRight
<1>3. c \in Cluster /\ c.start < c.end
  BY <1>2 DEF IInv, MergeInv, Types, ClustersInv
<1>4. c.start \in Nat /\ c.end \in Nat /\ c.end <= Length /\ c.end \in Chars
      /\ c.lead \in 1 .. MaxFindings /\ c.start \in 0 .. Length - 1
  BY <1>3, TransformerAssumption DEF Cluster, Chars
<1>5. c.end <= Frontier /\ Frontier \in Nat /\ Frontier <= Length
  <2>1. CASE replaced = 0
    BY <2>1, <1>4, TransformerAssumption DEF Frontier
  <2>2. CASE replaced # 0
    <3>1. u + 1 \in DOMAIN clusters /\ Frontier = clusters[u + 1].start
      BY <2>2, <1>2 DEF Frontier
    <3>2. clusters[u + 1] \in Cluster
      BY <3>1 DEF IInv, MergeInv, Types
    <3>3. c.end <= clusters[u + 1].start
      BY <3>1, <1>2 DEF IInv, MergeInv, ClustersInv
    <3> QED BY <3>1, <3>2, <3>3, TransformerAssumption DEF Cluster
  <2> QED BY <2>1, <2>2
<1>6. Frontier' = c.start
  BY <1>1, <1>2 DEF Frontier, FromTheRight
<1>7. /\ text \in Seq(Item) /\ Len(text) \in Nat /\ Frontier <= Len(text)
      /\ \A k \in 1 .. Frontier : text[k] = Original[k]
  BY <1>1 DEF IInv, TextInv, StringText
<1>8. c.start <= Len(text) /\ c.end <= Len(text)
  BY <1>3, <1>4, <1>5, <1>7
<1> DEFINE marker == [lead |-> c.lead, from |-> c.start, to |-> c.end,
                      of |-> [n \in 1 .. c.end - c.start |-> c.start + n]]
<1>9. MarkerFor(c.lead, c.start, c.end) = marker
  <2>1. \A k \in c.start + 1 .. c.end : text[k] = Original[k]
    BY <1>4, <1>5, <1>7
  <2> HIDE DEF c
  <2> QED BY <2>1, <1>3, <1>4, <1>7, <1>8, SliceOfOriginal
<1>10. marker \in Item
  <2>1. [n \in 1 .. c.end - c.start |-> c.start + n] \in Seq(Chars)
    <3> HIDE DEF c
    <3>1. c.end - c.start \in Nat /\ \A n \in 1 .. c.end - c.start : c.start + n \in Chars
      BY <1>3, <1>4, TransformerAssumption DEF Chars
    <3> QED BY <3>1
  <2> QED BY <2>1, <1>4, TransformerAssumption DEF Item
<1>11. Slice(0, c.start) = SubSeq(text, 1, c.start)
       /\ Slice(c.end, Len(text)) = SubSeq(text, c.end + 1, Len(text))
  BY <1>4, <1>7, <1>8 DEF Slice
<1>12. text' = SubSeq(text, 1, c.start) \o <<marker>> \o SubSeq(text, c.end + 1, Len(text))
  BY <1>1, <1>9, <1>11
<1> HIDE DEF marker, c
<1>13. /\ text' \in Seq(Item)
       /\ Len(text') = c.start + 1 + Len(text) - c.end
       /\ \A n \in 1 .. c.start : text'[n] = text[n]
       /\ text'[c.start + 1] = marker
       /\ \A n \in 1 .. Len(text) - c.end : text'[c.start + 1 + n] = text[c.end + n]
  <2>1. c.start <= c.end
    BY <1>3, <1>4
  <2>2. c.start \in Nat /\ c.end \in Nat /\ text \in Seq(Item)
    BY <1>4, <1>7
  <2> DEFINE t == Spliced(text, c.start, marker, c.end)
  <2>3. t \in Seq(Item) /\ IsSplice(t, text, c.start, marker, c.end)
    BY <2>1, <2>2, <1>8, <1>10, Splice
  <2>4. text' = t
    BY <1>12 DEF Spliced
  <2> HIDE DEF t
  <2> QED BY <2>3, <2>4 DEF IsSplice
<1>14. \A n \in 1 .. c.start : text'[n] = Original[n]
  BY <1>3, <1>4, <1>5, <1>7, <1>13
<1> QED BY <1>2, <1>3, <1>5, <1>6, <1>13, <1>14 DEF marker, c

(* Where the characters of a text of length L stand in the new one, of      *)
(* length M, once those from a + 1 to b have become one marker: character   *)
(* b + k is at a + 1 + k.                                                   *)
Shifts(a, b, L, M) ==
    /\ a + 1 \in 1 .. M - 1 => 1 \in 1 .. L - b /\ b \in 1 .. L - 1 /\ b \in 1 .. b
    /\ \A n \in 1 .. M - 1 : n > a + 1 =>
          /\ n - (a + 1) \in 1 .. L - b /\ n - (a + 1) + 1 \in 1 .. L - b
          /\ n = a + 1 + (n - (a + 1)) /\ n + 1 = a + 1 + (n - (a + 1) + 1)
          /\ b + (n - (a + 1)) \in 1 .. L - 1
          /\ b + (n - (a + 1) + 1) = (b + (n - (a + 1))) + 1
    /\ \A F \in Nat : b <= F => \A m \in F + 1 .. L :
          /\ m - b \in 1 .. L - b /\ b + (m - b) = m
          /\ a + 1 + (m - b) \in a + 1 .. M

LEMMA Shift ==
  \A a, b, L, M \in Nat : a < b /\ b <= L /\ M = a + 1 + L - b => Shifts(a, b, L, M)
BY DEF Shifts

LEMMA ReplaceKeepsTextInv ==
  ASSUME IInv, MergeInv', Replace
  PROVE  TextInv'
<1> DEFINE u == FromTheRight
           c == clusters[u]
           marker == [lead |-> c.lead, from |-> c.start, to |-> c.end,
                      of |-> [n \in 1 .. c.end - c.start |-> c.start + n]]
           after == Len(text) - c.end
<1>1. /\ u \in DOMAIN clusters /\ c \in Cluster /\ c.start < c.end /\ c.end <= Frontier
      /\ Frontier' = c.start /\ text' \in Seq(Item) /\ Len(text') = c.start + 1 + Len(text) - c.end
      /\ \A n \in 1 .. c.start : text'[n] = Original[n]
      /\ text'[c.start + 1] = marker
      /\ \A n \in 1 .. Len(text) - c.end : text'[c.start + 1 + n] = text[c.end + n]
  BY ReplaceSplices
<1>2. /\ ~whole /\ Actionable \subseteq merged /\ replaced' = replaced + 1
      /\ UNCHANGED <<findings, whole, merged, clusters>>
  BY DEF Replace
<1>3. /\ text \in Seq(Item) /\ OffsetsHold /\ StringText
      /\ \A n \in DOMAIN text : text[n].lead # 0 => GoodMarker(text[n])
  BY <1>2 DEF IInv, TextInv
<1>4. /\ c.start \in Nat /\ c.end \in Nat /\ c.start \in 0 .. Length - 1 /\ c.end \in Chars
      /\ c.end <= Length /\ Length \in Nat
  BY <1>1, TransformerAssumption DEF Cluster, Chars
<1>5. Frontier \in Nat /\ Frontier <= Len(text) /\ Len(text) \in Nat /\ Frontier <= Length
  <2>1. CASE replaced = 0
    BY <2>1, <1>3, <1>4 DEF Frontier, StringText
  <2>2. CASE replaced # 0
    <3>1. u + 1 \in DOMAIN clusters /\ Frontier = clusters[u + 1].start
      BY <2>2, <1>1 DEF Frontier, FromTheRight, IInv, MergeInv, Types
    <3>2. clusters[u + 1] \in Cluster
      BY <3>1 DEF IInv, MergeInv, Types
    <3> QED BY <3>1, <3>2, <1>3, <1>4 DEF Cluster, StringText
  <2> QED BY <2>1, <2>2
<1>6. after \in Nat /\ Len(text') = c.start + 1 + after /\ Len(text') \in Nat
  BY <1>1, <1>4, <1>5
<1>20. /\ c.start \in Nat /\ c.end \in Nat /\ Length \in Nat /\ Len(text) \in Nat
      /\ Frontier \in Nat /\ after \in Nat /\ after = Len(text) - c.end
      /\ c.start < c.end /\ c.end <= Frontier /\ Frontier <= Len(text) /\ Frontier <= Length
      /\ Len(text') = c.start + 1 + after
  BY <1>1, <1>4, <1>5, <1>6
<1>21. Shifts(c.start, c.end, Len(text), Len(text'))
  <2>1. /\ c.start \in Nat /\ c.end \in Nat /\ Len(text) \in Nat /\ Len(text') \in Nat
        /\ c.start < c.end
    BY <1>20, <1>6
  <2>2. c.end <= Len(text)
    BY <1>20
  <2>3. Len(text') = c.start + 1 + Len(text) - c.end
    BY <1>1
  <2> HIDE DEF c
  <2> QED BY <2>1, <2>2, <2>3, Shift
<1>7. marker.from = c.start /\ marker.to = c.end /\ marker.lead = c.lead
  OBVIOUS
<1>8. GoodMarker(marker)
  <2>1. GoodExtent(c.lead, c.start, c.end)
    BY <1>1 DEF IInv, MergeInv, ClustersInv
  <2> QED BY <2>1 DEF GoodMarker, GoodExtent
<1> HIDE DEF marker, c, u, after
<1>9. ASSUME NEW n \in 1 .. Len(text')
      PROVE  \/ n \in 1 .. c.start
             \/ n = c.start + 1
             \/ \E k \in 1 .. after : n = c.start + 1 + k
  <2>1. CASE n > c.start + 1
    <3>1. n - (c.start + 1) \in 1 .. after
      BY <2>1, <1>4, <1>6
    <3> QED BY <3>1, <1>4
  <2> QED BY <2>1, <1>4, <1>6
<1>10. /\ \A k \in Chars : /\ Original[k].lead = 0 /\ Original[k].from = k - 1
                            /\ Original[k].to = k
       /\ \A k \in 1 .. c.end : k \in Chars /\ text[k] = Original[k]
  <2>1. \A k \in Chars : /\ Original[k].lead = 0 /\ Original[k].from = k - 1
                          /\ Original[k].to = k
    BY OriginalType
  <2>2. ASSUME NEW k \in 1 .. c.end PROVE k \in Chars /\ text[k] = Original[k]
    <3>1. k \in Chars
      BY <1>4 DEF Chars
    <3>2. k \in 1 .. Frontier
      BY <1>20
    <3> QED BY <3>1, <3>2, <1>3 DEF StringText
  <2> QED BY <2>1, <2>2
<1>11. OffsetsHold'
  <2>1. text' # <<>>
    BY <1>1, <1>6, <1>4
  <2>2. text'[1].from = 0
    <3>1. CASE c.start = 0
      BY <3>1, <1>1, <1>7
    <3>2. CASE c.start # 0
      <4>1. 1 \in 1 .. c.start /\ 1 \in Chars
        BY <3>2, <1>20 DEF Chars
      <4> QED BY <4>1, <1>1, <1>10
    <3> QED BY <3>1, <3>2
  <2>3. text'[Len(text')].to = Length
    <3>1. CASE after = 0
      <4>1. c.end = Len(text) /\ c.end \in 1 .. c.end
        BY <3>1, <1>1, <1>4, <1>5 DEF after
      <4>2. text[c.end].to = c.end /\ text[Len(text)].to = Length
        BY <4>1, <1>3, <1>4, <1>10 DEF OffsetsHold
      <4> QED BY <4>1, <4>2, <3>1, <1>1, <1>4, <1>6, <1>7
    <3>2. CASE after # 0
      <4>0. /\ after \in Nat /\ c.end \in Nat /\ Len(text) \in Nat
            /\ after = Len(text) - c.end
        BY <1>20
      <4>1. after \in 1 .. Len(text) - c.end /\ c.end + after = Len(text)
        BY <3>2, <4>0
      <4>2. text'[c.start + 1 + after] = text[c.end + after]
        BY <4>1, <1>1
      <4>3. text'[Len(text')] = text[Len(text)]
        BY <4>1, <4>2, <1>6
      <4> QED BY <4>3, <1>3 DEF OffsetsHold
    <3> QED BY <3>1, <3>2
  <2>4. ASSUME NEW n \in 1 .. Len(text') - 1 PROVE text'[n + 1].from = text'[n].to
    <3>1. CASE n < c.start
      <4>1. n \in 1 .. c.start /\ n + 1 \in 1 .. c.start /\ n \in Chars /\ n + 1 \in Chars
        BY <3>1, <1>4, <1>6 DEF Chars
      <4> QED BY <4>1, <1>1, <1>10
    <3>2. CASE n = c.start
      <4>1. n \in 1 .. c.start /\ n \in Chars
        BY <3>2, <1>4, <1>6 DEF Chars
      <4> QED BY <4>1, <3>2, <1>1, <1>7, <1>10
    <3>3. CASE n = c.start + 1
      <4>1. 1 \in 1 .. Len(text) - c.end /\ c.end \in 1 .. Len(text) - 1 /\ c.end \in 1 .. c.end
        BY <3>3, <2>4, <1>21 DEF Shifts
      <4>2. text'[n + 1] = text[c.end + 1]
        BY <4>1, <3>3, <1>1
      <4>3. text[c.end + 1].from = text[c.end].to /\ text[c.end].to = c.end
        BY <4>1, <1>3, <1>10 DEF OffsetsHold
      <4> QED BY <4>2, <4>3, <3>3, <1>1, <1>7
    <3>4. CASE n > c.start + 1
      <4> DEFINE k == n - (c.start + 1)
      <4>1. /\ k \in 1 .. Len(text) - c.end /\ k + 1 \in 1 .. Len(text) - c.end
            /\ n = c.start + 1 + k /\ n + 1 = c.start + 1 + (k + 1)
            /\ c.end + k \in 1 .. Len(text) - 1 /\ c.end + (k + 1) = (c.end + k) + 1
        BY <3>4, <2>4, <1>21 DEF Shifts
      <4> HIDE DEF k
      <4>2. text'[n] = text[c.end + k] /\ text'[n + 1] = text[(c.end + k) + 1]
        BY <4>1, <1>1
      <4> QED BY <4>1, <4>2, <1>3 DEF OffsetsHold
    <3>5. n < c.start \/ n = c.start \/ n = c.start + 1 \/ n > c.start + 1
      BY <1>4
    <3> QED BY <3>1, <3>2, <3>3, <3>4, <3>5
  <2> QED BY <2>1, <2>2, <2>3, <2>4 DEF OffsetsHold
<1>12. (\A n \in DOMAIN text : text[n].lead # 0 => GoodMarker(text[n]))'
  <2>1. ASSUME NEW n \in 1 .. Len(text'), text'[n].lead # 0 PROVE GoodMarker(text'[n])
    <3>1. CASE n \in 1 .. c.start
      <4>1. n \in Chars
        BY <3>1, <1>20 DEF Chars
      <4> QED BY <2>1, <3>1, <4>1, <1>1, <1>10
    <3>2. CASE n = c.start + 1
      BY <3>2, <1>1, <1>8
    <3>3. CASE \E k \in 1 .. after : n = c.start + 1 + k
      <4>1. PICK k \in 1 .. after : n = c.start + 1 + k
        BY <3>3
      <4>2. k \in 1 .. Len(text) - c.end /\ c.end + k \in DOMAIN text
        BY <4>1, <1>3, <1>4, <1>5, <1>6 DEF after
      <4> QED BY <4>1, <4>2, <2>1, <1>1, <1>3
    <3> QED BY <3>1, <3>2, <3>3, <1>9
  <2>2. DOMAIN text' = 1 .. Len(text')
    BY <1>1
  <2> QED BY <2>1, <2>2, <1>2 DEF GoodMarker, Crossed, Actionable
<1>13. StringText'
  <2>1. Frontier' <= Len(text')
    BY <1>1, <1>4, <1>6
  <2>2. \A k \in 1 .. Frontier' : text'[k] = Original'[k]
    BY <1>1 DEF Original
  <2>3. ASSUME NEW n \in u .. Len(clusters)
        PROVE  \E m \in c.start + 1 .. Len(text') : IsMarkerOf(text'[m], clusters[n])
    <3>1. CASE n = u
      <4>1. c.start + 1 \in c.start + 1 .. Len(text')
        BY <1>4, <1>6
      <4>2. IsMarkerOf(marker, c)
        BY <1>7 DEF IsMarkerOf
      <4> QED BY <4>1, <4>2, <3>1, <1>1 DEF c
    <3>2. CASE n # u
      <4>1. u \in Int /\ Len(clusters) \in Nat
        BY <1>1 DEF IInv, MergeInv, Types
      <4>2. n \in FromTheRight + 1 .. Len(clusters)
        BY <3>2, <4>1 DEF u
      <4>3. PICK m \in Frontier + 1 .. Len(text) : IsMarkerOf(text[m], clusters[n])
        BY <4>2, <1>3 DEF StringText
      <4> DEFINE k == m - c.end
      <4>4. k \in 1 .. Len(text) - c.end /\ c.end + k = m
            /\ c.start + 1 + k \in c.start + 1 .. Len(text')
        BY <4>3, <1>20, <1>21 DEF Shifts
      <4> HIDE DEF k
      <4>5. text'[c.start + 1 + k] = text[m]
        BY <4>4, <1>1
      <4> QED BY <4>3, <4>4, <4>5
    <3> QED BY <3>1, <3>2
  <2>4. FromTheRight' + 1 = u /\ clusters' = clusters
    BY <1>2 DEF u, FromTheRight, IInv, MergeInv, Types
  <2>5. (Actionable \subseteq merged)'
    BY <1>2 DEF Actionable
  <2> QED BY <2>1, <2>2, <2>3, <2>4, <2>5, <1>1 DEF StringText, IsMarkerOf
<1> QED BY <1>1, <1>2, <1>11, <1>12, <1>13 DEF TextInv

LEMMA InvStep == IInv /\ [Next]_vars => IInv'
<1> SUFFICES ASSUME IInv, [Next]_vars PROVE IInv'
  OBVIOUS
<1>1. ASSUME NEW i \in DOMAIN findings, Absorb(i) \/ OpenCluster(i) PROVE IInv'
  <2>1. MergeInv'
    BY <1>1, AbsorbKeepsMergeInv, OpenClusterKeepsMergeInv DEF IInv
  <2> QED BY <1>1, <2>1, MergeKeepsTextInv DEF IInv
<1>2. ASSUME Replace PROVE IInv'
  <2>1. MergeInv'
    <3>1. /\ UNCHANGED <<findings, whole, merged, clusters>>
          /\ replaced \in 0 .. Len(clusters) /\ replaced < Len(clusters)
          /\ replaced' = replaced + 1
      BY <1>2 DEF IInv, MergeInv, Types, Replace
    <3>2. replaced' \in 0 .. Len(clusters) /\ Types'
      BY <3>1 DEF IInv, MergeInv, Types
    <3>3. ClustersInv'
      BY <3>1 DEF IInv, MergeInv, ClustersInv, GoodExtent, Crossed, Actionable, Under, AsSevere
    <3> QED BY <3>2, <3>3 DEF MergeInv
  <2> QED BY <1>2, <2>1, ReplaceKeepsTextInv DEF IInv
<1>3. ASSUME ReplaceWhole PROVE IInv'
  <2>1. MergeInv'
    BY <1>3 DEF IInv, MergeInv, Types, ClustersInv, ReplaceWhole, GoodExtent, Crossed, Actionable,
              Under, AsSevere
  <2> QED BY <1>3, <2>1, ReplaceWholeKeepsTextInv DEF IInv
<1>4. ASSUME UNCHANGED vars PROVE IInv'
  <2>1. Types'
    BY <1>4 DEF vars, IInv, MergeInv, Types
  <2>2. ClustersInv'
    BY <1>4 DEF vars, IInv, MergeInv, ClustersInv, GoodExtent, Crossed, Actionable, Under, AsSevere
  <2>3. TextInv'
    BY <1>4 DEF vars, IInv, TextInv, OffsetsHold, GoodMarker, GoodExtent, Crossed, StringText,
                WholeText, Frontier, FromTheRight, IsMarkerOf, Outranks, Actionable
  <2> QED BY <2>1, <2>2, <2>3 DEF IInv, MergeInv
<1> QED BY <1>1, <1>2, <1>3, <1>4 DEF Next

LEMMA TransformerInvariant == Spec => []IInv
<1>1. Init => IInv
  BY MergeInvInit, TextInvInit DEF IInv
<1> QED BY <1>1, InvStep, PTL DEF Spec
-----------------------------------------------------------------------------
(* What follows from the invariant, for every Spec.                        *)

(* Type correctness: a cluster stays inside the leaf, and a replacement     *)
(* yields a sequence of characters and markers again.                       *)
THEOREM TransformerTypeCorrect == Spec => []TypeOK
<1>1. IInv => TypeOK
  BY DEF IInv, MergeInv, Types, ClustersInv, TextInv, TypeOK, Actionable
<1> QED BY <1>1, TransformerInvariant, PTL

(* transform_text, from the right to the left, never shifts the offsets of  *)
(* a replacement it has still to make, for a text of any length.            *)
THEOREM TransformerOffsetsHold == Spec => []OffsetsHold
<1>1. IInv => OffsetsHold
  BY DEF IInv, TextInv
<1> QED BY <1>1, TransformerInvariant, PTL

(* token_for and partial_mask get the characters the leaf came with.        *)
THEOREM TransformerMarkersOfOriginals == Spec => []MarkersOfOriginals
<1>1. IInv => MarkersOfOriginals
  BY DEF IInv, TextInv, MarkersOfOriginals, Markers, GoodMarker
<1> QED BY <1>1, TransformerInvariant, PTL

(* merge_clusters never hides what no finding accounts for: for every set   *)
(* of findings.                                                             *)
THEOREM TransformerHidesNothingElse == Spec => []NothingElseHidden
<1>1. IInv => NothingElseHidden
  BY DEF IInv, TextInv, NothingElseHidden, Markers, GoodMarker, Crossed
<1> QED BY <1>1, TransformerInvariant, PTL

(* The finished leaf has every detected value under a marker at least as    *)
(* severe as its rule, whatever the findings, their number and their order. *)
THEOREM TransformerHidesTheSeverest == Spec => []SeverestHides
<1>1. ASSUME IInv, Finished, NEW i \in Actionable
      PROVE  \E m \in Markers :
                 /\ m.from <= findings[i].start /\ findings[i].end <= m.to
                 /\ SEVERITY[findings[m.lead].action] >= SEVERITY[findings[i].action]
  <2>1. CASE whole
    <3>1. text # Original
      BY <1>1, <2>1, OriginalType DEF Finished, Markers
    <3>2. PICK j \in Actionable :
              /\ ~Outranks(i, j)
              /\ text = <<[lead |-> j, from |-> 0, to |-> Length,
                           of |-> [n \in 1 .. Length |-> n]]>>
      BY <1>1, <2>1, <3>1 DEF IInv, TextInv, WholeText
    <3>3. /\ j # 0
          /\ findings[i].start \in 0 .. Length - 1 /\ findings[i].end \in Chars
          /\ SEVERITY[findings[i].action] \in Nat /\ SEVERITY[findings[j].action] \in Nat
      BY <1>1, FindingType DEF IInv, MergeInv
    <3>4. text[1] \in Markers
      <4>1. 1 \in DOMAIN text /\ text[1].lead = j
        BY <3>2
      <4> QED BY <4>1, <3>3, Zenon DEF Markers
    <3>5. SEVERITY[findings[j].action] >= SEVERITY[findings[i].action]
      <4>1. ~(SEVERITY[findings[i].action] > SEVERITY[findings[j].action])
        BY <3>2 DEF Outranks
      <4> QED BY <4>1, <3>3
    <3>6. text[1].lead = j /\ text[1].from = 0 /\ text[1].to = Length
      BY <3>2
    <3>7. 0 <= findings[i].start /\ findings[i].end <= Length
      BY <3>3, TransformerAssumption DEF Chars
    <3>8. /\ text[1].from <= findings[i].start /\ findings[i].end <= text[1].to
          /\ SEVERITY[findings[text[1].lead].action] >= SEVERITY[findings[i].action]
      BY <3>5, <3>6, <3>7
    <3> QED BY <3>4, <3>8
  <2>2. CASE ~whole
    <3>1. i \in merged /\ replaced = Len(clusters)
      BY <1>1, <2>2 DEF Finished
    <3>2. PICK n \in DOMAIN clusters : Under(i, clusters[n]) /\ AsSevere(clusters[n].lead, i)
      BY <1>1, <3>1 DEF IInv, MergeInv, ClustersInv
    <3>3. n \in FromTheRight + 1 .. Len(clusters)
      BY <1>1, <3>1 DEF FromTheRight, IInv, MergeInv, Types
    <3>4. PICK m \in Frontier + 1 .. Len(text) : IsMarkerOf(text[m], clusters[n])
      BY <1>1, <2>2, <3>3 DEF IInv, TextInv, StringText
    <3>5. clusters[n] \in Cluster
      BY <1>1 DEF IInv, MergeInv, Types
    <3>6. m \in DOMAIN text
      <4>1. CASE replaced = 0
        BY <4>1, <1>1, TransformerAssumption DEF Frontier, IInv, TextInv
      <4>2. CASE replaced # 0
        <5>1. 1 \in DOMAIN clusters /\ Frontier = clusters[1].start
          BY <4>2, <1>1, <3>1 DEF Frontier, FromTheRight, IInv, MergeInv, Types
        <5>2. clusters[1] \in Cluster
          BY <5>1, <1>1 DEF IInv, MergeInv, Types
        <5> QED BY <5>1, <5>2, <1>1, TransformerAssumption DEF Cluster, IInv, TextInv
      <4> QED BY <4>1, <4>2
    <3>7. text[m].lead # 0
      BY <3>4, <3>5 DEF IsMarkerOf, Cluster
    <3>8. text[m] \in Markers
      BY <3>6, <3>7 DEF Markers
    <3> QED BY <3>2, <3>4, <3>8 DEF IsMarkerOf, Under, AsSevere
  <2> QED BY <2>1, <2>2
<1>2. IInv => SeverestHides
  BY <1>1 DEF SeverestHides
<1> QED BY <1>2, TransformerInvariant, PTL

-----------------------------------------------------------------------------
(* The checksums.                                                          *)

(* What the table _D multiplies: the symmetries of a pentagon, a rotation a,*)
(* or for a >= 5 the reflection a - 5.                                      *)
Plus5(x, y) == IF x + y < 5 THEN x + y ELSE x + y - 5
Minus5(x, y) == IF x < y THEN x - y + 5 ELSE x - y
Dihedral(a, b) ==
    IF a < 5
      THEN IF b < 5 THEN Plus5(a, b) ELSE 5 + Plus5(a, b - 5)
      ELSE IF b < 5 THEN 5 + Minus5(a - 5, b) ELSE Minus5(a - 5, b - 5)

(* The hundred numbers of _D, row by row, are that product. *)
LEMMA TableIsDihedral ==
  ASSUME NEW a \in Digits, NEW b \in Digits
  PROVE  D[a + 1][b + 1] = Dihedral(a, b)
<1> USE DEF Digits, D, Dihedral, Plus5, Minus5
<1>0. CASE a = 0
  BY <1>0
<1>1. CASE a = 1
  BY <1>1
<1>2. CASE a = 2
  BY <1>2
<1>3. CASE a = 3
  BY <1>3
<1>4. CASE a = 4
  BY <1>4
<1>5. CASE a = 5
  BY <1>5
<1>6. CASE a = 6
  BY <1>6
<1>7. CASE a = 7
  BY <1>7
<1>8. CASE a = 8
  BY <1>8
<1>9. CASE a = 9
  BY <1>9
<1> QED
  BY <1>0, <1>1, <1>2, <1>3, <1>4, <1>5, <1>6, <1>7, <1>8, <1>9 DEF Digits

LEMMA DihedralType ==
  ASSUME NEW a \in Digits, NEW b \in Digits
  PROVE  Dihedral(a, b) \in Digits
  BY DEF Digits, Dihedral, Plus5, Minus5

(* A group: associative, each factor cancels, and _INV holds the inverses. *)
LEMMA DihedralAssociative ==
  ASSUME NEW a \in Digits, NEW b \in Digits, NEW c \in Digits
  PROVE  Dihedral(Dihedral(a, b), c) = Dihedral(a, Dihedral(b, c))
  BY DEF Digits, Dihedral, Plus5, Minus5

LEMMA DihedralCancel ==
  ASSUME NEW a \in Digits, NEW b \in Digits, NEW c \in Digits
  PROVE  /\ Dihedral(a, c) = Dihedral(b, c) => a = b
         /\ Dihedral(c, a) = Dihedral(c, b) => a = b
  BY DEF Digits, Dihedral, Plus5, Minus5

LEMMA CheckDigitIsInverse ==
  ASSUME NEW a \in Digits, NEW b \in Digits
  PROVE  Dihedral(a, b) = 0 <=> a = CheckDigit(b)
  BY DEF Digits, Dihedral, Plus5, Minus5, CheckDigit, INV

LEMMA PermutedType ==
  ASSUME NEW i \in Nat, NEW d \in Digits
  PROVE  Permuted(i, d) \in Digits
<1>1. i % 8 \in 0 .. 7
  OBVIOUS
<1> QED
  BY <1>1 DEF Permuted, P, Digits

LEMMA PermutedInjective ==
  ASSUME NEW i \in 0 .. 7, NEW d \in Digits, NEW e \in Digits, d # e
  PROVE  Permuted(i, d) # Permuted(i, e)
<1>1. i % 8 = i
  OBVIOUS
<1> QED
  BY <1>1 DEF Permuted, P, Digits

(* The choice of _P that makes Verhoeff's scheme work: nowhere, not at the  *)
(* wrap from 7 to 0 either, do two different neighbours give the same when  *)
(* they change places.                                                      *)
LEMMA NeighboursDoNotCommute ==
  ASSUME NEW i \in 0 .. 7, NEW d \in Digits, NEW e \in Digits, d # e
  PROVE  Dihedral(Permuted(i, d), Permuted(i + 1, e)) # Dihedral(Permuted(i, e), Permuted(i + 1, d))
<1>0. CASE i = 0
  BY <1>0 DEF Permuted, P, Digits, Dihedral, Plus5, Minus5
<1>1. CASE i = 1
  BY <1>1 DEF Permuted, P, Digits, Dihedral, Plus5, Minus5
<1>2. CASE i = 2
  BY <1>2 DEF Permuted, P, Digits, Dihedral, Plus5, Minus5
<1>3. CASE i = 3
  BY <1>3 DEF Permuted, P, Digits, Dihedral, Plus5, Minus5
<1>4. CASE i = 4
  BY <1>4 DEF Permuted, P, Digits, Dihedral, Plus5, Minus5
<1>5. CASE i = 5
  BY <1>5 DEF Permuted, P, Digits, Dihedral, Plus5, Minus5
<1>6. CASE i = 6
  BY <1>6 DEF Permuted, P, Digits, Dihedral, Plus5, Minus5
<1>7. CASE i = 7
  BY <1>7 DEF Permuted, P, Digits, Dihedral, Plus5, Minus5
<1> QED
  BY <1>0, <1>1, <1>2, <1>3, <1>4, <1>5, <1>6, <1>7

(* What luhn_valid adds to the total for the digit d at position i. *)
Doubled(i, d) == LET e == IF i % 2 = 1 THEN d * 2 ELSE d IN IF e > 9 THEN e - 9 ELSE e

LEMMA DoubledType ==
  ASSUME NEW i \in Nat, NEW d \in Digits
  PROVE  Doubled(i, d) \in Digits
  BY DEF Digits, Doubled

LEMMA DoubledInjective ==
  ASSUME NEW i \in Nat, NEW d \in Digits, NEW e \in Digits, d # e
  PROVE  Doubled(i, d) # Doubled(i, e)
  BY DEF Digits, Doubled

(* The total modulo 10 moves by that, or by ten less. *)
LEMMA LuhnTurn ==
  ASSUME NEW t \in Digits, NEW i \in Nat, NEW d \in Digits
  PROVE  /\ Luhn(t, i, d) \in Digits
         /\ Luhn(t, i, d) \in {t + Doubled(i, d), t + Doubled(i, d) - 10}
<1> DEFINE e == Doubled(i, d)
<1>1. e \in Digits /\ Luhn(t, i, d) = (t + e) % 10
  BY DoubledType DEF Luhn, Doubled
<1> HIDE DEF e
<1>2. (t + e) % 10 = IF t + e < 10 THEN t + e ELSE t + e - 10
  BY <1>1 DEF Digits
<1> QED
  BY <1>1, <1>2 DEF Digits, e

(* The types, which no run asks of the model. *)
DigitTypes ==
    /\ algorithm \in {"verhoeff", "luhn"}
    /\ pos \in 0 .. 7
    /\ length \in 0 .. 2
    /\ issued \in Digits /\ typed \in Digits
    /\ last \in Digits /\ rest \in Digits
    /\ mistake \in {"none", "digit", "swap", "swap09"}

(* What the loops have computed differs as soon as there is a slip, and     *)
(* stays different, but for Luhn after 09 for 90.                           *)
SlipShows ==
    /\ mistake = "none" => issued = typed
    /\ mistake \in {"digit", "swap"} => issued # typed
    /\ mistake = "swap09" /\ algorithm = "verhoeff" => issued # typed

(* The last digit is read first and can be split off: what the number comes *)
(* to is it, times what verhoeff_check_digit computes of the others.        *)
LastApart ==
    /\ length = 0 => pos = 0 /\ issued = 0
    /\ algorithm = "verhoeff" /\ length > 0 => issued = Dihedral(last, rest)

(* The inductive invariant: OneCheckDigit needs the last part, the slips the others. *)
DigitsInv == DigitTypes /\ SlipShows /\ LastApart

LEMMA VerhoeffTurn ==
  ASSUME NEW c \in Digits, NEW i \in Nat, NEW d \in Digits
  PROVE  /\ Verhoeff(c, i, d) = Dihedral(c, Permuted(i, d))
         /\ Verhoeff(c, i, d) \in Digits
  BY PermutedType, TableIsDihedral, DihedralType DEF Verhoeff

LEMMA TurnType ==
  ASSUME NEW c \in Digits, NEW i \in Nat, NEW d \in Digits
  PROVE  Turn(c, i, d) \in Digits
  BY VerhoeffTurn, LuhnTurn DEF Turn

(* One turn of either loop loses nothing: from other states, or with another*)
(* digit, it ends in another state.                                         *)
LEMMA TurnTells ==
  ASSUME NEW b \in Digits, NEW c \in Digits, NEW i \in 0 .. 7,
         NEW d \in Digits, NEW e \in Digits
  PROVE  /\ b # c => Turn(b, i, d) # Turn(c, i, d)
         /\ d # e => Turn(b, i, d) # Turn(b, i, e)
<1>1. CASE algorithm = "verhoeff"
  <2>1. Permuted(i, d) \in Digits /\ Permuted(i, e) \in Digits
    BY PermutedType
  <2>2. d # e => Permuted(i, d) # Permuted(i, e)
    BY PermutedInjective
  <2> QED
    BY <1>1, <2>1, <2>2, VerhoeffTurn, DihedralCancel DEF Turn
<1>2. CASE algorithm # "verhoeff"
  <2>1. Doubled(i, d) \in Digits /\ Doubled(i, e) \in Digits
    BY DoubledType
  <2>2. d # e => Doubled(i, d) # Doubled(i, e)
    BY DoubledInjective
  <2>3. /\ Luhn(b, i, d) \in {b + Doubled(i, d), b + Doubled(i, d) - 10}
        /\ Luhn(c, i, d) \in {c + Doubled(i, d), c + Doubled(i, d) - 10}
        /\ Luhn(b, i, e) \in {b + Doubled(i, e), b + Doubled(i, e) - 10}
        /\ Luhn(b, i, d) \in Digits /\ Luhn(c, i, d) \in Digits /\ Luhn(b, i, e) \in Digits
    BY LuhnTurn
  <2> QED
    BY <1>2, <2>1, <2>2, <2>3 DEF Turn, Digits
<1> QED
  BY <1>1, <1>2

(* Nor do two turns with the two digits swapped end in the same state. *)
LEMMA SwapTells ==
  ASSUME NEW c \in Digits, NEW i \in 0 .. 7, NEW d \in Digits, NEW e \in Digits, d # e,
         algorithm = "verhoeff" \/ {d, e} # {0, 9}
  PROVE  Turn(Turn(c, i, d), i + 1, e) # Turn(Turn(c, i, e), i + 1, d)
<1>0. i + 1 \in Nat
  OBVIOUS
<1>1. CASE algorithm = "verhoeff"
  <2> DEFINE a1 == Permuted(i, d)
             b1 == Permuted(i, e)
             a2 == Permuted(i + 1, d)
             b2 == Permuted(i + 1, e)
  <2>1. a1 \in Digits /\ b1 \in Digits /\ a2 \in Digits /\ b2 \in Digits
    BY <1>0, PermutedType
  <2>2. Dihedral(a1, b2) # Dihedral(b1, a2)
    BY NeighboursDoNotCommute
  <2>3. /\ Turn(Turn(c, i, d), i + 1, e) = Dihedral(Dihedral(c, a1), b2)
        /\ Turn(Turn(c, i, e), i + 1, d) = Dihedral(Dihedral(c, b1), a2)
    BY <1>0, <1>1, VerhoeffTurn DEF Turn
  <2> HIDE DEF a1, b1, a2, b2
  <2>4. /\ Dihedral(Dihedral(c, a1), b2) = Dihedral(c, Dihedral(a1, b2))
        /\ Dihedral(Dihedral(c, b1), a2) = Dihedral(c, Dihedral(b1, a2))
    BY <2>1, DihedralAssociative
  <2>5. Dihedral(a1, b2) \in Digits /\ Dihedral(b1, a2) \in Digits
    BY <2>1, DihedralType
  <2> QED
    BY <2>2, <2>3, <2>4, <2>5, DihedralCancel
<1>2. CASE algorithm # "verhoeff" /\ {d, e} # {0, 9}
  <2>1. PICK x \in Digits : x = Luhn(c, i, d)
    BY LuhnTurn
  <2>2. PICK y \in Digits : y = Luhn(c, i, e)
    BY LuhnTurn
  <2>3. /\ x \in {c + Doubled(i, d), c + Doubled(i, d) - 10}
        /\ y \in {c + Doubled(i, e), c + Doubled(i, e) - 10}
        /\ Luhn(x, i + 1, e) \in {x + Doubled(i + 1, e), x + Doubled(i + 1, e) - 10}
        /\ Luhn(y, i + 1, d) \in {y + Doubled(i + 1, d), y + Doubled(i + 1, d) - 10}
    BY <1>0, <2>1, <2>2, LuhnTurn
  <2>4. /\ Doubled(i, d) + Doubled(i + 1, e) # Doubled(i, e) + Doubled(i + 1, d)
        /\ Doubled(i, d) + Doubled(i + 1, e) # Doubled(i, e) + Doubled(i + 1, d) + 10
        /\ Doubled(i, d) + Doubled(i + 1, e) # Doubled(i, e) + Doubled(i + 1, d) - 10
    <3>1. ~(d = 0 /\ e = 9) /\ ~(d = 9 /\ e = 0)
      BY <1>2
    <3>2. \/ i % 2 = 1 /\ (i + 1) % 2 = 0
          \/ i % 2 = 0 /\ (i + 1) % 2 = 1
      OBVIOUS
    <3> QED
      BY <3>1, <3>2 DEF Doubled, Digits
  <2>5. /\ Doubled(i, d) \in Digits /\ Doubled(i, e) \in Digits
        /\ Doubled(i + 1, d) \in Digits /\ Doubled(i + 1, e) \in Digits
    BY <1>0, DoubledType
  <2>6. Luhn(x, i + 1, e) # Luhn(y, i + 1, d)
    <3> DEFINE dh == Doubled(i, d)
               eh == Doubled(i, e)
               di == Doubled(i + 1, d)
               ei == Doubled(i + 1, e)
    <3>1. dh \in 0 .. 9 /\ eh \in 0 .. 9 /\ di \in 0 .. 9 /\ ei \in 0 .. 9 /\ c \in 0 .. 9
      BY <2>5 DEF Digits
    <3>2. PICK u \in Int : u = Luhn(x, i + 1, e) /\ u \in {x + ei, x + ei - 10}
      BY <2>1, <2>3, <2>5 DEF Digits
    <3>3. PICK v \in Int : v = Luhn(y, i + 1, d) /\ v \in {y + di, y + di - 10}
      BY <2>2, <2>3, <2>5 DEF Digits
    <3>4. /\ x \in {c + dh, c + dh - 10} /\ y \in {c + eh, c + eh - 10}
          /\ dh + ei # eh + di /\ dh + ei # eh + di + 10 /\ dh + ei # eh + di - 10
      BY <2>3, <2>4
    <3> HIDE DEF dh, eh, di, ei
    <3>5. u # v
      BY ONLY <3>1, <3>2, <3>3, <3>4
    <3> QED
      BY <3>2, <3>3, <3>5
  <2> QED
    BY <1>2, <2>1, <2>2, <2>6 DEF Turn
<1> QED
  BY <1>1, <1>2

LEMMA DigitsInit == Unread => DigitsInv
  BY DEF Unread, DigitsInv, DigitTypes, SlipShows, LastApart, Digits

(* What Advance leaves behind. *)
LEMMA AdvanceTypes ==
  ASSUME DigitTypes, NEW n \in 1 .. 2, NEW d \in Digits, Advance(n, d)
  PROVE  /\ algorithm' = algorithm
         /\ pos' \in 0 .. 7 /\ length' \in 1 .. 2 /\ last' \in Digits
         /\ last' = IF length = 0 THEN d ELSE last
<1>1. (pos + n) % 8 \in 0 .. 7
  BY DEF DigitTypes
<1> QED
  BY <1>1 DEF DigitTypes, Advance

(* LastApart through one more digit of the number that was issued. *)
LEMMA LastApartTurn ==
  ASSUME DigitTypes, LastApart, NEW d \in Digits, algorithm = "verhoeff"
  PROVE  LET r == IF length = 0 THEN 0 ELSE Verhoeff(rest, pos, d)
         IN  /\ r \in Digits
             /\ Turn(issued, pos, d) = Dihedral(IF length = 0 THEN d ELSE last, r)
<1>0. /\ pos \in Nat /\ issued \in Digits /\ last \in Digits /\ rest \in Digits
  BY DEF DigitTypes
<1>1. CASE length = 0
  <2>1. Permuted(0, d) = d
    BY DEF Permuted, P, Digits
  <2>2. Turn(issued, pos, d) = Dihedral(0, d)
    BY <1>0, <1>1, <2>1, VerhoeffTurn DEF LastApart, Turn
  <2>3. Dihedral(0, d) = d /\ Dihedral(d, 0) = d /\ 0 \in Digits
    BY DEF Dihedral, Plus5, Minus5, Digits
  <2> QED
    BY <1>1, <2>2, <2>3
<1>2. CASE length # 0
  <2>1. issued = Dihedral(last, rest)
    BY <1>2 DEF LastApart, DigitTypes
  <2>2. PICK x \in Digits : x = Permuted(pos, d)
    BY <1>0, PermutedType
  <2>3. Turn(issued, pos, d) = Dihedral(Dihedral(last, rest), x)
    BY <1>0, <2>1, <2>2, VerhoeffTurn DEF Turn
  <2>4. Verhoeff(rest, pos, d) = Dihedral(rest, x) /\ Verhoeff(rest, pos, d) \in Digits
    BY <1>0, <2>2, VerhoeffTurn
  <2>5. Dihedral(Dihedral(last, rest), x) = Dihedral(last, Dihedral(rest, x))
    BY <1>0, DihedralAssociative
  <2> QED
    BY <1>2, <2>3, <2>4, <2>5
<1> QED
  BY <1>1, <1>2

LEMMA DigitsNext == DigitsInv /\ [NextDigits]_digitVars => DigitsInv'
<1> SUFFICES ASSUME DigitsInv, [NextDigits]_digitVars PROVE DigitsInv'
  OBVIOUS
<1>0. /\ DigitTypes /\ SlipShows /\ LastApart
      /\ 1 \in 1 .. 2 /\ 2 \in 1 .. 2
      /\ pos \in 0 .. 7 /\ pos \in Nat /\ pos + 1 \in Nat
      /\ issued \in Digits /\ typed \in Digits /\ rest \in Digits
  BY DEF DigitsInv, DigitTypes
(* What the three kinds of reading have in common. *)
<1>a. ASSUME NEW n \in 1 .. 2, NEW d \in Digits, Advance(n, d),
             NEW c \in Digits, issued' = c, typed' \in Digits,
             rest' \in Digits, mistake' \in {"none", "digit", "swap", "swap09"},
             algorithm = "verhoeff" => c = Dihedral(last', rest'),
             SlipShows'
      PROVE  DigitsInv'
  <2>1. /\ algorithm' = algorithm
        /\ pos' \in 0 .. 7 /\ length' \in 1 .. 2 /\ last' \in Digits
    BY <1>0, <1>a, AdvanceTypes
  <2> QED
    BY <1>0, <1>a, <2>1 DEF DigitsInv, DigitTypes, LastApart
<1>1. ASSUME NEW d \in Digits, Read(d)
      PROVE  DigitsInv'
  <2>1. /\ issued' = Turn(issued, pos, d) /\ typed' = Turn(typed, pos, d)
        /\ rest' = IF length = 0 THEN 0 ELSE Verhoeff(rest, pos, d)
        /\ Advance(1, d) /\ mistake' = mistake
    BY <1>1 DEF Read
  <2>2. last' = IF length = 0 THEN d ELSE last
    BY <1>0, <2>1, AdvanceTypes
  <2>3. algorithm = "verhoeff" => issued' = Dihedral(last', rest')
    BY <1>0, <2>1, <2>2, LastApartTurn
  <2>4. rest' \in Digits
    BY <1>0, <2>1, VerhoeffTurn DEF Digits
  <2>5. issued' \in Digits /\ typed' \in Digits
    BY <1>0, <2>1, TurnType
  <2>6. SlipShows'
    BY <1>0, <2>1, TurnTells DEF SlipShows, Advance
  <2> QED
    BY <1>0, <1>a, <2>1, <2>3, <2>4, <2>5, <2>6 DEF DigitTypes
<1>2. ASSUME NEW d \in Digits, NEW e \in Digits, Mistype(d, e)
      PROVE  DigitsInv'
  <2>1. /\ issued' = Turn(issued, pos, d) /\ typed' = Turn(typed, pos, e)
        /\ rest' = IF length = 0 THEN 0 ELSE Verhoeff(rest, pos, d)
        /\ Advance(1, d) /\ mistake = "none" /\ mistake' = "digit" /\ d # e
    BY <1>2 DEF Mistype
  <2>2. last' = IF length = 0 THEN d ELSE last
    BY <1>0, <2>1, AdvanceTypes
  <2>3. algorithm = "verhoeff" => issued' = Dihedral(last', rest')
    BY <1>0, <2>1, <2>2, LastApartTurn
  <2>4. rest' \in Digits
    BY <1>0, <2>1, VerhoeffTurn DEF Digits
  <2>5. issued' \in Digits /\ typed' \in Digits
    BY <1>0, <2>1, TurnType
  <2>6. SlipShows'
    BY <1>0, <2>1, TurnTells DEF SlipShows
  <2> QED
    BY <1>0, <1>a, <2>1, <2>3, <2>4, <2>5, <2>6
<1>3. ASSUME NEW d \in Digits, NEW e \in Digits, Swap(d, e)
      PROVE  DigitsInv'
  <2>1. /\ issued' = Turn(Turn(issued, pos, d), pos + 1, e)
        /\ typed' = Turn(Turn(typed, pos, e), pos + 1, d)
        /\ rest' = Verhoeff(IF length = 0 THEN 0 ELSE Verhoeff(rest, pos, d), pos + 1, e)
        /\ Advance(2, d) /\ mistake = "none" /\ d # e
        /\ mistake' = IF {d, e} = {0, 9} THEN "swap09" ELSE "swap"
    BY <1>3 DEF Swap
  <2>2. last' = IF length = 0 THEN d ELSE last
    BY <1>0, <2>1, AdvanceTypes
  <2>3. PICK r \in Digits : r = IF length = 0 THEN 0 ELSE Verhoeff(rest, pos, d)
    BY <1>0, VerhoeffTurn DEF Digits
  <2>4. rest' = Verhoeff(r, pos + 1, e) /\ rest' \in Digits
    BY <1>0, <2>1, <2>3, VerhoeffTurn
  <2>5. issued' \in Digits /\ typed' \in Digits
    BY <1>0, <2>1, TurnType
  <2>6. ASSUME algorithm = "verhoeff" PROVE issued' = Dihedral(last', rest')
    <3>1. PICK x \in Digits : x = Permuted(pos + 1, e)
      BY <1>0, PermutedType
    <3>2. last' \in Digits
      BY <1>0, <2>2 DEF DigitTypes
    <3>3. Turn(issued, pos, d) = Dihedral(last', r)
      BY <1>0, <2>2, <2>3, <2>6, LastApartTurn
    <3>4. issued' = Dihedral(Dihedral(last', r), x)
      <4>1. PICK c \in Digits : c = Turn(issued, pos, d)
        BY <1>0, TurnType
      <4>2. issued' = Verhoeff(c, pos + 1, e)
        BY <2>1, <2>6, <4>1 DEF Turn
      <4> QED
        BY <1>0, <3>1, <3>3, <4>1, <4>2, VerhoeffTurn
    <3>5. rest' = Dihedral(r, x)
      BY <1>0, <2>4, <3>1, VerhoeffTurn
    <3> QED
      BY <3>2, <3>4, <3>5, DihedralAssociative
  <2>7. SlipShows'
    <3>1. issued = typed
      BY <1>0, <2>1 DEF SlipShows
    <3>2. algorithm = "verhoeff" \/ {d, e} # {0, 9} => issued' # typed'
      BY <1>0, <2>1, <3>1, SwapTells
    <3>3. algorithm' = algorithm
      BY <2>1 DEF Advance
    <3> QED
      BY <2>1, <3>2, <3>3 DEF SlipShows
  <2> QED
    BY <1>0, <1>a, <2>1, <2>4, <2>5, <2>6, <2>7
<1>4. CASE UNCHANGED digitVars
  BY <1>4 DEF digitVars, DigitsInv, DigitTypes, SlipShows, LastApart
<1> QED
  BY <1>1, <1>2, <1>3, <1>4 DEF NextDigits

(* DigitsInv, for numbers of every length. *)
THEOREM ChecksumInvariance == ChecksumSpec => []DigitsInv
  BY DigitsInit, DigitsNext, PTL DEF ChecksumSpec

(* Of a valid number no slip makes another valid one, however long it is,   *)
(* but 09 for 90 under Luhn.                                                *)
THEOREM EveryMistakeCaught == ChecksumSpec => []MistakesCaught
<1>1. DigitsInv => MistakesCaught
  BY DEF DigitsInv, DigitTypes, SlipShows, MistakesCaught, Valid
<1> QED
  BY <1>1, ChecksumInvariance, PTL

(* verhoeff_valid accepts exactly the numbers that end in what              *)
(* verhoeff_check_digit returns of the digits before.                       *)
THEOREM CheckDigitIsTheOnlyOne == ChecksumSpec => []OneCheckDigit
<1>1. ASSUME DigitsInv, algorithm = "verhoeff", length > 0
      PROVE  Valid(issued) <=> last = CheckDigit(rest)
  <2>1. last \in Digits /\ rest \in Digits /\ length >= 1 /\ issued = Dihedral(last, rest)
    BY <1>1 DEF DigitsInv, DigitTypes, LastApart
  <2>2. Valid(issued) <=> issued = 0
    BY <1>1, <2>1 DEF Valid
  <2> QED
    BY <2>1, <2>2, CheckDigitIsInverse
<1>2. DigitsInv => OneCheckDigit
  BY <1>1 DEF OneCheckDigit
<1> QED
  BY <1>2, ChecksumInvariance, PTL
=============================================================================
