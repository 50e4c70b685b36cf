---------------------------- MODULE Transformer ----------------------------
(***************************************************************************)
(* Rewriting one leaf, transform/transformer.py.  A leaf is a text of      *)
(* Length characters, here the numbers 1 .. Length, in which detectors     *)
(* found spans; each finding carries the action its rule resolved to.      *)
(* merge_clusters takes the findings by start and clusters what overlaps,  *)
(* transform_text replaces the clusters from the right to the left, each   *)
(* by one marker.  A marker remembers the characters token_for or          *)
(* partial_mask were given for it.  A leaf that is no string is replaced   *)
(* as a whole (transform_whole_value).                                     *)
(*                                                                         *)
(* Offsets are Python's: a span covers the characters start + 1 .. end.    *)
(* No span is empty; the engine pins one on an empty text, alone there.    *)
(***************************************************************************)
EXTENDS Integers, Sequences

CONSTANTS
    Length,       \* characters of the leaf's text
    Actions,      \* the actions findings have here, from the domain of SEVERITY
    Confidences,  \* the confidences detectors report
    MaxFindings   \* bound: findings on the leaf

SEVERITY == [allow |-> 0, partial_mask |-> 1, mask |-> 2,
             tokenize |-> 3, redact |-> 4, block |-> 5]

ASSUME TransformerAssumption ==
    /\ Length \in Nat \ {0}
    /\ MaxFindings \in Nat
    /\ Confidences \subseteq Nat
    /\ Actions \subseteq DOMAIN SEVERITY

VARIABLES
    findings,  \* the findings on the leaf, in the order the engine made them
    whole,     \* is the leaf no string?
    merged,    \* the findings merge_clusters has dealt with
    clusters,  \* the clusters so far, by start
    replaced,  \* how many of them transform_text has replaced
    text       \* the leaf so far, a sequence of characters and markers

vars == <<findings, whole, merged, clusters, replaced, text>>

Chars == 1 .. Length

Finding ==
    {f \in [start : 0 .. Length - 1, end : Chars, action : Actions, conf : Confidences] :
        f.start < f.end}

Cluster == [start : 0 .. Length - 1, end : Chars, lead : 1 .. MaxFindings]

(* One character of the text, with lead 0, or the marker of a cluster. *)
Item == [lead : 0 .. MaxFindings, from : 0 .. Length - 1, to : Chars, of : Seq(Chars)]

TypeOK ==
    /\ findings \in Seq(Finding)
    /\ Len(findings) <= MaxFindings
    /\ whole \in BOOLEAN
    /\ merged \subseteq DOMAIN findings
    /\ clusters \in Seq(Cluster)
    /\ replaced \in 0 .. Len(clusters)
    /\ text \in Seq(Item)

-----------------------------------------------------------------------------
Original == [k \in Chars |-> [lead |-> 0, from |-> k - 1, to |-> k, of |-> <<k>>]]

Actionable == {i \in DOMAIN findings : findings[i].action # "allow"}

(* Slip: the confidence first. *)
OutranksByConfidence(i, j) ==
    LET f == findings[i]
        g == findings[j]
    IN  \/ f.conf > g.conf
        \/ f.conf = g.conf /\ SEVERITY[f.action] > SEVERITY[g.action]

(* _rank(f) > _rank(g): the severer action, then the higher confidence. *)
Outranks(i, j) ==
    LET f == findings[i]
        g == findings[j]
    IN  \/ SEVERITY[f.action] > SEVERITY[g.action]
        \/ SEVERITY[f.action] = SEVERITY[g.action] /\ f.conf > g.conf

(* sorted(..., key=start) is stable: i comes before j. *)
Before(i, j) ==
    \/ findings[i].start < findings[j].start
    \/ findings[i].start = findings[j].start /\ i < j

(* The finding merge_clusters takes next. *)
IsNext(i) ==
    /\ i \in Actionable \ merged
    /\ \A j \in Actionable \ merged : j = i \/ Before(i, j)

LastEnd == IF clusters = <<>> THEN 0 ELSE clusters[Len(clusters)].end

(* Slip: touching spans count as overlapping. *)
OverlapsOrTouches(i) == clusters # <<>> /\ findings[i].start <= LastEnd

Overlaps(i) == clusters # <<>> /\ findings[i].start < LastEnd

(* Slip: ends counted inclusively. *)
EndPastIt(i) == IF findings[i].end > LastEnd THEN findings[i].end + 1 ELSE LastEnd

(* max(cluster.end, f.span.end). *)
EndWith(i) == IF findings[i].end > LastEnd THEN findings[i].end ELSE LastEnd

(* text[a:b]; Python cuts a slice off at the end of the text. *)
Slice(a, b) == SubSeq(text, a + 1, IF b < Len(text) THEN b ELSE Len(text))

MarkerFor(lead, a, b) ==
    [lead |-> lead, from |-> a, to |-> b,
     of   |-> [n \in DOMAIN Slice(a, b) |-> Slice(a, b)[n].to]]

-----------------------------------------------------------------------------
Init ==
    /\ findings \in UNION {[1 .. n -> Finding] : n \in 0 .. MaxFindings}
    /\ whole \in BOOLEAN
    /\ merged = {}
    /\ clusters = <<>>
    /\ replaced = 0
    /\ text = Original

(* merge_clusters: the finding joins the last cluster, and may come to lead it. *)
Absorb(i) ==
    /\ ~whole
    /\ IsNext(i)
    /\ Overlaps(i)
    /\ LET k == Len(clusters)
           c == clusters[k]
       IN  clusters' = [clusters EXCEPT ![k] =
               [start |-> c.start,
                end   |-> EndWith(i),
                lead  |-> IF Outranks(i, c.lead) THEN i ELSE c.lead]]
    /\ merged' = merged \cup {i}
    /\ UNCHANGED <<findings, whole, replaced, text>>

(* merge_clusters: the finding opens a cluster of its own. *)
OpenCluster(i) ==
    /\ ~whole
    /\ IsNext(i)
    /\ ~Overlaps(i)
    /\ clusters' = Append(clusters,
           [start |-> findings[i].start, end |-> findings[i].end, lead |-> i])
    /\ merged' = merged \cup {i}
    /\ UNCHANGED <<findings, whole, replaced, text>>

(* Slip: from the left to the right. *)
FromTheLeft == replaced + 1

(* The cluster whose turn it is: sorted(..., reverse=True). *)
FromTheRight == Len(clusters) - replaced

(* transform_text: text = text[:start] + rep + text[end:]. *)
Replace ==
    /\ ~whole
    /\ Actionable \subseteq merged
    /\ replaced < Len(clusters)
    /\ LET c == clusters[FromTheRight]
       IN  text' = Slice(0, c.start) \o <<MarkerFor(c.lead, c.start, c.end)>>
                                     \o Slice(c.end, Len(text))
    /\ replaced' = replaced + 1
    /\ UNCHANGED <<findings, whole, merged, clusters>>

(* transform_whole_value: max() takes the first finding of the highest rank. *)
ReplaceWhole ==
    /\ whole
    /\ text = Original
    /\ \E i \in Actionable :
           /\ \A j \in Actionable : ~Outranks(j, i) /\ (j < i => Outranks(i, j))
           /\ text' = <<MarkerFor(i, 0, Length)>>
    /\ UNCHANGED <<findings, whole, merged, clusters, replaced>>

Next ==
    \/ \E i \in DOMAIN findings : Absorb(i) \/ OpenCluster(i)
    \/ Replace
    \/ ReplaceWhole

Spec == Init /\ [][Next]_vars

-----------------------------------------------------------------------------
(* Properties.                                                             *)

Markers == {text[n] : n \in {m \in DOMAIN text : text[m].lead # 0}}

Finished ==
    IF whole THEN Markers # {} \/ Actionable = {}
    ELSE Actionable \subseteq merged /\ replaced = Len(clusters)

(* At every moment the characters and markers of the text, in their order,  *)
(* stand for the whole leaf: no replacement shifts the offsets of one still *)
(* to be made, loses a character or doubles one.                            *)
OffsetsHold ==
    /\ text # <<>> /\ text[1].from = 0 /\ text[Len(text)].to = Length
    /\ \A n \in 1 .. Len(text) - 1 : text[n + 1].from = text[n].to

(* token_for and partial_mask are given exactly the characters the leaf had *)
(* under the cluster, although the text has changed since the detectors     *)
(* read it.                                                                 *)
MarkersOfOriginals ==
    \A m \in Markers : m.of = [n \in 1 .. m.to - m.from |-> m.from + n]

(* When the leaf is done every actionable finding lies under one marker,    *)
(* whose action is at least as severe, however findings nest and chain: no  *)
(* character of a detected value is left but what its action itself leaves. *)
SeverestHides ==
    Finished =>
        \A i \in Actionable :
            \E m \in Markers :
                /\ m.from <= findings[i].start /\ findings[i].end <= m.to
                /\ SEVERITY[findings[m.lead].action] >= SEVERITY[findings[i].action]

(* And nothing else is hidden: inside a marker no point is without a        *)
(* finding across it, so values that merely touch keep a marker each, which *)
(* a marker's lead, one of the findings under it, accounts for.             *)
NothingElseHidden ==
    \A m \in Markers :
        /\ m.lead \in Actionable
        /\ m.from <= findings[m.lead].start /\ findings[m.lead].end <= m.to
        /\ whole \/ \A c \in m.from + 1 .. m.to - 1 :
                        \E i \in Actionable : findings[i].start < c /\ c < findings[i].end
=============================================================================
