------------------------------ MODULE Demands ------------------------------
(***************************************************************************)
(* What a policy asks for, as docs/policy-schema.md has it, said without   *)
(* following the steps of a scan: the rules by their place in the file,    *)
(* the paths by Covers, the detectors by what they can find.  Middleware   *)
(* and Hooks are judged by this.                                           *)
(***************************************************************************)
EXTENDS Engine

FirstIn(S, i) == i \in S /\ \A j \in S : i <= j

(* Rule i decides on entity e. *)
Decides(i, e) == FirstIn({j \in DOMAIN rules : e \in rules[j].entities}, i)

(* Rule i pins leaf l. *)
Pins(i, l) ==
    FirstIn({j \in DOMAIN rules :
                rules[j].match # <<>> /\ tool \in rules[j].tools /\ Covers(rules[j].match, l.path)}, i)

(* The NER tier is there, and may look for e. *)
NerLooksFor(e) ==
    LET acts == IF engine.policy.default = "allow" THEN Covered ELSE NerEntities
    IN  /\ engine.ner /\ e \in acts
        /\ \/ engine.policy.ner = "on"
           \/ engine.policy.ner = "auto" /\ acts \cap NerOnly # {}

(* A value belongs to the innermost field around it, through any lists;     *)
(* what the names of fields say of it, unless it is empty.                   *)
NamedBy(l) ==
    {l.path[n].name : n \in {m \in DOMAIN l.path :
        l.path[m].kind = "key" /\ \A o \in DOMAIN l.path : o > m => l.path[o].kind # "key"}}

ByName(l) ==
    {[place |-> 0, entity |-> Columns[k], tier |-> 0, conf |-> ColumnConf] :
        k \in IF l.kind = "empty" THEN {} ELSE NamedBy(l) \cap (DOMAIN Columns \ ExemptKeys)}

(* No model is surer than NerMax. *)
Scored(s) == IF s.tier = 2 /\ s.conf > NerMax THEN [s EXCEPT !.conf = NerMax] ELSE s

(* The spans the detectors, those of the NER tier if it is there, can find. *)
Findable(l) ==
    {s \in {Scored(x) : x \in Range(l.spans) \cup ByName(l)} :
        /\ l.kind # "other"
        /\ s.conf >= engine.policy.minConf
        /\ s.tier = 2 => l.kind = "text" /\ NerLooksFor(s.entity)}

(* What the policy asks for leaf l: once for the rule that pins it, once for  *)
(* every span, by the first rule for its entity or by the default (rule 0).  *)
Demands(l) ==
    {[span |-> PolicyMatch, action |-> rules[i].action, rule |-> i] :
        i \in {j \in DOMAIN rules : Pins(j, l)}}
    \cup {[span |-> x[1], action |-> rules[x[2]].action, rule |-> x[2]] :
        x \in {y \in Findable(l) \X DOMAIN rules : Decides(y[2], y[1].entity)}}
    \cup {[span |-> s, action |-> engine.policy.default, rule |-> 0] :
        s \in {y \in Findable(l) : y.entity \notin Covered}}

(* What d asks for is done by the marks M on its leaf. *)
Hidden(M, d) ==
    \/ d.action = "allow"
    \/ \E m \in M : /\ m.place \in {0, d.span.place}
                    /\ SEVERITY[m.action] >= SEVERITY[Effective(d.action)]

Scrubbed(leaves, marks) ==
    \A i \in DOMAIN leaves : \A d \in Demands(leaves[i]) : Hidden(marks[i], d)

(* A rule of scope "result" applies: none of these leaves are to be seen. *)
Banned(leaves) ==
    \E i \in DOMAIN leaves : \E d \in Demands(leaves[i]) :
        d.rule # 0 /\ rules[d.rule].scope = "result"

(* Event e is that of demand d on leaf i of scan k. *)
Records(e, k, i, d) ==
    /\ e.scan = k /\ e.leaf = i /\ e.span = d.span
    /\ e.action = Effective(d.action) /\ e.rule = d.rule

(* Every demand of the leaves has one event, which hashes the value that was *)
(* found; what nobody asks for and the default allows need not be looked for. *)
Audited(k, leaves) ==
    \A i \in DOMAIN leaves : \A d \in Demands(leaves[i]) :
        d.rule # 0 \/ d.action # "allow" =>
            Cardinality({n \in DOMAIN sink :
                /\ Records(sink[n], k, i, d)
                /\ sink[n].hashed = "value" \/ leaves[i].kind = "other"}) = 1
=============================================================================
