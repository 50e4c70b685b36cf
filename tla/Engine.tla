------------------------------- MODULE Engine -------------------------------
(***************************************************************************)
(* One scan of a payload, engine.py: walk the leaves, find, resolve what   *)
(* the policy says of each finding, rewrite the leaves, write the audit    *)
(* events.  Any of it may raise: a detector while the leaves are walked,   *)
(* the vault while they are rewritten, the sink at every event.            *)
(*                                                                         *)
(* A leaf has a path, a kind ("text", "empty" for the empty string,        *)
(* "number", or "other" for booleans and null) and the spans the patterns  *)
(* and the NER tier would report on it were they all run, tier by tier;    *)
(* tier 0 goes by its path.  Place 0 of a leaf is the whole of it; spans   *)
(* overlap when they have a place in common.                               *)
(***************************************************************************)
EXTENDS PathMatch, Subsequences, FiniteSetsExt, SequencesExt

CONSTANTS
    MaxConf,      \* confidences go up to this; the code's 1.0
    NerMax,       \* NER_MAX_CONFIDENCE
    ColumnConf,   \* the confidence of a column's name
    Columns,      \* the entity of a key: the first pattern of the table that fits
    ExemptKeys,   \* _EXEMPT_KEYS
    NerEntities,  \* NER_ENTITY_TYPES, what the NER tier can find
    NerOnly       \* NER_ONLY_ENTITY_TYPES, what no lower tier finds in free text

ASSUME EngineAssumption ==
    /\ {MaxConf, NerMax, ColumnConf} \subseteq Nat
    /\ \A k \in DOMAIN Columns : Columns[k] # "STRUCTURAL"
    /\ NerOnly \subseteq NerEntities

SEVERITY == [allow |-> 0, partial_mask |-> 1, mask |-> 2,
             tokenize |-> 3, redact |-> 4, block |-> 5]

VARIABLES
    engine,    \* the engine: its policy, whether it has a vault, and the NER extra
    tool,      \* the tool whose payload is scanned
    scan,      \* 0 for the scan of a request, k for that of part k of a result
    payload,   \* the leaves of the payload
    stage,     \* where the scan is
    at,        \* the leaf that is walked next
    findings,  \* the findings so far
    out,       \* the marks on each leaf of the new payload
    events,    \* the audit events still to be written
    sink       \* the audit log

scanVars == <<scan, payload, stage, at, findings, out, events, sink>>

Stages == {"idle", "walk", "rebuild", "emit", "refuse", "done", "blocked", "raised"}

-----------------------------------------------------------------------------
(* The policy, with its path rules compiled, _match_rules.                 *)

Built(e) ==
    [policy |-> e.policy, vault |-> e.vault, ner |-> e.ner,
     paths |-> [i \in DOMAIN e.policy.rules |->
                  LET p == e.policy.rules[i].match IN IF Compiles(p) THEN compile_path(p) ELSE <<>>]]

rules == engine.policy.rules

First(S) == IF S = {} THEN 0 ELSE Min(S)

(* Slip: a rule may withhold a result whatever its action is. *)
LaxRuleOK(r) == r.entities # {} \/ r.match # <<>>

(* Rule._check, StructuralMatch._valid_path. *)
RuleOK(r) ==
    /\ r.entities # {} \/ r.match # <<>>
    /\ r.match # <<>> => Compiles(r.match)
    /\ r.scope = "result" => r.action = "block"

(* What the schema's types say of any policy file. *)
IsPolicy(p) ==
    /\ p.rules \in Seq(Range(p.rules))
    /\ \A r \in Range(p.rules) :
          r.match \in Seq([sep : STRING, sel : STRING]) /\ r.action \in DOMAIN SEVERITY
    /\ p.default \in DOMAIN SEVERITY /\ p.minConf \in Nat /\ p.ner \in {"off", "auto", "on"}

(* Slip: the last rule that lists the entity. *)
LastRuleFor(e) ==
    LET S == {i \in DOMAIN rules : e \in rules[i].entities}
    IN  IF S = {} THEN 0 ELSE Max(S)

(* _resolve: the first rule, in the order of the file, that lists the entity; *)
(* 0 when the default decides.                                                *)
RuleFor(e) == First({i \in DOMAIN rules : e \in rules[i].entities})

(* _match_path_rule: the rule that pins the leaf, or 0. *)
PinnedBy(l) ==
    First({i \in DOMAIN rules :
              /\ rules[i].match # <<>>
              /\ tool \in rules[i].tools
              /\ Matches(engine.paths[i], l.path)})

(* Slip: tokenize is passed on to a transformer that has no vault. *)
NoFallback(action) == action

(* _effective: without a vault there are no tokens. *)
Effective(action) ==
    IF action = "tokenize" /\ ~engine.vault THEN "mask" ELSE action

ActionFor(e) ==
    IF RuleFor(e) = 0 THEN engine.policy.default ELSE rules[RuleFor(e)].action

Withholds(i) == i # 0 /\ rules[i].action = "block" /\ rules[i].scope = "result"

-----------------------------------------------------------------------------
(* What is found.  Only a policy whose default is allow may skip detectors. *)

Covered == UNION {rules[i].entities : i \in DOMAIN rules}

Skips == engine.policy.default = "allow"

(* _ner_wanted. *)
NerWanted ==
    LET wanted == IF Skips THEN NerEntities \cap Covered ELSE NerEntities
    IN  IF \/ engine.policy.ner = "off"
           \/ engine.policy.ner = "auto" /\ wanted \cap NerOnly = {}
        THEN {} ELSE wanted

(* _ner_spans: the tier is there for all scans of an engine or for none, for *)
(* it is loaded once, and a missing or broken extra is remembered.           *)
NerAsked(l) == engine.ner /\ l.kind = "text"

(* Slip: the scores of the NER tier as they come. *)
Uncapped(s) == s

(* NerDetector.detect: min(r.score, NER_MAX_CONFIDENCE). *)
Capped(s) == IF s.tier = 2 THEN [s EXCEPT !.conf = Min({@, NerMax})] ELSE s

(* What a walk can come upon, and the detectors report there.  None reports    *)
(* the same twice: the matches of a pattern do not overlap, two patterns of    *)
(* one entity differ in confidence, Presidio removes its duplicates.           *)
IsLeaf(l) ==
    /\ l \in [path : Seq([kind : {"key", "index"}, name : STRING]),
              kind : {"text", "empty", "number", "other"},
              spans : Seq([place : Nat, entity : STRING, tier : {1, 2}, conf : Nat])]
    /\ \A s \in Range(l.spans) : s.tier = 2 => s.entity \in NerEntities
    /\ \A m, n \in DOMAIN l.spans : Capped(l.spans[m]) = Capped(l.spans[n]) => m = n

IsPayload(leaves) == leaves \in Seq(Range(leaves)) /\ \A l \in Range(leaves) : IsLeaf(l)

(* The field a value is in: the last key of its path, whatever indices follow. *)
Field(path) == path[Max({n \in DOMAIN path : path[n].kind = "key"})].name

(* Slip: a value has a field only if the key is the last segment. *)
LastIsKey(l) == l.path # <<>> /\ l.path[Len(l.path)].kind = "key"

HasField(l) == \E n \in DOMAIN l.path : l.path[n].kind = "key"

(* ColumnNameDetector.detect_node. *)
ColumnSpans(l) ==
    IF /\ HasField(l)
       /\ l.kind # "empty"
       /\ Field(l.path) \in DOMAIN Columns \ ExemptKeys
    THEN <<[place |-> 0, entity |-> Columns[Field(l.path)], tier |-> 0, conf |-> ColumnConf]>>
    ELSE <<>>

(* The spans of the three tiers, those that no detector is asked for too. *)
Spans(l) == [n \in DOMAIN (ColumnSpans(l) \o l.spans) |->
                Capped((ColumnSpans(l) \o l.spans)[n])]

IsFound(l, s) ==
    /\ s.conf >= engine.policy.minConf
    /\ IF s.tier = 2 THEN NerAsked(l) /\ s.entity \in NerWanted
       ELSE Skips => s.entity \in Covered

(* The span of a pinned leaf: all of it, with confidence 1.0. *)
PolicyMatch == [place |-> 0, entity |-> "STRUCTURAL", tier |-> 0, conf |-> MaxConf]

(* The findings on leaf i, in the order _scan makes them. *)
LeafFindings(i) ==
    LET l == payload[i]
        F(s, action, rule) ==
            [leaf |-> i, span |-> s, action |-> Effective(action), rule |-> rule]
        found == IF l.kind = "other" THEN <<>>
                 ELSE Kept(Spans(l), {n \in DOMAIN Spans(l) : IsFound(l, Spans(l)[n])})
    IN  (IF PinnedBy(l) = 0 THEN <<>>
         ELSE <<F(PolicyMatch, rules[PinnedBy(l)].action, PinnedBy(l))>>)
            \o [n \in DOMAIN found |->
                   F(found[n], ActionFor(found[n].entity), RuleFor(found[n].entity))]

(* Where the leaf's findings stop the scan, or 0. *)
Stop(i) == First({n \in DOMAIN LeafFindings(i) : Withholds(LeafFindings(i)[n].rule)})

-----------------------------------------------------------------------------
(* What becomes of it.                                                     *)

(* f is a severest of the findings F. *)
Leads(F, f) == \A g \in F : SEVERITY[g.action] <= SEVERITY[f.action]

(* _rebuild: one marker on each place of leaf i in which there is something  *)
(* to hide, and on the whole leaf if it is no text, or a finding covers it.  *)
Marks(i) ==
    LET F == {f \in Range(findings) : f.leaf = i /\ f.action # "allow"}
        whole == payload[i].kind # "text" \/ \E f \in F : f.span.place = 0
        Place(f) == IF whole THEN 0 ELSE f.span.place
        Cluster(p) == {f \in F : Place(f) = p}
    IN  {[place |-> p, action |-> (CHOOSE f \in Cluster(p) : Leads(Cluster(p), f)).action] :
            p \in {Place(f) : f \in F}}

(* _event, for the findings F and the leaves whose text is known.  The HMAC  *)
(* of a finding on any other leaf is that of the empty text.                 *)
Events(F, known) ==
    [n \in DOMAIN F |->
        [scan |-> scan, leaf |-> F[n].leaf, span |-> F[n].span,
         action |-> F[n].action, rule |-> F[n].rule,
         hashed |-> IF F[n].leaf \in known THEN "value" ELSE "nothing"]]

Modified == \E f \in Range(findings) : f.action # "allow"

-----------------------------------------------------------------------------
(* _scan.                                                                  *)

Start(n, leaves) ==
    /\ scan' = n
    /\ payload' = leaves
    /\ stage' = "walk"
    /\ at' = 1
    /\ findings' = <<>>
    /\ out' = <<>>
    /\ UNCHANGED <<events, sink>>

(* One leaf that nothing withholds the payload for. *)
Walk ==
    /\ stage = "walk"
    /\ at <= Len(payload)
    /\ Stop(at) = 0
    /\ findings' = findings \o LeafFindings(at)
    /\ at' = at + 1
    /\ UNCHANGED <<scan, payload, stage, out, events, sink>>

(* _blocked: the rest of the payload is not looked at. *)
Withhold ==
    /\ stage = "walk"
    /\ at <= Len(payload)
    /\ Stop(at) # 0
    /\ findings' = findings \o SubSeq(LeafFindings(at), 1, Stop(at))
    /\ events' = Events(findings', {at})
    /\ stage' = "refuse"
    /\ UNCHANGED <<scan, payload, at, out, sink>>

Rebuild ==
    /\ stage = "walk"
    /\ at > Len(payload)
    /\ events' = Events(findings, {i \in DOMAIN payload : payload[i].kind # "other"})
    /\ out' = [i \in DOMAIN payload |-> Marks(i)]
    /\ stage' = "emit"
    /\ UNCHANGED <<scan, payload, at, findings, sink>>

Emit ==
    /\ events # <<>>
    /\ sink' = Append(sink, Head(events))
    /\ events' = Tail(events)
    /\ UNCHANGED <<scan, payload, stage, at, findings, out>>

Finish ==
    /\ events = <<>>
    /\ \/ stage = "emit" /\ stage' = "done"
       \/ stage = "refuse" /\ stage' = "blocked"
    /\ UNCHANGED <<scan, payload, at, findings, out, events, sink>>

Raise ==
    /\ stage' = "raised"
    /\ out' = <<>>
    /\ events' = <<>>
    /\ UNCHANGED <<scan, payload, at, findings, sink>>

DetectorRaises == stage = "walk" /\ at <= Len(payload) /\ Raise

VaultRaises ==
    /\ stage = "walk"
    /\ at > Len(payload)
    /\ \E i \in DOMAIN payload : \E m \in Marks(i) : m.action = "tokenize"
    /\ Raise

SinkRaises == events # <<>> /\ Raise

ScanStep ==
    \/ Walk
    \/ Withhold
    \/ Rebuild
    \/ Emit
    \/ Finish
    \/ DetectorRaises
    \/ VaultRaises
    \/ SinkRaises
=============================================================================
