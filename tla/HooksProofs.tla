---------------------------- MODULE HooksProofs ----------------------------
(***************************************************************************)
(* The two tool guards, for all policies, configurations, inputs and       *)
(* responses, and for a failure or a timeout at any step: what the input   *)
(* guard lets pass, what the guards say, and what they leave in the log.   *)
(* The scans are the work of ScanProofs.                                   *)
(***************************************************************************)
EXTENDS Hooks, ScanProofs

Looked == {"silent", "asked", "masked", "warned"}

Typed ==
    /\ engine \in {Built(e) : e \in Engines} /\ tool \in Tools
    /\ config \in Configurations /\ args \in Inputs
    /\ response \in Responses \cup {[shape |-> "none", leaves |-> <<>>]}
    /\ pc \in {"pre", "asked", "run", "post", "over"}
    /\ scan \in {0, 1} /\ stage \in Stages
    /\ verdict \in [Guards -> Verdicts] /\ DOMAIN named = Guards

(* An engine with a policy that is not sound scans nothing. *)
Guarding ==
    IF PolicyOK THEN ScanInv ELSE stage = "idle" /\ events = <<>> /\ findings = <<>> /\ sink = <<>>

(* When what is scanned: the input first, and then the response. *)
Scheduled ==
    /\ pc = "pre" => scan = 0 /\ verdict.input = "none" /\ named.input = {}
    /\ pc = "pre" /\ stage = "idle" => sink = <<>>
    /\ pc = "pre" /\ stage # "idle" => payload = args.leaves /\ ~InputOff
    /\ pc # "over" => verdict.output = "none" /\ named.output = {}
    /\ pc \in {"asked", "run", "post"} => verdict.input \notin {"none", "denied"}
    /\ pc = "asked" => verdict.input = "asked"
    /\ pc \in {"asked", "run"} => scan = 0
    /\ pc \in {"asked", "run", "over"} => stage = "idle"
    /\ pc = "post" /\ stage = "idle" => scan = 0
    /\ pc = "post" /\ stage # "idle" => scan = 1 /\ payload = AsPayload(response)
    /\ \A n \in DOMAIN sink : sink[n].scan <= scan /\ (Allowlisted => sink[n].scan # 0)

(* The guard has looked at all the leaves and names what it has found. *)
Seen(k, leaves, E) ==
    /\ \A i \in DOMAIN leaves : ~Bans(leaves[i])
    /\ Told(sink, k, leaves)
    /\ E = UNION {Hot(leaves[i]) : i \in DOMAIN leaves}

(* What the input guard has done. *)
InputInv ==
    /\ verdict.input \in Looked => Seen(0, args.leaves, named.input)
    /\ verdict.input = "silent" => named.input = {}
    /\ verdict.input = "asked" => Mode("input") \in {"ask", "mask"}
    /\ verdict.input = "warned" => Mode("input") \notin {"ask", "mask"}
    /\ verdict.input = "off" => InputOff
    /\ verdict.input = "denied" => pc = "over" /\ WithheldBy(sink)
    /\ verdict.input \in {"none", "off", "failed"} => named.input = {}
    /\ Called => DOMAIN got = DOMAIN args.leaves
    /\ Called /\ verdict.input = "masked" =>
           \A i \in DOMAIN args.leaves : WellMarked(args.leaves[i], got[i])

(* What the output guard has done. *)
OutputInv ==
    /\ verdict.output \in {"silent", "warned"} =>
           LET leaves == AsPayload(response) IN
           \/ Seen(1, leaves, named.output)
           \/ /\ \E i \in DOMAIN leaves : Bans(leaves[i])
              /\ named.output # {}
              /\ \A x \in named.output : \E i \in DOMAIN leaves : x \in Hot(leaves[i])
    /\ verdict.output \in {"none", "off", "silent", "failed"} => named.output = {}

GuardInv ==
    /\ Typed
    /\ Guarding
    /\ Scheduled
    /\ InputInv
    /\ OutputInv
    /\ PolicyOK => EngineOK

-----------------------------------------------------------------------------
LEMMA PolicySound ==
  ASSUME engine \in {Built(e) : e \in Engines}
  PROVE  /\ PolicyOK => EngineOK
         /\ engine.vault = FALSE /\ engine.policy \in {e.policy : e \in Engines}
<1>1. PICK e \in Engines : engine = Built(e)
  OBVIOUS
<1>2. /\ engine.policy = e.policy /\ engine.vault = e.vault
      /\ engine.paths = [i \in DOMAIN e.policy.rules |->
                           LET p == e.policy.rules[i].match
                           IN  IF Compiles(p) THEN compile_path(p) ELSE <<>>]
  BY <1>1 DEF Built
<1>3. IsPolicy(e.policy) /\ e.vault = FALSE
  BY NoVault, HooksAssumption
<1>4. rules = e.policy.rules
  BY <1>2 DEF rules
<1> QED BY <1>2, <1>3, <1>4 DEF EngineOK, PolicyOK

(* What is scanned is a payload. *)
LEMMA PayloadsAre ==
  ASSUME Typed
  PROVE  IsPayload(args.leaves) /\ IsPayload(AsPayload(response))
<1>1. IsPayload(args.leaves)
  BY HooksAssumption DEF Typed
<1>2. CASE response.shape = "scalar"
  <2>1. response \in Responses
    BY <1>2 DEF Typed
  <2>2. IsPayload(response.leaves) /\ Len(response.leaves) = 1
    BY <1>2, <2>1, HooksAssumption
  <2> DEFINE l == response.leaves[1]
             t == [l EXCEPT !.kind = "text"]
  <2>3. IsLeaf(l)
    BY <2>2 DEF IsPayload, Range
  <2>4. IsLeaf(t)
    <3>1. t.path = l.path /\ t.spans = l.spans /\ t.kind = "text"
      BY <2>3 DEF IsLeaf
    <3>2. t \in [path : Seq([kind : {"key", "index"}, name : STRING]),
                kind : {"text", "empty", "number", "other"},
                spans : Seq([place : Nat, entity : STRING, tier : {1, 2}, conf : Nat])]
      BY <2>3 DEF IsLeaf
    <3> HIDE DEF t, l
    <3> QED BY <2>3, <3>1, <3>2 DEF IsLeaf
  <2>5. AsPayload(response) = <<t>>
    BY <1>2 DEF AsPayload
  <2> HIDE DEF t
  <2> QED BY <1>1, <2>4, <2>5 DEF IsPayload, Range
<1>3. CASE response.shape # "scalar"
  <2>1. AsPayload(response) = response.leaves
    BY <1>3 DEF AsPayload
  <2>2. CASE response \in Responses
    BY <1>1, <2>1, <2>2, HooksAssumption
  <2>3. CASE response = [shape |-> "none", leaves |-> <<>>]
    BY <1>1, <2>1, <2>3 DEF IsPayload, Range
  <2> QED BY <2>2, <2>3 DEF Typed
<1> QED BY <1>2, <1>3

(* What depends on the call and its set-up alone. *)
LEMMA SetUpKept ==
  ASSUME UNCHANGED <<engine, tool, config, args>>
  PROVE  /\ PolicyOK' <=> PolicyOK
         /\ InputOff' <=> InputOff
         /\ Allowlisted' <=> Allowlisted
         /\ Mode("input")' = Mode("input")
         /\ \A l : Hot(l)' = Hot(l)
<1>1. PolicyOK' <=> PolicyOK
  BY PolicyKept DEF PolicyOK, IdsUnique, EntitiesKnown
<1>2. (Allowlisted' <=> Allowlisted) /\ Mode("input")' = Mode("input")
  BY DEF Allowlisted, Mode
<1>3. InputOff' <=> InputOff
  BY <1>2 DEF InputOff
<1>4. ASSUME NEW l PROVE Hot(l)' = Hot(l)
  BY PolicyKept DEF Hot
<1> QED BY <1>1, <1>2, <1>3, <1>4

LEMMA ResponseKept ==
  ASSUME response' = response
  PROVE  AsPayload(response)' = AsPayload(response)
BY DEF AsPayload

LEMMA ScanningPolicy ==
  ASSUME Guarding, stage # "idle" \/ ScanStep
  PROVE  PolicyOK /\ ScanInv
BY DEF Guarding, ScanStep, Walk, Withhold, Rebuild, Emit, Finish, DetectorRaises, VaultRaises, SinkRaises

LEMMA SeenStays ==
  ASSUME GuardInv, UNCHANGED <<engine, tool>>, NEW k, NEW leaves, NEW E, Seen(k, leaves, E),
         sink' = sink \/ (ScanStep /\ k # scan)
  PROVE  Seen(k, leaves, E)'
<1>1. Told(sink, k, leaves)'
  <2>1. CASE sink' = sink
    BY <2>1, LogKept DEF Seen
  <2>2. CASE ScanStep /\ k # scan
    BY <2>2, ScanningPolicy, ToldRemains DEF GuardInv, Seen
  <2> QED BY <2>1, <2>2
<1>2. \A l : Hot(l)' = Hot(l)
  BY PolicyKept DEF Hot
<1> QED BY <1>1, <1>2, PolicyKept DEF Seen

(* A guard's process ends, or nothing happens to the scan. *)
LEMMA GuardRests ==
  ASSUME GuardInv, UNCHANGED <<engine, tool, config, args, scan, payload, at, findings, out, sink>>,
         \/ stage' = "idle" /\ events' = <<>>
         \/ stage' = stage /\ events' = events
  PROVE  Guarding' /\ (PolicyOK => EngineOK)'
<1>1. (PolicyOK' <=> PolicyOK) /\ (EngineOK' <=> EngineOK)
  BY SetUpKept, PolicyKept
<1>2. CASE PolicyOK
  <2>1. ScanInv'
    BY <1>2, RestKeeps DEF GuardInv, Guarding
  <2> QED BY <1>1, <1>2, <2>1 DEF GuardInv, Guarding
<1>3. CASE ~PolicyOK
  BY <1>1, <1>3 DEF GuardInv, Guarding
<1> QED BY <1>2, <1>3

LEMMA ScanDone ==
  ASSUME GuardInv, stage = "done"
  PROVE  /\ Seen(scan, payload, Entities) /\ DOMAIN out = DOMAIN payload
         /\ \A i \in DOMAIN payload : WellMarked(payload[i], out[i])
         /\ Modified <=> Entities # {}
<1>1. EngineOK /\ ScanInv
  BY ScanningPolicy DEF GuardInv
<1>2. Entities = Acted
  BY DEF Entities, Acted
<1>3. Cleared(scan, payload, out) /\ DOMAIN out = DOMAIN payload
  BY <1>1, DoneClears
<1>4. Acted = UNION {Hot(payload[i]) : i \in DOMAIN payload}
  <2>1. \A x \in Acted : x \in UNION {Hot(payload[i]) : i \in DOMAIN payload}
    BY <1>1, ActedIs
  <2>2. \A i \in DOMAIN payload : Hot(payload[i]) \subseteq Acted
    BY <1>1, ActedIs
  <2> QED BY <2>1, <2>2
<1>5. Modified <=> Acted # {}
  BY <1>1, ActedIs
<1> QED BY <1>2, <1>3, <1>4, <1>5 DEF Cleared, Seen

-----------------------------------------------------------------------------
(* The actions, one by one.                                                *)

LEMMA ConcludeIs ==
  ASSUME Typed, NEW g \in Guards, NEW v \in Verdicts, NEW E, Conclude(g, v, E)
  PROVE  /\ verdict' \in [Guards -> Verdicts] /\ DOMAIN named' = Guards
         /\ verdict'[g] = v /\ named'[g] = E
         /\ \A h \in Guards \ {g} : verdict'[h] = verdict[h] /\ named'[h] = named[h]
BY DEF Typed, Conclude

(* What the input guard has done stays done. *)
LEMMA InputStays ==
  ASSUME GuardInv, UNCHANGED <<engine, tool, config, args>>,
         verdict'.input = verdict.input, named'.input = named.input,
         pc' \in {"run", "post"} => DOMAIN got' = DOMAIN args.leaves,
         pc' \in {"run", "post"} /\ verdict.input = "masked" => Called /\ got' = got,
         verdict.input = "denied" => pc' = "over" /\ sink' = sink,
         sink' = sink \/ (ScanStep /\ (scan # 0 \/ verdict.input = "none"))
  PROVE  InputInv'
<1>1. ASSUME verdict.input \in Looked PROVE Seen(0, args.leaves, named.input)'
  <2>1. Seen(0, args.leaves, named.input) /\ verdict.input # "none"
    BY <1>1 DEF GuardInv, InputInv, Looked
  <2>2. \A leaves, E : Seen(0, leaves, E) => Seen(0, leaves, E)'
    BY <2>1, SeenStays
  <2> QED BY <2>1, <2>2
<1>2. verdict.input = "denied" => WithheldBy(sink)'
  BY LogKept DEF GuardInv, InputInv
<1>3. ASSUME Called', verdict.input = "masked", NEW i \in DOMAIN args.leaves
      PROVE  WellMarked(args.leaves[i], got[i])'
  <2>1. WellMarked(args.leaves[i], got[i]) /\ got' = got
    BY <1>3 DEF GuardInv, InputInv, Called
  <2> QED BY <2>1, PolicyKept
<1>4. (InputOff' <=> InputOff) /\ Mode("input")' = Mode("input")
  BY SetUpKept
<1> QED BY <1>1, <1>2, <1>3, <1>4 DEF GuardInv, InputInv, Called

LEMMA OutputNone ==
  ASSUME verdict'.output = "none", named'.output = {}
  PROVE  OutputInv'
BY DEF OutputInv

LEMMA PreToolUseKeeps ==
  ASSUME GuardInv, PreToolUse
  PROVE  GuardInv'
<1>1. /\ pc = "pre" /\ stage = "idle" /\ scan = 0 /\ sink = <<>>
      /\ UNCHANGED <<engine, tool, config, args, response>>
      /\ verdict.input = "none" /\ named.input = {} /\ verdict.output = "none" /\ named.output = {}
  BY DEF PreToolUse, GuardInv, Scheduled
<1>2. (InputOff' <=> InputOff) /\ (Allowlisted' <=> Allowlisted)
  BY <1>1, SetUpKept
<1>3. CASE /\ InputOff /\ Conclude("input", "off", {}) /\ Call(Unmarked(args.leaves))
           /\ UNCHANGED scanVars
  <2>1. /\ verdict' \in [Guards -> Verdicts] /\ DOMAIN named' = Guards
        /\ verdict'.input = "off" /\ named'.input = {}
        /\ verdict'.output = "none" /\ named'.output = {}
    <3>1. "input" \in Guards /\ "output" \in Guards \ {"input"} /\ "off" \in Verdicts
      BY DEF Guards, Verdicts
    <3> QED BY <1>1, <1>3, <3>1, ConcludeIs DEF GuardInv
  <2>2. pc' = "run" /\ DOMAIN got' = DOMAIN args.leaves
    BY <1>3 DEF Call, Unmarked
  <2>3. Guarding' /\ (PolicyOK => EngineOK)'
    BY <1>1, <1>3, GuardRests DEF scanVars
  <2>4. Typed' /\ Scheduled'
    BY <1>1, <1>2, <1>3, <2>1, <2>2 DEF GuardInv, Typed, Scheduled, scanVars
  <2>5. InputInv'
    BY <1>1, <1>2, <1>3, <2>1, <2>2 DEF InputInv, Called, Looked
  <2> QED BY <2>1, <2>3, <2>4, <2>5, OutputNone DEF GuardInv
<1>4. CASE /\ ~InputOff /\ PolicyOK /\ Start(0, args.leaves)
           /\ UNCHANGED <<pc, got, verdict, named>>
  <2>1. scan' = 0 /\ payload' = args.leaves /\ stage' = "walk" /\ sink' = sink
    BY <1>4 DEF Start
  <2>2. ScanInv /\ EngineOK /\ events = <<>>
    BY <1>1, <1>4 DEF GuardInv, Guarding, ScanInv
  <2>3. Start(scan', payload') /\ IsPayload(payload') /\ scan' \in Nat
    BY <1>4, <2>1, PayloadsAre DEF GuardInv
  <2>4. ScanInv'
    BY <1>1, <2>2, <2>3, StartKeeps
  <2>5. (PolicyOK' <=> PolicyOK) /\ EngineOK'
    BY <1>1, <2>2, SetUpKept, PolicyKept
  <2>6. Typed' /\ Scheduled'
    BY <1>1, <1>2, <1>4, <2>1 DEF GuardInv, Typed, Scheduled, Stages
  <2>7. InputInv'
    BY <1>1, <1>4, <2>1, InputStays DEF Called
  <2> QED BY <1>1, <1>4, <2>4, <2>5, <2>6, <2>7, OutputNone DEF GuardInv, Guarding
<1> QED BY <1>3, <1>4 DEF PreToolUse

LEMMA InputScannedKeeps ==
  ASSUME GuardInv, InputScanned
  PROVE  GuardInv'
<1>1. /\ pc = "pre" /\ stage = "done" /\ scan = 0 /\ payload = args.leaves /\ ~InputOff
      /\ UNCHANGED <<engine, tool, config, args, response>>
      /\ verdict.output = "none" /\ named.output = {}
      /\ stage' = "idle" /\ events' = <<>> /\ UNCHANGED <<scan, payload, at, findings, out, sink>>
  BY DEF InputScanned, Gone, GuardInv, Scheduled
<1>2. (InputOff' <=> InputOff) /\ (Allowlisted' <=> Allowlisted) /\ Mode("input")' = Mode("input")
  BY <1>1, SetUpKept
<1>3. /\ Seen(0, args.leaves, Entities) /\ DOMAIN out = DOMAIN args.leaves
      /\ \A i \in DOMAIN args.leaves : WellMarked(args.leaves[i], out[i])
      /\ Modified <=> Entities # {}
  BY <1>1, ScanDone
<1>4. PICK v \in Looked :
        /\ Conclude("input", v, Entities)
        /\ v = "silent" => Entities = {}
        /\ v = "asked" <=> pc' # "run"
        /\ v = "asked" => pc' = "asked" /\ Mode("input") \in {"ask", "mask"}
        /\ v = "warned" => Mode("input") \notin {"ask", "mask"}
        /\ v # "asked" => DOMAIN got' = DOMAIN args.leaves
        /\ v = "masked" => got' = out
  <2>1. CASE Silent
    BY <1>3, <2>1 DEF Silent, Call, Unmarked, Looked
  <2>2. CASE Mask
    BY <1>3, <2>2 DEF Mask, Call, Looked
  <2>3. CASE Ask
    BY <1>3, <2>3 DEF Ask, Looked
  <2>4. CASE Warn
    BY <1>3, <2>4 DEF Warn, Call, Unmarked, Looked
  <2> QED BY <2>1, <2>2, <2>3, <2>4 DEF InputScanned
<1>5. /\ verdict' \in [Guards -> Verdicts] /\ DOMAIN named' = Guards
      /\ verdict'.input = v /\ named'.input = Entities
      /\ verdict'.output = "none" /\ named'.output = {}
  <2>1. "input" \in Guards /\ "output" \in Guards \ {"input"} /\ v \in Verdicts
    BY DEF Guards, Verdicts, Looked
  <2> QED BY <1>1, <1>4, <2>1, ConcludeIs DEF GuardInv
<1>6. Guarding' /\ (PolicyOK => EngineOK)'
  BY <1>1, GuardRests
<1>7. v \notin {"none", "denied", "off", "failed"}
  BY DEF Looked
<1>8. Typed' /\ Scheduled'
  BY <1>1, <1>2, <1>4, <1>5, <1>7 DEF GuardInv, Typed, Scheduled, Stages
<1>9. Seen(0, args.leaves, named.input)'
  <2>1. \A leaves, E : Seen(0, leaves, E) => Seen(0, leaves, E)'
    BY <1>1, SeenStays
  <2> QED BY <1>1, <1>3, <1>5, <2>1
<1>10. ASSUME Called', v = "masked", NEW i \in DOMAIN args.leaves
       PROVE  WellMarked(args.leaves[i], got[i])'
  BY <1>1, <1>3, <1>4, <1>10, PolicyKept
<1>11. InputInv'
  BY <1>1, <1>2, <1>4, <1>5, <1>7, <1>9, <1>10 DEF InputInv, Called
<1> QED BY <1>5, <1>6, <1>8, <1>11, OutputNone DEF GuardInv

LEMMA InputDeniedKeeps ==
  ASSUME GuardInv, InputDenied
  PROVE  GuardInv'
<1>1. /\ pc = "pre" /\ stage = "blocked" /\ scan = 0 /\ pc' = "over"
      /\ UNCHANGED <<engine, tool, config, args, response>>
      /\ verdict.output = "none" /\ named.output = {}
      /\ stage' = "idle" /\ events' = <<>> /\ UNCHANGED <<scan, payload, at, findings, out, sink>>
      /\ Conclude("input", "denied", {})
  BY DEF InputDenied, Gone, GuardInv, Scheduled
<1>2. (InputOff' <=> InputOff) /\ (Allowlisted' <=> Allowlisted)
  BY <1>1, SetUpKept
<1>3. WithheldBy(sink)
  <2>1. ScanInv
    BY <1>1, ScanningPolicy DEF GuardInv
  <2>2. events = <<>> /\ Refusing /\ sink \in Seq(Event)
    BY <1>1, <2>1 DEF ScanInv, ScanTypes
  <2>3. sink \o events = sink
    BY <2>2
  <2> QED BY <2>2, <2>3 DEF Refusing
<1>4. /\ verdict' \in [Guards -> Verdicts] /\ DOMAIN named' = Guards
      /\ verdict'.input = "denied" /\ verdict'.output = "none" /\ named'.output = {}
  <2>1. "input" \in Guards /\ "output" \in Guards \ {"input"} /\ "denied" \in Verdicts
    BY DEF Guards, Verdicts
  <2> QED BY <1>1, <2>1, ConcludeIs DEF GuardInv
<1>5. Guarding' /\ (PolicyOK => EngineOK)'
  BY <1>1, GuardRests
<1>6. Typed' /\ Scheduled'
  BY <1>1, <1>2, <1>4 DEF GuardInv, Typed, Scheduled, Stages
<1>7. InputInv'
  <2>1. WithheldBy(sink)'
    BY <1>1, <1>3, LogKept
  <2> QED BY <1>1, <1>4, <2>1 DEF InputInv, Called, Looked
<1> QED BY <1>4, <1>5, <1>6, <1>7, OutputNone DEF GuardInv

LEMMA UserAnswersKeeps ==
  ASSUME GuardInv, UserAnswers
  PROVE  GuardInv'
<1>1. /\ pc = "asked" /\ stage = "idle" /\ scan = 0
      /\ UNCHANGED <<engine, tool, config, scanVars, args, response, verdict, named>>
      /\ pc' = "over" \/ (pc' = "run" /\ DOMAIN got' = DOMAIN args.leaves)
      /\ verdict.output = "none" /\ named.output = {} /\ verdict.input \notin {"none", "denied"}
  BY DEF UserAnswers, Call, Unmarked, GuardInv, Scheduled
<1>2. Allowlisted' <=> Allowlisted
  BY <1>1, SetUpKept
<1>3. Guarding' /\ (PolicyOK => EngineOK)'
  BY <1>1, GuardRests DEF scanVars
<1>4. Typed' /\ Scheduled'
  BY <1>1, <1>2 DEF GuardInv, Typed, Scheduled, scanVars
<1>5. verdict.input # "masked"
  BY <1>1 DEF GuardInv, Scheduled
<1>6. InputInv'
  BY <1>1, <1>5, InputStays DEF scanVars
<1> QED BY <1>1, <1>3, <1>4, <1>6, OutputNone DEF GuardInv

LEMMA ToolReturnsKeeps ==
  ASSUME GuardInv, ToolReturns
  PROVE  GuardInv'
<1>1. /\ pc = "run" /\ pc' = "post" /\ stage = "idle" /\ scan = 0 /\ response' \in Responses
      /\ UNCHANGED <<engine, tool, config, scanVars, args, got, verdict, named>>
      /\ verdict.output = "none" /\ named.output = {} /\ verdict.input \notin {"none", "denied"}
  BY DEF ToolReturns, GuardInv, Scheduled
<1>2. Allowlisted' <=> Allowlisted
  BY <1>1, SetUpKept
<1>3. Guarding' /\ (PolicyOK => EngineOK)'
  BY <1>1, GuardRests DEF scanVars
<1>4. Typed' /\ Scheduled'
  BY <1>1, <1>2 DEF GuardInv, Typed, Scheduled, scanVars
<1>5. Called /\ DOMAIN got = DOMAIN args.leaves
  BY <1>1 DEF Called, GuardInv, InputInv
<1>6. InputInv'
  BY <1>1, <1>5, InputStays DEF scanVars
<1> QED BY <1>1, <1>3, <1>4, <1>6, OutputNone DEF GuardInv

LEMMA ToolFailsKeeps ==
  ASSUME GuardInv, ToolFails
  PROVE  GuardInv'
<1>1. /\ pc = "run" /\ pc' = "over" /\ stage = "idle" /\ scan = 0
      /\ UNCHANGED <<engine, tool, config, scanVars, args, got, response, verdict, named>>
      /\ verdict.output = "none" /\ named.output = {} /\ verdict.input \notin {"none", "denied"}
  BY DEF ToolFails, GuardInv, Scheduled
<1>2. Allowlisted' <=> Allowlisted
  BY <1>1, SetUpKept
<1>3. Guarding' /\ (PolicyOK => EngineOK)'
  BY <1>1, GuardRests DEF scanVars
<1>4. Typed' /\ Scheduled'
  BY <1>1, <1>2 DEF GuardInv, Typed, Scheduled, scanVars
<1>5. InputInv'
  BY <1>1, InputStays DEF scanVars
<1> QED BY <1>1, <1>3, <1>4, <1>5, OutputNone DEF GuardInv

LEMMA PostToolUseKeeps ==
  ASSUME GuardInv, PostToolUse
  PROVE  GuardInv'
<1>1. /\ pc = "post" /\ stage = "idle" /\ scan = 0
      /\ UNCHANGED <<engine, tool, config, args, got, response>>
      /\ verdict.input \notin {"none", "denied"} /\ verdict.output = "none" /\ named.output = {}
      /\ "input" \in Guards /\ "output" \in Guards
  BY DEF PostToolUse, GuardInv, Scheduled, Guards
<1>2. (Allowlisted' <=> Allowlisted) /\ AsPayload(response)' = AsPayload(response)
  BY <1>1, SetUpKept, ResponseKept
<1>3. Called /\ DOMAIN got = DOMAIN args.leaves
  BY <1>1 DEF Called, GuardInv, InputInv
<1>4. CASE /\ OutputOff /\ Conclude("output", "off", {}) /\ pc' = "over"
           /\ UNCHANGED scanVars
  <2>1. /\ verdict' \in [Guards -> Verdicts] /\ DOMAIN named' = Guards
        /\ verdict'.output = "off" /\ named'.output = {}
        /\ verdict'.input = verdict.input /\ named'.input = named.input
    <3>1. "output" \in Guards /\ "input" \in Guards \ {"output"} /\ "off" \in Verdicts
      BY DEF Guards, Verdicts
    <3> QED BY <1>1, <1>4, <3>1, ConcludeIs DEF GuardInv
  <2>2. Guarding' /\ (PolicyOK => EngineOK)'
    BY <1>1, <1>4, GuardRests DEF scanVars
  <2>3. Typed' /\ Scheduled'
    BY <1>1, <1>2, <1>4, <2>1 DEF GuardInv, Typed, Scheduled, scanVars
  <2>4. InputInv'
    BY <1>1, <1>3, <1>4, <2>1, InputStays DEF scanVars
  <2>5. OutputInv'
    BY <2>1 DEF OutputInv
  <2> QED BY <2>2, <2>3, <2>4, <2>5 DEF GuardInv
<1>5. CASE /\ ~OutputOff /\ PolicyOK /\ Start(1, AsPayload(response))
           /\ UNCHANGED <<pc, verdict, named>>
  <2>1. /\ scan' = 1 /\ payload' = AsPayload(response) /\ stage' = "walk" /\ sink' = sink
    BY <1>5 DEF Start
  <2>2. ScanInv /\ EngineOK /\ events = <<>>
    BY <1>1, <1>5 DEF GuardInv, Guarding, ScanInv
  <2>3. Start(scan', payload') /\ IsPayload(payload') /\ scan' \in Nat
    BY <1>5, <2>1, PayloadsAre DEF GuardInv
  <2>4. \A n \in DOMAIN sink : sink[n].scan \in Nat
    <3>1. \A e \in Event : e.scan \in Nat
      BY DEF Event
    <3>2. sink \in Seq(Event)
      BY <2>2 DEF ScanInv, ScanTypes
    <3> QED BY <3>1, <3>2
  <2>5. \A n \in DOMAIN sink : sink[n].scan # scan'
    BY <1>1, <2>1, <2>4 DEF GuardInv, Scheduled
  <2>6. ScanInv'
    BY <1>1, <2>2, <2>3, <2>5, StartKeeps
  <2>7. (PolicyOK' <=> PolicyOK) /\ EngineOK'
    BY <1>1, <2>2, SetUpKept, PolicyKept
  <2>8. Typed'
    BY <1>1, <1>5, <2>1 DEF GuardInv, Typed, Stages
  <2>9. Scheduled'
    BY <1>1, <1>2, <1>5, <2>1, <2>4 DEF GuardInv, Scheduled
  <2>10. InputInv'
    BY <1>1, <1>3, <1>5, <2>1, InputStays
  <2> QED BY <1>1, <1>5, <2>6, <2>7, <2>8, <2>9, <2>10, OutputNone DEF GuardInv, Guarding
<1> QED BY <1>4, <1>5 DEF PostToolUse

LEMMA OutputScannedKeeps ==
  ASSUME GuardInv, OutputScanned
  PROVE  GuardInv'
<1>1. /\ pc = "post" /\ stage \in {"done", "blocked"} /\ scan = 1 /\ payload = AsPayload(response)
      /\ UNCHANGED <<engine, tool, config, args, got, response>> /\ pc' = "over"
      /\ verdict.input \notin {"none", "denied"}
      /\ stage' = "idle" /\ events' = <<>> /\ UNCHANGED <<scan, payload, at, findings, out, sink>>
  BY DEF OutputScanned, Gone, GuardInv, Scheduled
<1>2. (Allowlisted' <=> Allowlisted) /\ AsPayload(response)' = AsPayload(response)
  BY <1>1, SetUpKept, ResponseKept
<1>3. ScanInv /\ EngineOK
  BY <1>1, ScanningPolicy DEF GuardInv
<1>4. Entities = Acted
  BY DEF Entities, Acted
<1>5. Modified <=> Entities # {}
  BY <1>3, <1>4, ActedIs
<1>6. PICK v \in {"silent", "warned"} : Conclude("output", v, Entities) /\ (v = "silent" => Entities = {})
  BY <1>5 DEF OutputScanned
<1>7. /\ verdict' \in [Guards -> Verdicts] /\ DOMAIN named' = Guards
      /\ verdict'.output = v /\ named'.output = Entities
      /\ verdict'.input = verdict.input /\ named'.input = named.input
  <2>1. "output" \in Guards /\ "input" \in Guards \ {"output"} /\ v \in Verdicts
    BY DEF Guards, Verdicts
  <2> QED BY <1>1, <1>6, <2>1, ConcludeIs DEF GuardInv
<1>8. Guarding' /\ (PolicyOK => EngineOK)'
  BY <1>1, GuardRests
<1>9. Typed' /\ Scheduled'
  BY <1>1, <1>2, <1>7 DEF GuardInv, Typed, Scheduled, Stages
<1>10. InputInv'
  BY <1>1, <1>7, InputStays
<1>11. CASE stage = "done"
  <2>1. Seen(1, payload, Entities)
    BY <1>1, <1>11, ScanDone
  <2>2. \A leaves, E : Seen(1, leaves, E) => Seen(1, leaves, E)'
    BY <1>1, SeenStays
  <2>3. Seen(1, AsPayload(response), named.output)'
    BY <1>1, <1>2, <1>7, <2>1, <2>2
  <2>4. OutputInv'
    BY <1>6, <1>7, <2>3 DEF OutputInv
  <2> QED BY <1>8, <1>9, <1>10, <2>4 DEF GuardInv
<1>12. CASE stage = "blocked"
  <2>1. at \in DOMAIN payload /\ Bans(payload[at])
    BY <1>3, <1>12 DEF ScanInv, Refusing
  <2>2. Entities # {} /\ \A x \in Entities : \E i \in DOMAIN payload : x \in Hot(payload[i])
    BY <1>3, <1>4, <1>12, ActedIs
  <2>3. \A l : Hot(l)' = Hot(l)
    BY <1>1, SetUpKept
  <2>4. /\ \E i \in DOMAIN AsPayload(response)' : Bans(AsPayload(response)[i])'
        /\ \A x \in named'.output : \E i \in DOMAIN AsPayload(response)' : x \in Hot(AsPayload(response)[i])'
    BY <1>1, <1>2, <1>7, <2>1, <2>2, <2>3, PolicyKept
  <2>5. OutputInv'
    BY <1>6, <1>7, <2>2, <2>4 DEF OutputInv
  <2> QED BY <1>8, <1>9, <1>10, <2>5 DEF GuardInv
<1> QED BY <1>1, <1>11, <1>12

LEMMA InputFailsKeeps ==
  ASSUME GuardInv, InputFails
  PROVE  GuardInv'
<1>1. /\ pc = "pre" /\ scan = 0 /\ pc' = "run" /\ DOMAIN got' = DOMAIN args.leaves
      /\ UNCHANGED <<engine, tool, config, args, response>>
      /\ verdict.output = "none" /\ named.output = {}
      /\ stage' = "idle" /\ events' = <<>> /\ UNCHANGED <<scan, payload, at, findings, out, sink>>
      /\ Conclude("input", "failed", {})
  BY DEF InputFails, Call, Unmarked, Gone, GuardInv, Scheduled
<1>2. (InputOff' <=> InputOff) /\ (Allowlisted' <=> Allowlisted)
  BY <1>1, SetUpKept
<1>3. /\ verdict' \in [Guards -> Verdicts] /\ DOMAIN named' = Guards
      /\ verdict'.input = "failed" /\ named'.input = {}
      /\ verdict'.output = "none" /\ named'.output = {}
  <2>1. "input" \in Guards /\ "output" \in Guards \ {"input"} /\ "failed" \in Verdicts
    BY DEF Guards, Verdicts
  <2> QED BY <1>1, <2>1, ConcludeIs DEF GuardInv
<1>4. Guarding' /\ (PolicyOK => EngineOK)'
  BY <1>1, GuardRests
<1>5. Typed' /\ Scheduled'
  BY <1>1, <1>2, <1>3 DEF GuardInv, Typed, Scheduled, Stages
<1>6. InputInv'
  BY <1>1, <1>3 DEF InputInv, Called, Looked
<1> QED BY <1>3, <1>4, <1>5, <1>6, OutputNone DEF GuardInv

LEMMA OutputFailsKeeps ==
  ASSUME GuardInv, OutputFails
  PROVE  GuardInv'
<1>1. /\ pc = "post" /\ pc' = "over"
      /\ UNCHANGED <<engine, tool, config, args, got, response>>
      /\ verdict.input \notin {"none", "denied"}
      /\ stage' = "idle" /\ events' = <<>> /\ UNCHANGED <<scan, payload, at, findings, out, sink>>
      /\ Conclude("output", "failed", {})
  BY DEF OutputFails, Gone, GuardInv, Scheduled
<1>2. Allowlisted' <=> Allowlisted
  BY <1>1, SetUpKept
<1>3. /\ verdict' \in [Guards -> Verdicts] /\ DOMAIN named' = Guards
      /\ verdict'.output = "failed" /\ named'.output = {}
      /\ verdict'.input = verdict.input /\ named'.input = named.input
  <2>1. "output" \in Guards /\ "input" \in Guards \ {"output"} /\ "failed" \in Verdicts
    BY DEF Guards, Verdicts
  <2> QED BY <1>1, <2>1, ConcludeIs DEF GuardInv
<1>4. Guarding' /\ (PolicyOK => EngineOK)'
  BY <1>1, GuardRests
<1>5. Typed' /\ Scheduled'
  BY <1>1, <1>2, <1>3 DEF GuardInv, Typed, Scheduled, Stages
<1>6. InputInv'
  BY <1>1, <1>3, InputStays
<1>7. OutputInv'
  BY <1>3 DEF OutputInv
<1> QED BY <1>4, <1>5, <1>6, <1>7 DEF GuardInv

LEMMA ScanningKeeps ==
  ASSUME GuardInv, Scanning
  PROVE  GuardInv'
<1>1. /\ ScanStep
      /\ UNCHANGED <<engine, tool, config, args, pc, got, response, verdict, named>>
  BY DEF Scanning
<1>2. PolicyOK /\ ScanInv /\ EngineOK
  BY <1>1, ScanningPolicy DEF GuardInv
<1>3. /\ stage # "idle" /\ stage' # "idle" /\ scan' = scan /\ payload' = payload
      /\ \/ sink' = sink
         \/ \E e \in Event : Owned(e) /\ sink' = Append(sink, e)
  BY <1>1, <1>2, ScanStepIs
<1>4. /\ pc \in {"pre", "post"}
      /\ pc = "pre" => scan = 0 /\ ~InputOff /\ verdict.input = "none"
      /\ pc = "post" => scan = 1 /\ verdict.input \notin {"none", "denied"}
      /\ verdict.output = "none" /\ named.output = {}
  BY <1>3 DEF GuardInv, Typed, Scheduled
<1>5. /\ (PolicyOK' <=> PolicyOK) /\ (InputOff' <=> InputOff) /\ (Allowlisted' <=> Allowlisted)
      /\ AsPayload(response)' = AsPayload(response)
  BY <1>1, SetUpKept, ResponseKept
<1>6. ScanInv' /\ EngineOK'
  BY <1>1, <1>2, PolicyKept, ScanStepKeeps
<1>7. Typed'
  <2>1. stage' \in Stages
    BY <1>6 DEF ScanInv, ScanTypes
  <2> QED BY <1>1, <1>3, <2>1 DEF GuardInv, Typed
<1>8. \A n \in DOMAIN sink' : sink'[n].scan <= scan /\ (Allowlisted => sink'[n].scan # 0)
  <2>1. CASE sink' = sink
    BY <2>1 DEF GuardInv, Scheduled
  <2>2. ASSUME NEW e \in Event, Owned(e), sink' = Append(sink, e)
        PROVE  \A n \in DOMAIN sink' : sink'[n].scan <= scan /\ (Allowlisted => sink'[n].scan # 0)
    <3>1. e.scan = scan /\ scan \in {0, 1}
      BY <2>2 DEF Owned, GuardInv, Typed
    <3>2. Allowlisted => scan # 0
      BY <1>4 DEF InputOff
    <3>3. sink \in Seq(Event)
      BY <1>2 DEF ScanInv, ScanTypes
    <3>4. \A n \in DOMAIN sink' : sink'[n] = e \/ (n \in DOMAIN sink /\ sink'[n] = sink[n])
      BY <2>2, <3>3
    <3> QED BY <3>1, <3>2, <3>4 DEF GuardInv, Scheduled
  <2> QED BY <1>3, <2>1, <2>2
<1>9. Scheduled'
  BY <1>1, <1>3, <1>4, <1>5, <1>8 DEF GuardInv, Scheduled
<1>10. InputInv'
  <2>1. Called => DOMAIN got = DOMAIN args.leaves
    BY DEF GuardInv, InputInv
  <2> QED BY <1>1, <1>4, <2>1, InputStays DEF Called
<1> QED BY <1>1, <1>2, <1>4, <1>5, <1>6, <1>7, <1>9, <1>10, OutputNone DEF GuardInv, Guarding

LEMMA IdleKeeps ==
  ASSUME GuardInv, UNCHANGED vars
  PROVE  GuardInv'
<1>1. UNCHANGED <<engine, tool, config, args, pc, got, response, verdict, named,
                  scan, payload, stage, at, findings, out, events, sink>>
  BY DEF vars, scanVars
<1>2. Guarding' /\ (PolicyOK => EngineOK)'
  BY <1>1, GuardRests
<1>3. /\ (InputOff' <=> InputOff) /\ (Allowlisted' <=> Allowlisted)
      /\ AsPayload(response)' = AsPayload(response) /\ \A l : Hot(l)' = Hot(l)
  BY <1>1, SetUpKept, ResponseKept
<1>4. Typed' /\ Scheduled'
  BY <1>1, <1>3 DEF GuardInv, Typed, Scheduled
<1>5. InputInv'
  <2>1. /\ Called => DOMAIN got = DOMAIN args.leaves
        /\ verdict.input = "denied" => pc = "over"
    BY DEF GuardInv, InputInv
  <2> QED BY <1>1, <2>1, InputStays DEF Called
<1>6. OutputInv'
  <2> DEFINE leaves == AsPayload(response)
  <2>1. \A E : Seen(1, leaves, E) => \A L : L = leaves => Seen(1, L, E)'
    BY <1>1, SeenStays
  <2>2. Seen(1, leaves, named.output) => Seen(1, AsPayload(response), named.output)'
    BY <1>1, <1>3, <2>1
  <2>3. (\E i \in DOMAIN leaves : Bans(leaves[i])) => (\E i \in DOMAIN AsPayload(response) : Bans(AsPayload(response)[i]))'
    BY <1>1, <1>3, PolicyKept
  <2>4. (\A x \in named.output : \E i \in DOMAIN leaves : x \in Hot(leaves[i])) =>
        (\A x \in named.output : \E i \in DOMAIN AsPayload(response) : x \in Hot(AsPayload(response)[i]))'
    BY <1>1, <1>3
  <2> QED BY <1>1, <2>2, <2>3, <2>4 DEF GuardInv, OutputInv
<1> QED BY <1>2, <1>4, <1>5, <1>6 DEF GuardInv

LEMMA Starts ==
  ASSUME Init
  PROVE  GuardInv
<1>1. engine \in {Built(e) : e \in Engines} /\ (PolicyOK => EngineOK)
  BY PolicySound DEF Init
<1>2. \A g \in Guards : verdict[g] = "none" /\ named[g] = {}
  BY DEF Init
<1>3. verdict.input = "none" /\ named.input = {} /\ verdict.output = "none" /\ named.output = {}
  BY <1>2 DEF Guards
<1>4. ASSUME PolicyOK PROVE ScanInv
  <2>1. ScanTypes
    BY DEF Init, ScanTypes, IsPayload, Range, Stages
  <2>2. Sound
    BY DEF Init, Sound
  <2> QED BY <2>1, <2>2 DEF Init, ScanInv
<1>5. Typed
  BY <1>1 DEF Init, Typed, Verdicts, Stages
<1>6. Guarding
  BY <1>4 DEF Init, Guarding
<1>7. Scheduled
  <2>1. pc = "pre" /\ scan = 0 /\ stage = "idle" /\ sink = <<>> /\ DOMAIN sink = {}
    BY DEF Init
  <2> QED BY <1>3, <2>1 DEF Scheduled
<1>8. InputInv /\ OutputInv
  BY <1>3 DEF Init, InputInv, OutputInv, Looked, Called
<1> QED BY <1>1, <1>5, <1>6, <1>7, <1>8 DEF GuardInv

LEMMA StepKeeps ==
  ASSUME GuardInv, [Next]_vars
  PROVE  GuardInv'
BY IdleKeeps, PreToolUseKeeps, InputScannedKeeps, InputDeniedKeeps, UserAnswersKeeps,
   ToolReturnsKeeps, ToolFailsKeeps, PostToolUseKeeps, OutputScannedKeeps,
   InputFailsKeeps, OutputFailsKeeps, ScanningKeeps DEF Next

LEMMA Always == Spec => []GuardInv
BY Starts, StepKeeps, PTL DEF Spec

-----------------------------------------------------------------------------
(* What the invariant says.                                                *)

(* The mode of a guard and what the user has meant are the same, but for    *)
(* how off is written.                                                      *)
LEMMA ModeIs ==
  ASSUME NEW g \in Guards
  PROVE  /\ Mode(g) \in {"ask", "mask"} <=> Meant(g) \in {"ask", "mask"}
         /\ Mode(g) = "off" => SwitchedOff(g)
<1> DEFINE E == config.env[g]
           F == config.file[g]
           m == IF E # "absent" THEN E ELSE IF F # "absent" THEN F ELSE Default[g]
           Is(x) == x = E \/ (E = "absent" /\ x = F) \/ {E, F} = {"absent"}
           S == {E, F, Default[g]} \ {"absent"}
<1>1. Default[g] \in {"ask", "warn"}
  BY DEF Default, Guards
<1>2. m \in S /\ Is(m)
  BY <1>1
<1>3. \A x \in S : Is(x) => x = m
  BY <1>1
<1>4. Meant(g) = CHOOSE x \in S : Is(x)
  BY DEF Meant
<1>5. Meant(g) = m
  <2> HIDE DEF S, Is, m
  <2> QED BY <1>2, <1>3, <1>4
<1>6. Mode(g) = IF E # "absent" THEN E ELSE IF F # "absent" THEN Loaded(F) ELSE Default[g]
  BY DEF Mode
<1>7. /\ Loaded(F) \in {"ask", "mask"} <=> F \in {"ask", "mask"}
      /\ Loaded(F) = "off" => F = "'off'"
  BY DEF Loaded
<1> QED BY <1>1, <1>5, <1>6, <1>7 DEF SwitchedOff

LEMMA ListedIs == Allowlisted <=> Listed
BY DEF Allowlisted, Listed

LEMMA ConcernsAre ==
  ASSUME NEW leaves
  PROVE  Concerns(leaves) = UNION {Hot(leaves[i]) : i \in DOMAIN leaves}
BY DEF Concerns, Hot

LEMMA LogIs ==
  ASSUME GuardInv
  PROVE  sink \in Seq(Event)
<1>1. CASE PolicyOK
  BY <1>1 DEF GuardInv, Guarding, ScanInv, ScanTypes
<1>2. CASE ~PolicyOK
  <2>1. sink = <<>>
    BY <1>2 DEF GuardInv, Guarding
  <2> QED BY <2>1
<1> QED BY <1>1, <1>2

-----------------------------------------------------------------------------
(* The types of the two guards: the audit of a guard knows no tokens.      *)
THEOREM GuardTypes == Spec => []TypeOK
<1>1. GuardInv => TypeOK
  <2> SUFFICES ASSUME GuardInv PROVE TypeOK
    OBVIOUS
  <2>1. \A f \in Range(findings) : f.action \in DOMAIN SEVERITY \ {"tokenize"}
    <3>1. CASE PolicyOK
      <4>1. findings \in Seq(Finding) /\ engine.vault = FALSE
        BY <3>1, PolicySound DEF GuardInv, Guarding, ScanInv, ScanTypes, Typed
      <4>2. \A f \in Finding : f.action \in DOMAIN SEVERITY \ {"tokenize"}
        BY <4>1 DEF Finding, Acts
      <4> QED BY <4>1, <4>2 DEF Range
    <3>2. CASE ~PolicyOK
      <4>1. findings = <<>>
        BY <3>2 DEF GuardInv, Guarding
      <4> QED BY <4>1 DEF Range
    <3> QED BY <3>1, <3>2
  <2>2. \A g \in Guards : verdict[g] \in {"none", "off", "silent", "failed"} => named[g] = {}
    BY DEF GuardInv, InputInv, OutputInv, Guards
  <2>3. engine.policy \in {e.policy : e \in Engines}
    BY PolicySound DEF GuardInv, Typed
  <2> QED BY <2>1, <2>2, <2>3 DEF TypeOK, GuardInv, Typed, InputInv, Called
<1> QED BY <1>1, Always, PTL

(* While the input guard is on and does not fail, no tool gets what the      *)
(* policy wants hidden unless the user was told, and none is called on an    *)
(* input that a rule withholds.                                              *)
THEOREM CallsAreGuarded == Spec => []InputGuarded
<1>1. GuardInv => InputGuarded
  <2> SUFFICES ASSUME GuardInv, Called, ~SwitchedOff("input"), ~Listed, verdict.input # "failed"
               PROVE  /\ ~Banned(args.leaves)
                      /\ \A i \in DOMAIN args.leaves : \A d \in Demands(args.leaves[i]) :
                            \/ Hidden(got[i], d)
                            \/ /\ d.span.entity \in named.input
                               /\ verdict.input = IF Meant("input") \in {"ask", "mask"} THEN "asked" ELSE "warned"
    BY DEF InputGuarded
  <2>1. /\ Mode("input") \in {"ask", "mask"} <=> Meant("input") \in {"ask", "mask"}
        /\ Mode("input") # "off" /\ ~Allowlisted
    BY ModeIs, ListedIs DEF Guards
  <2>2. verdict.input \in Looked \cup {"off"}
    <3>1. verdict.input \in Verdicts
      BY DEF GuardInv, Typed, Guards
    <3>2. verdict.input \notin {"none", "denied"}
      BY DEF Called, GuardInv, Scheduled
    <3> QED BY <3>1, <3>2 DEF Verdicts, Looked
  <2>3. CASE verdict.input = "off"
    <3>1. args.leaves = <<>>
      BY <2>1, <2>3 DEF GuardInv, InputInv, InputOff
    <3> QED BY <3>1 DEF Banned
  <2>4. CASE verdict.input \in Looked
    <3>1. Seen(0, args.leaves, named.input)
      BY <2>4 DEF GuardInv, InputInv
    <3>2. ~Banned(args.leaves)
      BY <3>1, BannedIs DEF Seen
    <3>3. ASSUME NEW i \in DOMAIN args.leaves, NEW d \in Demands(args.leaves[i]), ~Hidden(got[i], d)
          PROVE  /\ d.span.entity \in named.input
                 /\ verdict.input = IF Meant("input") \in {"ask", "mask"} THEN "asked" ELSE "warned"
      <4>1. d.span.entity \in Hot(args.leaves[i])
        BY <3>3 DEF Hidden, Hot
      <4>2. d.span.entity \in named.input
        BY <3>1, <4>1 DEF Seen
      <4>3. verdict.input # "masked"
        BY <3>3 DEF GuardInv, InputInv, WellMarked
      <4>4. verdict.input # "silent"
        BY <4>2 DEF GuardInv, InputInv
      <4> QED BY <2>1, <2>4, <4>2, <4>3, <4>4 DEF GuardInv, InputInv, Looked
    <3> QED BY <3>2, <3>3
  <2> QED BY <2>2, <2>3, <2>4
<1> QED BY <1>1, Always, PTL

(* What is named in a question or a warning is what the policy wants dealt   *)
(* with, all of it unless the scan stopped at a rule that withholds.         *)
THEOREM MessagesAreExact == Spec => []MessageExact
<1>1. GuardInv => MessageExact
  <2> SUFFICES ASSUME GuardInv PROVE MessageExact
    OBVIOUS
  <2>1. verdict.input \in Looked => named.input = Concerns(args.leaves)
    BY ConcernsAre DEF GuardInv, InputInv, Seen
  <2> DEFINE leaves == AsPayload(response)
  <2>2. ASSUME Seen(1, leaves, named.output)
        PROVE  ~Banned(leaves) /\ named.output = Concerns(leaves)
    BY <2>2, BannedIs, ConcernsAre DEF Seen
  <2>3. ASSUME \E i \in DOMAIN leaves : Bans(leaves[i]), named.output # {},
               \A x \in named.output : \E i \in DOMAIN leaves : x \in Hot(leaves[i])
        PROVE  Banned(leaves) /\ named.output # {} /\ named.output \subseteq Concerns(leaves)
    <3> HIDE DEF leaves
    <3> QED BY <2>3, BannedIs, ConcernsAre
  <2> QED BY <2>1, <2>2, <2>3 DEF MessageExact, Looked, GuardInv, OutputInv
<1> QED BY <1>1, Always, PTL

(* What a guard lets pass is in the log first, each demand exactly once; a   *)
(* call on the allowlist leaves nothing of its input there.                  *)
THEOREM LogIsExact == Spec => []LogMatches
<1>1. GuardInv => LogMatches
  <2> SUFFICES ASSUME GuardInv PROVE LogMatches
    OBVIOUS
  <2>1. \A k, leaves, E : Seen(k, leaves, E) => Audited(k, leaves)
    BY LogIs, AuditedIs DEF Seen
  <2>2. verdict.input \in Looked => Audited(0, args.leaves)
    BY <2>1 DEF GuardInv, InputInv
  <2>3. verdict.output \in {"silent", "warned"} =>
            Banned(AsPayload(response)) \/ Audited(1, AsPayload(response))
    BY <2>1, BannedIs DEF GuardInv, OutputInv
  <2>4. verdict.input = "denied" => Withholds(sink[Len(sink)].rule)
    BY DEF GuardInv, InputInv, WithheldBy
  <2>5. Listed => \A n \in DOMAIN sink : sink[n].scan # 0
    BY ListedIs DEF GuardInv, Scheduled
  <2> QED BY <2>2, <2>3, <2>4, <2>5 DEF LogMatches, Looked
<1> QED BY <1>1, Always, PTL
=============================================================================
