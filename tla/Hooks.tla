------------------------------- MODULE Hooks -------------------------------
(***************************************************************************)
(* One tool call of Claude Code under the plugin's two tool guards, each a *)
(* process of its own: PreToolUse scans the input and may refuse, ask,     *)
(* mask or warn, PostToolUse scans the response and may only tell          *)
(* (hooks/tool_input.py, hooks/tool_output.py).  Each reads the            *)
(* configuration and the policy file, scans with an engine that has no     *)
(* vault, and fails open: whatever goes wrong, an exception or Claude      *)
(* Code's timeout, it says nothing and the call goes on.                   *)
(***************************************************************************)
EXTENDS Demands

CONSTANTS
    Engines,        \* engines with the policy file as it is written
    Tools,          \* tools both guards are hooked to
    Configurations, \* configuration file and environment
    Known,          \* known_entity_types()
    Inputs,         \* tool_input: its shape and its leaves
    Responses       \* tool_response, likewise

ASSUME NoVault == \A e \in Engines : e.vault = FALSE

ASSUME HooksAssumption ==
    /\ \A e \in Engines : IsPolicy(e.policy)
    /\ \A p \in Inputs \cup Responses : IsPayload(p.leaves)
    /\ \A p \in Responses : p.shape = "scalar" => Len(p.leaves) = 1

VARIABLES
    config,   \* config.yaml and the environment
    args,     \* the input Claude wants to call the tool with
    pc,       \* where the call is
    got,      \* the marks on the input the tool was called with
    response, \* what the tool returned
    verdict,  \* what each guard did
    named     \* the entities each guard named to the user

vars == <<engine, tool, config, scanVars, args, pc, got, response, verdict, named>>

Guards == {"input", "output"}

Verdicts ==
    {"none", "off", "silent", "asked", "masked", "warned", "denied", "failed"}

Unmarked(leaves) == [i \in DOMAIN leaves |-> {}]

-----------------------------------------------------------------------------
(* load_config: environment, then file, then default.                      *)

Default == [input |-> "ask", output |-> "warn"]

(* yaml.safe_load reads YAML 1.1, in which a bare off is the boolean false. *)
Loaded(text) ==
    CASE text = "off" -> "False"
      [] text = "'off'" -> "off"
      [] OTHER -> text

Mode(g) ==
    IF config.env[g] # "absent" THEN config.env[g]
    ELSE IF config.file[g] # "absent" THEN Loaded(config.file[g]) ELSE Default[g]

(* Slip: the list of the file is all there is. *)
FileList == tool \in UNION config.file.allow

(* tool_allowlist, {} where it is not given; the default lists none of Tools. *)
Allowlisted ==
    tool \in UNION (IF config.env.allow # {} THEN config.env.allow ELSE config.file.allow)

(* Policy._unique_rule_ids. *)
IdsUnique == \A i, j \in DOMAIN rules : rules[i].id = rules[j].id => i = j

(* _validate_entities. *)
EntitiesKnown == \A i \in DOMAIN rules : rules[i].entities \subseteq Known

(* resolve_policy: the name is that of a preset or a file, and it parses. *)
PolicyOK ==
    /\ engine.policy.parses
    /\ \A i \in DOMAIN rules : RuleOK(rules[i])
    /\ IdsUnique /\ EntitiesKnown

-----------------------------------------------------------------------------
Init ==
    /\ engine \in {Built(e) : e \in Engines}
    /\ tool \in Tools
    /\ config \in Configurations
    /\ args \in Inputs
    /\ scan = 0 /\ payload = <<>> /\ stage = "idle" /\ at = 1
    /\ findings = <<>> /\ out = <<>> /\ events = <<>> /\ sink = <<>>
    /\ pc = "pre"
    /\ got = <<>>
    /\ response = [shape |-> "none", leaves |-> <<>>]
    /\ verdict = [g \in Guards |-> "none"]
    /\ named = [g \in Guards |-> {}]

(* Slip: the entities of all events are listed. *)
AllEntities == {f.span.entity : f \in Range(findings)}

(* summarize_events: the entities that are acted on. *)
Entities == {f.span.entity : f \in {x \in Range(findings) : x.action # "allow"}}

(* Guard g has done v, and named E. *)
Conclude(g, v, E) ==
    /\ verdict' = [verdict EXCEPT ![g] = v]
    /\ named' = [named EXCEPT ![g] = E]

(* The process is gone, whatever it was about to write. *)
Gone ==
    /\ stage' = "idle"
    /\ events' = <<>>
    /\ UNCHANGED <<scan, payload, at, findings, out, sink>>

(* The tool is called with its input marked. *)
Call(marks) == pc' = "run" /\ got' = marks

InputOff == Mode("input") = "off" \/ Allowlisted \/ args.leaves = <<>>

PreToolUse ==
    /\ pc = "pre" /\ stage = "idle"
    /\ \/ /\ InputOff
          /\ Conclude("input", "off", {})
          /\ Call(Unmarked(args.leaves))
          /\ UNCHANGED scanVars
       \/ /\ ~InputOff /\ PolicyOK
          /\ Start(0, args.leaves)
          /\ UNCHANGED <<pc, got, verdict, named>>
    /\ UNCHANGED <<engine, tool, config, args, response>>

Silent ==
    /\ ~Modified
    /\ Conclude("input", "silent", {})
    /\ Call(Unmarked(args.leaves))

Maskable == Mode("input") = "mask" /\ args.shape = "dict"

Mask ==
    /\ Modified /\ Maskable
    /\ Conclude("input", "masked", Entities)
    /\ Call(out)

Ask ==
    /\ Modified /\ Mode("input") \in {"ask", "mask"} /\ ~Maskable
    /\ Conclude("input", "asked", Entities)
    /\ pc' = "asked"
    /\ UNCHANGED got

Warn ==
    /\ Modified /\ Mode("input") \notin {"ask", "mask"}
    /\ Conclude("input", "warned", Entities)
    /\ Call(Unmarked(args.leaves))

InputScanned ==
    /\ pc = "pre" /\ stage = "done"
    /\ Silent \/ Mask \/ Ask \/ Warn
    /\ Gone
    /\ UNCHANGED <<engine, tool, config, args, response>>

InputDenied ==
    /\ pc = "pre" /\ stage = "blocked"
    /\ Conclude("input", "denied", {})
    /\ pc' = "over"
    /\ Gone
    /\ UNCHANGED <<engine, tool, config, args, got, response>>

(* The question "share it with the tool anyway?". *)
UserAnswers ==
    /\ pc = "asked"
    /\ \/ Call(Unmarked(args.leaves))
       \/ pc' = "over" /\ UNCHANGED got
    /\ UNCHANGED <<engine, tool, config, scanVars, args, response, verdict, named>>

ToolReturns ==
    /\ pc = "run"
    /\ response' \in Responses
    /\ pc' = "post"
    /\ UNCHANGED <<engine, tool, config, scanVars, args, got, verdict, named>>

(* There is no PostToolUse for a tool that fails. *)
ToolFails ==
    /\ pc = "run"
    /\ pc' = "over"
    /\ UNCHANGED <<engine, tool, config, scanVars, args, got, response, verdict, named>>

(* str(response), unless it is a dict, a list or a string. *)
AsPayload(r) ==
    IF r.shape = "scalar" THEN <<[r.leaves[1] EXCEPT !.kind = "text"]>> ELSE r.leaves

OutputOff == Mode("output") = "off" \/ response.shape = "none"

PostToolUse ==
    /\ pc = "post" /\ stage = "idle"
    /\ \/ /\ OutputOff
          /\ Conclude("output", "off", {})
          /\ pc' = "over"
          /\ UNCHANGED scanVars
       \/ /\ ~OutputOff /\ PolicyOK
          /\ Start(1, AsPayload(response))
          /\ UNCHANGED <<pc, verdict, named>>
    /\ UNCHANGED <<engine, tool, config, args, got, response>>

OutputScanned ==
    /\ pc = "post" /\ stage \in {"done", "blocked"}
    /\ IF Modified THEN Conclude("output", "warned", Entities)
                   ELSE Conclude("output", "silent", {})
    /\ pc' = "over"
    /\ Gone
    /\ UNCHANGED <<engine, tool, config, args, got, response>>

(* run_hook logs an exception and returns 0; a hook that takes too long is   *)
(* killed.  Neither has written anything to stdout.                          *)
InputFails ==
    /\ pc = "pre"
    /\ Conclude("input", "failed", {})
    /\ Call(Unmarked(args.leaves))
    /\ Gone
    /\ UNCHANGED <<engine, tool, config, args, response>>

OutputFails ==
    /\ pc = "post"
    /\ Conclude("output", "failed", {})
    /\ pc' = "over"
    /\ Gone
    /\ UNCHANGED <<engine, tool, config, args, got, response>>

Scanning ==
    /\ ScanStep
    /\ UNCHANGED <<engine, tool, config, args, pc, got, response, verdict, named>>

Next ==
    \/ PreToolUse
    \/ InputScanned
    \/ InputDenied
    \/ UserAnswers
    \/ ToolReturns
    \/ ToolFails
    \/ PostToolUse
    \/ OutputScanned
    \/ InputFails
    \/ OutputFails
    \/ Scanning

Spec == Init /\ [][Next]_vars

-----------------------------------------------------------------------------
(* Properties.                                                             *)

(* The state keeps its types; nothing is tokenized, for there is no vault,   *)
(* and a guard that has not been run or is off has named nothing.            *)
TypeOK ==
    /\ engine.policy \in {e.policy : e \in Engines} /\ tool \in Tools
    /\ config \in Configurations /\ args \in Inputs
    /\ scan \in {0, 1} /\ stage \in Stages
    /\ \A f \in Range(findings) : f.action \in DOMAIN SEVERITY \ {"tokenize"}
    /\ pc \in {"pre", "asked", "run", "post", "over"}
    /\ pc \in {"run", "post"} => DOMAIN got = DOMAIN args.leaves
    /\ verdict \in [Guards -> Verdicts]
    /\ \A g \in Guards : verdict[g] \in {"none", "off", "silent", "failed"} => named[g] = {}

(* What the user has set for a guard: the environment's word, else the file's. *)
Meant(g) ==
    CHOOSE m \in {config.env[g], config.file[g], Default[g]} \ {"absent"} :
        \/ m = config.env[g]
        \/ config.env[g] = "absent" /\ m = config.file[g]
        \/ {config.env[g], config.file[g]} = {"absent"}

SwitchedOff(g) == Meant(g) \in {"off", "'off'"}

Listed ==
    \/ tool \in UNION config.env.allow
    \/ config.env.allow = {} /\ tool \in UNION config.file.allow

Called == pc \in {"run", "post"}

(* While the input guard is on and does not fail, a tool is called with      *)
(* something the policy wants hidden only if it was named to the user:       *)
(* in a warning if that is the mode, in a question answered with yes if the  *)
(* mode is ask, or mask where masking is not possible.  It is never called   *)
(* if a rule withholds the input.                                            *)
InputGuarded ==
    Called /\ ~SwitchedOff("input") /\ ~Listed /\ verdict.input # "failed" =>
        /\ ~Banned(args.leaves)
        /\ \A i \in DOMAIN args.leaves : \A d \in Demands(args.leaves[i]) :
              \/ Hidden(got[i], d)
              \/ /\ d.span.entity \in named.input
                 /\ verdict.input = IF Meant("input") \in {"ask", "mask"} THEN "asked" ELSE "warned"

(* What the policy wants something done about in these leaves. *)
Concerns(leaves) ==
    {d.span.entity : d \in {x \in UNION {Demands(leaves[i]) : i \in DOMAIN leaves} : x.action # "allow"}}

(* A question or a warning names each kind of data the policy wants dealt    *)
(* with, and no other; a guard is silent only if there is none.  Of a        *)
(* response that a rule withholds it may name some only.                     *)
MessageExact ==
    /\ verdict.input \in {"silent", "asked", "masked", "warned"} =>
           named.input = Concerns(args.leaves)
    /\ verdict.output \in {"silent", "warned"} =>
           LET leaves == AsPayload(response) IN
           IF Banned(leaves) THEN named.output # {} /\ named.output \subseteq Concerns(leaves)
           ELSE named.output = Concerns(leaves)

(* Whatever a guard has let pass is in the audit log first, every demand of  *)
(* the policy once; of a call the user exempts from a guard there is nothing *)
(* in the log.                                                               *)
LogMatches ==
    /\ verdict.input \in {"silent", "asked", "masked", "warned"} => Audited(0, args.leaves)
    /\ verdict.output \in {"silent", "warned"} =>
           LET leaves == AsPayload(response) IN Banned(leaves) \/ Audited(1, leaves)
    /\ verdict.input = "denied" => Withholds(sink[Len(sink)].rule)
    /\ Listed => \A n \in DOMAIN sink : sink[n].scan # 0
=============================================================================
