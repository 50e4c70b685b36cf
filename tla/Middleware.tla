----------------------------- MODULE Middleware -----------------------------
(***************************************************************************)
(* One tool call through the FastMCP middleware and the engine,            *)
(* adapters/fastmcp_middleware.py, on_call_tool: the arguments are         *)
(* scanned if the middleware is told to, the tool runs, the parts of its   *)
(* result are scanned one after the other.  Scans do not await, so calls   *)
(* interleave only where the tool runs; they share nothing a scan reads,   *)
(* and one call stands for all.                                            *)
(***************************************************************************)
EXTENDS Demands

CONSTANTS
    Engines,    \* engines with their policies
    Tools,      \* tool names
    Arguments,  \* the arguments of a call, as leaves
    Results     \* results of tools: sequences of parts, each with its leaves

(* The loader lets no unsound rule through. *)
ASSUME MiddlewareAssumption ==
    /\ \A e \in Engines :
          IsPolicy(e.policy) /\ e.vault \in BOOLEAN /\ \A r \in Range(e.policy.rules) : RuleOK(r)
    /\ \A leaves \in Arguments : IsPayload(leaves)
    /\ \A parts \in Results :
          parts \in Seq(Range(parts)) /\ \A p \in Range(parts) : IsPayload(p.leaves)

VARIABLES
    opts,     \* scan_arguments, block_mode and fail_open
    args,     \* the arguments the client sent
    pc,       \* where the call is
    got,      \* the marks on the arguments the tool was called with
    result,   \* what the tool returned
    shown,    \* the parts scrubbed so far
    answer    \* what the client gets

callVars == <<args, pc, got, result, shown, answer>>
vars     == <<engine, tool, opts, scanVars, callVars>>

Options == [scanArguments : BOOLEAN, blockMode : {"result", "error"}, failOpen : BOOLEAN]

Answers == {"none", "result", "raw", "refusal", "withheld", "exception"}

Unmarked(leaves) == [i \in DOMAIN leaves |-> {}]

-----------------------------------------------------------------------------
Init ==
    /\ engine \in {Built(e) : e \in Engines}
    /\ tool \in Tools
    /\ opts \in Options
    /\ args \in Arguments
    /\ scan = 0 /\ payload = <<>> /\ stage = "idle" /\ at = 1
    /\ findings = <<>> /\ out = <<>> /\ events = <<>> /\ sink = <<>>
    /\ pc = "start"
    /\ got = <<>>
    /\ result = <<>>
    /\ shown = <<>>
    /\ answer = "none"

Answer(kind) ==
    /\ answer' = kind
    /\ pc' = "over"
    /\ UNCHANGED <<scanVars, args, got, result, shown>>

(* The engine is done with a scan. *)
Idle ==
    /\ stage' = "idle"
    /\ UNCHANGED <<scan, payload, at, findings, out, events, sink>>

(* Without scan_arguments, or without arguments, the tool gets what was sent. *)
Receive ==
    /\ pc = "start"
    /\ \/ /\ opts.scanArguments /\ args # <<>>
          /\ Start(0, args)
          /\ pc' = "request"
          /\ UNCHANGED got
       \/ /\ ~(opts.scanArguments /\ args # <<>>)
          /\ pc' = "call"
          /\ got' = Unmarked(args)
          /\ UNCHANGED scanVars
    /\ UNCHANGED <<engine, tool, opts, args, result, shown, answer>>

(* Slip: the message keeps the arguments the client sent. *)
PassedAsSent == Unmarked(args)

(* The arguments are replaced if the scan has modified any. *)
PassedOn == IF Modified THEN out ELSE Unmarked(args)

RequestScanned ==
    /\ pc = "request"
    /\ stage = "done"
    /\ got' = PassedOn
    /\ pc' = "call"
    /\ Idle
    /\ UNCHANGED <<engine, tool, opts, args, result, shown, answer>>

(* ToolError: the tool is not called. *)
RequestBlocked ==
    /\ pc = "request"
    /\ stage = "blocked"
    /\ Answer("refusal")
    /\ UNCHANGED <<engine, tool, opts>>

(* The request is scanned outside of the try: the call fails, fail_open or not. *)
RequestRaised ==
    /\ pc = "request"
    /\ stage = "raised"
    /\ Answer("exception")
    /\ UNCHANGED <<engine, tool, opts>>

(* await call_next(context). *)
ToolReturns ==
    /\ pc = "call"
    /\ result' \in Results
    /\ pc' = "parts"
    /\ UNCHANGED <<engine, tool, opts, scanVars, args, got, shown, answer>>

(* What the tool raises passes through as it is. *)
ToolRaises ==
    /\ pc = "call"
    /\ Answer("exception")
    /\ UNCHANGED <<engine, tool, opts>>

part == Len(shown) + 1

(* The structured content or a text block. *)
ScanPart ==
    /\ pc = "parts" /\ stage = "idle"
    /\ part <= Len(result)
    /\ result[part].kind # "image"
    /\ Start(part, result[part].leaves)
    /\ UNCHANGED <<engine, tool, opts, callVars>>

(* A block of another type. *)
PassPart ==
    /\ pc = "parts" /\ stage = "idle"
    /\ part <= Len(result)
    /\ result[part].kind = "image"
    /\ shown' = Append(shown, Unmarked(result[part].leaves))
    /\ UNCHANGED <<engine, tool, opts, scanVars, args, pc, got, result, answer>>

PartScanned ==
    /\ pc = "parts" /\ stage = "done"
    /\ shown' = Append(shown, out)
    /\ Idle
    /\ UNCHANGED <<engine, tool, opts, args, pc, got, result, answer>>

(* Slip: except Exception comes before except ToolError. *)
RefusalIfCaught ==
    IF opts.blockMode = "result" THEN "refusal"
    ELSE IF opts.failOpen THEN "raw" ELSE "withheld"

(* The block payload, or ToolError with its message. *)
Refusal == "refusal"

PartBlocked ==
    /\ pc = "parts" /\ stage = "blocked"
    /\ Answer(Refusal)
    /\ UNCHANGED <<engine, tool, opts>>

OnFailure == IF opts.failOpen THEN "raw" ELSE "withheld"

PartRaised ==
    /\ pc = "parts" /\ stage = "raised"
    /\ Answer(OnFailure)
    /\ UNCHANGED <<engine, tool, opts>>

AllShown ==
    /\ pc = "parts" /\ stage = "idle"
    /\ part > Len(result)
    /\ Answer("result")
    /\ UNCHANGED <<engine, tool, opts>>

Scanning == ScanStep /\ UNCHANGED <<engine, tool, opts, callVars>>

Next ==
    \/ Receive
    \/ RequestScanned
    \/ RequestBlocked
    \/ RequestRaised
    \/ ToolReturns
    \/ ToolRaises
    \/ ScanPart
    \/ PassPart
    \/ PartScanned
    \/ PartBlocked
    \/ PartRaised
    \/ AllShown
    \/ Scanning

Spec == Init /\ [][Next]_vars

-----------------------------------------------------------------------------
(* Properties.                                                             *)

(* The leaves of part k that are scanned. *)
Scanned(k) == IF result[k].kind = "image" THEN <<>> ELSE result[k].leaves

Applicable == DOMAIN SEVERITY \ (IF engine.vault THEN {} ELSE {"tokenize"})

(* The state keeps its types; no finding asks for a token of a vault that is *)
(* not there, none of the NER tier is surer than its cap, and no event names *)
(* a rule that is not there.                                                 *)
TypeOK ==
    /\ engine.policy \in {e.policy : e \in Engines} /\ tool \in Tools /\ opts \in Options /\ args \in Arguments
    /\ scan \in Nat /\ at \in 1 .. Len(payload) + 1
    /\ stage \in Stages
    /\ \A n \in DOMAIN findings :
          /\ findings[n].leaf \in DOMAIN payload /\ findings[n].action \in Applicable
          /\ findings[n].span.tier = 2 => findings[n].span.conf <= NerMax
    /\ \A e \in Range(events) \cup Range(sink) : e.rule \in 0 .. Len(rules)
    /\ \A marks \in Range(out) : marks \subseteq [place : Nat, action : Applicable]
    /\ pc \in {"start", "request", "call", "parts", "over"}
    /\ result \in Results \cup {<<>>}
    /\ Len(shown) <= Len(result)
    /\ answer \in Answers

(* Whatever the client is shown of a scrubbed result has been rewritten as   *)
(* the policy asks, in every leaf of every part, by the severest of what     *)
(* applies there: although detectors are skipped, rules are tried in order,  *)
(* and paths are matched segment by segment.                                 *)
ResultScrubbed ==
    answer = "result" =>
        \A k \in DOMAIN result : Scrubbed(Scanned(k), shown[k])

(* If a rule with scope "result" applies anywhere in a result, nothing of it *)
(* is shown, the parts that were scrubbed before included; only a failing    *)
(* engine under fail_open shows a result that is not scrubbed.               *)
BrakeHolds ==
    /\ answer = "result" => \A k \in DOMAIN result : ~Banned(Scanned(k))
    /\ answer = "raw" => opts.failOpen /\ stage = "raised"

(* With scan_arguments the tool is called with arguments rewritten as the    *)
(* policy asks, and not at all if a rule withholds them.                     *)
ToolGetsScrubbed ==
    opts.scanArguments /\ pc \in {"call", "parts"} =>
        Scrubbed(args, got) /\ ~Banned(args)

(* Nothing scrubbed is handed on, to the tool or to the client, before every *)
(* demand of the policy on it is in the audit log, once and with the HMAC of *)
(* the value that was found; a refusal never goes out before the event of    *)
(* the rule that refuses.                                                    *)
AuditedFirst ==
    /\ opts.scanArguments /\ pc \in {"call", "parts"} => Audited(0, args)
    /\ answer = "result" => \A k \in DOMAIN result : Audited(k, Scanned(k))
    /\ answer = "refusal" => Withholds(sink[Len(sink)].rule)

(* Nothing is hidden or recorded that the policy does not ask for: every     *)
(* mark and every event has its demand, with exactly its action and rule.    *)
NothingInvented ==
    /\ \A k \in DOMAIN shown : \A i \in DOMAIN Scanned(k) : \A m \in shown[k][i] :
           \E d \in Demands(Scanned(k)[i]) : m.action = Effective(d.action)
    /\ \A n \in DOMAIN sink :
           LET k == sink[n].scan
               leaves == IF k = 0 THEN args ELSE Scanned(k)
           IN  \E d \in Demands(leaves[sink[n].leaf]) : Records(sink[n], k, sink[n].leaf, d)
=============================================================================
