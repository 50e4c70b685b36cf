-------------------------- MODULE MiddlewareProofs --------------------------
(***************************************************************************)
(* The middleware keeps its types and its promises, for all engines,       *)
(* policies, arguments and results: what it hands on has been scrubbed,    *)
(* is not withheld, and is in the audit log.  The scans are the work of    *)
(* ScanProofs; here is how the call puts them in a row.                    *)
(***************************************************************************)
EXTENDS Middleware, ScanProofs

(* What scan k is about. *)
LeavesOf(k) == IF k = 0 THEN args ELSE Scanned(k)

Typed ==
    /\ engine \in {Built(e) : e \in Engines} /\ tool \in Tools /\ opts \in Options /\ args \in Arguments
    /\ pc \in {"start", "request", "call", "parts", "over"}
    /\ result \in Results \cup {<<>>} /\ answer \in Answers
    /\ shown \in Seq(Range(shown))

(* When what is scanned: the arguments first, then the parts one by one. *)
Scheduled ==
    /\ pc = "start" => stage = "idle" /\ sink = <<>>
    /\ pc \in {"start", "request", "call"} => scan = 0 /\ shown = <<>> /\ result = <<>>
    /\ pc = "request" => stage # "idle" /\ payload = args
    /\ pc = "call" => stage = "idle"
    /\ pc = "parts" /\ stage = "idle" => scan <= Len(shown)
    /\ pc = "parts" /\ stage # "idle" => scan = part /\ part <= Len(result) /\ payload = Scanned(part)
    /\ pc = "over" => stage \in {"idle", "blocked", "raised"}
    /\ Len(shown) <= Len(result)

(* What is handed on has been cleared. *)
Handed ==
    /\ opts.scanArguments /\ pc \in {"call", "parts"} => Cleared(0, args, got)
    /\ \A k \in DOMAIN shown : Cleared(k, Scanned(k), shown[k])

(* Each event in the log has its demand, of this scan or of one before. *)
Sourced ==
    \A n \in DOMAIN sink :
        LET e == sink[n] IN
        /\ e.scan <= scan
        /\ \E d \in Demands(LeavesOf(e.scan)[e.leaf]) : Records(e, e.scan, e.leaf, d)

Answered ==
    /\ answer # "none" => pc = "over"
    /\ answer = "result" => Len(shown) = Len(result)
    /\ answer = "raw" => opts.failOpen /\ stage = "raised"
    /\ answer = "refusal" => stage = "blocked"

CallInv ==
    /\ EngineOK
    /\ ScanInv
    /\ Typed
    /\ Scheduled
    /\ Handed
    /\ Sourced
    /\ Answered

-----------------------------------------------------------------------------
LEMMA EngineBuilt ==
  ASSUME engine \in {Built(e) : e \in Engines}
  PROVE  EngineOK /\ engine.policy \in {e.policy : e \in Engines}
<1>1. PICK e \in Engines : engine = Built(e)
  OBVIOUS
<1>2. /\ engine.policy = e.policy /\ engine.vault = e.vault
      /\ engine.paths = [i \in DOMAIN e.policy.rules |->
                           LET p == e.policy.rules[i].match
                           IN  IF Compiles(p) THEN compile_path(p) ELSE <<>>]
  BY <1>1 DEF Built
<1>3. IsPolicy(e.policy) /\ e.vault \in BOOLEAN /\ \A r \in Range(e.policy.rules) : RuleOK(r)
  BY MiddlewareAssumption
<1>4. rules = e.policy.rules
  BY <1>2 DEF rules
<1>5. \A i \in DOMAIN rules : RuleOK(rules[i])
  BY <1>3, <1>4 DEF Range
<1> QED BY <1>2, <1>3, <1>4, <1>5 DEF EngineOK

LEMMA ResultIs ==
  ASSUME result \in Results \cup {<<>>}
  PROVE  /\ Len(result) \in Nat /\ DOMAIN result = 1 .. Len(result)
         /\ \A k \in DOMAIN result : IsPayload(Scanned(k))
<1>1. \A leaves : leaves = <<>> => IsPayload(leaves)
  BY DEF IsPayload, Range
<1>2. result \in Seq(Range(result)) /\ \A p \in Range(result) : IsPayload(p.leaves)
  <2>1. CASE result = <<>>
    BY <2>1 DEF Range
  <2>2. CASE result \in Results
    BY <2>2, MiddlewareAssumption
  <2> QED BY <2>1, <2>2
<1>3. \A k \in DOMAIN result : IsPayload(result[k].leaves)
  BY <1>2 DEF Range
<1> QED BY <1>1, <1>2, <1>3 DEF Scanned

LEMMA LogIs ==
  ASSUME ScanInv
  PROVE  scan \in Nat /\ sink \in Seq(Event) /\ \A n \in DOMAIN sink : sink[n] \in Event /\ sink[n].scan \in Nat
<1>1. \A e \in Event : e.scan \in Nat
  BY DEF Event
<1>2. scan \in Nat /\ sink \in Seq(Event)
  BY DEF ScanInv, ScanTypes
<1> QED BY <1>1, <1>2

LEMMA SourcedStays ==
  ASSUME ScanInv, Sourced, UNCHANGED <<engine, tool, args>>, sink' = sink,
         scan' \in Nat, scan <= scan', result' = result \/ scan = 0
  PROVE  Sourced'
<1> SUFFICES ASSUME NEW n \in DOMAIN sink
             PROVE  /\ sink[n].scan <= scan'
                    /\ \E d \in Demands(LeavesOf(sink[n].scan)[sink[n].leaf])' :
                          Records(sink[n], sink[n].scan, sink[n].leaf, d)'
  BY DEF Sourced
<1> DEFINE e == sink[n]
<1>1. /\ e.scan <= scan /\ e.scan \in Nat /\ scan \in Nat
      /\ \E d \in Demands(LeavesOf(e.scan)[e.leaf]) : Records(e, e.scan, e.leaf, d)
  BY LogIs DEF Sourced
<1>2. LeavesOf(sink[n].scan)' = LeavesOf(e.scan)
  BY <1>1 DEF LeavesOf, Scanned
<1>3. PICK d \in Demands(LeavesOf(e.scan)[e.leaf]) : Records(e, e.scan, e.leaf, d)
  BY <1>1
<1>4. d \in Demands(LeavesOf(sink[n].scan)[sink[n].leaf])'
  BY <1>2, <1>3, PolicyKept
<1>5. Records(sink[n], sink[n].scan, sink[n].leaf, d)'
  BY <1>3, PolicyKept
<1> QED BY <1>1, <1>4, <1>5

(* Nothing happens to the scan. *)
LEMMA AtRest ==
  ASSUME CallInv, UNCHANGED <<engine, tool, args, scanVars>>, result' = result \/ scan = 0
  PROVE  /\ EngineOK' /\ ScanInv' /\ Sourced'
         /\ \A k, leaves, marks : Cleared(k, leaves, marks) => Cleared(k, leaves, marks)'
<1>1. EngineOK'
  BY PolicyKept DEF CallInv
<1>2. ScanInv'
  BY RestKeeps DEF CallInv, scanVars
<1>3. Sourced'
  BY LogIs, SourcedStays DEF CallInv, scanVars
<1>4. ASSUME NEW k, NEW leaves, NEW marks, Cleared(k, leaves, marks) PROVE Cleared(k, leaves, marks)'
  BY <1>4, ClearedStays DEF CallInv, scanVars
<1> QED BY <1>1, <1>2, <1>3, <1>4

LEMMA AnswerKeeps ==
  ASSUME CallInv, UNCHANGED <<engine, tool, opts>>, NEW kind \in Answers \ {"none"}, Answer(kind),
         stage \in {"idle", "blocked", "raised"},
         kind = "result" => Len(shown) = Len(result),
         kind = "raw" => opts.failOpen /\ stage = "raised",
         kind = "refusal" => stage = "blocked"
  PROVE  CallInv'
<1>1. /\ answer' = kind /\ pc' = "over" /\ stage' = stage
      /\ UNCHANGED <<scanVars, args, got, result, shown>>
  BY DEF Answer, scanVars
<1>2. EngineOK' /\ ScanInv' /\ Sourced'
  BY <1>1, AtRest
<1>3. Typed' /\ Scheduled' /\ Answered'
  BY <1>1 DEF CallInv, Typed, Scheduled, Answered, part
<1>4. Handed'
  <2>1. ASSUME NEW k \in DOMAIN shown PROVE Cleared(k, Scanned(k), shown[k])'
    <3>1. Cleared(k, Scanned(k), shown[k])
      BY DEF CallInv, Handed
    <3>2. Scanned(k)' = Scanned(k)
      BY <1>1 DEF Scanned
    <3> QED BY <1>1, <3>1, <3>2, AtRest
  <2> QED BY <1>1, <2>1 DEF Handed
<1> QED BY <1>2, <1>3, <1>4 DEF CallInv

LEMMA ReceiveKeeps ==
  ASSUME CallInv, UNCHANGED <<engine, tool, opts>>, Receive
  PROVE  CallInv'
<1>1. /\ pc = "start" /\ stage = "idle" /\ sink = <<>> /\ scan = 0 /\ shown = <<>> /\ result = <<>>
      /\ args' = args /\ result' = result /\ shown' = shown /\ answer' = answer
  BY DEF Receive, CallInv, Scheduled
<1>2. answer = "none"
  BY <1>1 DEF CallInv, Answered
<1>3. CASE opts.scanArguments /\ args # <<>> /\ Start(0, args) /\ pc' = "request"
  <2>1. scan' = 0 /\ payload' = args /\ stage' = "walk" /\ sink' = sink
    BY <1>3 DEF Start
  <2>2. ScanInv'
    <3>1. events = <<>>
      BY <1>1 DEF CallInv, ScanInv
    <3>2. IsPayload(payload')
      BY <2>1, MiddlewareAssumption DEF CallInv, Typed
    <3>3. Start(scan', payload')
      BY <1>3, <2>1
    <3> QED BY <1>1, <2>1, <3>1, <3>2, <3>3, StartKeeps DEF CallInv
  <2>3. EngineOK'
    BY PolicyKept DEF CallInv
  <2>4. Typed' /\ Scheduled' /\ Answered'
    BY <1>1, <1>2, <1>3, <2>1 DEF CallInv, Typed, Scheduled, Answered
  <2>5. Handed' /\ Sourced'
    BY <1>1, <1>3, <2>1 DEF Handed, Sourced
  <2> QED BY <2>2, <2>3, <2>4, <2>5 DEF CallInv
<1>4. CASE ~(opts.scanArguments /\ args # <<>>) /\ pc' = "call" /\ got' = Unmarked(args) /\ UNCHANGED scanVars
  <2>1. EngineOK' /\ ScanInv' /\ Sourced'
    BY <1>1, <1>4, AtRest
  <2>2. Typed' /\ Scheduled' /\ Answered'
    BY <1>1, <1>2, <1>4 DEF CallInv, Typed, Scheduled, Answered, scanVars
  <2>3. Handed'
    <3>1. args = <<>> => Cleared(0, args, got)'
      BY <1>1 DEF Cleared, Told
    <3> QED BY <1>1, <1>4, <3>1 DEF Handed
  <2> QED BY <2>1, <2>2, <2>3 DEF CallInv
<1> QED BY <1>3, <1>4 DEF Receive

LEMMA RequestScannedKeeps ==
  ASSUME CallInv, UNCHANGED <<engine, tool, opts>>, RequestScanned
  PROVE  CallInv'
<1>1. /\ pc = "request" /\ stage = "done" /\ got' = PassedOn /\ pc' = "call" /\ stage' = "idle"
      /\ scan = 0 /\ shown = <<>> /\ result = <<>> /\ payload = args
      /\ UNCHANGED <<scan, payload, at, findings, out, events, sink, args, result, shown, answer>>
  BY DEF RequestScanned, Idle, CallInv, Scheduled
<1>2. EngineOK' /\ ScanInv'
  BY <1>1, PolicyKept, RestKeeps DEF CallInv, ScanInv
<1>3. Sourced'
  BY <1>1, LogIs, SourcedStays DEF CallInv
<1>4. Typed' /\ Scheduled' /\ Answered'
  BY <1>1 DEF CallInv, Typed, Scheduled, Answered
<1>5. Cleared(0, args, got')
  BY <1>1, DoneClears DEF CallInv, PassedOn, Unmarked
<1>6. Cleared(0, args, got)'
  BY <1>1, <1>5, ClearedStays DEF CallInv
<1> QED BY <1>1, <1>2, <1>3, <1>4, <1>6 DEF CallInv, Handed

LEMMA ToolReturnsKeeps ==
  ASSUME CallInv, UNCHANGED <<engine, tool, opts>>, ToolReturns
  PROVE  CallInv'
<1>1. /\ pc = "call" /\ pc' = "parts" /\ result' \in Results
      /\ stage = "idle" /\ scan = 0 /\ shown = <<>>
      /\ UNCHANGED <<scanVars, args, got, shown, answer>>
  BY DEF ToolReturns, CallInv, Scheduled
<1>2. EngineOK' /\ ScanInv' /\ Sourced'
  BY <1>1, AtRest
<1>3. Len(result') \in Nat /\ Len(shown) = 0
  BY <1>1, MiddlewareAssumption
<1>4. Typed' /\ Scheduled' /\ Answered'
  BY <1>1, <1>3 DEF CallInv, Typed, Scheduled, Answered, scanVars
<1>5. opts.scanArguments => Cleared(0, args, got)'
  BY <1>1, AtRest DEF CallInv, Handed
<1>6. Handed'
  BY <1>1, <1>5 DEF Handed
<1> QED BY <1>2, <1>4, <1>6 DEF CallInv

(* The parts that were shown before stay cleared, and the arguments. *)
LEMMA ShownStays ==
  ASSUME CallInv, UNCHANGED <<engine, tool, opts, args, got, result>>, pc' = pc,
         sink' = sink \/ (ScanStep /\ scan \notin DOMAIN shown /\ ~(pc = "parts" /\ scan = 0)),
         \A k \in DOMAIN shown : shown'[k] = shown[k]
  PROVE  /\ opts.scanArguments /\ pc \in {"call", "parts"} => Cleared(0, args, got)'
         /\ \A k \in DOMAIN shown : Cleared(k, Scanned(k), shown[k])'
<1>1. ASSUME NEW k, NEW leaves, NEW marks, Cleared(k, leaves, marks), k # scan \/ sink' = sink
      PROVE  Cleared(k, leaves, marks)'
  BY <1>1, ClearedStays DEF CallInv
<1>2. ASSUME opts.scanArguments, pc \in {"call", "parts"} PROVE Cleared(0, args, got)'
  <2>1. Cleared(0, args, got)
    BY <1>2 DEF CallInv, Handed
  <2>2. sink' = sink \/ scan # 0
    <3>1. pc = "call" => ~ScanStep
      BY ScanStepIs DEF CallInv, Scheduled
    <3> QED BY <1>2, <3>1
  <2> QED BY <1>1, <2>1, <2>2
<1>3. ASSUME NEW k \in DOMAIN shown PROVE Cleared(k, Scanned(k), shown[k])'
  <2>1. Cleared(k, Scanned(k), shown[k])
    BY DEF CallInv, Handed
  <2>2. Scanned(k)' = Scanned(k) /\ shown'[k] = shown[k]
    BY DEF Scanned
  <2> QED BY <1>1, <2>1, <2>2
<1> QED BY <1>2, <1>3

LEMMA ShownSame ==
  ASSUME CallInv, UNCHANGED <<engine, tool, opts, args, pc, got, result, shown, sink>>
  PROVE  Handed'
<1>1. \A k \in DOMAIN shown : shown'[k] = shown[k]
  OBVIOUS
<1>2. /\ opts.scanArguments /\ pc \in {"call", "parts"} => Cleared(0, args, got)'
      /\ \A k \in DOMAIN shown : Cleared(k, Scanned(k), shown[k])'
  BY <1>1, ShownStays
<1> QED BY <1>2 DEF Handed

LEMMA PartIs ==
  ASSUME CallInv
  PROVE  /\ Len(shown) \in Nat /\ DOMAIN shown = 1 .. Len(shown) /\ part \in Nat \ {0}
         /\ part \notin DOMAIN shown /\ part > Len(shown)
BY DEF CallInv, Typed, part

LEMMA ScanPartKeeps ==
  ASSUME CallInv, UNCHANGED <<engine, tool, opts>>, ScanPart
  PROVE  CallInv'
<1>1. /\ pc = "parts" /\ stage = "idle" /\ part <= Len(result) /\ Start(part, Scanned(part))
      /\ scan' = part /\ payload' = Scanned(part) /\ stage' = "walk" /\ sink' = sink
      /\ UNCHANGED callVars /\ scan <= Len(shown)
  BY DEF ScanPart, Scanned, Start, CallInv, Scheduled
<1>2. part \in Nat /\ scan \in Nat /\ scan <= scan' /\ part \in DOMAIN result /\ IsPayload(Scanned(part))
      /\ scan < part
  BY <1>1, PartIs, ResultIs, LogIs DEF CallInv, Typed
<1>3. ScanInv'
  <2>1. events = <<>>
    BY <1>1 DEF CallInv, ScanInv
  <2>2. \A n \in DOMAIN sink : sink[n].scan # scan'
    <3> TAKE n \in DOMAIN sink
    <3>1. sink[n].scan <= scan /\ sink[n].scan \in Nat
      BY LogIs DEF CallInv, Sourced
    <3> QED BY <1>1, <1>2, <3>1
  <2>3. Start(scan', payload') /\ IsPayload(payload') /\ scan' \in Nat
    BY <1>1, <1>2
  <2> QED BY <2>1, <2>2, <2>3, StartKeeps DEF CallInv
<1>4. EngineOK' /\ Sourced'
  BY <1>1, <1>2, PolicyKept, SourcedStays DEF CallInv, callVars
<1>5. part' = part /\ Scanned(part)' = Scanned(part)
  BY <1>1 DEF part, Scanned, callVars
<1>6. Typed' /\ Scheduled' /\ Answered'
  BY <1>1, <1>5 DEF CallInv, Typed, Scheduled, Answered, callVars
<1>7. Handed'
  BY <1>1, ShownSame DEF callVars
<1> QED BY <1>3, <1>4, <1>6, <1>7 DEF CallInv

(* One part more is shown. *)
LEMMA ShowKeeps ==
  ASSUME CallInv, UNCHANGED <<engine, tool, opts, args, pc, got, result, answer>>, pc = "parts",
         UNCHANGED <<scan, payload, at, findings, out, events, sink>>,
         stage' = "idle", stage \in {"idle", "done"},
         part <= Len(result), NEW marks, shown' = Append(shown, marks),
         Cleared(part, Scanned(part), marks)
  PROVE  CallInv'
<1>1. EngineOK' /\ ScanInv' /\ Sourced'
  <2>1. events = <<>>
    BY DEF CallInv, ScanInv
  <2>2. ScanInv'
    BY <2>1, RestKeeps DEF CallInv
  <2> QED BY <2>2, PolicyKept, LogIs, SourcedStays DEF CallInv
<1>2. /\ shown' \in Seq(Range(shown')) /\ Len(shown') = part /\ DOMAIN shown' = 1 .. part
      /\ shown'[part] = marks
      /\ \A k \in DOMAIN shown : shown'[k] = shown[k]
  <2>1. shown \in Seq(Range(shown))
    BY DEF CallInv, Typed
  <2>2. Range(shown) \subseteq Range(shown) \cup {marks}
    OBVIOUS
  <2>3. shown \in Seq(Range(shown) \cup {marks})
    BY <2>1
  <2>4. /\ shown' \in Seq(Range(shown) \cup {marks}) /\ Len(shown') = part /\ DOMAIN shown' = 1 .. part
        /\ shown'[part] = marks /\ \A k \in DOMAIN shown : shown'[k] = shown[k]
    BY <2>3 DEF part
  <2>5. \A k \in 1 .. part : shown'[k] \in Range(shown')
    BY <2>4 DEF Range
  <2> QED BY <2>4, <2>5, PartIs
<1>3. scan <= part
  BY PartIs, LogIs DEF CallInv, Scheduled
<1>4. Typed' /\ Scheduled' /\ Answered'
  BY <1>2, <1>3 DEF CallInv, Typed, Scheduled, Answered
<1>5. ASSUME NEW k, k = part PROVE Cleared(k, Scanned(k), shown[k])'
  <2>1. Scanned(k)' = Scanned(k) /\ shown'[k] = marks /\ Cleared(k, Scanned(k), marks)
    BY <1>2, <1>5 DEF Scanned
  <2>2. Cleared(k, Scanned(k), marks) => \A l, M : l = Scanned(k) /\ M = marks => Cleared(k, l, M)'
    BY ClearedStays DEF CallInv
  <2> QED BY <2>1, <2>2
<1>6. Handed'
  <2>1. \A k \in DOMAIN shown' : k = part \/ k \in DOMAIN shown
    BY <1>2, PartIs
  <2>2. /\ opts.scanArguments /\ pc \in {"call", "parts"} => Cleared(0, args, got)'
        /\ \A k \in DOMAIN shown : Cleared(k, Scanned(k), shown[k])'
    BY <1>2, ShownStays
  <2> QED BY <1>5, <2>1, <2>2 DEF Handed
<1> QED BY <1>1, <1>4, <1>6 DEF CallInv

LEMMA PassPartKeeps ==
  ASSUME CallInv, UNCHANGED <<engine, tool, opts>>, PassPart
  PROVE  CallInv'
<1>1. /\ pc = "parts" /\ stage = "idle" /\ part <= Len(result) /\ stage' = "idle"
      /\ shown' = Append(shown, Unmarked(result[part].leaves)) /\ Scanned(part) = <<>>
      /\ UNCHANGED <<scan, payload, at, findings, out, events, sink, args, pc, got, result, answer>>
  BY DEF PassPart, Scanned, scanVars
<1>2. \A marks : Cleared(part, Scanned(part), marks)
  BY <1>1 DEF Cleared, Told
<1> QED BY <1>1, <1>2, ShowKeeps

LEMMA PartScannedKeeps ==
  ASSUME CallInv, UNCHANGED <<engine, tool, opts>>, PartScanned
  PROVE  CallInv'
<1>1. /\ pc = "parts" /\ stage = "done" /\ stage' = "idle" /\ shown' = Append(shown, out)
      /\ scan = part /\ part <= Len(result) /\ payload = Scanned(part)
      /\ UNCHANGED <<scan, payload, at, findings, out, events, sink, args, pc, got, result, answer>>
  BY DEF PartScanned, Idle, CallInv, Scheduled
<1>2. Cleared(part, Scanned(part), out)
  BY <1>1, DoneClears DEF CallInv
<1> QED BY <1>1, <1>2, ShowKeeps

LEMMA ScanningKeeps ==
  ASSUME CallInv, UNCHANGED <<engine, tool, opts>>, Scanning
  PROVE  CallInv'
<1>1. /\ ScanStep /\ UNCHANGED callVars
      /\ stage \in {"walk", "emit", "refuse"} /\ stage' # "idle" /\ scan' = scan /\ payload' = payload
      /\ \/ sink' = sink
         \/ \E e \in Event : Owned(e) /\ sink' = Append(sink, e)
  BY ScanStepIs DEF Scanning, CallInv
<1>2. EngineOK' /\ ScanInv'
  BY <1>1, PolicyKept, ScanStepKeeps DEF CallInv
<1>3. /\ pc \in {"request", "parts"} /\ payload = LeavesOf(scan)
      /\ pc = "parts" => scan = part /\ scan # 0 /\ scan \notin DOMAIN shown
      /\ pc = "request" => shown = <<>>
  <2>1. pc \in {"request", "parts"}
    BY <1>1 DEF CallInv, Typed, Scheduled
  <2>2. CASE pc = "request"
    BY <2>2 DEF CallInv, Scheduled, LeavesOf
  <2>3. CASE pc = "parts"
    BY <1>1, <2>3, PartIs DEF CallInv, Scheduled, LeavesOf
  <2> QED BY <2>1, <2>2, <2>3
<1>4. Typed' /\ Scheduled' /\ Answered'
  <2>1. part' = part /\ Scanned(part)' = Scanned(part)
    BY <1>1 DEF part, Scanned, callVars
  <2> QED BY <1>1, <1>3, <2>1 DEF CallInv, Typed, Scheduled, Answered, callVars
<1>5. Handed'
  <2>1. \A k \in DOMAIN shown : k # scan
    BY <1>3
  <2> QED BY <1>1, <1>3, <2>1, ShownStays DEF Handed, callVars
<1>6. Sourced'
  <2>1. CASE sink' = sink
    BY <1>1, <2>1, LogIs, SourcedStays DEF CallInv, callVars
  <2>2. ASSUME NEW e \in Event, Owned(e), sink' = Append(sink, e) PROVE Sourced'
    <3>1. /\ \A n \in DOMAIN sink' : \/ n \in DOMAIN sink /\ sink'[n] = sink[n]
                                 \/ sink'[n] = e
      BY <2>2, LogIs DEF CallInv
    <3>2. /\ e.scan = scan /\ e.scan <= scan
          /\ \E d \in Demands(LeavesOf(e.scan)[e.leaf]) : Records(e, e.scan, e.leaf, d)
      BY <1>3, <2>2, LogIs DEF CallInv, Owned
    <3>3. ASSUME NEW n \in DOMAIN sink'
          PROVE  /\ sink'[n].scan <= scan
                 /\ \E d \in Demands(LeavesOf(sink'[n].scan)[sink'[n].leaf]) :
                       Records(sink'[n], sink'[n].scan, sink'[n].leaf, d)
      BY <3>1, <3>2 DEF CallInv, Sourced
    <3>4. \A k : LeavesOf(k)' = LeavesOf(k)
      BY <1>1 DEF LeavesOf, Scanned, callVars
    <3>5. ASSUME NEW n \in DOMAIN sink'
          PROVE  \E d \in Demands(LeavesOf(sink[n].scan)[sink[n].leaf])' :
                    Records(sink[n], sink[n].scan, sink[n].leaf, d)'
      <4>1. PICK d \in Demands(LeavesOf(sink'[n].scan)[sink'[n].leaf]) :
               Records(sink'[n], sink'[n].scan, sink'[n].leaf, d)
        BY <3>3
      <4>2. LeavesOf(sink[n].scan)' = LeavesOf(sink'[n].scan)
        BY <3>4
      <4>3. d \in Demands(LeavesOf(sink[n].scan)[sink[n].leaf])'
        BY <4>1, <4>2, PolicyKept
      <4>4. Records(sink[n], sink[n].scan, sink[n].leaf, d)'
        BY <4>1, PolicyKept
      <4> QED BY <4>3, <4>4
    <3> QED BY <1>1, <3>3, <3>5 DEF Sourced
  <2> QED BY <1>1, <2>1, <2>2
<1> QED BY <1>2, <1>4, <1>5, <1>6 DEF CallInv

-----------------------------------------------------------------------------
LEMMA Starts ==
  ASSUME Init
  PROVE  CallInv
<1>1. EngineOK
  BY EngineBuilt DEF Init
<1>2. ScanInv
  <2>1. ScanTypes
    BY DEF Init, ScanTypes, IsPayload, Range, Stages
  <2>2. Sound
    BY DEF Init, Sound
  <2> QED BY <2>1, <2>2 DEF Init, ScanInv
<1>3. Typed /\ Scheduled /\ Handed /\ Sourced /\ Answered
  BY DEF Init, Typed, Scheduled, Handed, Sourced, Answered, Answers, Range
<1> QED BY <1>1, <1>2, <1>3 DEF CallInv

LEMMA StepKeeps ==
  ASSUME CallInv, [Next]_vars
  PROVE  CallInv'
<1>1. CASE UNCHANGED vars
  <2>1. EngineOK' /\ ScanInv' /\ Sourced'
    BY <1>1, AtRest DEF vars, callVars
  <2>2. Typed' /\ Scheduled' /\ Answered'
    BY <1>1 DEF CallInv, Typed, Scheduled, Answered, vars, callVars, scanVars, part, Scanned
  <2>3. Handed'
    BY <1>1, ShownSame DEF vars, callVars, scanVars
  <2> QED BY <2>1, <2>2, <2>3 DEF CallInv
<1>2. CASE Receive
  BY <1>2, ReceiveKeeps DEF Receive
<1>3. CASE RequestScanned
  BY <1>3, RequestScannedKeeps DEF RequestScanned
<1>4. CASE RequestBlocked
  BY <1>4, AnswerKeeps DEF RequestBlocked, Answers
<1>5. CASE RequestRaised
  BY <1>5, AnswerKeeps DEF RequestRaised, Answers
<1>6. CASE ToolReturns
  BY <1>6, ToolReturnsKeeps DEF ToolReturns
<1>7. CASE ToolRaises
  BY <1>7, AnswerKeeps DEF ToolRaises, Answers, CallInv, Scheduled
<1>8. CASE ScanPart
  BY <1>8, ScanPartKeeps DEF ScanPart
<1>9. CASE PassPart
  BY <1>9, PassPartKeeps DEF PassPart
<1>10. CASE PartScanned
  BY <1>10, PartScannedKeeps DEF PartScanned
<1>11. CASE PartBlocked
  BY <1>11, AnswerKeeps DEF PartBlocked, Refusal, Answers
<1>12. CASE PartRaised
  <2>1. opts.failOpen \in BOOLEAN
    BY DEF CallInv, Typed, Options
  <2> QED BY <1>12, <2>1, AnswerKeeps DEF PartRaised, OnFailure, Answers
<1>13. CASE AllShown
  <2>1. Len(shown) = Len(result)
    BY <1>13, PartIs, ResultIs DEF AllShown, part, CallInv, Typed, Scheduled
  <2> QED BY <1>13, <2>1, AnswerKeeps DEF AllShown, Answers
<1>14. CASE Scanning
  BY <1>14, ScanningKeeps DEF Scanning
<1> QED BY <1>1, <1>2, <1>3, <1>4, <1>5, <1>6, <1>7, <1>8, <1>9, <1>10, <1>11, <1>12, <1>13, <1>14 DEF Next

LEMMA Always == Spec => []CallInv
BY Starts, StepKeeps, PTL DEF Spec

-----------------------------------------------------------------------------
(* The types of the call and of its scans; the cap on what the NER tier      *)
(* reports, Effective and the places of the rules are what makes the marks   *)
(* and the events well-typed.                                                *)
THEOREM CallTypes == Spec => []TypeOK
<1>1. CallInv => TypeOK
  <2> SUFFICES ASSUME CallInv PROVE TypeOK
    OBVIOUS
  <2>1. ScanTypes /\ Sound
    BY DEF CallInv, ScanInv
  <2>2. Acts = Applicable
    BY DEF Acts, Applicable
  <2>3. /\ \A f \in Finding : f.action \in Applicable /\ (f.span.tier = 2 => f.span.conf <= NerMax)
        /\ \A e \in Event : e.rule \in 0 .. Len(rules)
        /\ Mark \subseteq [place : Nat, action : Applicable]
    BY <2>2 DEF Finding, Event, Mark, Rule0
  <2>4. \A n \in DOMAIN findings : /\ findings[n].leaf \in DOMAIN payload /\ findings[n].action \in Applicable
                                   /\ findings[n].span.tier = 2 => findings[n].span.conf <= NerMax
    BY <2>1, <2>3 DEF ScanTypes, Sound
  <2>5. \A e \in Range(events) \cup Range(sink) : e.rule \in 0 .. Len(rules)
    BY <2>1, <2>3 DEF ScanTypes, Range
  <2>6. \A marks \in Range(out) : marks \subseteq [place : Nat, action : Applicable]
    BY <2>1, <2>3 DEF ScanTypes
  <2> QED BY <2>1, <2>4, <2>5, <2>6, EngineBuilt DEF TypeOK, CallInv, Typed, Scheduled, ScanTypes
<1> QED BY <1>1, Always, PTL

(* The client is shown nothing of a scrubbed result that the policy wants    *)
(* hidden: the marks that _rebuild merges hide each demand of the policy.    *)
THEOREM ResultIsScrubbed == Spec => []ResultScrubbed
<1>1. CallInv => ResultScrubbed
  <2> SUFFICES ASSUME CallInv, answer = "result", NEW k \in DOMAIN result
               PROVE  Scrubbed(Scanned(k), shown[k])
    BY DEF ResultScrubbed
  <2>1. k \in DOMAIN shown
    BY PartIs, ResultIs DEF CallInv, Answered, Typed
  <2> QED BY <2>1, LogIs, ClearedIs DEF CallInv, Handed
<1> QED BY <1>1, Always, PTL

(* No rule of scope "result" applies to anything in a result that is shown,  *)
(* and a raw result is shown only by a failing engine under fail_open.       *)
THEOREM TheBrakeHolds == Spec => []BrakeHolds
<1>1. CallInv => BrakeHolds
  <2> SUFFICES ASSUME CallInv PROVE BrakeHolds
    OBVIOUS
  <2>1. ASSUME answer = "result", NEW k \in DOMAIN result PROVE ~Banned(Scanned(k))
    <3>1. k \in DOMAIN shown
      BY <2>1, PartIs, ResultIs DEF CallInv, Answered, Typed
    <3> QED BY <3>1, LogIs, ClearedIs DEF CallInv, Handed
  <2> QED BY <2>1 DEF BrakeHolds, CallInv, Answered
<1> QED BY <1>1, Always, PTL

(* With scan_arguments the tool is called with what the policy lets through. *)
THEOREM ArgumentsAreScrubbed == Spec => []ToolGetsScrubbed
<1>1. CallInv => ToolGetsScrubbed
  BY LogIs, ClearedIs DEF CallInv, Handed, ToolGetsScrubbed
<1> QED BY <1>1, Always, PTL

(* What is handed on is in the audit log first, each demand exactly once.    *)
THEOREM AuditComesFirst == Spec => []AuditedFirst
<1>1. CallInv => AuditedFirst
  <2> SUFFICES ASSUME CallInv PROVE AuditedFirst
    OBVIOUS
  <2>1. opts.scanArguments /\ pc \in {"call", "parts"} => Audited(0, args)
    BY LogIs, ClearedIs DEF CallInv, Handed
  <2>2. ASSUME answer = "result", NEW k \in DOMAIN result PROVE Audited(k, Scanned(k))
    <3>1. k \in DOMAIN shown
      BY <2>2, PartIs, ResultIs DEF CallInv, Answered, Typed
    <3> QED BY <3>1, LogIs, ClearedIs DEF CallInv, Handed
  <2>3. ASSUME answer = "refusal" PROVE Withholds(sink[Len(sink)].rule)
    <3>1. WithheldBy(sink \o events) /\ events = <<>> /\ sink \in Seq(Event)
      BY <2>3 DEF CallInv, Answered, ScanInv, Refusing, ScanTypes
    <3>2. sink \o events = sink
      BY <3>1
    <3> QED BY <3>1, <3>2 DEF WithheldBy
  <2> QED BY <2>1, <2>2, <2>3 DEF AuditedFirst
<1> QED BY <1>1, Always, PTL

(* Every mark that is shown and every event in the log has its demand.       *)
THEOREM NothingIsInvented == Spec => []NothingInvented
<1>1. CallInv => NothingInvented
  <2> SUFFICES ASSUME CallInv PROVE NothingInvented
    OBVIOUS
  <2>1. ASSUME NEW k \in DOMAIN shown, NEW i \in DOMAIN Scanned(k), NEW m \in shown[k][i]
        PROVE  \E d \in Demands(Scanned(k)[i]) : m.action = Effective(d.action)
    BY DEF CallInv, Handed, Cleared, WellMarked
  <2>2. ASSUME NEW n \in DOMAIN sink
        PROVE  LET k == sink[n].scan
                   leaves == IF k = 0 THEN args ELSE Scanned(k)
               IN  \E d \in Demands(leaves[sink[n].leaf]) : Records(sink[n], k, sink[n].leaf, d)
    BY DEF CallInv, Sourced, LeavesOf
  <2> QED BY <2>1, <2>2 DEF NothingInvented
<1> QED BY <1>1, Always, PTL
=============================================================================
