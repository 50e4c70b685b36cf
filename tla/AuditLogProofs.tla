--------------------------- MODULE AuditLogProofs ---------------------------
(***************************************************************************)
(* Proofs about AuditLog, for any number of writers and of events.         *)
(***************************************************************************)
EXTENDS AuditLog, DataFacts, SequenceTheorems

WriterTypes ==
    /\ backend \in Backends
    /\ log \in Seq(Entries)
    /\ nextId \in Nat \ {0}
    /\ wpc \in [Writers -> {"start", "open", "emit", "dead"}]
    /\ sent \in [Writers -> 0 .. MaxEvents]
    /\ id \in [Writers -> Nat]
    /\ returned \subseteq Events

(* What Append makes of a log. *)
LEMMA Appended ==
  ASSUME NEW l \in Seq(Entries), NEW x \in Entries
  PROVE  /\ Append(l, x) \in Seq(Entries) /\ Append(l, x) # <<>>
         /\ Len(l) \in Nat /\ Len(Append(l, x)) = Len(l) + 1
         /\ DOMAIN l = 1 .. Len(l) /\ DOMAIN Append(l, x) = 1 .. Len(l) + 1
         /\ \A n \in 1 .. Len(l) : Append(l, x)[n] = l[n] /\ l[n] \in Entries
         /\ Append(l, x)[Len(l) + 1] = x
  OBVIOUS

(* The log never runs ahead of the writers: an event has returned, or has    *)
(* its end in the log, only if it was sent; only the last half line is that  *)
(* of a writer in the middle of a write.                                     *)
AheadInv ==
    /\ \A e \in returned : e[2] <= sent[e[1]]
    /\ \A n \in DOMAIN log :
           log[n].event[2] <= sent[log[n].event[1]] + IF log[n].end THEN 0 ELSE 1
    /\ \A w \in Writers : wpc[w] = "emit" => sent[w] < MaxEvents
    /\ backend = "jsonl" => \A w \in Writers : wpc[w] = "emit" =>
           log # <<>> /\ log[Len(log)].event = Event(w) /\ ~log[Len(log)].end

WriterInv == WriterTypes /\ AheadInv

LEMMA WriterInit == Init => WriterInv
  BY AuditLogAssumption DEF Init, WriterInv, WriterTypes, AheadInv, Backends

LEMMA EventTypes ==
  ASSUME WriterTypes, NEW w \in Writers, sent[w] < MaxEvents
  PROVE  /\ Event(w) \in Events /\ Event(w)[1] = w /\ Event(w)[2] = sent[w] + 1
         /\ \A end \in BOOLEAN, n \in Nat : Entry(w, end, n) \in Entries
<1>1. sent[w] + 1 \in 1 .. MaxEvents
  BY AuditLogAssumption DEF WriterTypes
<1> QED BY <1>1 DEF Event, Events, Entry, Entries

LEMMA EntryTypes ==
  ASSUME NEW w \in Writers, Event(w) \in Events, NEW end \in BOOLEAN, NEW n \in Nat
  PROVE  /\ Entry(w, end, n) \in Entries
         /\ Entry(w, end, n).event = Event(w) /\ Entry(w, end, n).end = end
  BY DEF Entry, Entries

LEMMA EntryParts ==
  ASSUME NEW x \in Entries
  PROVE  /\ x.event \in Events /\ x.end \in BOOLEAN
         /\ x.event[1] \in Writers /\ x.event[2] \in 1 .. MaxEvents
  BY DEF Entries, Events

(* A writer sends its next event. *)
LEMMA Grown ==
  ASSUME WriterInv, NEW w \in Writers, sent[w] < MaxEvents,
         log' = log \/ \E x \in Entries : log' = Append(log, x) /\ x.event = Event(w) /\ x.end,
         sent' = [sent EXCEPT ![w] = @ + 1],
         returned' \subseteq returned \cup {Event(w)}
  PROVE  /\ log' \in Seq(Entries)
         /\ sent' \in [Writers -> 0 .. MaxEvents]
         /\ returned' \subseteq Events
         /\ \A e \in returned' : e[2] <= sent'[e[1]]
         /\ \A n \in DOMAIN log' : log'[n].event[2] <= sent'[log'[n].event[1]] + IF log'[n].end THEN 0 ELSE 1
<1>1. /\ log \in Seq(Entries) /\ sent \in [Writers -> 0 .. MaxEvents] /\ returned \subseteq Events
      /\ \A e \in returned : e[2] <= sent[e[1]]
      /\ \A n \in DOMAIN log :
             log[n].event[2] <= sent[log[n].event[1]] + IF log[n].end THEN 0 ELSE 1
  BY DEF WriterInv, WriterTypes, AheadInv
<1>2. Event(w) \in Events /\ Event(w)[1] = w /\ Event(w)[2] = sent[w] + 1
  BY EventTypes DEF WriterInv
<1>3. /\ sent' \in [Writers -> 0 .. MaxEvents] /\ sent'[w] = sent[w] + 1
      /\ \A u \in Writers : sent[u] <= sent'[u]
  BY <1>1, AuditLogAssumption
<1>4. log' \in Seq(Entries)
  BY <1>1, Appended
<1>5. \A e \in returned' : e[2] <= sent'[e[1]]
  <2> SUFFICES ASSUME NEW e \in returned' PROVE e[2] <= sent'[e[1]]
    OBVIOUS
  <2>1. CASE e = Event(w)
    BY <1>1, <1>2, <1>3, <2>1
  <2>2. CASE e \in returned
    <3>1. e[1] \in Writers /\ e[2] \in 1 .. MaxEvents /\ e[2] <= sent[e[1]]
      BY <1>1, <2>2 DEF Events
    <3> QED BY <1>1, <1>3, <3>1, AuditLogAssumption
  <2> QED BY <2>1, <2>2
<1>6. ASSUME NEW n \in DOMAIN log'
      PROVE  log'[n].event[2] <= sent'[log'[n].event[1]] + IF log'[n].end THEN 0 ELSE 1
  <2>1. CASE log'[n].event = Event(w) /\ log'[n].end
    BY <1>1, <1>2, <1>3, <2>1
  <2>2. CASE n \in DOMAIN log /\ log'[n] = log[n]
    <3>1. log[n] \in Entries
      BY <1>1, <2>2
    <3>2. log[n].end \in BOOLEAN /\ log[n].event[1] \in Writers /\ log[n].event[2] \in 1 .. MaxEvents
      BY <3>1, EntryParts
    <3> QED BY <1>1, <1>3, <2>2, <3>2, AuditLogAssumption
  <2>3. log' = log \/ (n \in DOMAIN log /\ log'[n] = log[n]) \/ (log'[n].event = Event(w) /\ log'[n].end)
    <3>1. SUFFICES ASSUME NEW x \in Entries, log' = Append(log, x)
                   PROVE  (n \in DOMAIN log /\ log'[n] = log[n]) \/ log'[n] = x
      OBVIOUS
    <3> QED BY <1>1, <3>1, Appended
  <2> QED BY <1>6, <2>1, <2>2, <2>3
<1> QED BY <1>1, <1>2, <1>3, <1>4, <1>5, <1>6

LEMMA ReadersOnlyRead ==
  ASSUME Tailing \/ BeginReport \/ CountLine \/ ReportRaises \/ EndOfLines \/ CountRows
  PROVE  UNCHANGED <<backend, writerVars>>
BY DEF Tailing, Look, Appears, Seek, ReadLine, ReadRaises, Fetch, BeginReport, CountLine, ReportRaises, EndOfLines, CountRows

(* The log grows by an entry for the next event of w, or not at all. *)
LEMMA WriterStep == WriterInv /\ [Next]_vars => WriterInv'
<1> SUFFICES ASSUME WriterInv, [Next]_vars PROVE WriterInv'
  OBVIOUS
<1> USE AuditLogAssumption DEF WriterInv, WriterTypes, AheadInv
<1>1. ASSUME NEW w \in Writers, CreateFile(w) \/ OpenSink(w) PROVE WriterInv'
  BY <1>1 DEF CreateFile, OpenSink, Goto, Event
<1>2. ASSUME NEW w \in Writers, BeginLine(w) PROVE WriterInv'
  <2>1. sent[w] < MaxEvents /\ wpc[w] = "open" /\ \A u \in Writers : wpc[u] # "emit"
    BY <1>2 DEF BeginLine, Starting, NobodyWrites
  <2>0. Event(w) \in Events /\ Event(w)[1] = w /\ Event(w)[2] = sent[w] + 1
    BY <2>1, EventTypes
  <2>2. PICK x \in Entries : log' = Append(log, x) /\ x.event = Event(w) /\ ~x.end
    <3>1. Len(log) + 1 \in Nat
      OBVIOUS
    <3>2. log' = Append(log, Entry(w, FALSE, Len(log) + 1))
      BY <1>2 DEF BeginLine
    <3> HIDE DEF WriterInv, WriterTypes, AheadInv
    <3> QED BY <2>0, <3>1, <3>2, EntryTypes
  <2>3. wpc' = [wpc EXCEPT ![w] = "emit"]
    BY <1>2 DEF BeginLine, Goto
  <2>4. UNCHANGED <<backend, nextId, sent, id, returned>>
    BY <1>2 DEF BeginLine
  <2>5. WriterTypes'
    BY <2>2, <2>3, <2>4, Appended
  <2>6. \A n \in DOMAIN log' :
            log'[n].event[2] <= sent[log'[n].event[1]] + IF log'[n].end THEN 0 ELSE 1
    BY <2>0, <2>2, <2>3, <2>4, Appended
  <2>7. log' # <<>> /\ log'[Len(log')].event = Event(w) /\ ~log'[Len(log')].end
    BY <2>2, Appended
  <2> QED BY <2>1, <2>3, <2>4, <2>5, <2>6, <2>7 DEF Event
<1>3. ASSUME NEW w \in Writers, EndLine(w) \/ InsertRow(w) \/ CommitRow(w) PROVE WriterInv'
  <2>1. sent[w] < MaxEvents
    BY <1>3 DEF EndLine, InsertRow, CommitRow, Starting
  <2>3. Event(w) \in Events /\ Event(w)[1] = w /\ Event(w)[2] = sent[w] + 1
    BY <2>1, EventTypes
  <2>2. \E x \in Entries : log' = Append(log, x) /\ x.event = Event(w) /\ x.end
    <3>1. \E n \in Nat : log' = Append(log, Entry(w, TRUE, n))
      <4>1. CASE EndLine(w)
        <5>1. Len(log) + 1 \in Nat /\ log' = Append(log, Entry(w, TRUE, Len(log) + 1))
          BY <4>1 DEF EndLine
        <5> QED BY ONLY <5>1
      <4>2. CASE InsertRow(w)
        BY <4>2 DEF InsertRow
      <4>3. CASE CommitRow(w)
        BY <4>3 DEF CommitRow
      <4> QED BY <1>3, <4>1, <4>2, <4>3
    <3> QED BY <2>3, <3>1, EntryTypes
  <2>4. /\ wpc' = [wpc EXCEPT ![w] = "open"] /\ sent' = [sent EXCEPT ![w] = @ + 1]
        /\ returned' = returned \cup {Event(w)}
    BY <1>3 DEF EndLine, InsertRow, CommitRow, Emitted, Goto
  <2>5. backend' = backend /\ nextId' \in Nat \ {0} /\ id' \in [Writers -> Nat]
    <3>1. CASE EndLine(w)
      BY <3>1 DEF EndLine
    <3>2. CASE InsertRow(w)
      BY <3>2 DEF InsertRow
    <3>3. CASE CommitRow(w)
      BY <3>3 DEF CommitRow
    <3> QED BY <1>3, <3>1, <3>2, <3>3
  <2>6. backend = "jsonl" => \A u \in Writers : wpc[u] = "emit" => u = w
    BY <1>3 DEF EndLine, InsertRow, CommitRow, Starting, Event
  <2>7. /\ log' \in Seq(Entries) /\ sent' \in [Writers -> 0 .. MaxEvents] /\ returned' \subseteq Events
        /\ \A e \in returned' : e[2] <= sent'[e[1]]
        /\ \A n \in DOMAIN log' :
               log'[n].event[2] <= sent'[log'[n].event[1]] + IF log'[n].end THEN 0 ELSE 1
    <3>1. returned' \subseteq returned \cup {Event(w)} /\ sent' = [sent EXCEPT ![w] = @ + 1]
      BY <2>4
    <3>2. log' = log \/ \E x \in Entries : log' = Append(log, x) /\ x.event = Event(w) /\ x.end
      BY <2>2
    <3> HIDE DEF WriterInv, WriterTypes, AheadInv
    <3> QED BY <2>1, <3>1, <3>2, Grown
  <2>11. /\ \A u \in Writers : wpc'[u] = "emit" => sent'[u] < MaxEvents
         /\ backend' = "jsonl" => \A u \in Writers : wpc'[u] # "emit"
    BY <2>4, <2>5, <2>6
  <2> QED BY <2>4, <2>5, <2>7, <2>11
<1>4. ASSUME NEW w \in Writers, CutLine(w) \/ EmitRaises(w) PROVE WriterInv'
  <2>1. /\ sent[w] < MaxEvents /\ backend' = backend /\ nextId' = nextId
        /\ wpc' = [wpc EXCEPT ![w] = "open"] /\ sent' = [sent EXCEPT ![w] = @ + 1]
        /\ returned' \in {returned, returned \cup {Event(w)}}
        /\ id' \in [Writers -> Nat]
        /\ backend = "jsonl" => log' = log
    <3>1. CASE CutLine(w)
      BY <3>1 DEF CutLine, Emitted, Goto, Event
    <3>2. CASE EmitRaises(w)
      BY <3>2 DEF EmitRaises, Goto, Starting
    <3> QED BY <1>4, <3>1, <3>2
  <2>2a. Event(w) \in Events /\ Event(w)[1] = w /\ Event(w)[2] = sent[w] + 1
    BY <2>1, EventTypes
  <2>2b. log' = log \/ \E x \in Entries : log' = Append(log, x) /\ x.event = Event(w) /\ x.end
    BY <1>4, <2>2a, EntryTypes DEF CutLine, EmitRaises
  <2>3. /\ log' \in Seq(Entries) /\ sent' \in [Writers -> 0 .. MaxEvents] /\ returned' \subseteq Events
        /\ \A e \in returned' : e[2] <= sent'[e[1]]
        /\ \A n \in DOMAIN log' :
               log'[n].event[2] <= sent'[log'[n].event[1]] + IF log'[n].end THEN 0 ELSE 1
    <3>1. returned' \subseteq returned \cup {Event(w)}
      BY <2>1
    <3> HIDE DEF WriterInv, WriterTypes, AheadInv
    <3> QED BY <2>1, <2>2b, <3>1, Grown
  <2>7. \A u \in Writers : wpc'[u] = "emit" =>
            sent'[u] < MaxEvents /\ wpc[u] = "emit" /\ Event(u)' = Event(u) /\ u # w
    BY <2>1 DEF Event
  <2>8. backend' = "jsonl" => \A u \in Writers : wpc'[u] = "emit" =>
            log' # <<>> /\ log'[Len(log')].event = Event(u)' /\ ~log'[Len(log')].end
    BY <2>1, <2>7
  <2> QED BY <2>1, <2>3, <2>7, <2>8
<1>5. ASSUME NEW w \in Writers, DrawId(w) \/ Die(w) PROVE WriterInv'
  <2>1. /\ UNCHANGED <<backend, log, sent, returned>> /\ nextId' \in Nat \ {0}
        /\ id' \in [Writers -> Nat] /\ wpc' \in [Writers -> {"start", "open", "emit", "dead"}]
        /\ \A u \in Writers : wpc'[u] = "emit" => sent[u] < MaxEvents
        /\ backend = "jsonl" => \A u \in Writers : wpc'[u] = "emit" => wpc[u] = "emit"
    <3>1. CASE DrawId(w)
      BY <3>1 DEF DrawId, Goto, Starting
    <3>2. CASE Die(w)
      BY <3>2 DEF Die, Goto
    <3> QED BY <1>5, <3>1, <3>2
  <2> QED BY <2>1 DEF Event
<1>6. ASSUME UNCHANGED <<backend, writerVars>> PROVE WriterInv'
  BY <1>6 DEF writerVars, Event
<1>7. CASE Tailing \/ BeginReport \/ CountLine \/ ReportRaises \/ EndOfLines \/ CountRows
  BY <1>6, <1>7, ReadersOnlyRead
<1>8. CASE UNCHANGED vars
  BY <1>6, <1>8 DEF vars
<1> QED BY <1>1, <1>2, <1>3, <1>4, <1>5, <1>7, <1>8 DEF Next

-----------------------------------------------------------------------------
(* What an event that returned has become.                                 *)

Accounted(e) == e \in Intact \/ (backend = "jsonl" /\ (Torn(e) \/ Glued(e)))

EmittedIntact == \A e \in returned : Accounted(e)

(* No entry that is appended changes what has become of event e, but its own *)
(* second half.                                                              *)
LEMMA StaysAccounted ==
  ASSUME log \in Seq(Entries), backend' = backend, NEW e,
         log' = log \/ \E x \in Entries :
                           log' = Append(log, x) /\ ~(x.event = e /\ x.end),
         Accounted(e)
  PROVE  Accounted(e)'
<1>1. CASE log' = log
  BY <1>1 DEF Accounted, Intact, Torn, Glued
<1>2. ASSUME NEW x \in Entries, log' = Append(log, x), ~(x.event = e /\ x.end)
      PROVE  Accounted(e)'
  <2>1. /\ Len(log) \in Nat /\ DOMAIN log = 1 .. Len(log) /\ DOMAIN log' = 1 .. Len(log) + 1
        /\ Len(log') = Len(log) + 1 /\ log'[Len(log) + 1] = x
        /\ \A n \in 1 .. Len(log) : log'[n] = log[n]
    BY <1>2, Appended
  <2>2. CASE e \in Intact
    <3>1. PICK m \in DOMAIN log :
             /\ log[m].event = e /\ log[m].end
             /\ backend = "jsonl" =>
                   /\ m > 1 /\ log[m - 1].event = log[m].event
                   /\ m > 2 => log[m - 2].end
      BY <2>2 DEF Intact
    <3>2. /\ m \in DOMAIN log' /\ log'[m] = log[m]
          /\ m > 1 => log'[m - 1] = log[m - 1]
          /\ m > 2 => log'[m - 2] = log[m - 2]
      BY <2>1
    <3>3. e \in Intact'
      BY <3>1, <3>2 DEF Intact
    <3> QED BY <3>3 DEF Accounted
  <2>3. CASE backend = "jsonl" /\ Torn(e)
    <3>1. ASSUME NEW n \in DOMAIN log', log'[n].event = e, log'[n].end PROVE FALSE
      <4>1. n \in 1 .. Len(log)
        <5>1. CASE n = Len(log) + 1
          BY <1>2, <2>1, <3>1, <5>1
        <5>2. CASE n # Len(log) + 1
          <6>1. n \in 1 .. Len(log) + 1
            BY <2>1
          <6> QED BY <2>1, <5>2, <6>1
        <5> QED BY <5>1, <5>2
      <4> QED BY <2>1, <2>3, <3>1, <4>1 DEF Torn
    <3>2. Torn(e)'
      BY <3>1 DEF Torn
    <3> QED BY <2>3, <3>2 DEF Accounted
  <2>4. CASE backend = "jsonl" /\ Glued(e)
    <3>1. PICK n \in 2 .. Len(log) : log[n].event = e /\ ~log[n].end /\ ~log[n - 1].end
      BY <2>4 DEF Glued
    <3>2. n \in 2 .. Len(log') /\ log'[n] = log[n] /\ log'[n - 1] = log[n - 1]
      BY <2>1
    <3>3. Glued(e)'
      BY <3>1, <3>2 DEF Glued
    <3> QED BY <2>4, <3>3 DEF Accounted
  <2> QED BY <2>2, <2>3, <2>4 DEF Accounted
<1> QED BY <1>1, <1>2

(* An emit that returns accounts for its event. *)
LEMMA NewAccounted ==
  ASSUME WriterInv, NEW w \in Writers,
         EndLine(w) \/ CutLine(w) \/ InsertRow(w) \/ CommitRow(w)
  PROVE  \A e : e = Event(w) => Accounted(e)'
<1> SUFFICES ASSUME NEW e, e = Event(w) PROVE Accounted(e)'
  OBVIOUS
<1>1. log \in Seq(Entries) /\ sent[w] < MaxEvents
  BY DEF WriterInv, WriterTypes, AheadInv, EndLine, CutLine, InsertRow, CommitRow, Starting
<1>2. e \in Events /\ e[1] = w /\ e[2] = sent[w] + 1
  BY <1>1, EventTypes DEF WriterInv
<1>3. CASE EndLine(w)
  <2>1. /\ backend = "jsonl" /\ backend' = backend /\ log # <<>>
        /\ log[Len(log)].event = e /\ ~log[Len(log)].end
    BY <1>3 DEF EndLine, WriterInv, AheadInv
  <2>2. PICK x \in Entries : log' = Append(log, x) /\ x.event = e /\ x.end
    <3>1. Len(log) + 1 \in Nat /\ log' = Append(log, Entry(w, TRUE, Len(log) + 1))
      BY <1>1, <1>3 DEF EndLine
    <3> QED BY <1>2, <3>1, EntryTypes
  <2>3. /\ Len(log) \in Nat /\ Len(log) >= 1 /\ Len(log') = Len(log) + 1
        /\ DOMAIN log' = 1 .. Len(log) + 1 /\ log'[Len(log) + 1] = x
        /\ \A n \in 1 .. Len(log) : log'[n] = log[n]
    BY <1>1, <2>1, <2>2, Appended
  <2> DEFINE n == Len(log)
  <2>4. n \in 1 .. n /\ n + 1 \in DOMAIN log' /\ log'[n + 1] = x /\ log'[n] = log[n] /\ n \in 1 .. Len(log')
    BY <2>3
  <2>5. CASE n >= 2 /\ ~log'[n - 1].end
    <3>1. Glued(e)'
      BY <2>1, <2>3, <2>4, <2>5 DEF Glued
    <3> QED BY <2>1, <3>1 DEF Accounted
  <2>6. CASE n >= 2 => log'[n - 1].end
    <3>1. /\ n + 1 \in DOMAIN log' /\ log'[n + 1].event = e /\ log'[n + 1].end
          /\ n + 1 > 1 /\ log'[(n + 1) - 1].event = log'[n + 1].event
          /\ n + 1 > 2 => log'[(n + 1) - 2].end
      BY <2>1, <2>2, <2>3, <2>4, <2>6
    <3>2. e \in Intact'
      BY <3>1 DEF Intact
    <3> QED BY <3>2 DEF Accounted
  <2> QED BY <2>5, <2>6
<1>4. CASE CutLine(w)
  <2>1. backend = "jsonl" /\ backend' = backend /\ log' = log
    BY <1>4 DEF CutLine
  <2>2. ASSUME NEW n \in DOMAIN log, log[n].event = e, log[n].end PROVE FALSE
    BY <1>2, <2>2 DEF WriterInv, WriterTypes, AheadInv
  <2> QED BY <2>1, <2>2 DEF Accounted, Torn
<1>5. CASE InsertRow(w) \/ CommitRow(w)
  <2>1. backend # "jsonl" /\ backend' = backend
    BY <1>5 DEF InsertRow, CommitRow, Starting
  <2>2. PICK x \in Entries : log' = Append(log, x) /\ x.event = e /\ x.end
    <3>1. PICK n \in Nat : log' = Append(log, Entry(w, TRUE, n))
      <4>1. CASE InsertRow(w)
        BY <4>1 DEF InsertRow, WriterInv, WriterTypes
      <4>2. CASE CommitRow(w)
        BY <4>2 DEF CommitRow, WriterInv, WriterTypes
      <4> QED BY <1>5, <4>1, <4>2
    <3> QED BY <1>2, <3>1, EntryTypes
  <2>3. Len(log) + 1 \in DOMAIN log' /\ log'[Len(log) + 1] = x
    BY <1>1, <2>2, Appended
  <2>4. e \in Intact'
    BY <2>1, <2>2, <2>3 DEF Intact
  <2> QED BY <2>4 DEF Accounted
<1> QED BY <1>3, <1>4, <1>5

LEMMA EmittedStep == WriterInv /\ EmittedIntact /\ [Next]_vars => EmittedIntact'
<1> SUFFICES ASSUME WriterInv, EmittedIntact, [Next]_vars, NEW e \in returned'
             PROVE  Accounted(e)'
  BY DEF EmittedIntact, Accounted
<1>1. log \in Seq(Entries) /\ (e \in returned => Accounted(e))
  BY DEF WriterInv, WriterTypes, EmittedIntact, Accounted
<1>2. ASSUME UNCHANGED <<backend, log, returned>> PROVE Accounted(e)'
  BY <1>1, <1>2, StaysAccounted
<1>3. ASSUME NEW w \in Writers, CreateFile(w) \/ OpenSink(w) \/ DrawId(w) \/ Die(w)
      PROVE  Accounted(e)'
  BY <1>2, <1>3 DEF CreateFile, OpenSink, DrawId, Die
<1>4. ASSUME NEW w \in Writers, BeginLine(w) PROVE Accounted(e)'
  <2>1. sent[w] < MaxEvents /\ backend' = backend /\ returned' = returned
    BY <1>4 DEF BeginLine, Starting
  <2>2. Event(w) \in Events
    BY <2>1, EventTypes DEF WriterInv
  <2>3. \E x \in Entries : log' = Append(log, x) /\ ~x.end
    <3>1. Len(log) + 1 \in Nat /\ log' = Append(log, Entry(w, FALSE, Len(log) + 1))
      BY <1>1, <1>4 DEF BeginLine
    <3> QED BY <2>2, <3>1, EntryTypes
  <2> QED BY <1>1, <2>1, <2>3, StaysAccounted
<1>5. ASSUME NEW w \in Writers,
             EndLine(w) \/ CutLine(w) \/ InsertRow(w) \/ CommitRow(w) \/ EmitRaises(w)
      PROVE  Accounted(e)'
  <2>1. sent[w] < MaxEvents /\ backend' = backend
    BY <1>5 DEF EndLine, CutLine, InsertRow, CommitRow, EmitRaises, Starting, WriterInv, AheadInv
  <2>2. Event(w) \in Events /\ Event(w)[1] = w /\ Event(w)[2] = sent[w] + 1
    BY <2>1, EventTypes DEF WriterInv
  <2>3. Event(w) \notin returned
    BY <2>2 DEF WriterInv, WriterTypes, AheadInv
  <2>4. log' = log \/ \E x \in Entries : log' = Append(log, x) /\ x.event = Event(w)
    <3>1. log' = log \/ \E n \in Nat : log' = Append(log, Entry(w, TRUE, n))
      <4>1. CASE EndLine(w)
        <5>1. Len(log) + 1 \in Nat /\ log' = Append(log, Entry(w, TRUE, Len(log) + 1))
          BY <1>1, <4>1 DEF EndLine
        <5> QED BY <5>1
      <4>2. CASE CutLine(w)
        BY <4>2 DEF CutLine
      <4>3. CASE InsertRow(w)
        BY <4>3 DEF InsertRow, WriterInv, WriterTypes
      <4>4. CASE CommitRow(w) \/ EmitRaises(w)
        BY <4>4 DEF CommitRow, EmitRaises, WriterInv, WriterTypes
      <4> QED BY <1>5, <4>1, <4>2, <4>3, <4>4
    <3> QED BY <2>2, <3>1, EntryTypes
  <2>5. CASE e \in returned
    BY <1>1, <2>1, <2>3, <2>4, <2>5, StaysAccounted
  <2>6. CASE e \notin returned
    <3>1. e = Event(w) /\ ~EmitRaises(w)
      BY <1>5, <2>6 DEF EndLine, CutLine, InsertRow, CommitRow, EmitRaises, Emitted
    <3> QED BY <1>5, <3>1, NewAccounted
  <2> QED BY <2>5, <2>6
<1>6. CASE Tailing \/ BeginReport \/ CountLine \/ ReportRaises \/ EndOfLines \/ CountRows
  BY <1>2, <1>6, ReadersOnlyRead DEF writerVars
<1>7. CASE UNCHANGED vars
  BY <1>2, <1>7 DEF vars, writerVars
<1> QED BY <1>3, <1>4, <1>5, <1>6, <1>7 DEF Next

-----------------------------------------------------------------------------
(* Every half of a line, and every row, is in the log once.                *)

(* Writer w sends its next event, or writes its first half, or neither.     *)
Sends(w) ==
    /\ sent[w] < MaxEvents
    /\ wpc' = [wpc EXCEPT ![w] = "open"] /\ sent' = [sent EXCEPT ![w] = @ + 1]
    /\ returned' \subseteq returned \cup {Event(w)}
    /\ log' = log \/ \E x \in Entries : log' = Append(log, x) /\ x.event = Event(w) /\ x.end

Begins(w) ==
    /\ sent[w] < MaxEvents /\ wpc[w] = "open"
    /\ wpc' = [wpc EXCEPT ![w] = "emit"]
    /\ UNCHANGED <<sent, returned>>
    /\ \E x \in Entries : log' = Append(log, x) /\ x.event = Event(w) /\ ~x.end

Outside(w) == wpc[w] \in {"start", "open"}

NobodySends ==
    /\ UNCHANGED <<log, sent, returned>>
    /\ \A u \in Writers : Outside(u)' => Outside(u)

LEMMA WriterSteps ==
  ASSUME WriterInv, NEW w \in Writers,
         \/ CreateFile(w) \/ OpenSink(w) \/ BeginLine(w) \/ EndLine(w) \/ CutLine(w)
         \/ InsertRow(w) \/ DrawId(w) \/ CommitRow(w) \/ EmitRaises(w) \/ Die(w)
  PROVE  Begins(w) \/ Sends(w) \/ NobodySends
<1>1. log \in Seq(Entries) /\ nextId \in Nat /\ id \in [Writers -> Nat]
      /\ wpc \in [Writers -> {"start", "open", "emit", "dead"}]
  BY DEF WriterInv, WriterTypes
<1>2. sent[w] < MaxEvents => Event(w) \in Events
  BY EventTypes DEF WriterInv
<1>3. Len(log) + 1 \in Nat
  BY <1>1
<1>4. CASE CreateFile(w) \/ OpenSink(w) \/ DrawId(w) \/ Die(w)
  <2>1. UNCHANGED <<log, sent, returned>>
    BY <1>4 DEF CreateFile, OpenSink, DrawId, Die
  <2>2. wpc' = wpc \/ \E point \in {"open", "emit", "dead"} : wpc' = [wpc EXCEPT ![w] = point]
    BY <1>4 DEF CreateFile, OpenSink, DrawId, Die, Goto
  <2>3. wpc[w] \in {"start", "open"} \/ wpc' = [wpc EXCEPT ![w] = "dead"]
    BY <1>4 DEF CreateFile, OpenSink, DrawId, Die, Goto, Starting
  <2>4. \A u \in Writers : Outside(u)' => Outside(u)
    BY <1>1, <2>2, <2>3 DEF Outside
  <2> QED BY <2>1, <2>4 DEF NobodySends
<1>5. CASE BeginLine(w)
  <2>1. sent[w] < MaxEvents /\ wpc[w] = "open" /\ wpc' = [wpc EXCEPT ![w] = "emit"]
        /\ UNCHANGED <<sent, returned>> /\ log' = Append(log, Entry(w, FALSE, Len(log) + 1))
    BY <1>5 DEF BeginLine, Starting, Goto
  <2> QED BY <1>2, <1>3, <2>1, EntryTypes DEF Begins
<1>6. CASE EndLine(w) \/ CutLine(w) \/ InsertRow(w) \/ CommitRow(w) \/ EmitRaises(w)
  <2>1. sent[w] < MaxEvents
    BY <1>6 DEF EndLine, CutLine, InsertRow, CommitRow, EmitRaises, Starting, WriterInv, AheadInv
  <2>2. /\ wpc' = [wpc EXCEPT ![w] = "open"] /\ sent' = [sent EXCEPT ![w] = @ + 1]
        /\ returned' \subseteq returned \cup {Event(w)}
    BY <1>6 DEF EndLine, CutLine, InsertRow, CommitRow, EmitRaises, Emitted, Goto
  <2>3. log' = log \/ \E n \in Nat : log' = Append(log, Entry(w, TRUE, n))
    <3>1. CASE EndLine(w)
      <4>1. log' = Append(log, Entry(w, TRUE, Len(log) + 1))
        BY <3>1 DEF EndLine
      <4> QED BY <1>3, <4>1
    <3>2. CASE CutLine(w)
      BY <3>2 DEF CutLine
    <3>3. CASE InsertRow(w)
      BY <1>1, <3>3 DEF InsertRow
    <3>4. CASE CommitRow(w) \/ EmitRaises(w)
      BY <1>1, <3>4 DEF CommitRow, EmitRaises
    <3> QED BY <1>6, <3>1, <3>2, <3>3, <3>4
  <2>4. log' = log \/ \E x \in Entries : log' = Append(log, x) /\ x.event = Event(w) /\ x.end
    BY <1>2, <2>1, <2>3, EntryTypes
  <2> QED BY <2>1, <2>2, <2>4 DEF Sends
<1> QED BY <1>4, <1>5, <1>6

(* A writer outside an emit has nothing in the log it has not sent.          *)
OnceInv ==
    /\ \A m, n \in DOMAIN log :
           log[m].event = log[n].event /\ log[m].end = log[n].end => m = n
    /\ \A w \in Writers : Outside(w) => \A n \in DOMAIN log :
           log[n].event[1] = w => log[n].event[2] <= sent[w]

(* An entry that is not in the log yet is appended.                          *)
LEMMA AppendedOnce ==
  ASSUME log \in Seq(Entries), OnceInv, NEW x \in Entries, log' = Append(log, x),
         \A n \in DOMAIN log : ~(log[n].event = x.event /\ log[n].end = x.end)
  PROVE  \A m, n \in DOMAIN log' :
             log'[m].event = log'[n].event /\ log'[m].end = log'[n].end => m = n
<1>1. /\ Len(log) \in Nat /\ DOMAIN log = 1 .. Len(log) /\ DOMAIN log' = 1 .. Len(log) + 1
      /\ log'[Len(log) + 1] = x /\ \A n \in 1 .. Len(log) : log'[n] = log[n]
  BY Appended
<1> SUFFICES ASSUME NEW m \in DOMAIN log', NEW n \in DOMAIN log',
                    log'[m].event = log'[n].event, log'[m].end = log'[n].end
             PROVE  m = n
  OBVIOUS
<1>2. m \in 1 .. Len(log) + 1 /\ n \in 1 .. Len(log) + 1
  BY <1>1
<1>3. CASE m \in DOMAIN log /\ n \in DOMAIN log
  BY <1>1, <1>3 DEF OnceInv
<1>4. CASE m = Len(log) + 1 /\ n \in DOMAIN log
  BY <1>1, <1>4
<1>5. CASE n = Len(log) + 1 /\ m \in DOMAIN log
  BY <1>1, <1>5
<1> QED BY <1>1, <1>2, <1>3, <1>4, <1>5

LEMMA OnceStep == WriterInv /\ OnceInv /\ [Next]_vars => OnceInv'
<1> SUFFICES ASSUME WriterInv, OnceInv, [Next]_vars PROVE OnceInv'
  OBVIOUS
<1>0. /\ log \in Seq(Entries) /\ sent \in [Writers -> 0 .. MaxEvents]
      /\ wpc \in [Writers -> {"start", "open", "emit", "dead"}]
      /\ \A n \in DOMAIN log :
             log[n].event[2] <= sent[log[n].event[1]] + IF log[n].end THEN 0 ELSE 1
  BY DEF WriterInv, WriterTypes, AheadInv
<1>1. CASE NobodySends
  BY <1>1 DEF NobodySends, OnceInv
<1>2. ASSUME NEW w \in Writers, Begins(w) PROVE OnceInv'
  <2>1. Event(w) \in Events /\ Event(w)[1] = w /\ Event(w)[2] = sent[w] + 1 /\ sent' = sent
    BY <1>2, EventTypes DEF Begins, WriterInv
  <2>2. PICK x \in Entries : log' = Append(log, x) /\ x.event = Event(w)
    BY <1>2 DEF Begins
  <2>3. ASSUME NEW n \in DOMAIN log PROVE log[n].event # x.event
    BY <1>0, <1>2, <2>1, <2>2 DEF OnceInv, Begins, Outside
  <2>4. \A m, n \in DOMAIN log' :
            log'[m].event = log'[n].event /\ log'[m].end = log'[n].end => m = n
    BY <1>0, <2>2, <2>3, AppendedOnce
  <2>5. ASSUME NEW u \in Writers, Outside(u)', NEW n \in DOMAIN log', log'[n].event[1] = u
        PROVE  log'[n].event[2] <= sent'[u]
    <3>1. u # w /\ Outside(u)
      BY <1>0, <1>2, <2>5 DEF Begins, Outside
    <3>2. n \in DOMAIN log /\ log'[n] = log[n]
      BY <1>0, <2>1, <2>2, <2>5, <3>1, Appended
    <3> QED BY <2>1, <2>5, <3>1, <3>2 DEF OnceInv
  <2> QED BY <2>4, <2>5 DEF OnceInv
<1>3. ASSUME NEW w \in Writers, Sends(w) PROVE OnceInv'
  <2>1. Event(w) \in Events /\ Event(w)[1] = w /\ Event(w)[2] = sent[w] + 1
        /\ sent[w] \in Nat /\ sent' = [sent EXCEPT ![w] = @ + 1]
    BY <1>0, <1>3, EventTypes DEF Sends, WriterInv
  <2>2. log' = log \/ \E x \in Entries : log' = Append(log, x) /\ x.event = Event(w) /\ x.end
    BY <1>3 DEF Sends
  <2>3. ASSUME NEW n \in DOMAIN log, log[n].event = Event(w) PROVE ~log[n].end
    BY <1>0, <2>1, <2>3
  <2>4. \A m, n \in DOMAIN log' :
            log'[m].event = log'[n].event /\ log'[m].end = log'[n].end => m = n
    <3>1. CASE log' = log
      BY <3>1 DEF OnceInv
    <3>2. ASSUME NEW x \in Entries, log' = Append(log, x), x.event = Event(w), x.end
          PROVE  \A m, n \in DOMAIN log' :
                     log'[m].event = log'[n].event /\ log'[m].end = log'[n].end => m = n
      <4>1. \A n \in DOMAIN log : ~(log[n].event = x.event /\ log[n].end = x.end)
        BY <2>3, <3>2
      <4> QED BY <1>0, <3>2, <4>1, AppendedOnce
    <3> QED BY <2>2, <3>1, <3>2
  <2>5. ASSUME NEW u \in Writers, Outside(u)', NEW n \in DOMAIN log', log'[n].event[1] = u
        PROVE  log'[n].event[2] <= sent'[u]
    <3>1. CASE log'[n].event = Event(w)
      BY <1>0, <2>1, <2>5, <3>1
    <3>2. CASE log'[n].event # Event(w)
      <4>1. n \in DOMAIN log /\ log'[n] = log[n] /\ log[n] \in Entries
        BY <1>0, <2>2, <2>5, <3>2, Appended
      <4>2. log[n].event[2] \in Nat /\ log[n].end \in BOOLEAN
        BY <4>1, EntryParts
      <4>3. CASE u = w
        BY <1>0, <2>1, <2>5, <4>1, <4>2, <4>3
      <4>4. CASE u # w
        <5>1. Outside(u) /\ sent'[u] = sent[u]
          BY <1>0, <1>3, <2>1, <2>5, <4>4 DEF Sends, Outside
        <5> QED BY <2>5, <4>1, <5>1 DEF OnceInv
      <4> QED BY <4>3, <4>4
    <3> QED BY <3>1, <3>2
  <2> QED BY <2>4, <2>5 DEF OnceInv
<1>4. CASE Tailing \/ BeginReport \/ CountLine \/ ReportRaises \/ EndOfLines \/ CountRows \/ UNCHANGED vars
  <2>1. UNCHANGED writerVars
    BY <1>4, ReadersOnlyRead DEF vars
  <2>2. NobodySends
    BY <2>1 DEF writerVars, NobodySends, Outside
  <2> QED BY <1>1, <2>2
<1> QED BY <1>1, <1>2, <1>3, <1>4, WriterSteps DEF Next

-----------------------------------------------------------------------------
(* The report of a JSONL file.                                             *)

(* What readline finds after entry p, and where it ends.                    *)
EndsAfter(p) == {n \in p + 1 .. Len(log) : log[n].end}
StopAfter(p) == IF EndsAfter(p) = {} THEN Len(log) ELSE Min(EndsAfter(p))
Part(p) == SubSeq(log, p + 1, StopAfter(p))

LEMMA PartStops ==
  ASSUME log \in Seq(Entries), NEW p \in Nat, p < Len(log)
  PROVE  /\ StopAfter(p) \in p + 1 .. Len(log)
         /\ \A n \in p + 1 .. Len(log) : log[n].end => StopAfter(p) <= n /\ log[StopAfter(p)].end
         /\ EndsAfter(p) = {} => StopAfter(p) = Len(log)
         /\ EndsAfter(p) # {} => log[StopAfter(p)].end
<1>1. Len(log) \in Nat /\ EndsAfter(p) \in SUBSET Nat
  BY DEF EndsAfter
<1>2. CASE EndsAfter(p) = {}
  BY <1>1, <1>2 DEF StopAfter, EndsAfter
<1>3. CASE EndsAfter(p) # {}
  <2>1. StopAfter(p) \in EndsAfter(p) /\ \A n \in EndsAfter(p) : StopAfter(p) <= n
    BY <1>1, <1>3, MinOfNaturals DEF StopAfter
  <2> QED BY <1>3, <2>1 DEF EndsAfter
<1> QED BY <1>2, <1>3

LEMMA PartIs ==
  ASSUME log \in Seq(Entries), NEW p \in Nat, p < Len(log)
  PROVE  /\ Part(p) \in Seq(Entries) /\ Len(Part(p)) = StopAfter(p) - p
         /\ \A i \in 1 .. StopAfter(p) - p : Part(p)[i] = log[p + i]
<1>1. Len(log) \in Nat /\ StopAfter(p) \in p + 1 .. Len(log)
  BY PartStops
<1>2. /\ Part(p) \in Seq(Entries) /\ Len(Part(p)) = StopAfter(p) - (p + 1) + 1
      /\ \A i \in 1 .. StopAfter(p) - (p + 1) + 1 : Part(p)[i] = log[(p + 1) + i - 1]
  <2>1. p + 1 \in 1 .. Len(log) + 1 /\ StopAfter(p) \in (p + 1) - 1 .. Len(log)
    BY <1>1
  <2> QED BY <2>1, SubSeqProperties DEF Part
<1>3. StopAfter(p) - (p + 1) + 1 = StopAfter(p) - p
  BY <1>1
<1>4. \A i \in 1 .. StopAfter(p) - p : (p + 1) + i - 1 = p + i
  BY <1>1
<1> QED BY <1>2, <1>3, <1>4

(* The next line of the report, and where it ends.                          *)
Stop == StopAfter(pos)
Line == Part(pos)

LEMMA LineStops ==
  ASSUME log \in Seq(Entries), pos \in Nat, pos < Len(log)
  PROVE  /\ Stop \in pos + 1 .. Len(log)
         /\ \A n \in pos + 1 .. Len(log) : log[n].end => Stop <= n /\ log[Stop].end
BY PartStops DEF Stop

LEMMA LineIs ==
  ASSUME log \in Seq(Entries), pos \in Nat, pos < Len(log)
  PROVE  /\ Len(Line) = Stop - pos /\ Line[1] = log[pos + 1]
         /\ Stop = pos + 2 => Line[2] = log[pos + 2]
<1>1. Stop \in pos + 1 .. Len(log) /\ Len(log) \in Nat
  BY LineStops
<1>2. Len(Line) = Stop - pos /\ \A i \in 1 .. Stop - pos : Line[i] = log[pos + i]
  BY PartIs DEF Stop, Line
<1>3. 1 \in 1 .. Stop - pos /\ (Stop = pos + 2 => 2 \in 1 .. Stop - pos)
  BY <1>1
<1> QED BY <1>2, <1>3

(* Entry m completes a line that parses and begins after a line's end.      *)
Whole(m) ==
    /\ log[m].end /\ m > 1 /\ log[m - 1].event = log[m].event
    /\ m > 2 => log[m - 2].end

(* The report has not read the half of that line only, and it counts it.    *)
Followed(m) ==
    /\ pos # m - 1
    /\ pos >= m /\ Chosen(log[m].event) => log[m].event \in Range(counted)
    /\ ppc = "printed" => pos >= m

ReportInv ==
    /\ store = "none" => log = <<>>
    /\ pos \in 0 .. Len(log) /\ counted \in Seq(Events) /\ due \subseteq returned
    /\ ppc = "start" => pos = 0 /\ counted = <<>> /\ due = {}
    /\ \A j, k \in DOMAIN counted : counted[j] = counted[k] => j = k
    /\ \A k \in DOMAIN counted :
           Chosen(counted[k]) /\ \E m \in 1 .. pos : log[m].end /\ log[m].event = counted[k]
    /\ \A m \in DOMAIN log : Whole(m) /\ log[m].event \in due => Followed(m)

(* The log grows under the report, but not by what is due.                  *)
LEMMA ReportUndisturbed ==
  ASSUME log \in Seq(Entries), ReportInv, UNCHANGED reportVars,
         (store = "none" => log = <<>>)', returned \subseteq returned',
         log' = log \/ \E x \in Entries :
                           log' = Append(log, x) /\ (x.end => x.event \notin due)
  PROVE  ReportInv'
<1>1. UNCHANGED <<ppc, filter, pos, counted, due>>
  BY DEF reportVars
<1>2. CASE log' = log
  BY <1>1, <1>2 DEF ReportInv, Whole, Followed, Chosen
<1>3. ASSUME NEW x \in Entries, log' = Append(log, x), x.end => x.event \notin due
      PROVE  ReportInv'
  <2>1. /\ Len(log) \in Nat /\ DOMAIN log = 1 .. Len(log) /\ DOMAIN log' = 1 .. Len(log) + 1
        /\ Len(log') = Len(log) + 1 /\ log'[Len(log) + 1] = x
        /\ \A n \in 1 .. Len(log) : log'[n] = log[n]
    BY <1>3, Appended
  <2>2. pos \in 0 .. Len(log)
    BY DEF ReportInv
  <2>3. ASSUME NEW m \in DOMAIN log', Whole(m)', log'[m].event \in due PROVE Followed(m)'
    <3>1. m \in 1 .. Len(log)
      <4>1. CASE m = Len(log) + 1
        BY <1>3, <2>1, <2>3, <4>1 DEF Whole
      <4>2. CASE m # Len(log) + 1
        <5>1. m \in 1 .. Len(log) + 1
          BY <2>1
        <5> QED BY <2>1, <4>2, <5>1
      <4> QED BY <4>1, <4>2
    <3>2. log'[m] = log[m]
      BY <2>1, <3>1
    <3>3. /\ m > 1 => log'[m - 1] = log[m - 1]
          /\ m > 2 => log'[m - 2] = log[m - 2]
      BY <2>1, <3>1
    <3>4. Whole(m) /\ log[m].event \in due
      BY <2>3, <3>2, <3>3 DEF Whole
    <3>5. Followed(m)
      BY <2>1, <3>1, <3>4 DEF ReportInv
    <3> QED BY <1>1, <3>2, <3>5 DEF Followed, Chosen
  <2>4. ASSUME NEW k \in DOMAIN counted
        PROVE  \E m \in 1 .. pos : log'[m].end /\ log'[m].event = counted[k]
    <3>1. PICK m \in 1 .. pos : log[m].end /\ log[m].event = counted[k]
      BY DEF ReportInv
    <3>2. log'[m] = log[m]
      BY <2>1, <2>2
    <3> QED BY <3>1, <3>2
  <2>5. pos \in 0 .. Len(log')
    BY <2>1, <2>2
  <2> QED BY <1>1, <2>3, <2>4, <2>5 DEF ReportInv, Chosen
<1> QED BY <1>2, <1>3

LEMMA CountLineStep ==
  ASSUME log \in Seq(Entries), OnceInv, ReportInv, CountLine
  PROVE  ReportInv'
<1>1. /\ pos < Len(log) /\ pos' = Stop /\ ppc' = "read"
      /\ counted' = IF Parses(Line) /\ Chosen(Line[1].event)
                    THEN Append(counted, Line[1].event) ELSE counted
      /\ UNCHANGED <<store, log, returned, filter, due>>
  BY DEF CountLine, EndsAfter, StopAfter, Part, Stop, Line, GoesOn, writerVars
<1>2. pos \in Nat /\ Len(log) \in Nat /\ DOMAIN log = 1 .. Len(log) /\ counted \in Seq(Events)
  BY DEF ReportInv
<1>3. /\ Stop \in pos + 1 .. Len(log)
      /\ \A n \in pos + 1 .. Len(log) : log[n].end => Stop <= n /\ log[Stop].end
  BY <1>1, <1>2, LineStops
<1>4. /\ Len(Line) = Stop - pos /\ Line[1] = log[pos + 1]
      /\ Stop = pos + 2 => Line[2] = log[pos + 2]
  BY <1>1, <1>2, LineIs
<1> HIDE DEF Stop, Line
<1>5. ASSUME Parses(Line)
      PROVE  /\ Stop = pos + 2 /\ log[Stop].end
             /\ Line[1].event = log[Stop].event /\ Line[1].event \in Events
  <2>0. Len(Line) = 2 /\ Line[1].event = Line[2].event
    BY <1>5 DEF Parses
  <2>1a. Stop = pos + 2
    <3>1. Stop - pos = 2
      BY <1>4, <2>0
    <3>2. Stop \in Int /\ pos \in Int
      BY <1>2, <1>3
    <3> QED BY <3>1, <3>2
  <2>1. Stop = pos + 2 /\ log[pos + 1].event = log[pos + 2].event
    BY <1>4, <2>0, <2>1a
  <2>2. ~log[pos + 1].end
    BY <1>2, <1>3, <2>1
  <2>3. pos + 1 \in DOMAIN log /\ pos + 2 \in DOMAIN log /\ pos + 1 # pos + 2
    BY <1>2, <1>3, <2>1
  <2>4. log[pos + 1] \in Entries /\ log[pos + 2] \in Entries
    BY <2>3
  <2>5. log[pos + 2].end
    BY <2>1, <2>2, <2>3, <2>4, EntryParts DEF OnceInv
  <2> QED BY <1>4, <2>1, <2>4, <2>5, EntryParts
<1>6. /\ counted' \in Seq(Events)
      /\ Range(counted) \subseteq Range(counted')
      /\ Parses(Line) /\ Chosen(Line[1].event) => Line[1].event \in Range(counted')
      /\ \A k \in DOMAIN counted' :
             \/ k \in DOMAIN counted /\ counted'[k] = counted[k]
             \/ k = Len(counted) + 1 /\ Parses(Line) /\ counted'[k] = Line[1].event
                /\ Chosen(Line[1].event)
  <2>1. CASE ~(Parses(Line) /\ Chosen(Line[1].event))
    BY <1>1, <1>2, <2>1
  <2>2. CASE Parses(Line) /\ Chosen(Line[1].event)
    <3>1. counted' = Append(counted, Line[1].event) /\ Line[1].event \in Events
      BY <1>1, <1>5, <2>2
    <3>2. /\ counted' \in Seq(Events) /\ Len(counted) \in Nat
          /\ DOMAIN counted = 1 .. Len(counted) /\ DOMAIN counted' = 1 .. Len(counted) + 1
          /\ counted'[Len(counted) + 1] = Line[1].event
          /\ \A k \in 1 .. Len(counted) : counted'[k] = counted[k]
      BY <1>2, <3>1
    <3> QED BY <2>2, <3>2 DEF Range
  <2> QED BY <2>1, <2>2
<1>7. ASSUME NEW k \in DOMAIN counted' PROVE
             counted'[k][1] \in filter' /\ \E m \in 1 .. Stop : log[m].end /\ log[m].event = counted'[k]
  <2>1. CASE k \in DOMAIN counted /\ counted'[k] = counted[k]
    <3>1. PICK m \in 1 .. pos : log[m].end /\ log[m].event = counted[k]
      BY <2>1 DEF ReportInv
    <3>2. m \in 1 .. Stop
      BY <1>2, <1>3
    <3>3. counted[k][1] \in filter'
      BY <1>1, <2>1 DEF ReportInv, Chosen
    <3> QED BY <3>1, <3>2, <3>3, <2>1
  <2>2. CASE Parses(Line) /\ counted'[k] = Line[1].event /\ Chosen(Line[1].event)
    <3>1. Stop \in 1 .. Stop
      BY <1>2, <1>3
    <3>2. log[Stop].end /\ log[Stop].event = counted'[k]
      BY <1>5, <2>2
    <3>3. counted'[k][1] \in filter'
      BY <1>1, <2>2 DEF Chosen
    <3> QED BY <3>1, <3>2, <3>3
  <2> QED BY <1>6, <2>1, <2>2
<1>8. ASSUME NEW j \in DOMAIN counted, Parses(Line) PROVE counted[j] # Line[1].event
  <2>1. PICK m \in 1 .. pos : log[m].end /\ log[m].event = counted[j]
    BY DEF ReportInv
  <2>2. m \in DOMAIN log /\ Stop \in DOMAIN log /\ m # Stop
    BY <1>2, <1>3
  <2> QED BY <1>5, <1>8, <2>1, <2>2 DEF OnceInv
<1>9. \A j, k \in DOMAIN counted' : counted'[j] = counted'[k] => j = k
  BY <1>6, <1>8 DEF ReportInv
<1>10. ASSUME NEW m \in DOMAIN log, Whole(m), log[m].event \in due PROVE Followed(m)'
  <2>1. Followed(m) /\ m \in 1 .. Len(log) /\ m > 1
    BY <1>2, <1>10 DEF ReportInv, Whole
  <2>2. CASE pos >= m
    <3>1. Stop >= m /\ Stop # m - 1
      BY <1>2, <1>3, <2>1, <2>2
    <3> QED BY <1>1, <1>6, <2>1, <2>2, <3>1 DEF Followed, Chosen
  <2>3. CASE pos < m - 1
    <3>1. Stop <= m /\ log[Stop].end
      BY <1>2, <1>3, <1>10, <2>1, <2>3 DEF Whole
    <3>2. Stop # m - 1
      <4>1. SUFFICES ASSUME log[m - 1].end PROVE FALSE
        BY <3>1
      <4>2. m - 1 \in DOMAIN log /\ m - 1 # m
        BY <1>2, <2>1
      <4> QED BY <1>10, <4>1, <4>2 DEF OnceInv, Whole
    <3>3. CASE Stop = m
      <4>1. pos = m - 2
        <5>1. SUFFICES ASSUME pos < m - 2 PROVE FALSE
          BY <1>2, <2>1, <2>3
        <5>2. m > 2 /\ m - 2 \in pos + 1 .. Len(log)
          BY <1>2, <2>1, <5>1
        <5> QED BY <1>2, <1>3, <1>10, <2>1, <3>3, <5>2 DEF Whole
      <4>2. Len(Line) = 2 /\ Line[1] = log[m - 1] /\ Line[2] = log[m]
        <5>1. Stop = pos + 2 /\ pos + 1 = m - 1 /\ pos + 2 = m /\ Stop - pos = 2
          BY <1>2, <2>1, <3>3, <4>1
        <5> QED BY <1>4, <5>1
      <4>3. Parses(Line) /\ Line[1].event = log[m].event
        BY <1>10, <4>2 DEF Parses, Whole
      <4> QED BY <1>1, <1>2, <1>6, <2>1, <3>3, <4>3 DEF Followed, Chosen
    <3>4. CASE Stop # m
      <4>1. Stop < m - 1 /\ Stop < m
        BY <1>2, <1>3, <2>1, <3>1, <3>2, <3>4
      <4> QED BY <1>1, <4>1, <1>2, <1>3, <2>1 DEF Followed
    <3> QED BY <3>3, <3>4
  <2> QED BY <1>2, <2>1, <2>2, <2>3 DEF Followed
<1>11. Stop \in 0 .. Len(log)
  BY <1>2, <1>3
<1>12. \A m \in DOMAIN log' : Whole(m)' /\ log'[m].event \in due' => Followed(m)'
  BY <1>1, <1>10 DEF Whole
<1>13. \A k \in DOMAIN counted' :
           counted'[k][1] \in filter' /\ \E m \in 1 .. pos' : log'[m].end /\ log'[m].event = counted'[k]
  BY <1>1, <1>7
<1>14. /\ (store = "none" => log = <<>>)' /\ due' \subseteq returned' /\ ppc' # "start"
       /\ pos' \in 0 .. Len(log')
  BY <1>1, <1>11 DEF ReportInv
<1> QED BY <1>6, <1>9, <1>12, <1>13, <1>14 DEF ReportInv, Chosen

(* No writer touches the report, nor is there a log without a file.         *)
LEMMA WritersOnlyWrite ==
  ASSUME WriterInv, ReportInv, backend = "jsonl", NEW w \in Writers,
         \/ CreateFile(w) \/ OpenSink(w) \/ BeginLine(w) \/ EndLine(w) \/ CutLine(w)
         \/ InsertRow(w) \/ DrawId(w) \/ CommitRow(w) \/ EmitRaises(w) \/ Die(w)
  PROVE  UNCHANGED reportVars /\ (store = "none" => log = <<>>)' /\ returned \subseteq returned'
<1>1. CASE CreateFile(w) \/ OpenSink(w) \/ DrawId(w) \/ Die(w)
  BY <1>1 DEF CreateFile, OpenSink, DrawId, Die, ReportInv
<1>2. CASE BeginLine(w)
  BY <1>2 DEF BeginLine
<1>3. CASE EndLine(w)
  <2>1. wpc[w] = "emit" /\ store' = store /\ UNCHANGED reportVars /\ returned \subseteq returned'
    BY <1>3 DEF EndLine, Emitted
  <2>2. store # "none"
    BY <2>1 DEF WriterInv, AheadInv, ReportInv
  <2> QED BY <2>1, <2>2
<1>4. CASE CutLine(w) \/ EmitRaises(w)
  BY <1>4 DEF CutLine, EmitRaises, Emitted, ReportInv
<1>5. CASE InsertRow(w) \/ CommitRow(w)
  BY <1>5 DEF InsertRow, CommitRow, Starting
<1> QED BY <1>1, <1>2, <1>3, <1>4, <1>5

LEMMA ReportStep ==
  WriterInv /\ OnceInv /\ ReportInv /\ backend = "jsonl" /\ [Next]_vars => ReportInv'
<1> SUFFICES ASSUME WriterInv, OnceInv, ReportInv, backend = "jsonl", [Next]_vars
             PROVE  ReportInv'
  OBVIOUS
<1>1. log \in Seq(Entries)
  BY DEF WriterInv, WriterTypes
<1>2. ASSUME NEW w \in Writers,
             \/ CreateFile(w) \/ OpenSink(w) \/ BeginLine(w) \/ EndLine(w) \/ CutLine(w)
             \/ InsertRow(w) \/ DrawId(w) \/ CommitRow(w) \/ EmitRaises(w) \/ Die(w)
      PROVE  ReportInv'
  <2>1. UNCHANGED reportVars /\ (store = "none" => log = <<>>)' /\ returned \subseteq returned'
    BY <1>2, WritersOnlyWrite
  <2>2. Begins(w) \/ Sends(w) \/ NobodySends
    BY <1>2, WriterSteps
  <2>3. sent[w] < MaxEvents => Event(w) \notin due
    <3>1. SUFFICES ASSUME sent[w] < MaxEvents, Event(w) \in returned PROVE FALSE
      BY DEF ReportInv
    <3>2. Event(w)[1] = w /\ Event(w)[2] = sent[w] + 1 /\ sent[w] \in Nat
      BY <3>1, EventTypes DEF WriterInv, WriterTypes
    <3> QED BY <3>1, <3>2 DEF WriterInv, AheadInv
  <2>4. log' = log \/ \E x \in Entries :
                          log' = Append(log, x) /\ (x.end => x.event \notin due)
    BY <2>2, <2>3 DEF Begins, Sends, NobodySends
  <2> QED BY <1>1, <2>1, <2>4, ReportUndisturbed
<1>3. CASE Tailing \/ UNCHANGED vars
  <2>1. UNCHANGED <<writerVars, reportVars>>
    BY <1>3, ReadersOnlyRead
    DEF vars, Tailing, Look, Appears, Seek, ReadLine, ReadRaises, Fetch
  <2> QED BY <1>1, <2>1, ReportUndisturbed DEF writerVars, ReportInv
<1>4. CASE BeginReport
  <2>1. /\ UNCHANGED <<store, log, returned, pos, counted>> /\ due' = returned
        /\ pos = 0 /\ counted = <<>> /\ ppc' = IF store = "none" THEN "printed" ELSE "read"
    BY <1>4 DEF BeginReport, writerVars, ReportInv
  <2>2. ASSUME NEW m \in DOMAIN log, Whole(m)' PROVE Followed(m)'
    <3>1. m \in Nat /\ m > 1
      BY <1>1, <2>1, <2>2 DEF Whole
    <3>2. store # "none"
      BY <2>2 DEF ReportInv
    <3> QED BY <2>1, <3>1, <3>2 DEF Followed
  <2>3. counted' \in Seq(Events) /\ DOMAIN counted' = {}
    BY <2>1
  <2>4. (store = "none" => log = <<>>)' /\ pos' \in 0 .. Len(log')
    BY <2>1 DEF ReportInv
  <2> QED BY <2>1, <2>2, <2>3, <2>4 DEF ReportInv
<1>5. CASE CountLine
  BY <1>1, <1>5, CountLineStep
<1>8. CASE ReportRaises
  <2>1. UNCHANGED <<store, log, returned, filter, pos, counted, due>> /\ ppc' = "dead"
    BY <1>8 DEF ReportRaises, writerVars
  <2>2. \A m \in DOMAIN log' : Whole(m)' /\ log'[m].event \in due' => Followed(m)'
    BY <2>1 DEF ReportInv, Whole, Followed, Chosen
  <2> QED BY <2>1, <2>2 DEF ReportInv, Chosen
<1>6. CASE EndOfLines
  <2>1. /\ UNCHANGED <<store, log, returned, filter, pos, counted, due>>
        /\ pos = Len(log) /\ ppc' = "printed"
    BY <1>6 DEF EndOfLines, writerVars
  <2>2. ASSUME NEW m \in DOMAIN log, Whole(m), log[m].event \in due PROVE Followed(m)'
    <3>1. Followed(m) /\ pos >= m
      BY <1>1, <2>1, <2>2 DEF ReportInv
    <3> QED BY <2>1, <3>1 DEF Followed, Chosen
  <2>3. \A m \in DOMAIN log' : Whole(m)' /\ log'[m].event \in due' => Followed(m)'
    BY <2>1, <2>2 DEF Whole
  <2> QED BY <2>1, <2>3 DEF ReportInv, Chosen
<1>7. CASE CountRows
  BY <1>7 DEF CountRows
<1> QED BY <1>2, <1>3, <1>4, <1>5, <1>6, <1>7, <1>8 DEF Next

LEMMA ReportInit == Init => OnceInv /\ ReportInv
<1> SUFFICES ASSUME Init PROVE OnceInv /\ ReportInv
  OBVIOUS
<1>1. /\ log = <<>> /\ pos = 0 /\ counted = <<>> /\ due = {} /\ returned = {}
      /\ DOMAIN log = {} /\ DOMAIN counted = {} /\ Len(log) = 0 /\ counted \in Seq(Events)
  BY DEF Init
<1> QED BY <1>1 DEF OnceInv, ReportInv

(* What the report of a JSONL file owes for what had returned is counted.   *)
LEMMA ReportInvImplies ==
  WriterInv /\ EmittedIntact /\ ReportInv /\ backend = "jsonl" => ReportComplete
<1> SUFFICES ASSUME WriterInv, EmittedIntact, ReportInv, backend = "jsonl", ppc = "printed"
             PROVE  /\ \A m, n \in DOMAIN counted : counted[m] = counted[n] => m = n
                    /\ \A e \in Range(counted) : Chosen(e) /\ ~Torn(e)
                    /\ \A e \in due : Chosen(e) =>
                          e \in Range(counted) \/ (backend = "jsonl" /\ (Torn(e) \/ Glued(e)))
  BY DEF ReportComplete
<1>1. \A m, n \in DOMAIN counted : counted[m] = counted[n] => m = n
  BY DEF ReportInv
<1>2. ASSUME NEW e \in Range(counted) PROVE Chosen(e) /\ ~Torn(e)
  <2>1. PICK k \in DOMAIN counted : counted[k] = e
    BY <1>2 DEF Range
  <2>2. PICK m \in 1 .. pos : log[m].end /\ log[m].event = e
    BY <2>1 DEF ReportInv
  <2>3. m \in DOMAIN log
    BY DEF ReportInv, WriterInv, WriterTypes
  <2> QED BY <2>1, <2>2, <2>3 DEF ReportInv, Torn
<1>3. ASSUME NEW e \in due, Chosen(e), ~Torn(e), ~Glued(e) PROVE e \in Range(counted)
  <2>1. e \in Intact
    BY <1>3 DEF ReportInv, EmittedIntact, Accounted
  <2>2. PICK m \in DOMAIN log : Whole(m) /\ log[m].event = e
    BY <2>1 DEF Intact, Whole
  <2>3. Followed(m)
    BY <2>2 DEF ReportInv
  <2> QED BY <1>3, <2>2, <2>3 DEF Followed
<1> QED BY <1>1, <1>2, <1>3

-----------------------------------------------------------------------------
(* Rows and their ids.                                                      *)

LEMMA FiniteLog ==
  ASSUME log \in Seq(Entries)
  PROVE  /\ IsFiniteSet(Range(log)) /\ Range(log) \in SUBSET Entries
         /\ \A e : e \in Range(log) <=> \E n \in DOMAIN log : log[n] = e
<1>1. Len(log) \in Nat /\ DOMAIN log = 1 .. Len(log) /\ Range(log) \in SUBSET Entries
  BY DEF Range
<1>2. IsFiniteSet(1 .. Len(log))
  BY <1>1, FS_Interval
<1>3. log \in Surjection(1 .. Len(log), Range(log))
  BY <1>1 DEF Surjection, Range
<1>4. IsFiniteSet(Range(log))
  BY <1>2, <1>3, FS_Surjection
<1> QED BY <1>1, <1>4 DEF Range

(* ORDER BY id yields each row once, by ascending ids.                      *)
LEMMA RowsAre ==
  ASSUME NEW S \in SUBSET Entries, IsFiniteSet(S), \A d, e \in S : d.id = e.id => d = e
  PROVE  /\ ById(S) \in Seq(S)
         /\ \A e \in S : \E k \in DOMAIN ById(S) : ById(S)[k] = e
         /\ \A j, k \in DOMAIN ById(S) : j < k => ById(S)[j].id < ById(S)[k].id
<1> DEFINE N == Cardinality(S)
           upTo(e) == {d \in S : d.id <= e.id}
           rank == [e \in S |-> Cardinality(upTo(e))]
<1>1. \A e \in S : e.id \in Nat
  BY DEF Entries
<1>2. ASSUME NEW e \in S
      PROVE  /\ IsFiniteSet(upTo(e)) /\ rank[e] \in 1 .. N
             /\ rank[e] = Cardinality(upTo(e)) /\ rank[e] \in Int
  <2>1. upTo(e) \in SUBSET S /\ e \in upTo(e)
    BY <1>1
  <2>2. IsFiniteSet(upTo(e)) /\ Cardinality(upTo(e)) <= N
    BY <2>1, FS_Subset
  <2>3. Cardinality(upTo(e)) \in Nat /\ N \in Nat /\ Cardinality(upTo(e)) # 0
    BY <2>1, <2>2, FS_CardinalityType, FS_EmptySet
  <2> QED BY <2>2, <2>3
<1>3. ASSUME NEW d \in S, NEW e \in S, d.id < e.id PROVE rank[d] < rank[e]
  <2>1. upTo(d) \in SUBSET upTo(e) /\ e \notin upTo(d) /\ e \in upTo(e)
    BY <1>1, <1>3
  <2> HIDE DEF rank, upTo
  <2>2. Cardinality(upTo(d)) <= Cardinality(upTo(e)) /\ Cardinality(upTo(d)) # Cardinality(upTo(e))
    BY <1>2, <2>1, FS_Subset
  <2>3. rank[d] = Cardinality(upTo(d)) /\ rank[e] = Cardinality(upTo(e)) /\ rank[d] \in Int /\ rank[e] \in Int
    BY <1>2
  <2> QED BY <2>2, <2>3
<1>4. \A d, e \in S : rank[d] = rank[e] => d = e
  <2> SUFFICES ASSUME NEW d \in S, NEW e \in S, rank[d] = rank[e] PROVE d = e
    OBVIOUS
  <2> HIDE DEF rank
  <2>1. rank[d] \in Int /\ rank[e] \in Int
    BY <1>2
  <2>2. ~(d.id < e.id) /\ ~(e.id < d.id)
    BY <1>3, <2>1
  <2> QED BY <1>1, <2>2
<1>5. rank \in Injection(S, 1 .. N)
  <2>1. rank \in [S -> 1 .. N]
    BY <1>2
  <2> HIDE DEF rank, N
  <2> QED BY <1>4, <2>1 DEF Injection, IsInjective
<1>6. N \in Nat /\ IsFiniteSet(1 .. N) /\ Cardinality(1 .. N) = N
  <2>1. N \in Nat
    BY FS_CardinalityType
  <2> HIDE DEF N
  <2> QED BY <2>1, FS_Interval
<1>7. rank \in Surjection(S, 1 .. N)
  <2> HIDE DEF rank
  <2> QED BY <1>5, <1>6, FS_Injection
<1>8. \A k \in 1 .. N : \E e \in S : rank[e] = k
  <2> HIDE DEF rank, N
  <2> QED BY <1>7 DEF Surjection
<1>9. ById(S) = [k \in 1 .. N |-> CHOOSE e \in S : Cardinality(upTo(e)) = k]
  BY DEF ById
<1>10. ASSUME NEW k \in 1 .. N PROVE ById(S)[k] \in S /\ rank[ById(S)[k]] = k
  <2>1. PICK e \in S : rank[e] = k
    BY <1>8
  <2>2. Cardinality(upTo(e)) = k
    BY <2>1
  <2>3. ById(S)[k] = CHOOSE d \in S : Cardinality(upTo(d)) = k
    BY <1>9
  <2> HIDE DEF upTo
  <2>4. ById(S)[k] \in S /\ Cardinality(upTo(ById(S)[k])) = k
    BY <2>2, <2>3
  <2> QED BY <2>4
<1>11. ById(S) \in Seq(S) /\ DOMAIN ById(S) = 1 .. N
  <2>1. ById(S) \in [1 .. N -> S]
    BY <1>9, <1>10
  <2> HIDE DEF N
  <2> QED BY <1>6, <2>1
<1> HIDE DEF rank, N, upTo
<1>12. ASSUME NEW e \in S PROVE \E k \in DOMAIN ById(S) : ById(S)[k] = e
  <2>1. rank[e] \in 1 .. N
    BY <1>2
  <2> QED BY <1>4, <1>10, <1>11, <2>1
<1>13. ASSUME NEW j \in DOMAIN ById(S), NEW k \in DOMAIN ById(S), j < k
       PROVE  ById(S)[j].id < ById(S)[k].id
  <2>1. /\ ById(S)[j] \in S /\ ById(S)[k] \in S
        /\ rank[ById(S)[j]] = j /\ rank[ById(S)[k]] = k
    BY <1>10, <1>11
  <2>2. j \in Int /\ k \in Int /\ ById(S)[j].id \in Int /\ ById(S)[k].id \in Int
    BY <1>1, <1>11, <2>1
  <2>3. ~(ById(S)[k].id < ById(S)[j].id)
    BY <1>3, <1>13, <2>1, <2>2
  <2>4. ById(S)[k].id # ById(S)[j].id
    BY <1>13, <2>1, <2>2
  <2> QED BY <2>2, <2>3, <2>4
<1> QED BY <1>11, <1>12, <1>13

(* The entries of a file are numbered as they come, and rows have ids below  *)
(* the next one.                                                            *)
Numbered ==
    /\ backend = "jsonl" => \A n \in DOMAIN log : log[n].id = n
    /\ backend # "jsonl" => \A n \in DOMAIN log : log[n].end /\ log[n].id < nextId
    /\ \A n \in DOMAIN log : log[n].id >= 1
    /\ \A m, n \in DOMAIN log : log[m].id = log[n].id => m = n

(* Ids are drawn once; SQLite draws and shows an id at the same time.       *)
Drawn ==
    /\ backend = "sqlite" => \A w \in Writers : wpc[w] # "emit"
    /\ backend = "postgres" => \A w \in Writers : wpc[w] = "emit" =>
           /\ id[w] >= 1 /\ id[w] < nextId
           /\ \A n \in DOMAIN log : log[n].id # id[w]
           /\ \A u \in Writers : wpc[u] = "emit" /\ id[u] = id[w] => u = w

(* There is no log without a file, and no sink without a table.             *)
Stored ==
    /\ store \in {"none", "file", "table"}
    /\ store = "none" => log = <<>> /\ returned = {}
    /\ backend = "postgres" => store # "none"
    /\ backend = "sqlite" /\ store = "none" => \A w \in Writers : wpc[w] \in {"start", "dead"}

RowsInv == Numbered /\ Drawn /\ Stored

(* The log stays, or gets an entry that comes after all that were read.     *)
Grows ==
    /\ backend' = backend /\ returned \subseteq returned' /\ nextId <= nextId'
    /\ UNCHANGED <<readerVars, reportVars>>
    /\ \/ log' = log
       \/ \E x \in Entries : log' = Append(log, x) /\ (backend = "sqlite" => x.id = nextId)

LEMMA IdTypes ==
  ASSUME log \in Seq(Entries)
  PROVE  \A n \in DOMAIN log : log[n] \in Entries /\ log[n].id \in Nat
<1>1. \A n \in DOMAIN log : log[n] \in Entries
  OBVIOUS
<1> QED BY <1>1 DEF Entries

LEMMA NumberedStays ==
  ASSUME WriterTypes, Numbered, log' = log, backend' = backend, nextId <= nextId', nextId' \in Nat
  PROVE  Numbered'
<1>1. \A n \in DOMAIN log : log[n].id \in Nat
  BY IdTypes DEF WriterTypes
<1>2. \A n \in DOMAIN log : log[n].id < nextId => log[n].id < nextId'
  BY <1>1 DEF WriterTypes
<1> QED BY <1>2 DEF Numbered

LEMMA NumberedGrows ==
  ASSUME WriterTypes, Numbered, backend' = backend, nextId <= nextId', nextId' \in Nat,
         NEW x \in Entries, log' = Append(log, x),
         backend = "jsonl" => x.id = Len(log) + 1,
         backend # "jsonl" =>
             x.end /\ x.id >= 1 /\ x.id < nextId' /\ \A n \in DOMAIN log : log[n].id # x.id
  PROVE  Numbered'
<1>1. log \in Seq(Entries) /\ nextId \in Nat /\ x.id \in Nat
  BY DEF WriterTypes, Entries
<1>2. /\ Len(log) \in Nat /\ DOMAIN log = 1 .. Len(log) /\ DOMAIN log' = 1 .. Len(log) + 1
      /\ log'[Len(log) + 1] = x
      /\ \A n \in 1 .. Len(log) : log'[n] = log[n] /\ log[n].id \in Nat
  BY <1>1, Appended, IdTypes
<1>3. \A n \in DOMAIN log' : n \in 1 .. Len(log) \/ n = Len(log) + 1
  BY <1>2
<1>4. \A n \in 1 .. Len(log) : log[n].id # x.id
  BY <1>2 DEF Numbered
<1>5. \A m, n \in DOMAIN log' : log'[m].id = log'[n].id => m = n
  BY <1>2, <1>3, <1>4 DEF Numbered
<1>6. \A n \in 1 .. Len(log) : backend # "jsonl" => log[n].end /\ log[n].id < nextId'
  BY <1>1, <1>2 DEF Numbered
<1>7. x.id >= 1
  BY <1>2
<1> QED BY <1>2, <1>3, <1>5, <1>6, <1>7 DEF Numbered

(* What a writer does to the log and the ids.                               *)
LEMMA RowsStep ==
  WriterInv /\ RowsInv /\ (\E w \in Writers :
      \/ CreateFile(w) \/ OpenSink(w) \/ BeginLine(w) \/ EndLine(w) \/ CutLine(w)
      \/ InsertRow(w) \/ DrawId(w) \/ CommitRow(w) \/ EmitRaises(w) \/ Die(w)) => RowsInv' /\ Grows
<1> SUFFICES ASSUME WriterInv, RowsInv, NEW w \in Writers,
                    \/ CreateFile(w) \/ OpenSink(w) \/ BeginLine(w) \/ EndLine(w) \/ CutLine(w)
                    \/ InsertRow(w) \/ DrawId(w) \/ CommitRow(w) \/ EmitRaises(w) \/ Die(w)
             PROVE  RowsInv' /\ Grows
  OBVIOUS
<1>1. /\ WriterTypes /\ Numbered /\ Drawn /\ Stored
      /\ log \in Seq(Entries) /\ nextId \in Nat \ {0} /\ id \in [Writers -> Nat]
      /\ wpc \in [Writers -> {"start", "open", "emit", "dead"}] /\ backend \in Backends
      /\ Len(log) + 1 \in Nat /\ nextId <= nextId + 1 /\ nextId + 1 \in Nat
  BY DEF WriterInv, WriterTypes, RowsInv
<1>2. ASSUME sent[w] < MaxEvents, NEW end \in BOOLEAN, NEW n \in Nat
      PROVE  /\ Entry(w, end, n) \in Entries /\ Entry(w, end, n).end = end
             /\ Entry(w, end, n).id = n
  BY <1>2, EventTypes DEF WriterInv, Entry
<1>3. ASSUME CreateFile(w) \/ OpenSink(w) PROVE RowsInv' /\ Grows
  <2>1. /\ UNCHANGED <<backend, log, nextId, id, returned, readerVars, reportVars>>
        /\ store' \in {"none", "file", "table"} /\ (store' = "none" => store = "none")
        /\ wpc' \in {wpc, [wpc EXCEPT ![w] = "open"]}
        /\ backend = "sqlite" => store' # "none"
    BY <1>1, <1>3 DEF CreateFile, OpenSink, Goto, Starting, Stored, Backends
  <2>2. Numbered'
    BY <1>1, <2>1, NumberedStays
  <2>3. \A u \in Writers : wpc'[u] = "emit" => wpc[u] = "emit"
    BY <1>1, <2>1
  <2>4. Drawn' /\ Stored'
    BY <1>1, <2>1, <2>3 DEF Drawn, Stored
  <2> QED BY <1>1, <2>1, <2>2, <2>4 DEF RowsInv, Grows
<1>4. ASSUME BeginLine(w) PROVE RowsInv' /\ Grows
  <2>1. /\ backend = "jsonl" /\ store # "none" /\ sent[w] < MaxEvents
        /\ log' = Append(log, Entry(w, FALSE, Len(log) + 1))
        /\ UNCHANGED <<backend, store, nextId, sent, id, returned, readerVars, reportVars>>
    BY <1>4 DEF BeginLine, Starting
  <2>2. PICK x \in Entries : x.id = Len(log) + 1 /\ log' = Append(log, x)
    <3>1. /\ Entry(w, FALSE, Len(log) + 1) \in Entries
          /\ Entry(w, FALSE, Len(log) + 1).id = Len(log) + 1
      BY <1>1, <1>2, <2>1
    <3> QED BY <2>1, <3>1
  <2>3. Numbered'
    <3>1. nextId <= nextId' /\ nextId' \in Nat /\ backend' = backend
      BY <1>1, <2>1
    <3> QED BY <1>1, <2>1, <2>2, <3>1, NumberedGrows
  <2>4. Drawn' /\ Stored'
    BY <1>1, <2>1 DEF Drawn, Stored
  <2>5. Grows
    <3>1. backend' = backend /\ returned \subseteq returned' /\ nextId <= nextId' /\ backend # "sqlite"
      BY <1>1, <2>1
    <3>2. UNCHANGED <<readerVars, reportVars>>
      BY <2>1
    <3> QED BY <2>2, <3>1, <3>2 DEF Grows
  <2> QED BY <2>3, <2>4, <2>5 DEF RowsInv
<1>5. ASSUME EndLine(w) PROVE RowsInv' /\ Grows
  <2>1. /\ backend = "jsonl" /\ log # <<>> /\ sent[w] < MaxEvents
        /\ log' = Append(log, Entry(w, TRUE, Len(log) + 1)) /\ returned \subseteq returned'
        /\ UNCHANGED <<backend, store, nextId, id, readerVars, reportVars>>
    BY <1>5 DEF EndLine, Emitted, WriterInv, AheadInv
  <2>2. PICK x \in Entries : x.id = Len(log) + 1 /\ log' = Append(log, x)
    <3>1. /\ Entry(w, TRUE, Len(log) + 1) \in Entries
          /\ Entry(w, TRUE, Len(log) + 1).id = Len(log) + 1
      BY <1>1, <1>2, <2>1
    <3> QED BY <2>1, <3>1
  <2>3. Numbered'
    <3>1. nextId <= nextId' /\ nextId' \in Nat /\ backend' = backend
      BY <1>1, <2>1
    <3> QED BY <1>1, <2>1, <2>2, <3>1, NumberedGrows
  <2>4. Drawn' /\ Stored'
    BY <1>1, <2>1 DEF Drawn, Stored
  <2>5. Grows
    <3>1. backend' = backend /\ returned \subseteq returned' /\ nextId <= nextId' /\ backend # "sqlite"
      BY <1>1, <2>1
    <3>2. UNCHANGED <<readerVars, reportVars>>
      BY <2>1
    <3> QED BY <2>2, <3>1, <3>2 DEF Grows
  <2> QED BY <2>3, <2>4, <2>5 DEF RowsInv
<1>6. ASSUME CutLine(w) PROVE RowsInv' /\ Grows
  <2>1. /\ backend = "jsonl" /\ log # <<>> /\ returned \subseteq returned'
        /\ UNCHANGED <<backend, store, log, nextId, id, readerVars, reportVars>>
    BY <1>6 DEF CutLine, Emitted, WriterInv, AheadInv
  <2>2. Numbered'
    BY <1>1, <2>1, NumberedStays
  <2>3. Drawn' /\ Stored'
    BY <1>1, <2>1 DEF Drawn, Stored
  <2> QED BY <1>1, <2>1, <2>2, <2>3 DEF RowsInv, Grows
<1>7. ASSUME InsertRow(w) PROVE RowsInv' /\ Grows
  <2>1. /\ backend = "sqlite" /\ sent[w] < MaxEvents /\ wpc[w] = "open"
        /\ log' = Append(log, Entry(w, TRUE, nextId)) /\ returned \subseteq returned'
        /\ nextId' = nextId + 1 /\ wpc' = [wpc EXCEPT ![w] = "open"]
        /\ UNCHANGED <<backend, store, id, readerVars, reportVars>>
    BY <1>7 DEF InsertRow, Emitted, Starting, Goto
  <2>2. /\ Entry(w, TRUE, nextId) \in Entries /\ Entry(w, TRUE, nextId).end
        /\ Entry(w, TRUE, nextId).id = nextId
    BY <1>1, <1>2, <2>1
  <2>3. nextId >= 1 /\ nextId < nextId' /\ \A n \in DOMAIN log : log[n].id # nextId
    BY <1>1, <2>1 DEF Numbered
  <2>4. Numbered'
    BY <1>1, <2>1, <2>2, <2>3, NumberedGrows
  <2>5. store # "none"
    BY <1>1, <2>1 DEF Stored
  <2>6. Drawn' /\ Stored'
    BY <1>1, <2>1, <2>5 DEF Drawn, Stored
  <2> QED BY <1>1, <2>1, <2>2, <2>4, <2>6 DEF RowsInv, Grows
<1>8. ASSUME DrawId(w) PROVE RowsInv' /\ Grows
  <2>1. /\ backend = "postgres" /\ id' = [id EXCEPT ![w] = nextId] /\ nextId' = nextId + 1
        /\ wpc' = [wpc EXCEPT ![w] = "emit"]
        /\ UNCHANGED <<backend, store, log, returned, readerVars, reportVars>>
    BY <1>8 DEF DrawId, Goto, Starting
  <2>2. Numbered'
    BY <1>1, <2>1, NumberedStays
  <2>3. \A n \in DOMAIN log : log[n].id # nextId
    BY <1>1, <2>1 DEF Numbered
  <2>4. /\ id'[w] = nextId /\ nextId >= 1 /\ nextId < nextId'
        /\ \A u \in Writers : u # w => id'[u] = id[u] /\ wpc'[u] = wpc[u] /\ id[u] \in Nat
    BY <1>1, <2>1
  <2>5. \A u \in Writers : u # w /\ wpc[u] = "emit" => id[u] < nextId /\ id[u] < nextId'
    BY <1>1, <2>1, <2>4 DEF Drawn
  <2>6. ASSUME NEW u \in Writers, wpc'[u] = "emit"
        PROVE  /\ id'[u] >= 1 /\ id'[u] < nextId'
               /\ \A n \in DOMAIN log : log[n].id # id'[u]
               /\ \A v \in Writers : wpc'[v] = "emit" /\ id'[v] = id'[u] => v = u
    <3>1. CASE u = w
      BY <2>3, <2>4, <2>5, <3>1
    <3>2. CASE u # w
      BY <1>1, <2>1, <2>4, <2>5, <2>6, <3>2 DEF Drawn
    <3> QED BY <3>1, <3>2
  <2>7. Drawn' /\ Stored'
    BY <1>1, <2>1, <2>6 DEF Drawn, Stored
  <2> QED BY <1>1, <2>1, <2>2, <2>7 DEF RowsInv, Grows
<1>9. ASSUME CommitRow(w) \/ EmitRaises(w) PROVE RowsInv' /\ Grows
  <2>1. /\ sent[w] < MaxEvents /\ returned \subseteq returned'
        /\ id' = [id EXCEPT ![w] = 0] /\ wpc' = [wpc EXCEPT ![w] = "open"]
        /\ UNCHANGED <<backend, store, nextId, readerVars, reportVars>>
    BY <1>9 DEF CommitRow, EmitRaises, Emitted, Goto, Starting, WriterInv, AheadInv
  <2>2. \/ log' = log
        \/ backend = "postgres" /\ wpc[w] = "emit" /\ log' = Append(log, Entry(w, TRUE, id[w]))
    BY <1>9 DEF CommitRow, EmitRaises
  <2>3. /\ store' = "none" => log' = <<>> /\ returned' = {}
        /\ backend = "sqlite" => wpc[w] # "emit" /\ store # "none"
    BY <1>1, <1>9, <2>2 DEF CommitRow, EmitRaises, Stored, Starting, Drawn
  <2>4. \A u \in Writers : u # w => wpc'[u] = wpc[u] /\ id'[u] = id[u]
    BY <1>1, <2>1
  <2>5. wpc'[w] = "open"
    BY <1>1, <2>1
  <2>6. Stored'
    BY <1>1, <2>1, <2>3 DEF Stored
  <2>7. CASE log' = log
    <3>1. Numbered'
      BY <1>1, <2>1, <2>7, NumberedStays
    <3>2. Drawn'
      BY <1>1, <2>1, <2>4, <2>5, <2>7 DEF Drawn
    <3> QED BY <1>1, <2>1, <2>6, <2>7, <3>1, <3>2 DEF RowsInv, Grows
  <2>8. CASE backend = "postgres" /\ wpc[w] = "emit" /\ log' = Append(log, Entry(w, TRUE, id[w]))
    <3>1. PICK x \in Entries : log' = Append(log, x) /\ x.end /\ x.id = id[w]
      <4>1. id[w] \in Nat
        BY <1>1
      <4> QED BY <1>2, <2>1, <2>8, <4>1
    <3>2. x.id >= 1 /\ x.id < nextId' /\ \A n \in DOMAIN log : log[n].id # x.id
      BY <1>1, <2>1, <2>8, <3>1 DEF Drawn
    <3>3. nextId <= nextId' /\ nextId' \in Nat /\ backend' = backend /\ backend # "jsonl"
      BY <1>1, <2>1, <2>8
    <3>4. Numbered'
      BY <1>1, <3>1, <3>2, <3>3, NumberedGrows
    <3>5. \A n \in DOMAIN log' : log'[n] = x \/ (n \in DOMAIN log /\ log'[n] = log[n])
      BY <1>1, <3>1, Appended
    <3>6. ASSUME NEW u \in Writers, wpc'[u] = "emit"
          PROVE  u # w /\ id'[u] = id[u] /\ wpc[u] = "emit" /\ id[u] # id[w]
      BY <1>1, <2>4, <2>5, <2>8, <3>6 DEF Drawn
    <3>7. ASSUME NEW u \in Writers, wpc'[u] = "emit"
          PROVE  /\ id'[u] >= 1 /\ id'[u] < nextId'
                 /\ \A n \in DOMAIN log' : log'[n].id # id'[u]
                 /\ \A v \in Writers : wpc'[v] = "emit" /\ id'[v] = id'[u] => v = u
      <4>1. u # w /\ id'[u] = id[u] /\ wpc[u] = "emit" /\ id[u] # id[w]
        BY <3>6, <3>7
      <4>2. id[u] >= 1 /\ id[u] < nextId /\ \A n \in DOMAIN log : log[n].id # id[u]
        BY <2>8, <4>1, <1>1 DEF Drawn
      <4>3. \A n \in DOMAIN log' : log'[n].id # id[u]
        BY <3>1, <3>5, <4>1, <4>2
      <4>4. ASSUME NEW v \in Writers, wpc'[v] = "emit", id'[v] = id'[u] PROVE v = u
        <5>1. id'[v] = id[v] /\ wpc[v] = "emit"
          BY <3>6, <4>4
        <5> QED BY <1>1, <2>8, <4>1, <4>4, <5>1 DEF Drawn
      <4> QED BY <2>1, <4>1, <4>2, <4>3, <4>4
    <3>8. Drawn'
      BY <2>1, <2>8, <3>7 DEF Drawn
    <3> QED BY <1>1, <2>1, <2>6, <2>8, <3>1, <3>3, <3>4, <3>8 DEF RowsInv, Grows
  <2> QED BY <2>2, <2>7, <2>8
<1>10. ASSUME Die(w) PROVE RowsInv' /\ Grows
  <2>1. /\ id' = [id EXCEPT ![w] = 0] /\ wpc' = [wpc EXCEPT ![w] = "dead"]
        /\ UNCHANGED <<backend, store, log, nextId, returned, readerVars, reportVars>>
    BY <1>10 DEF Die, Goto
  <2>2. Numbered'
    BY <1>1, <2>1, NumberedStays
  <2>3. \A u \in Writers : wpc'[u] # "dead" => u # w /\ wpc'[u] = wpc[u] /\ id'[u] = id[u]
    BY <1>1, <2>1
  <2>4. Drawn'
    BY <1>1, <2>1, <2>3 DEF Drawn
  <2>5. Stored'
    BY <1>1, <2>1, <2>3 DEF Stored
  <2> QED BY <1>1, <2>1, <2>2, <2>4, <2>5 DEF RowsInv, Grows
<1> QED BY <1>3, <1>4, <1>5, <1>6, <1>7, <1>8, <1>9, <1>10

LEMMA RowsInit == Init => RowsInv
<1> SUFFICES ASSUME Init PROVE RowsInv
  OBVIOUS
<1>1. DOMAIN log = {} /\ \A w \in Writers : wpc[w] = "start"
  BY DEF Init
<1> QED BY <1>1 DEF Init, RowsInv, Numbered, Drawn, Stored, Backends

LEMMA RowsUndisturbed ==
  ASSUME RowsInv, UNCHANGED <<backend, writerVars>>
  PROVE  RowsInv'
BY DEF RowsInv, Numbered, Drawn, Stored, writerVars

-----------------------------------------------------------------------------
(* The tail.                                                               *)

(* A half of a line which is complete, or a row.                            *)
Counts(m) == log[m].end /\ (backend = "jsonl" => Whole(m))

(* Where the line begins that the tail is reading.                          *)
Read == last - Len(buf)

TailTypes ==
    /\ rpc \in {"start", "wait", "seek", "poll", "dead"}
    /\ last \in Nat
    /\ buf \in Seq(Entries)
    /\ shown \in Seq(Events)
    /\ before \subseteq Events

(* It keeps what it has read of the line; it has not begun within a line, or *)
(* only within that of an event which was in the log then.                   *)
HalfRead ==
    /\ last <= Len(log) /\ Read \in Nat
    /\ \A i \in 1 .. Len(buf) : buf[i] = log[Read + i] /\ ~buf[i].end
    /\ Read > 0 /\ ~log[Read].end => log[Read].event \in before

(* What was in the log when it began lies behind it.                        *)
BehindInv == \A e \in before : \E n \in DOMAIN log : log[n].event = e /\ log[n].id <= Read

(* What it prints it has read to the end, and it came after it began.       *)
ShownInv ==
    /\ \A i \in DOMAIN shown : shown[i] \notin before
    /\ \A i \in DOMAIN shown : \E n \in DOMAIN log :
           log[n].end /\ log[n].event = shown[i] /\ log[n].id <= last
    /\ \A i, j \in DOMAIN shown : i < j => \E m, n \in DOMAIN log :
           /\ log[m].end /\ log[m].event = shown[i]
           /\ log[n].end /\ log[n].event = shown[j]
           /\ log[m].id < log[n].id

(* What it has read of intact lines and rows it has printed.                *)
PassedInv ==
    backend # "postgres" => \A m \in DOMAIN log :
        Counts(m) /\ log[m].id <= last => log[m].event \in before \cup Range(shown)

TailInv ==
    /\ TailTypes
    /\ rpc \in {"start", "wait", "seek"} =>
           last = 0 /\ buf = <<>> /\ shown = <<>> /\ before = {}
    /\ backend = "jsonl" => HalfRead
    /\ backend # "jsonl" => last < nextId /\ buf = <<>>
    /\ BehindInv /\ ShownInv /\ PassedInv

LEMMA TailInit == Init => TailInv
<1> SUFFICES ASSUME Init PROVE TailInv
  OBVIOUS
<1>1. /\ rpc = "start" /\ last = 0 /\ buf = <<>> /\ shown = <<>> /\ before = {} /\ log = <<>>
      /\ DOMAIN log = {} /\ DOMAIN shown = {} /\ Len(log) = 0 /\ Len(buf) = 0 /\ nextId = 1
      /\ buf \in Seq(Entries) /\ shown \in Seq(Events)
  BY DEF Init
<1>2. HalfRead
  BY <1>1 DEF HalfRead, Read
<1> QED BY <1>1, <1>2 DEF TailInv, TailTypes, BehindInv, ShownInv, PassedInv

(* An entry that is new behind the tail changes nothing for it.             *)
LEMMA TailUndisturbed ==
  ASSUME WriterInv, WriterInv', RowsInv', TailInv, Grows
  PROVE  TailInv'
<1>1. /\ log \in Seq(Entries) /\ nextId \in Nat /\ nextId' \in Nat /\ nextId <= nextId' /\ backend' = backend
      /\ UNCHANGED <<rpc, last, buf, shown, before>> /\ last \in Nat
      /\ Len(log) \in Nat /\ DOMAIN log = 1 .. Len(log)
  BY DEF WriterInv, WriterTypes, Grows, readerVars, TailInv, TailTypes
<1>2. /\ Len(log') \in Nat /\ Len(log) <= Len(log') /\ DOMAIN log' = 1 .. Len(log')
      /\ \A n \in 1 .. Len(log) : n \in DOMAIN log' /\ log'[n] = log[n]
  <2>1. CASE log' = log
    BY <1>1, <2>1
  <2>2. ASSUME NEW x \in Entries, log' = Append(log, x)
        PROVE  /\ Len(log') = Len(log) + 1 /\ DOMAIN log' = 1 .. Len(log) + 1
               /\ \A n \in 1 .. Len(log) : log'[n] = log[n]
    BY <1>1, <2>2, Appended
  <2> QED BY <1>1, <2>1, <2>2 DEF Grows
<1>3. TailTypes'
  BY <1>1 DEF TailInv, TailTypes
<1>4. backend = "jsonl" => HalfRead'
  <2>1. SUFFICES ASSUME backend = "jsonl" PROVE HalfRead'
    OBVIOUS
  <2>2. HalfRead
    BY <2>1 DEF TailInv
  <2>3. Read' = Read /\ Read \in Nat /\ Len(buf) \in Nat /\ last = Read + Len(buf)
    BY <1>1, <2>2 DEF Read, HalfRead, TailInv, TailTypes
  <2>4. last' <= Len(log')
    BY <1>1, <1>2, <2>2 DEF HalfRead
  <2>5. ASSUME NEW i \in 1 .. Len(buf) PROVE buf[i] = log'[Read + i] /\ ~buf[i].end
    <3>1. Read + i \in 1 .. Len(log)
      BY <1>1, <2>2, <2>3 DEF HalfRead
    <3> QED BY <1>2, <2>2, <3>1 DEF HalfRead
  <2>6. Read > 0 => log'[Read] = log[Read]
    <3>1. Read > 0 => Read \in 1 .. Len(log)
      BY <1>1, <2>2, <2>3 DEF HalfRead
    <3> QED BY <1>2, <3>1
  <2> QED BY <1>1, <2>2, <2>3, <2>4, <2>5, <2>6 DEF HalfRead
<1>5. backend # "jsonl" => last' < nextId' /\ buf' = <<>>
  BY <1>1 DEF TailInv
<1>6. BehindInv'
  <2>1. Read' = Read
    BY <1>1 DEF Read
  <2> QED BY <1>1, <1>2, <2>1 DEF TailInv, BehindInv
<1>7. ShownInv'
  <2>1. \A n \in DOMAIN log : n \in DOMAIN log' /\ log'[n] = log[n]
    BY <1>1, <1>2
  <2>2. \A i \in DOMAIN shown : shown[i] \notin before
    BY DEF TailInv, ShownInv
  <2>3. \A i \in DOMAIN shown : \E n \in DOMAIN log' :
            log'[n].end /\ log'[n].event = shown[i] /\ log'[n].id <= last
    BY <2>1 DEF TailInv, ShownInv
  <2>4. ASSUME NEW i \in DOMAIN shown, NEW j \in DOMAIN shown, i < j
        PROVE  \E m, n \in DOMAIN log' :
                   /\ log'[m].end /\ log'[m].event = shown[i]
                   /\ log'[n].end /\ log'[n].event = shown[j]
                   /\ log'[m].id < log'[n].id
    BY <2>1, <2>4 DEF TailInv, ShownInv
  <2> QED BY <1>1, <2>2, <2>3, <2>4 DEF ShownInv
<1>8. PassedInv'
  <2>1. SUFFICES ASSUME backend # "postgres", NEW m \in DOMAIN log', Counts(m)', log'[m].id <= last
                 PROVE  log'[m].event \in before \cup Range(shown)
    BY <1>1 DEF PassedInv
  <2>2. m \in 1 .. Len(log)
    <3>1. CASE log' = log
      BY <1>1, <3>1, <2>1
    <3>2. ASSUME NEW x \in Entries, log' = Append(log, x), backend = "sqlite" => x.id = nextId
          PROVE  m \in 1 .. Len(log)
      <4>1. SUFFICES ASSUME m = Len(log) + 1 PROVE FALSE
        BY <1>1, <2>1, <3>2, Appended
      <4>2. log'[m] = x /\ x.id \in Nat
        BY <1>1, <3>2, <4>1, Appended DEF Entries
      <4>3. CASE backend = "jsonl"
        <5>1. x.id = Len(log) + 1
          BY <1>1, <2>1, <4>1, <4>2, <4>3 DEF RowsInv, Numbered
        <5>2. last <= Len(log)
          BY <4>3 DEF TailInv, HalfRead
        <5> QED BY <1>1, <2>1, <4>2, <5>1, <5>2
      <4>4. CASE backend = "sqlite"
        <5>1. last < nextId /\ x.id = nextId
          BY <3>2, <4>4 DEF TailInv
        <5> QED BY <1>1, <2>1, <4>2, <5>1
      <4> QED BY <2>1, <4>3, <4>4 DEF WriterInv, WriterTypes, Backends
    <3> QED BY <3>1, <3>2 DEF Grows
  <2>3. log'[m] = log[m] /\ (m > 1 => log'[m - 1] = log[m - 1]) /\ (m > 2 => log'[m - 2] = log[m - 2])
    BY <1>1, <1>2, <2>2
  <2>4. Counts(m)
    BY <1>1, <2>1, <2>3 DEF Counts, Whole
  <2> QED BY <1>1, <2>1, <2>2, <2>3, <2>4 DEF TailInv, PassedInv
<1> QED BY <1>1, <1>3, <1>4, <1>5, <1>6, <1>7, <1>8 DEF TailInv

(* The end of the log.                                                     *)
LEMMA EndIs ==
  ASSUME log \in Seq(Entries), NEW b \in Nat, \A n \in DOMAIN log : log[n].id <= b
  PROVE  /\ End \in Nat /\ End <= b /\ \A n \in DOMAIN log : log[n].id <= End
         /\ End = 0 \/ \E n \in DOMAIN log : log[n].id = End
<1> DEFINE S == {0} \cup {e.id : e \in Range(log)}
<1>1. \A n \in DOMAIN log : log[n].id \in Nat
  BY IdTypes
<1>2. \A x \in S : x = 0 \/ \E n \in DOMAIN log : log[n].id = x
  BY DEF Range
<1>3. \A n \in DOMAIN log : log[n].id \in S
  BY DEF Range
<1>4. S \in SUBSET Nat /\ 0 \in S /\ \A x \in S : x <= b
  <2>1. 0 \in S
    OBVIOUS
  <2> HIDE DEF S
  <2> QED BY <1>1, <1>2, <2>1
<1>5. End = Max(S)
  BY DEF End
<1> HIDE DEF S
<1>6. Max(S) \in S /\ \A x \in S : x <= Max(S)
  BY <1>4, MaxOfBounded
<1> QED BY <1>2, <1>3, <1>4, <1>5, <1>6

(* Events that came after the tail began and after what it has read.        *)
Fresh(more) ==
    /\ \A k \in DOMAIN more : more[k] \notin before
    /\ \A k \in DOMAIN more : \E n \in DOMAIN log :
           log[n].end /\ log[n].event = more[k] /\ last < log[n].id /\ log[n].id <= last'
    /\ \A j, k \in DOMAIN more : j < k => \E m, n \in DOMAIN log :
           /\ log[m].end /\ log[m].event = more[j]
           /\ log[n].end /\ log[n].event = more[k]
           /\ log[m].id < log[n].id

Follows(more, h) ==
    /\ \A i \in DOMAIN shown : i \in Nat /\ i <= h
    /\ \A k \in DOMAIN more : k \in Nat /\ k >= 1
    /\ \A i \in DOMAIN shown' :
           \/ i \in DOMAIN shown /\ shown'[i] = shown[i]
           \/ \E k \in DOMAIN more : i = k + h /\ shown'[i] = more[k]

(* More is printed.                                                        *)
LEMMA ShownGrows ==
  ASSUME log \in Seq(Entries), TailTypes, ShownInv, UNCHANGED <<log, before>>,
         last' \in Nat, last <= last', NEW more, NEW h \in Nat,
         Follows(more, h),
         Fresh(more)
  PROVE  ShownInv'
<1>1. last \in Nat /\ \A n \in DOMAIN log : log[n].id \in Nat
  BY IdTypes DEF TailTypes
<1> DEFINE Ordered(d, e) == \E m, n \in DOMAIN log :
               /\ log[m].end /\ log[m].event = d
               /\ log[n].end /\ log[n].event = e
               /\ log[m].id < log[n].id
           Printed(e) == \E n \in DOMAIN log : log[n].end /\ log[n].event = e /\ log[n].id <= last
           New(e) == \E n \in DOMAIN log :
               log[n].end /\ log[n].event = e /\ last < log[n].id /\ log[n].id <= last'
<1>2. /\ \A i \in DOMAIN shown : Printed(shown[i])
      /\ \A i, j \in DOMAIN shown : i < j => Ordered(shown[i], shown[j])
      /\ \A k \in DOMAIN more : New(more[k])
      /\ \A j, k \in DOMAIN more : j < k => Ordered(more[j], more[k])
  <2>1. \A i \in DOMAIN shown : Printed(shown[i])
    BY DEF ShownInv
  <2>2. \A i, j \in DOMAIN shown : i < j => Ordered(shown[i], shown[j])
    BY DEF ShownInv
  <2>3. \A k \in DOMAIN more : New(more[k])
    BY DEF Fresh
  <2>4. \A j, k \in DOMAIN more : j < k => Ordered(more[j], more[k])
    BY DEF Fresh
  <2> QED BY <2>1, <2>2, <2>3, <2>4
<1>3. ASSUME NEW d, NEW e, Printed(d), New(e) PROVE Ordered(d, e)
  <2>1. PICK m \in DOMAIN log : log[m].end /\ log[m].event = d /\ log[m].id <= last
    BY <1>3
  <2>2. PICK n \in DOMAIN log : log[n].end /\ log[n].event = e /\ last < log[n].id
    BY <1>3
  <2>3. log[m].id < log[n].id
    BY <1>1, <2>1, <2>2
  <2> QED BY <2>1, <2>2, <2>3
<1>4. \A e : Printed(e) \/ New(e) =>
          \E n \in DOMAIN log : log[n].end /\ log[n].event = e /\ log[n].id <= last'
  <2>1. \A n \in DOMAIN log : log[n].id <= last => log[n].id <= last'
    BY <1>1
  <2> QED BY <2>1
<1> HIDE DEF Ordered, Printed, New
<1>5. \A i \in DOMAIN shown' : shown'[i] \notin before
  BY DEF ShownInv, Fresh, Follows
<1>6. \A i \in DOMAIN shown' : Printed(shown'[i]) \/ New(shown'[i])
  BY <1>2 DEF Follows
<1>7. ASSUME NEW i \in DOMAIN shown', NEW j \in DOMAIN shown', i < j
      PROVE  Ordered(shown'[i], shown'[j])
  <2>1. CASE j \in DOMAIN shown /\ shown'[j] = shown[j]
    <3>1. i \in DOMAIN shown /\ shown'[i] = shown[i]
      BY <1>7, <2>1 DEF Follows
    <3> QED BY <1>2, <1>7, <2>1, <3>1
  <2>2. ASSUME NEW k \in DOMAIN more, j = k + h, shown'[j] = more[k]
        PROVE  Ordered(shown'[i], shown'[j])
    <3>1. CASE i \in DOMAIN shown /\ shown'[i] = shown[i]
      BY <1>2, <1>3, <2>2, <3>1
    <3>2. ASSUME NEW g \in DOMAIN more, i = g + h, shown'[i] = more[g]
          PROVE  Ordered(shown'[i], shown'[j])
      <4>1. g < k
        BY <1>7, <2>2, <3>2 DEF Follows
      <4> QED BY <1>2, <2>2, <3>2, <4>1
    <3> QED BY <3>1, <3>2 DEF Follows
  <2> QED BY <2>1, <2>2 DEF Follows
<1>8. /\ \A i \in DOMAIN shown' : \E n \in DOMAIN log :
             log[n].end /\ log[n].event = shown'[i] /\ log[n].id <= last'
      /\ \A i, j \in DOMAIN shown' : i < j => Ordered(shown'[i], shown'[j])
  BY <1>4, <1>6, <1>7
<1> USE DEF Ordered
<1> QED BY <1>5, <1>8 DEF ShownInv

LEMMA ShownMore ==
  ASSUME log \in Seq(Entries), TailTypes, ShownInv, UNCHANGED <<log, before>>,
         last' \in Nat, last <= last', NEW more \in Seq(Events), shown' = shown \o more,
         Fresh(more)
  PROVE  /\ shown' \in Seq(Events) /\ ShownInv'
         /\ \A e \in Range(shown) : e \in Range(shown')
         /\ \A k \in DOMAIN more : more[k] \in Range(shown')
<1>1. /\ shown \in Seq(Events)
      /\ Len(shown) \in Nat /\ DOMAIN shown = 1 .. Len(shown)
      /\ Len(more) \in Nat /\ DOMAIN more = 1 .. Len(more)
  BY DEF TailTypes
<1>2. /\ shown' \in Seq(Events) /\ DOMAIN shown' = 1 .. Len(shown) + Len(more)
      /\ \A i \in 1 .. Len(shown) + Len(more) :
             shown'[i] = IF i <= Len(shown) THEN shown[i] ELSE more[i - Len(shown)]
  <2>1. Len(shown') = Len(shown) + Len(more) /\ shown' \in Seq(Events)
    BY <1>1, ConcatProperties
  <2> QED BY <1>1, <2>1, ConcatProperties
<1>3. /\ \A i \in DOMAIN shown : i \in DOMAIN shown' /\ shown'[i] = shown[i]
      /\ \A k \in DOMAIN more : k + Len(shown) \in DOMAIN shown' /\ shown'[k + Len(shown)] = more[k]
  BY <1>1, <1>2
<1>4. \A i \in DOMAIN shown' :
          \/ i \in DOMAIN shown /\ shown'[i] = shown[i]
          \/ \E k \in DOMAIN more : i = k + Len(shown) /\ shown'[i] = more[k]
  <2>1. SUFFICES ASSUME NEW i \in DOMAIN shown', ~(i <= Len(shown))
                 PROVE  i - Len(shown) \in DOMAIN more /\ i = (i - Len(shown)) + Len(shown)
    BY <1>1, <1>2
  <2> QED BY <1>1, <1>2, <2>1
<1>5. ASSUME NEW e \in Range(shown) PROVE e \in Range(shown')
  <2>1. PICK i \in DOMAIN shown : shown[i] = e
    BY DEF Range
  <2>2. i \in DOMAIN shown' /\ shown'[i] = e
    BY <1>3, <2>1
  <2> QED BY <2>2 DEF Range
<1>6. ASSUME NEW k \in DOMAIN more PROVE more[k] \in Range(shown')
  <2>1. k + Len(shown) \in DOMAIN shown' /\ shown'[k + Len(shown)] = more[k]
    BY <1>3
  <2> QED BY <2>1 DEF Range
<1>7. /\ \A i \in DOMAIN shown : i \in Nat /\ i <= Len(shown)
      /\ \A k \in DOMAIN more : k \in Nat /\ k >= 1
  BY <1>1
<1>8. ShownInv'
  <2>1. Len(shown) \in Nat /\ Follows(more, Len(shown))
    BY <1>1, <1>4, <1>7 DEF Follows
  <2> QED BY <2>1, ShownGrows
<1> QED BY <1>2, <1>5, <1>6, <1>8

(* The tail goes where it begins.                                          *)
LEMMA TailBegins ==
  ASSUME WriterInv, RowsInv, TailInv, Look \/ Appears \/ Seek
  PROVE  TailInv'
<1>1. /\ log \in Seq(Entries) /\ nextId \in Nat \ {0} /\ UNCHANGED <<backend, log, nextId, buf, shown>>
      /\ rpc \in {"start", "wait", "seek"}
  BY DEF Look, Appears, Seek, WriterInv, WriterTypes, writerVars
<1>2. /\ last = 0 /\ buf = <<>> /\ shown = <<>> /\ before = {} /\ DOMAIN shown = {} /\ Len(buf) = 0
      /\ Len(log) \in Nat /\ DOMAIN log = 1 .. Len(log)
      /\ \A n \in DOMAIN log : log[n] \in Entries /\ log[n].id \in Nat /\ log[n].event \in Events
  BY <1>1, IdTypes, EntryParts DEF TailInv
<1>3. ASSUME last' \in Nat, before' \subseteq Events, last' = 0 => before' = {},
             last' > 0 => /\ before' = {e.event : e \in Range(log)}
                          /\ \A n \in DOMAIN log : log[n].id <= last'
                          /\ \E n \in DOMAIN log : log[n].id = last',
             rpc' \in {"wait", "seek", "poll", "dead"},
             rpc' # "poll" => last' = 0
      PROVE  TailInv'
  <2>1. Read' = last'
    <3>1. Len(buf') = 0 /\ last' \in Int
      BY <1>1, <1>2, <1>3
    <3>2. Read' = last' - Len(buf')
      BY DEF Read
    <3>3. \A n \in Int : n - 0 = n
      OBVIOUS
    <3> QED BY <3>1, <3>2, <3>3, Zenon
  <2>2. last' > 0 => \A n \in DOMAIN log : log[n].event \in before'
    BY <1>3 DEF Range
  <2>3. backend = "jsonl" => HalfRead'
    <3>1. SUFFICES ASSUME backend = "jsonl" PROVE HalfRead'
      OBVIOUS
    <3>2. last' <= Len(log) /\ (last' > 0 => last' \in DOMAIN log)
      BY <1>2, <1>3, <3>1 DEF RowsInv, Numbered
    <3> QED BY <1>1, <1>2, <1>3, <2>1, <2>2, <3>2 DEF HalfRead
  <2>4. backend # "jsonl" => last' < nextId
    BY <1>1, <1>3 DEF RowsInv, Numbered
  <2>5. BehindInv'
    BY <1>1, <1>2, <1>3, <2>1 DEF BehindInv, Range
  <2>6. ShownInv'
    BY <1>1, <1>2 DEF ShownInv
  <2>7. PassedInv'
    <3>1. \A n \in DOMAIN log : log[n].id >= 1
      BY DEF RowsInv, Numbered
    <3>2. ASSUME NEW m \in DOMAIN log, log[m].id <= last' PROVE log[m].event \in before'
      BY <1>2, <1>3, <2>2, <3>1, <3>2
    <3> QED BY <1>1, <3>2 DEF PassedInv
  <2>8. TailTypes'
    BY <1>1, <1>3 DEF TailInv, TailTypes
  <2> QED BY <1>1, <1>2, <1>3, <2>3, <2>4, <2>5, <2>6, <2>7, <2>8 DEF TailInv
<1>4. CASE Look \/ Appears
  <2>1. last' = 0 /\ before' = {} /\ rpc' \in {"wait", "seek", "poll"}
    BY <1>2, <1>4 DEF Look, Appears, NewStart
  <2> QED BY <1>3, <2>1
<1>5. CASE Seek /\ rpc' = "dead"
  <2>1. last' = 0 /\ before' = {}
    BY <1>2, <1>5 DEF Seek
  <2> QED BY <1>3, <1>5, <2>1
<1>6. CASE Seek /\ rpc' # "dead"
  <2>1. last' = End /\ before' = {e.event : e \in Range(log)} /\ rpc' = "poll"
    BY <1>6 DEF Seek
  <2>2. PICK b \in Nat : \A n \in DOMAIN log : log[n].id <= b
    <3>1. CASE backend = "jsonl"
      <4>1. \A n \in DOMAIN log : log[n].id <= Len(log)
        BY <1>2, <3>1 DEF RowsInv, Numbered
      <4> QED BY <1>2, <4>1
    <3>2. CASE backend # "jsonl"
      <4>1. \A n \in DOMAIN log : log[n].id < nextId
        BY <3>2 DEF RowsInv, Numbered
      <4>2. nextId \in Nat /\ \A n \in DOMAIN log : log[n].id <= nextId
        BY <1>1, <1>2, <4>1
      <4> QED BY <4>2
    <3> QED BY <3>1, <3>2
  <2>3. /\ End \in Nat /\ \A n \in DOMAIN log : log[n].id <= End
        /\ End = 0 \/ \E n \in DOMAIN log : log[n].id = End
    BY <1>1, <2>2, EndIs
  <2>4. before' \subseteq Events
    BY <1>2, <2>1 DEF Range
  <2>5. End = 0 => before' = {}
    <3>1. SUFFICES ASSUME End = 0, NEW n \in DOMAIN log PROVE FALSE
      BY <2>1 DEF Range
    <3>2. log[n].id >= 1
      BY DEF RowsInv, Numbered
    <3> QED BY <1>2, <2>3, <3>1, <3>2
  <2> HIDE DEF End
  <2> QED BY <1>3, <2>1, <2>3, <2>4, <2>5
<1> QED BY <1>4, <1>5, <1>6

LEMMA ShownStays ==
  ASSUME log \in Seq(Entries), TailTypes, ShownInv, UNCHANGED <<log, before, shown>>,
         last' \in Nat, last <= last'
  PROVE  ShownInv'
<1>1. last \in Nat /\ \A n \in DOMAIN log : log[n].id \in Nat
  BY IdTypes DEF TailTypes
<1>2. \A n \in DOMAIN log : log[n].id <= last => log[n].id <= last'
  BY <1>1
<1>3. \A i \in DOMAIN shown : \E n \in DOMAIN log :
          log[n].end /\ log[n].event = shown[i] /\ log[n].id <= last'
  BY <1>2 DEF ShownInv
<1> QED BY <1>3 DEF ShownInv

(* The line as far as it is in the file, from where the tail begins it.     *)
Whither == StopAfter(last)
TailLine == buf \o Part(last)

LEMMA TailLineIs ==
  ASSUME log \in Seq(Entries), TailTypes, HalfRead, last < Len(log)
  PROVE  /\ Read \in Nat /\ Whither \in Nat /\ Read < Whither /\ last < Whither /\ Whither <= Len(log)
         /\ TailLine \in Seq(Entries) /\ Len(TailLine) = Whither - Read
         /\ \A i \in 1 .. Whither - Read : TailLine[i] = log[Read + i]
         /\ \A n \in Read + 1 .. Whither : n # Whither => ~log[n].end
         /\ EndsAfter(last) = {} => ~log[Whither].end
         /\ EndsAfter(last) # {} => log[Whither].end
<1>1. /\ Len(log) \in Nat /\ last \in Nat /\ Len(buf) \in Nat /\ Read \in Nat
      /\ last = Read + Len(buf) /\ buf \in Seq(Entries) /\ DOMAIN log = 1 .. Len(log)
      /\ \A i \in 1 .. Len(buf) : buf[i] = log[Read + i] /\ ~buf[i].end
  BY DEF TailTypes, HalfRead, Read
<1>2. /\ Whither \in last + 1 .. Len(log)
      /\ \A n \in last + 1 .. Len(log) : log[n].end => Whither <= n /\ log[Whither].end
      /\ EndsAfter(last) # {} => log[Whither].end
      /\ Part(last) \in Seq(Entries) /\ Len(Part(last)) = Whither - last
      /\ \A i \in 1 .. Whither - last : Part(last)[i] = log[last + i]
  BY <1>1, PartStops, PartIs DEF Whither
<1> HIDE DEF Read, Whither
<1>3. /\ TailLine \in Seq(Entries) /\ Len(TailLine) = Len(buf) + (Whither - last)
      /\ \A i \in 1 .. Len(buf) + (Whither - last) :
             TailLine[i] = IF i <= Len(buf) THEN buf[i] ELSE Part(last)[i - Len(buf)]
  BY <1>1, <1>2, ConcatProperties DEF TailLine
<1>4. Len(buf) + (Whither - last) = Whither - Read
  BY <1>1, <1>2
<1>5. ASSUME NEW i \in 1 .. Whither - Read PROVE TailLine[i] = log[Read + i]
  <2>1. CASE i <= Len(buf)
    <3>1. i \in 1 .. Len(buf)
      BY <1>1, <2>1
    <3>2. TailLine[i] = buf[i]
      BY <1>3, <1>4, <2>1
    <3> QED BY <1>1, <3>1, <3>2
  <2>2. CASE ~(i <= Len(buf))
    <3>1. i - Len(buf) \in 1 .. Whither - last /\ last + (i - Len(buf)) = Read + i
      BY <1>1, <1>2, <2>2
    <3>2. TailLine[i] = Part(last)[i - Len(buf)]
      BY <1>3, <1>4, <2>2
    <3> QED BY <1>2, <3>1, <3>2
  <2> QED BY <2>1, <2>2
<1>6. ASSUME NEW n \in Read + 1 .. Whither, n # Whither PROVE ~log[n].end
  <2>1. CASE n <= last
    <3>1. n - Read \in 1 .. Len(buf) /\ Read + (n - Read) = n
      BY <1>1, <1>2, <2>1
    <3> QED BY <1>1, <3>1
  <2>2. CASE ~(n <= last)
    <3>1. n \in last + 1 .. Len(log) /\ ~(Whither <= n)
      BY <1>1, <1>2, <1>6, <2>2
    <3> QED BY <1>2, <3>1
  <2> QED BY <2>1, <2>2
<1>7. EndsAfter(last) = {} => ~log[Whither].end
  BY <1>2 DEF EndsAfter
<1>8. Whither \in Nat /\ Read < Whither /\ last < Whither /\ Whither <= Len(log)
  BY <1>1, <1>2
<1> QED BY <1>1, <1>2, <1>3, <1>4, <1>5, <1>6, <1>7, <1>8

(* The tail reads a line, or a part of one.                                *)
LEMMA ReadLineStep ==
  ASSUME WriterInv, OnceInv, RowsInv, TailInv, ReadLine
  PROVE  TailInv'
<1>1. /\ backend = "jsonl" /\ rpc = "poll" /\ last < Len(log) /\ last' = Whither
      /\ UNCHANGED <<backend, log, nextId, rpc, before>>
      /\ \/ EndsAfter(last) = {} /\ buf' = TailLine /\ shown' = shown
         \/ /\ EndsAfter(last) # {} /\ buf' = <<>>
            /\ shown' = IF Parses(TailLine) THEN Append(shown, TailLine[1].event) ELSE shown
  BY DEF ReadLine, EndsAfter, StopAfter, Part, Whither, TailLine, KeepPart, writerVars
<1>2. /\ log \in Seq(Entries) /\ Len(log) \in Nat /\ DOMAIN log = 1 .. Len(log)
      /\ TailTypes /\ HalfRead /\ BehindInv /\ ShownInv /\ PassedInv /\ last \in Nat
      /\ shown \in Seq(Events) /\ before \subseteq Events
      /\ \A n \in DOMAIN log : log[n] \in Entries /\ log[n].id = n
  BY <1>1 DEF WriterInv, WriterTypes, TailInv, TailTypes, RowsInv, Numbered
<1>3. /\ Read \in Nat /\ Whither \in Nat /\ Read < Whither /\ last < Whither /\ Whither <= Len(log)
      /\ TailLine \in Seq(Entries) /\ Len(TailLine) = Whither - Read
      /\ \A i \in 1 .. Whither - Read : TailLine[i] = log[Read + i]
      /\ \A n \in Read + 1 .. Whither : n # Whither => ~log[n].end
      /\ EndsAfter(last) = {} => ~log[Whither].end
      /\ EndsAfter(last) # {} => log[Whither].end
  BY <1>1, <1>2, TailLineIs
<1>4. Read <= last
  BY <1>2 DEF Read, TailTypes
<1> HIDE DEF Whither, TailLine, Read
<1>5. CASE EndsAfter(last) = {}
  <2>1. buf' = TailLine /\ shown' = shown
    BY <1>1, <1>5
  <2>2. Read' = Read
    <3>1. Read' = Whither - Len(TailLine)
      BY <1>1, <2>1 DEF Read
    <3>2. \A a, b \in Int : b - (b - a) = a
      OBVIOUS
    <3> QED BY <1>3, <3>1, <3>2
  <2>3. HalfRead'
    <3>1. \A i \in 1 .. Len(TailLine) : TailLine[i] = log[Read + i] /\ ~TailLine[i].end
      <4> SUFFICES ASSUME NEW i \in 1 .. Len(TailLine) PROVE TailLine[i] = log[Read + i] /\ ~log[Read + i].end
        OBVIOUS
      <4>1. i \in 1 .. Whither - Read /\ Read + i \in Read + 1 .. Whither
        BY <1>3
      <4> QED BY <1>3, <1>5, <4>1
    <3> QED BY <1>1, <1>2, <1>3, <2>1, <2>2, <3>1 DEF HalfRead
  <2>4. BehindInv'
    BY <1>1, <1>2, <2>2 DEF BehindInv
  <2>5. ShownInv'
    <3>1. last' \in Nat /\ last <= last'
      BY <1>1, <1>2, <1>3
    <3> QED BY <1>1, <1>2, <2>1, <3>1, ShownStays
  <2>6. PassedInv'
    <3>1. ASSUME NEW m \in DOMAIN log, Counts(m), m <= Whither PROVE m <= last
      <4>1. m \notin Read + 1 .. Whither
        BY <1>3, <1>5, <3>1 DEF Counts
      <4> QED BY <1>2, <1>3, <1>4, <3>1, <4>1
    <3> QED BY <1>1, <1>2, <2>1, <3>1 DEF PassedInv, Counts, Whole
  <2>7. TailTypes'
    BY <1>1, <1>2, <1>3, <2>1 DEF TailTypes
  <2> QED BY <1>1, <2>3, <2>4, <2>5, <2>6, <2>7 DEF TailInv
<1>6. CASE EndsAfter(last) # {}
  <2>1. /\ buf' = <<>> /\ log[Whither].end /\ Whither \in DOMAIN log
        /\ shown' = IF Parses(TailLine) THEN Append(shown, TailLine[1].event) ELSE shown
    BY <1>1, <1>2, <1>3, <1>6
  <2>2. Read' = Whither
    <3>1. Read' = Whither - Len(<<>>) /\ Len(<<>>) = 0
      BY <1>1, <2>1 DEF Read
    <3>2. \A n \in Int : n - 0 = n
      OBVIOUS
    <3> QED BY <1>3, <3>1, <3>2
  <2>3. HalfRead'
    BY <1>1, <1>2, <1>3, <2>1, <2>2 DEF HalfRead
  <2>4. BehindInv'
    <3>1. \A n \in DOMAIN log : log[n].id <= Read => log[n].id <= Whither
      BY <1>2, <1>3
    <3> QED BY <1>1, <1>2, <2>2, <3>1 DEF BehindInv
  <2>5. last' \in Nat /\ last <= last'
    BY <1>1, <1>2, <1>3
  <2>6. ASSUME Parses(TailLine)
        PROVE  /\ shown' \in Seq(Events) /\ ShownInv' /\ log[Whither].event \in Range(shown')
               /\ \A e \in Range(shown) : e \in Range(shown')
    <3>1. Whither = Read + 2 /\ TailLine[1] = log[Read + 1] /\ TailLine[2] = log[Whither]
      <4>1. Len(TailLine) = 2
        BY <2>6 DEF Parses
      <4>2. Whither - Read = 2
        BY <1>3, <4>1
      <4>3. Whither = Read + 2 /\ 1 \in 1 .. Whither - Read /\ 2 \in 1 .. Whither - Read
        BY <1>3, <4>2
      <4> QED BY <1>3, <4>3
    <3>2. Read + 1 \in DOMAIN log /\ ~log[Read + 1].end /\ log[Read + 1].event = log[Whither].event
      BY <1>2, <1>3, <2>6, <3>1 DEF Parses
    <3>3. shown' = Append(shown, log[Whither].event) /\ log[Whither].event \in Events
      BY <1>2, <2>1, <2>6, <3>1, <3>2, EntryParts
    <3>4. log[Whither].event \notin before
      <4>1. SUFFICES ASSUME log[Whither].event \in before PROVE FALSE
        OBVIOUS
      <4>2. PICK n \in DOMAIN log : log[n].event = log[Whither].event /\ log[n].id <= Read
        BY <1>2, <4>1 DEF BehindInv
      <4>3. n <= Read
        BY <1>2, <4>2
      <4>4. CASE log[n].end
        <5>1. n = Whither
          BY <1>2, <2>1, <4>2, <4>4 DEF OnceInv
        <5> QED BY <1>3, <4>3, <5>1
      <4>5. CASE ~log[n].end
        <5>1. n = Read + 1
          BY <1>2, <3>2, <4>2, <4>5, EntryParts DEF OnceInv
        <5> QED BY <1>3, <4>3, <5>1
      <4> QED BY <4>4, <4>5
    <3> DEFINE more == <<log[Whither].event>>
    <3>5. more \in Seq(Events) /\ shown' = shown \o more /\ DOMAIN more = {1} /\ more[1] = log[Whither].event
      BY <1>2, <3>3, AppendIsConcat
    <3> HIDE DEF more
    <3>6. Fresh(more)
      <4>1. last < log[Whither].id /\ log[Whither].id <= last'
        BY <1>1, <1>2, <1>3, <2>1
      <4> QED BY <2>1, <3>4, <3>5, <4>1 DEF Fresh
    <3>7. /\ shown' \in Seq(Events) /\ ShownInv'
          /\ \A e \in Range(shown) : e \in Range(shown')
          /\ \A k \in DOMAIN more : more[k] \in Range(shown')
      BY <1>1, <1>2, <2>5, <3>5, <3>6, ShownMore
    <3>8. log[Whither].event \in Range(shown')
      BY <3>5, <3>7
    <3> QED BY <3>7, <3>8
  <2>7. ASSUME ~Parses(TailLine)
        PROVE  shown' \in Seq(Events) /\ ShownInv' /\ \A e \in Range(shown) : e \in Range(shown')
    <3>1. shown' = shown
      BY <2>1, <2>7
    <3> QED BY <1>1, <1>2, <2>5, <3>1, ShownStays
  <2>8. ASSUME NEW m \in DOMAIN log, Counts(m), m <= Whither
        PROVE  log[m].event \in before \cup Range(shown')
    <3>1. CASE m <= Read
      <4>1. log[m].id <= last
        BY <1>2, <1>4, <3>1, <1>3
      <4>2. log[m].event \in before \cup Range(shown)
        BY <1>1, <1>2, <2>8, <4>1 DEF PassedInv
      <4> QED BY <2>6, <2>7, <4>2
    <3>2. CASE ~(m <= Read)
      <4>1. m = Whither
        <5>1. m \in Read + 1 .. Whither
          BY <1>2, <1>3, <2>8, <3>2
        <5> QED BY <1>3, <2>8, <5>1 DEF Counts
      <4>2. Whither > 1 /\ log[Whither - 1].event = log[Whither].event /\ (Whither > 2 => log[Whither - 2].end)
        BY <1>1, <2>8, <4>1 DEF Counts, Whole
      <4>3. ~(Read < Whither - 2)
        <5>1. SUFFICES ASSUME Read < Whither - 2 PROVE FALSE
          OBVIOUS
        <5>2. Whither > 2 /\ Whither - 2 \in Read + 1 .. Whither /\ Whither - 2 # Whither
          BY <1>3, <5>1
        <5> QED BY <1>3, <4>2, <5>2
      <4>4. CASE Read = Whither - 1
        <5>1. Read \in DOMAIN log /\ Read # Whither /\ Read > 0 /\ log[Read].event = log[Whither].event
          BY <1>2, <1>3, <4>2, <4>4
        <5>2. ~log[Read].end
          BY <2>1, <5>1 DEF OnceInv
        <5> QED BY <1>2, <4>1, <5>1, <5>2 DEF HalfRead
      <4>5. CASE Read = Whither - 2
        <5>1. Read + 1 = Whither - 1 /\ Read + 2 = Whither /\ Whither - Read = 2
          BY <1>3, <4>5
        <5>2. 1 \in 1 .. Whither - Read /\ 2 \in 1 .. Whither - Read
          BY <5>1
        <5>3. TailLine[1] = log[Whither - 1] /\ TailLine[2] = log[Whither] /\ Len(TailLine) = 2
          BY <1>3, <5>1, <5>2
        <5>4. Parses(TailLine)
          BY <4>2, <5>3 DEF Parses
        <5> QED BY <2>6, <4>1, <5>4
      <4>6. Read = Whither - 1 \/ Read = Whither - 2
        BY <1>3, <4>3
      <4> QED BY <4>4, <4>5, <4>6
    <3> QED BY <3>1, <3>2
  <2>9. PassedInv'
    BY <1>1, <1>2, <2>8 DEF PassedInv, Counts, Whole
  <2>10. TailTypes'
    BY <1>1, <1>2, <2>1, <2>5, <2>6, <2>7 DEF TailTypes
  <2> QED BY <1>1, <2>3, <2>4, <2>6, <2>7, <2>9, <2>10 DEF TailInv
<1> QED BY <1>5, <1>6

(* The tail gets its rows.                                                 *)
LEMMA FetchStep ==
  ASSUME WriterInv, OnceInv, RowsInv, TailInv, Fetch
  PROVE  TailInv'
<1> DEFINE new == {e \in Range(log) : e.id > last}
<1>1. /\ backend # "jsonl" /\ rpc = "poll" /\ new # {}
      /\ UNCHANGED <<backend, log, nextId, rpc, buf, before>>
      /\ last' = Last(ById(new)).id
      /\ shown' = shown \o [n \in DOMAIN ById(new) |-> ById(new)[n].event]
  BY DEF Fetch, Cursor, writerVars
<1>2. /\ log \in Seq(Entries) /\ nextId \in Nat /\ last < nextId /\ buf = <<>> /\ Len(buf) = 0
      /\ TailTypes /\ BehindInv /\ ShownInv /\ PassedInv /\ last \in Nat /\ before \subseteq Events
      /\ shown \in Seq(Events)
      /\ \A n \in DOMAIN log : log[n] \in Entries /\ log[n].id \in Nat /\ log[n].end /\ log[n].id < nextId
      /\ \A m, n \in DOMAIN log : log[m].id = log[n].id => m = n
  BY <1>1, IdTypes DEF WriterInv, WriterTypes, TailInv, TailTypes, RowsInv, Numbered
<1>3. /\ IsFiniteSet(Range(log)) /\ Range(log) \in SUBSET Entries
      /\ \A e : e \in Range(log) <=> \E n \in DOMAIN log : log[n] = e
  BY <1>2, FiniteLog
<1>4. /\ new \in SUBSET Entries /\ IsFiniteSet(new)
      /\ \A e : e \in new <=> e \in Range(log) /\ e.id > last
  BY <1>3, FS_Subset
<1> HIDE DEF new
<1>5. \A d, e \in new : d.id = e.id => d = e
  BY <1>2, <1>3, <1>4
<1>6. PICK rows : /\ rows = ById(new) /\ rows \in Seq(new)
                  /\ \A e \in new : \E k \in DOMAIN rows : rows[k] = e
                  /\ \A j, k \in DOMAIN rows : j < k => rows[j].id < rows[k].id
  BY <1>4, <1>5, RowsAre
<1>7. /\ Len(rows) \in Nat /\ DOMAIN rows = 1 .. Len(rows) /\ Len(rows) >= 1
      /\ \A k \in DOMAIN rows : rows[k] \in new
  BY <1>1, <1>6
<1>8. ASSUME NEW k \in DOMAIN rows
      PROVE  \E n \in DOMAIN log : rows[k] = log[n] /\ last < log[n].id /\ log[n].id <= last'
  <2>1. PICK n \in DOMAIN log : rows[k] = log[n] /\ log[n].id > last
    BY <1>3, <1>4, <1>7
  <2>2. Len(rows) \in DOMAIN rows /\ last' = rows[Len(rows)].id
    BY <1>1, <1>6, <1>7 DEF Last
  <2>3. PICK z \in DOMAIN log : rows[Len(rows)] = log[z]
    BY <1>3, <1>4, <1>7, <2>2
  <2>4. log[n].id \in Nat /\ log[z].id \in Nat /\ last' = log[z].id
    BY <1>2, <2>2, <2>3
  <2>5. CASE k = Len(rows)
    <3>1. last < log[z].id /\ log[z].id <= last' /\ rows[k] = log[z]
      BY <1>3, <1>4, <1>7, <2>2, <2>3, <2>4, <2>5
    <3> QED BY <3>1
  <2>6. CASE k # Len(rows)
    <3>1. k < Len(rows)
      BY <1>7, <2>6
    <3>2. log[n].id < log[z].id
      BY <1>6, <2>1, <2>2, <2>3, <3>1
    <3> QED BY <1>2, <2>1, <2>4, <3>2
  <2> QED BY <2>5, <2>6
<1>9. last' \in Nat /\ last' < nextId /\ last <= last'
  <2>1. Len(rows) \in DOMAIN rows /\ last' = rows[Len(rows)].id
    BY <1>1, <1>6, <1>7 DEF Last
  <2>2. PICK z \in DOMAIN log : rows[Len(rows)] = log[z] /\ last < log[z].id
    BY <1>8, <2>1
  <2> QED BY <1>2, <2>1, <2>2
<1>10. PICK more : /\ more = [k \in DOMAIN rows |-> rows[k].event]
                   /\ more \in Seq(Events) /\ DOMAIN more = DOMAIN rows
                   /\ \A k \in DOMAIN rows : more[k] = rows[k].event
  <2> DEFINE more == [k \in DOMAIN rows |-> rows[k].event]
  <2>1. \A k \in DOMAIN rows : rows[k].event \in Events
    BY <1>4, <1>7, EntryParts
  <2>2. more \in [1 .. Len(rows) -> Events]
    BY <1>7, <2>1
  <2>3. more \in Seq(Events)
    BY <1>7, <2>2
  <2> QED BY <2>3
<1>11. shown' = shown \o more
  BY <1>1, <1>6, <1>10
<1>12. Fresh(more)
  <2>1. \A k \in DOMAIN more : \E n \in DOMAIN log :
            log[n].end /\ log[n].event = more[k] /\ last < log[n].id /\ log[n].id <= last'
    BY <1>2, <1>8, <1>10
  <2>2. ASSUME NEW k \in DOMAIN more PROVE more[k] \notin before
    <3>1. SUFFICES ASSUME more[k] \in before PROVE FALSE
      OBVIOUS
    <3>2. PICK m \in DOMAIN log : log[m].event = more[k] /\ log[m].id <= Read
      BY <1>2, <3>1 DEF BehindInv
    <3>3. Read = last
      BY <1>2 DEF Read
    <3>4. PICK n \in DOMAIN log : log[n].event = more[k] /\ last < log[n].id
      BY <2>1
    <3>5. m = n
      <4>1. log[m].end = log[n].end /\ log[m].event = log[n].event
        BY <1>2, <3>2, <3>4, EntryParts
      <4> QED BY <4>1 DEF OnceInv
    <3> QED BY <1>2, <3>2, <3>3, <3>4, <3>5
  <2>3. ASSUME NEW j \in DOMAIN more, NEW k \in DOMAIN more, j < k
        PROVE  \E m, n \in DOMAIN log :
                   /\ log[m].end /\ log[m].event = more[j]
                   /\ log[n].end /\ log[n].event = more[k]
                   /\ log[m].id < log[n].id
    <3>1. PICK m \in DOMAIN log : rows[j] = log[m]
      BY <1>8, <1>10
    <3>2. PICK n \in DOMAIN log : rows[k] = log[n]
      BY <1>8, <1>10
    <3>3. log[m].id < log[n].id
      BY <1>6, <1>10, <2>3, <3>1, <3>2
    <3> QED BY <1>2, <1>10, <3>1, <3>2, <3>3
  <2> QED BY <2>1, <2>2, <2>3 DEF Fresh
<1>13. /\ shown' \in Seq(Events) /\ ShownInv'
       /\ \A e \in Range(shown) : e \in Range(shown')
       /\ \A k \in DOMAIN more : more[k] \in Range(shown')
  BY <1>1, <1>2, <1>9, <1>10, <1>11, <1>12, ShownMore
<1>14. PassedInv'
  <2>1. ASSUME backend # "postgres", NEW m \in DOMAIN log, Counts(m), log[m].id <= last'
        PROVE  log[m].event \in before \cup Range(shown')
    <3>1. CASE log[m].id <= last
      BY <1>2, <1>13, <2>1, <3>1 DEF PassedInv
    <3>2. CASE ~(log[m].id <= last)
      <4>1. log[m] \in new
        BY <1>2, <1>3, <1>4, <3>2
      <4>2. PICK k \in DOMAIN rows : rows[k] = log[m]
        BY <1>6, <4>1
      <4> QED BY <1>10, <1>13, <4>2
    <3> QED BY <3>1, <3>2
  <2> QED BY <1>1, <2>1 DEF PassedInv, Counts, Whole
<1>15. BehindInv'
  <2>1. Read = last /\ Read' = last'
    <3>1. Read = last - 0 /\ Read' = last' - 0
      BY <1>1, <1>2 DEF Read
    <3>2. \A n \in Int : n - 0 = n
      OBVIOUS
    <3>3. last \in Int /\ last' \in Int
      BY <1>2, <1>9
    <3> QED BY <3>1, <3>2, <3>3, Zenon
  <2>2. \A n \in DOMAIN log : log[n].id <= Read => log[n].id <= Read'
    BY <1>2, <1>9, <2>1
  <2> QED BY <1>1, <1>2, <2>2 DEF BehindInv
<1>16. TailTypes'
  BY <1>1, <1>2, <1>9, <1>13 DEF TailTypes
<1> QED BY <1>1, <1>2, <1>9, <1>13, <1>14, <1>15, <1>16 DEF TailInv

(* Neither the report nor a writer's housekeeping changes anything for it.  *)
LEMMA TailStep ==
  WriterInv /\ WriterInv' /\ OnceInv /\ RowsInv /\ TailInv /\ [Next]_vars => RowsInv' /\ TailInv'
<1> SUFFICES ASSUME WriterInv, WriterInv', OnceInv, RowsInv, TailInv, [Next]_vars
             PROVE  RowsInv' /\ TailInv'
  OBVIOUS
<1>1. CASE \E w \in Writers :
              \/ CreateFile(w) \/ OpenSink(w) \/ BeginLine(w) \/ EndLine(w) \/ CutLine(w)
              \/ InsertRow(w) \/ DrawId(w) \/ CommitRow(w) \/ EmitRaises(w) \/ Die(w)
  <2>1. RowsInv' /\ Grows
    BY <1>1, RowsStep
  <2> QED BY <2>1, TailUndisturbed
<1>2. CASE Tailing
  <2>1. RowsInv'
    BY <1>2, ReadersOnlyRead, RowsUndisturbed
  <2>2. CASE ReadRaises
    <3>1. /\ UNCHANGED <<log, nextId, backend, last, buf, shown, before>>
          /\ rpc' = "dead"
      BY <2>2 DEF ReadRaises, writerVars
    <3>2. UNCHANGED <<HalfRead, BehindInv, ShownInv, PassedInv>>
      BY <3>1 DEF HalfRead, Read, BehindInv, ShownInv, PassedInv, Counts, Whole
    <3>3. TailTypes'
      BY <3>1 DEF TailInv, TailTypes
    <3> QED BY <2>1, <3>1, <3>2, <3>3 DEF TailInv
  <2> QED BY <1>2, <2>1, <2>2, TailBegins, ReadLineStep, FetchStep DEF Tailing
<1>3. CASE BeginReport \/ CountLine \/ ReportRaises \/ EndOfLines \/ CountRows \/ UNCHANGED vars
  <2>1. UNCHANGED <<backend, writerVars, readerVars>>
    BY <1>3, ReadersOnlyRead DEF vars, BeginReport, CountLine, ReportRaises, EndOfLines, CountRows
  <2>2. RowsInv'
    BY <2>1, RowsUndisturbed
  <2>3. UNCHANGED <<log, nextId, backend, rpc, last, buf, shown, before>>
    BY <2>1 DEF writerVars, readerVars
  <2>4. TailInv'
    BY <2>3 DEF TailInv, TailTypes, HalfRead, Read, BehindInv, ShownInv, PassedInv, Counts, Whole
  <2> QED BY <2>2, <2>4
<1> QED BY <1>1, <1>2, <1>3 DEF Next

LEMMA TailInvImplies == WriterInv /\ OnceInv /\ TailInv => PrintedOnce /\ NoneSkipped
<1> SUFFICES ASSUME WriterInv, OnceInv, TailInv PROVE PrintedOnce /\ NoneSkipped
  OBVIOUS
<1>1. /\ log \in Seq(Entries) /\ shown \in Seq(Events) /\ ShownInv /\ PassedInv
      /\ \A n \in DOMAIN log : log[n] \in Entries /\ log[n].id \in Nat
      /\ \A e : e \in Range(log) <=> \E n \in DOMAIN log : log[n] = e
  BY IdTypes DEF WriterInv, WriterTypes, TailInv, TailTypes, Range
<1>2. \A i, j \in DOMAIN shown : i < j => shown[i] # shown[j]
  <2> SUFFICES ASSUME NEW i \in DOMAIN shown, NEW j \in DOMAIN shown, i < j, shown[i] = shown[j]
               PROVE  FALSE
    OBVIOUS
  <2>1. PICK m \in DOMAIN log, n \in DOMAIN log :
            /\ log[m].end /\ log[m].event = shown[i]
            /\ log[n].end /\ log[n].event = shown[j]
            /\ log[m].id < log[n].id
    BY <1>1 DEF ShownInv
  <2>2. m = n
    BY <2>1 DEF OnceInv
  <2> QED BY <1>1, <2>1, <2>2
<1>3. \A i, j \in DOMAIN shown : shown[i] = shown[j] => i = j
  BY <1>1, <1>2
<1>4. \A i \in DOMAIN shown : shown[i] \notin before /\ ~Torn(shown[i])
  BY <1>1 DEF ShownInv, Torn
<1>5. \A i, j \in DOMAIN shown : i < j =>
          \E d, e \in Range(log) : d.event = shown[i] /\ e.event = shown[j] /\ d.id < e.id
  <2> SUFFICES ASSUME NEW i \in DOMAIN shown, NEW j \in DOMAIN shown, i < j
               PROVE  \E d, e \in Range(log) :
                          d.event = shown[i] /\ e.event = shown[j] /\ d.id < e.id
    OBVIOUS
  <2>1. PICK m \in DOMAIN log, n \in DOMAIN log :
            log[m].event = shown[i] /\ log[n].event = shown[j] /\ log[m].id < log[n].id
    BY <1>1 DEF ShownInv
  <2> QED BY <1>1, <2>1
<1>6. PrintedOnce
  BY <1>3, <1>4, <1>5 DEF PrintedOnce
<1>7. ASSUME backend # "postgres", NEW e \in Range(log), e.end, e.id <= last,
             e.event \in Intact, e.event \notin before
      PROVE  e.event \in Range(shown)
  <2>1. PICK m \in DOMAIN log : log[m] = e
    BY <1>1, <1>7
  <2>2. PICK n \in DOMAIN log : Counts(n) /\ log[n].event = e.event
    BY <1>7 DEF Intact, Counts, Whole
  <2>3. m = n
    BY <1>7, <2>1, <2>2 DEF OnceInv, Counts
  <2> QED BY <1>1, <1>7, <2>1, <2>2, <2>3 DEF PassedInv
<1>8. NoneSkipped
  BY <1>7 DEF NoneSkipped
<1> QED BY <1>6, <1>8

-----------------------------------------------------------------------------
(* Lines that end within a character.                                      *)

(* An end completes the half before it: no line has another one within.     *)
EndsInv ==
    \A m \in DOMAIN log : log[m].end =>
        m > 1 /\ ~log[m - 1].end /\ log[m - 1].event = log[m].event

SplitInv ==
    /\ split \subseteq Events /\ (backend # "jsonl" => split = {})
    /\ backend = "jsonl" => EndsInv

LEMMA EndsAppended ==
  ASSUME log \in Seq(Entries), EndsInv, NEW x \in Entries, log' = Append(log, x),
         x.end => log # <<>> /\ ~log[Len(log)].end /\ log[Len(log)].event = x.event
  PROVE  EndsInv'
<1>1. /\ Len(log) \in Nat /\ DOMAIN log = 1 .. Len(log) /\ DOMAIN log' = 1 .. Len(log) + 1
      /\ log'[Len(log) + 1] = x /\ \A n \in 1 .. Len(log) : log'[n] = log[n]
      /\ log # <<>> => Len(log) >= 1
  BY Appended
<1> SUFFICES ASSUME NEW m \in DOMAIN log', log'[m].end
             PROVE  m > 1 /\ ~log'[m - 1].end /\ log'[m - 1].event = log'[m].event
  BY DEF EndsInv
<1>2. CASE m = Len(log) + 1
  <2>1. m - 1 \in 1 .. Len(log) /\ m - 1 = Len(log) /\ m > 1 /\ x.end
    BY <1>1, <1>2
  <2> QED BY <1>1, <1>2, <2>1
<1>3. CASE m # Len(log) + 1
  <2>1. m \in DOMAIN log /\ log[m].end
    BY <1>1, <1>3
  <2>2. m > 1 /\ ~log[m - 1].end /\ log[m - 1].event = log[m].event
    BY <2>1 DEF EndsInv
  <2>3. m - 1 \in 1 .. Len(log)
    BY <1>1, <2>1, <2>2
  <2> QED BY <1>1, <2>1, <2>2, <2>3
<1> QED BY <1>2, <1>3

LEMMA SplitStep == WriterInv /\ SplitInv /\ [Next]_vars => SplitInv'
<1> SUFFICES ASSUME WriterInv, SplitInv, [Next]_vars PROVE SplitInv'
  OBVIOUS
<1>0. log \in Seq(Entries) /\ Len(log) + 1 \in Nat
  BY DEF WriterInv, WriterTypes
<1>1. ASSUME UNCHANGED <<backend, split>>, backend = "jsonl" => log' = log PROVE SplitInv'
  BY <1>1 DEF SplitInv, EndsInv
<1>2. ASSUME NEW w \in Writers, BeginLine(w) PROVE SplitInv'
  <2>1. Event(w) \in Events /\ backend = "jsonl" /\ backend' = backend
    BY <1>2, EventTypes DEF BeginLine, Starting, WriterInv
  <2>2. log' = Append(log, Entry(w, FALSE, Len(log) + 1))
        /\ split' \in {split, split \cup {Event(w)}}
    BY <1>2 DEF BeginLine
  <2>3. PICK x \in Entries : log' = Append(log, x) /\ ~x.end
    BY <1>0, <2>1, <2>2, EntryTypes
  <2>4. EndsInv'
    BY <1>0, <2>1, <2>3, EndsAppended DEF SplitInv
  <2> QED BY <2>1, <2>2, <2>4 DEF SplitInv
<1>3. ASSUME NEW w \in Writers, EndLine(w) PROVE SplitInv'
  <2>1. /\ backend = "jsonl" /\ UNCHANGED <<backend, split>> /\ sent[w] < MaxEvents
        /\ log # <<>> /\ log[Len(log)].event = Event(w) /\ ~log[Len(log)].end
    BY <1>3 DEF EndLine, WriterInv, AheadInv
  <2>2. Event(w) \in Events
    BY <2>1, EventTypes DEF WriterInv
  <2>3. PICK x \in Entries : log' = Append(log, x) /\ x.event = Event(w)
    <3>1. log' = Append(log, Entry(w, TRUE, Len(log) + 1))
      BY <1>3 DEF EndLine
    <3> QED BY <1>0, <2>2, <3>1, EntryTypes
  <2>4. EndsInv'
    BY <1>0, <2>1, <2>3, EndsAppended DEF SplitInv
  <2> QED BY <2>1, <2>4 DEF SplitInv
<1>4. ASSUME NEW w \in Writers, CreateFile(w) \/ OpenSink(w) \/ CutLine(w) \/ DrawId(w) \/ Die(w)
      PROVE  SplitInv'
  BY <1>1, <1>4 DEF CreateFile, OpenSink, CutLine, DrawId, Die
<1>5. ASSUME NEW w \in Writers, InsertRow(w) \/ CommitRow(w) \/ EmitRaises(w) PROVE SplitInv'
  BY <1>1, <1>5 DEF InsertRow, CommitRow, EmitRaises, Starting
<1>6. CASE Tailing \/ BeginReport \/ CountLine \/ ReportRaises \/ EndOfLines \/ CountRows \/ UNCHANGED vars
  BY <1>1, <1>6, ReadersOnlyRead DEF vars, writerVars
<1> QED BY <1>2, <1>3, <1>4, <1>5, <1>6 DEF Next

(* A report dies only of a line that was cut short within a character, or    *)
(* that a writer is in the middle of.                                       *)
LEMMA GarbledIsTorn ==
  ASSUME WriterInv, OnceInv, SplitInv, NEW n \in DOMAIN log, Garbled(0, n)
  PROVE  backend = "jsonl" /\ \E d \in split : Torn(d)
<1>1. /\ log[n].event \in split /\ backend = "jsonl" /\ EndsInv
      /\ Len(log) \in Nat /\ DOMAIN log = 1 .. Len(log)
  BY DEF Garbled, SplitInv, WriterInv, WriterTypes
<1>2. ~log[n].end
  BY <1>1 DEF Garbled, EndsInv
<1>3. n < Len(log) => log[n + 1].event # log[n].event
  BY <1>2 DEF Garbled
<1>4. ASSUME NEW m \in DOMAIN log, log[m].event = log[n].event, log[m].end PROVE FALSE
  <2>1. m > 1 /\ ~log[m - 1].end /\ log[m - 1].event = log[n].event
    BY <1>1, <1>4 DEF EndsInv
  <2>2. m - 1 \in DOMAIN log
    BY <1>1, <2>1
  <2>3. log[m - 1].end = log[n].end
    <3>1. log[m - 1] \in Entries /\ log[n] \in Entries
      BY <2>2 DEF WriterInv, WriterTypes
    <3> QED BY <1>2, <2>1, <3>1, EntryParts
  <2>4. m - 1 = n
    BY <2>1, <2>2, <2>3 DEF OnceInv
  <2>5. n < Len(log) /\ m = n + 1
    BY <1>1, <2>4
  <2> QED BY <1>3, <1>4, <2>5
<1> QED BY <1>1, <1>4 DEF Torn

-----------------------------------------------------------------------------
(* The report of rows.                                                     *)

ReporterTypes == ppc \in {"start", "read", "printed", "dead"} /\ filter \subseteq Writers

RowsReportInv ==
    /\ pos \in 0 .. Len(log) /\ counted \in Seq(Events) /\ due \subseteq returned
    /\ ppc \in {"start", "read"} => counted = <<>>
    /\ \A j, k \in DOMAIN counted : counted[j] = counted[k] => j = k
    /\ \A k \in DOMAIN counted :
           Chosen(counted[k]) /\ \E m \in DOMAIN log : log[m].end /\ log[m].event = counted[k]
    /\ ppc = "printed" => \A e \in due : Chosen(e) => e \in Range(counted)

LEMMA RowsReportInit == Init => RowsReportInv /\ ReporterTypes
<1> SUFFICES ASSUME Init PROVE RowsReportInv /\ ReporterTypes
  OBVIOUS
<1>1. /\ log = <<>> /\ pos = 0 /\ counted = <<>> /\ due = {} /\ ppc = "start" /\ filter = {}
      /\ DOMAIN counted = {} /\ Len(log) = 0 /\ counted \in Seq(Events)
  BY DEF Init
<1> QED BY <1>1 DEF RowsReportInv, ReporterTypes

(* One SELECT finds every event that returned, each in its own row.         *)
LEMMA CountRowsStep ==
  ASSUME WriterInv, OnceInv, RowsInv, EmittedIntact, RowsReportInv, CountRows
  PROVE  RowsReportInv'
<1> DEFINE S == Range(log)
<1>1. /\ backend # "jsonl" /\ UNCHANGED <<log, returned, filter, due>> /\ pos' = Len(log)
      /\ ppc' \in {"printed", "dead"}
  BY DEF CountRows, writerVars
<1>2. /\ log \in Seq(Entries) /\ Len(log) \in Nat
      /\ \A n \in DOMAIN log : log[n] \in Entries /\ log[n].end
      /\ \A m, n \in DOMAIN log : log[m].id = log[n].id => m = n
      /\ due \subseteq returned
  BY <1>1 DEF WriterInv, WriterTypes, RowsInv, Numbered, RowsReportInv
<1>3. /\ IsFiniteSet(S) /\ S \in SUBSET Entries
      /\ \A e : e \in S <=> \E n \in DOMAIN log : log[n] = e
  BY <1>2, FiniteLog
<1>4. \A d, e \in S : d.id = e.id \/ (d.event = e.event) => d = e
  <2>1. ASSUME NEW m \in DOMAIN log, NEW n \in DOMAIN log, log[m].event = log[n].event PROVE m = n
    <3>1. log[m].end = log[n].end
      BY <1>2, EntryParts
    <3> QED BY <2>1, <3>1 DEF OnceInv
  <2> HIDE DEF S
  <2> QED BY <1>2, <1>3, <2>1
<1> HIDE DEF S
<1>5. PICK rows : /\ rows = ById(S) /\ rows \in Seq(S)
                  /\ \A e \in S : \E k \in DOMAIN rows : rows[k] = e
                  /\ \A j, k \in DOMAIN rows : j < k => rows[j].id < rows[k].id
  BY <1>3, <1>4, RowsAre
<1>6. /\ Len(rows) \in Nat /\ DOMAIN rows = 1 .. Len(rows)
      /\ \A k \in DOMAIN rows : rows[k] \in S /\ rows[k].id \in Nat /\ rows[k].event \in Events
  BY <1>3, <1>5 DEF Entries
<1>7. PICK events : /\ events = [k \in DOMAIN rows |-> rows[k].event]
                    /\ events \in Seq(Events) /\ DOMAIN events = DOMAIN rows
                    /\ \A k \in DOMAIN rows : events[k] = rows[k].event
  <2> DEFINE events == [k \in DOMAIN rows |-> rows[k].event]
  <2>1. events \in [1 .. Len(rows) -> Events]
    BY <1>6
  <2>2. events \in Seq(Events)
    BY <1>6, <2>1
  <2> QED BY <2>2
<1>8. PICK K : K = {n \in DOMAIN events : Chosen(events[n])}
  OBVIOUS
<1>9. counted' = Kept(events, K)
  BY <1>5, <1>7, <1>8 DEF CountRows, S
<1>10. \A m, n \in DOMAIN events : events[m] = events[n] => m = n
  <2> SUFFICES ASSUME NEW m \in DOMAIN rows, NEW n \in DOMAIN rows, rows[m].event = rows[n].event
               PROVE  m = n
    BY <1>7
  <2>1. rows[m] = rows[n]
    BY <1>4, <1>6
  <2>2. ~(m < n) /\ ~(n < m)
    BY <1>5, <1>6, <2>1
  <2> QED BY <1>6, <2>2
<1>11. /\ counted' \in Seq(Events)
       /\ \A j \in DOMAIN counted' : \E n \in K : counted'[j] = events[n]
       /\ \A n \in K : \E j \in DOMAIN counted' : counted'[j] = events[n]
       /\ \A i, j \in DOMAIN counted' : counted'[i] = counted'[j] => i = j
  <2>1. K \in SUBSET DOMAIN events /\ \A m, n \in K : events[m] = events[n] => m = n
    BY <1>8, <1>10
  <2>2. PICK kept : /\ kept = Kept(events, K) /\ kept \in Seq(Events)
                    /\ \A j \in DOMAIN kept : \E n \in K : kept[j] = events[n]
                    /\ \A n \in K : \E j \in DOMAIN kept : kept[j] = events[n]
                    /\ \A i, j \in DOMAIN kept : kept[i] = kept[j] => i = j
    <3>1. events \in Seq(Events)
      BY <1>7
    <3>2. K \in SUBSET DOMAIN events
      BY <2>1
    <3>3. /\ Kept(events, K) \in Seq(Events)
          /\ \A j \in DOMAIN Kept(events, K) : \E n \in K : Kept(events, K)[j] = events[n]
          /\ \A n \in K : \E j \in DOMAIN Kept(events, K) : Kept(events, K)[j] = events[n]
          /\ (\A m, n \in K : events[m] = events[n] => m = n) =>
                \A i, j \in DOMAIN Kept(events, K) :
                    Kept(events, K)[i] = Kept(events, K)[j] => i = j
      BY ONLY <3>1, <3>2, KeptHas
    <3>4. \A i, j \in DOMAIN Kept(events, K) : Kept(events, K)[i] = Kept(events, K)[j] => i = j
      BY ONLY <2>1, <3>3
    <3> QED BY ONLY <3>3, <3>4
  <2> QED BY ONLY <1>9, <2>2
<1>12. ASSUME NEW k \in DOMAIN counted'
       PROVE  counted'[k][1] \in filter /\ \E m \in DOMAIN log : log[m].end /\ log[m].event = counted'[k]
  <2>1. PICK n \in DOMAIN events : counted'[k] = events[n] /\ Chosen(events[n])
    BY <1>8, <1>11
  <2>2. PICK m \in DOMAIN log : log[m] = rows[n]
    BY <1>3, <1>6, <1>7, <2>1
  <2> QED BY <1>2, <1>7, <2>1, <2>2 DEF Chosen
<1>13. ASSUME NEW e \in due, e[1] \in filter PROVE e \in Range(counted')
  <2>1. e \in Intact
    BY <1>1, <1>2 DEF EmittedIntact, Accounted
  <2>2. PICK m \in DOMAIN log : log[m].event = e
    BY <2>1 DEF Intact
  <2>3. PICK n \in DOMAIN rows : rows[n] = log[m]
    BY <1>3, <1>5
  <2>4. n \in K /\ events[n] = e
    BY <1>7, <1>8, <1>13, <2>2, <2>3 DEF Chosen
  <2>5. PICK j \in DOMAIN counted' : counted'[j] = e
    BY <1>11, <2>4
  <2> QED BY <2>5 DEF Range
<1>14. /\ pos' \in 0 .. Len(log') /\ due' \subseteq returned' /\ ppc' \notin {"start", "read"}
  BY <1>1, <1>2
<1> QED BY <1>1, <1>11, <1>12, <1>13, <1>14 DEF RowsReportInv, Chosen

LEMMA RowsReportStep ==
  ASSUME WriterInv, OnceInv, RowsInv, EmittedIntact, RowsReportInv, backend # "jsonl", [Next]_vars
  PROVE  RowsReportInv'
<1>1. ASSUME UNCHANGED <<ppc, filter, pos, counted, due>>, returned \subseteq returned',
             log' = log \/ \E x \in Entries : log' = Append(log, x)
      PROVE  RowsReportInv'
  <2>1. /\ \A n \in DOMAIN log : n \in DOMAIN log' /\ log'[n] = log[n]
        /\ \A p \in 0 .. Len(log) : p \in 0 .. Len(log')
    <3>1. log \in Seq(Entries)
      BY DEF WriterInv, WriterTypes
    <3>2. ASSUME NEW x \in Entries, log' = Append(log, x)
          PROVE  /\ \A n \in DOMAIN log : n \in DOMAIN log' /\ log'[n] = log[n]
                 /\ \A p \in 0 .. Len(log) : p \in 0 .. Len(log')
      <4>1. /\ Len(log) \in Nat /\ Len(log') = Len(log) + 1
            /\ DOMAIN log = 1 .. Len(log) /\ DOMAIN log' = 1 .. Len(log) + 1
            /\ \A n \in 1 .. Len(log) : log'[n] = log[n]
        BY <3>1, <3>2, Appended
      <4> QED BY <4>1
    <3> QED BY <1>1, <3>2
  <2>2. \A k \in DOMAIN counted : \E m \in DOMAIN log' : log'[m].end /\ log'[m].event = counted[k]
    BY <2>1 DEF RowsReportInv
  <2> QED BY <1>1, <2>1, <2>2 DEF RowsReportInv, Chosen
<1>2. CASE \E w \in Writers :
              \/ CreateFile(w) \/ OpenSink(w) \/ BeginLine(w) \/ EndLine(w) \/ CutLine(w)
              \/ InsertRow(w) \/ DrawId(w) \/ CommitRow(w) \/ EmitRaises(w) \/ Die(w)
  <2>1. Grows
    BY <1>2, RowsStep
  <2> QED BY <1>1, <2>1 DEF Grows, reportVars
<1>3. CASE Tailing \/ UNCHANGED vars
  <2>1. UNCHANGED <<writerVars, reportVars>>
    BY <1>3, ReadersOnlyRead
    DEF vars, Tailing, Look, Appears, Seek, ReadLine, ReadRaises, Fetch
  <2> QED BY <1>1, <2>1 DEF writerVars, reportVars
<1>4. CASE BeginReport
  <2>1. /\ UNCHANGED <<store, log, returned, pos, counted>> /\ due' = returned
        /\ counted = <<>> /\ ppc' = IF store = "none" THEN "printed" ELSE "read"
        /\ DOMAIN counted = {} /\ store = "none" => returned = {}
    BY <1>4 DEF BeginReport, writerVars, RowsReportInv, RowsInv, Stored
  <2> QED BY <2>1 DEF RowsReportInv
<1>5. CASE CountLine \/ ReportRaises \/ EndOfLines
  BY <1>5 DEF CountLine, ReportRaises, EndOfLines
<1>6. CASE CountRows
  BY <1>6, CountRowsStep
<1> QED BY <1>2, <1>3, <1>4, <1>5, <1>6 DEF Next

LEMMA ReporterStep == ReporterTypes /\ [Next]_vars => ReporterTypes'
<1> SUFFICES ASSUME ReporterTypes, [Next]_vars PROVE ReporterTypes'
  OBVIOUS
<1>1. ASSUME NEW w \in Writers,
             \/ CreateFile(w) \/ OpenSink(w) \/ BeginLine(w) \/ EndLine(w) \/ CutLine(w)
             \/ InsertRow(w) \/ DrawId(w) \/ CommitRow(w) \/ EmitRaises(w) \/ Die(w)
      PROVE  UNCHANGED reportVars
  BY <1>1 DEF CreateFile, OpenSink, BeginLine, EndLine, CutLine, InsertRow, DrawId,
     CommitRow, EmitRaises, Die
<1>2. CASE Tailing
  BY <1>2 DEF Tailing, Look, Appears, Seek, ReadLine, ReadRaises, Fetch, reportVars, ReporterTypes
<1>3. CASE BeginReport
  <2>1. filter' \subseteq Writers /\ ppc' \in {"read", "printed"}
    BY <1>3 DEF BeginReport
  <2> QED BY <2>1 DEF ReporterTypes
<1>4. CASE CountLine \/ ReportRaises \/ EndOfLines \/ CountRows
  BY <1>4 DEF CountLine, ReportRaises, EndOfLines, CountRows, GoesOn, ReporterTypes
<1>5. CASE UNCHANGED vars \/ UNCHANGED reportVars
  BY <1>5 DEF vars, reportVars, ReporterTypes
<1> QED BY <1>1, <1>2, <1>3, <1>4, <1>5 DEF Next

LEMMA RowsReportImplies == OnceInv /\ RowsReportInv /\ backend # "jsonl" => ReportComplete
<1> SUFFICES ASSUME OnceInv, RowsReportInv, backend # "jsonl", ppc = "printed"
             PROVE  /\ \A m, n \in DOMAIN counted : counted[m] = counted[n] => m = n
                    /\ \A e \in Range(counted) : Chosen(e) /\ ~Torn(e)
                    /\ \A e \in due : Chosen(e) => e \in Range(counted)
  BY DEF ReportComplete
<1>1. ASSUME NEW e \in Range(counted) PROVE Chosen(e) /\ ~Torn(e)
  <2>1. PICK k \in DOMAIN counted : counted[k] = e
    BY <1>1 DEF Range
  <2>2. Chosen(counted[k]) /\ \E m \in DOMAIN log : log[m].end /\ log[m].event = counted[k]
    BY DEF RowsReportInv
  <2> QED BY <2>1, <2>2 DEF Torn
<1> QED BY <1>1 DEF RowsReportInv

(* All of it.                                                              *)
LogInv ==
    /\ WriterInv /\ EmittedIntact /\ OnceInv /\ RowsInv /\ SplitInv /\ TailInv /\ ReporterTypes
    /\ backend = "jsonl" => ReportInv
    /\ backend # "jsonl" => RowsReportInv

LEMMA LogAlways == Spec => []LogInv
<1>1. Init => LogInv
  <2> SUFFICES ASSUME Init PROVE LogInv
    OBVIOUS
  <2>1. EmittedIntact /\ SplitInv
    BY DEF Init, EmittedIntact, SplitInv, EndsInv
  <2> QED BY <2>1, WriterInit, ReportInit, RowsInit, TailInit, RowsReportInit DEF LogInv
<1>2. LogInv /\ [Next]_vars => LogInv'
  <2> SUFFICES ASSUME LogInv, [Next]_vars PROVE LogInv'
    OBVIOUS
  <2>1. backend' = backend
    BY ReadersOnlyRead DEF Next, vars, CreateFile, OpenSink, BeginLine, EndLine, CutLine,
       InsertRow, DrawId, CommitRow, EmitRaises, Die
  <2>2. WriterInv' /\ EmittedIntact' /\ OnceInv' /\ SplitInv' /\ ReporterTypes'
    BY WriterStep, EmittedStep, OnceStep, SplitStep, ReporterStep DEF LogInv
  <2>3. RowsInv' /\ TailInv'
    BY <2>2, TailStep DEF LogInv
  <2>4. backend = "jsonl" => ReportInv'
    BY ReportStep DEF LogInv
  <2>5. backend # "jsonl" => RowsReportInv'
    BY RowsReportStep DEF LogInv
  <2> QED BY <2>1, <2>2, <2>3, <2>4, <2>5 DEF LogInv
<1> QED BY <1>1, <1>2, PTL DEF Spec

(* The variables keep their types: the tail is never left with a NULL for    *)
(* the end of an empty table, nor beyond the log.                           *)
THEOREM AuditLogTypeOK == Spec => []TypeOK
<1>1. LogInv => TypeOK
  <2> SUFFICES ASSUME LogInv PROVE TypeOK
    OBVIOUS
  <2>1. pos \in 0 .. Len(log) /\ counted \in Seq(Events) /\ due \subseteq returned
    BY DEF LogInv, ReportInv, RowsReportInv
  <2>2. WriterTypes /\ Stored /\ TailTypes /\ ReporterTypes
    BY DEF LogInv, WriterInv, RowsInv, TailInv
  <2>3. split \subseteq Events
    BY DEF LogInv, SplitInv
  <2> QED BY <2>1, <2>2, <2>3 DEF TypeOK, WriterTypes, Stored, TailTypes, ReporterTypes
<1> QED BY <1>1, LogAlways, PTL

(* An event whose emit returned is in every report from then on, for any     *)
(* number of writers and of events, whoever dies; a line that is cut short   *)
(* costs its own event and the one that is glued to it, and only if it ends  *)
(* within a character the others too.                                        *)
THEOREM AuditLogEmittedReported == Spec => []EmittedReported
<1>1. LogInv => EmittedReported
  <2> SUFFICES ASSUME LogInv, NEW e \in returned,
                      ~(backend = "jsonl" /\ \E d \in split : Torn(d)),
                      ~(backend = "jsonl" /\ (Torn(e) \/ Glued(e)))
               PROVE  e \in Reported
    BY DEF EmittedReported
  <2>1. e \in Intact
    BY DEF LogInv, EmittedIntact, Accounted
  <2>2. ~ \E n \in DOMAIN log : Garbled(0, n)
    BY GarbledIsTorn DEF LogInv
  <2> QED BY <2>1, <2>2 DEF Reported
<1> QED BY <1>1, LogAlways, PTL

(* What the tail prints was emitted after it began and is printed once, in   *)
(* the order of the log, for any number of writers and of events, whether it *)
(* meets lines whole, in halves, cut or glued, or rows committed out of the  *)
(* order of their ids.                                                      *)
THEOREM AuditLogPrintedOnce == Spec => []PrintedOnce
<1>1. LogInv => PrintedOnce
  BY TailInvImplies DEF LogInv
<1> QED BY <1>1, LogAlways, PTL

(* The tail of a file or of SQLite never moves past an event that came after *)
(* it began and whose line or row is intact, however the writers' steps fall *)
(* between its own.                                                         *)
THEOREM AuditLogNoneSkipped == Spec => []NoneSkipped
<1>1. LogInv => NoneSkipped
  BY TailInvImplies DEF LogInv
<1> QED BY <1>1, LogAlways, PTL

(* A report that is printed counts every event whose emit had returned when  *)
(* it began and that its filters leave, torn and glued JSONL lines apart, and *)
(* none of them twice, although writers append to the log while it is read   *)
(* and it may read the half of a line; SQLite and Postgres lose none.        *)
THEOREM AuditLogReportComplete == Spec => []ReportComplete
<1>1. LogInv => ReportComplete
  BY ReportInvImplies, RowsReportImplies DEF LogInv
<1> QED BY <1>1, LogAlways, PTL
-----------------------------------------------------------------------------
(* What the tail owes its user, as far as it is safety: each poll that finds *)
(* something gets it further, none takes it back, and once there is nothing  *)
(* left it has printed everything.  That it polls is fairness, and TLC's     *)
(* AllPrinted has both together.                                             *)

NothingNew == \A e \in Range(log) : e.id <= last

TailGoesOn ==
    [][/\ rpc = "poll" => last <= last' /\ (rpc' = "poll" \/ split # {})
       /\ ReadLine => last < last' /\ last' <= Len(log)
       /\ Fetch => last < last' /\ NothingNew']_vars

(* Nobody who writes or reports moves the tail. *)
LEMMA TailUnmoved ==
  ASSUME [Next]_vars, ~Tailing
  PROVE  rpc' = rpc /\ last' = last
<1>1. CASE \E w \in Writers :
              \/ CreateFile(w) \/ OpenSink(w) \/ BeginLine(w) \/ EndLine(w) \/ CutLine(w)
              \/ InsertRow(w) \/ DrawId(w) \/ CommitRow(w) \/ EmitRaises(w) \/ Die(w)
  BY <1>1 DEF CreateFile, OpenSink, BeginLine, EndLine, CutLine, InsertRow, DrawId, CommitRow,
     EmitRaises, Die, readerVars
<1>2. CASE BeginReport \/ CountLine \/ ReportRaises \/ EndOfLines \/ CountRows \/ UNCHANGED vars
  BY <1>2 DEF BeginReport, CountLine, ReportRaises, EndOfLines, CountRows, vars, readerVars
<1> QED BY <1>1, <1>2 DEF Next

LEMMA ReadLineMoves ==
  ASSUME WriterInv, TailInv, ReadLine
  PROVE  rpc' = rpc /\ last <= last' /\ last < last' /\ last' <= Len(log)
<1>1. last' = StopAfter(last) /\ last < Len(log) /\ rpc' = rpc
  BY DEF ReadLine, EndsAfter, StopAfter
<1>2. log \in Seq(Entries) /\ last \in Nat /\ Len(log) \in Nat
  BY DEF WriterInv, WriterTypes, TailInv, TailTypes
<1>3. StopAfter(last) \in last + 1 .. Len(log)
  BY <1>1, <1>2, PartStops
<1> QED BY <1>1, <1>2, <1>3

(* One query fetches all the rows there are, and the last has the highest id. *)
LEMMA FetchMoves ==
  ASSUME WriterInv, RowsInv, TailInv, Fetch
  PROVE  rpc' = rpc /\ last <= last' /\ last < last' /\ NothingNew'
<1> DEFINE new == {e \in Range(log) : e.id > last}
<1>1. new # {} /\ last' = Last(ById(new)).id /\ log' = log /\ rpc' = rpc
  BY DEF Fetch, Cursor, writerVars
<1>2. log \in Seq(Entries) /\ last \in Nat
      /\ \A m, n \in DOMAIN log : log[m].id = log[n].id => m = n
  BY DEF WriterInv, WriterTypes, TailInv, TailTypes, RowsInv, Numbered
<1>3. /\ IsFiniteSet(Range(log)) /\ Range(log) \in SUBSET Entries
      /\ \A e : e \in Range(log) <=> \E n \in DOMAIN log : log[n] = e
  BY <1>2, FiniteLog
<1>4. \A e \in Range(log) : e.id \in Nat
  BY <1>3 DEF Entries
<1>5. new \in SUBSET Entries /\ IsFiniteSet(new) /\ \A e : e \in new <=> e \in Range(log) /\ e.id > last
  BY <1>3, FS_Subset
<1> HIDE DEF new
<1>6. \A d, e \in new : d.id = e.id => d = e
  BY <1>2, <1>3, <1>5
<1>7. PICK rows : /\ rows = ById(new) /\ rows \in Seq(new)
                  /\ \A e \in new : \E k \in DOMAIN rows : rows[k] = e
                  /\ \A j, k \in DOMAIN rows : j < k => rows[j].id < rows[k].id
  BY <1>5, <1>6, RowsAre
<1>8. DOMAIN rows = 1 .. Len(rows) /\ Len(rows) \in DOMAIN rows
  BY <1>1, <1>7
<1>9. PICK z \in Range(log) : z = rows[Len(rows)] /\ z.id > last /\ last' = z.id
  BY <1>1, <1>5, <1>7, <1>8 DEF Last
<1>10. ASSUME NEW e \in Range(log) PROVE e.id <= z.id
  <2>1. CASE e.id <= last
    BY <1>2, <1>4, <1>9, <2>1
  <2>2. CASE ~(e.id <= last)
    <3>1. PICK k \in DOMAIN rows : rows[k] = e
      BY <1>2, <1>4, <1>5, <1>7, <2>2
    <3>2. CASE k = Len(rows)
      BY <1>4, <1>9, <3>1, <3>2
    <3>3. CASE k < Len(rows)
      BY <1>4, <1>7, <1>8, <1>9, <3>1, <3>3
    <3> QED BY <1>8, <3>2, <3>3
  <2> QED BY <2>1, <2>2
<1>11. Range(log') = Range(log)
  BY <1>1
<1> QED BY <1>1, <1>2, <1>4, <1>9, <1>10, <1>11 DEF NothingNew

(* A tail that polls never goes back, and goes on polling unless there are   *)
(* lines that end within a character; what it reads of a file takes it at    *)
(* least one entry further, and one query catches it up.                     *)
THEOREM AuditLogTailGoesOn == Spec => TailGoesOn
<1>1. LogInv /\ [Next]_vars
      => [/\ rpc = "poll" => last <= last' /\ (rpc' = "poll" \/ split # {})
          /\ ReadLine => last < last' /\ last' <= Len(log)
          /\ Fetch => last < last' /\ NothingNew']_vars
  <2> SUFFICES ASSUME LogInv, [Next]_vars
               PROVE  /\ rpc = "poll" => last <= last' /\ (rpc' = "poll" \/ split # {})
                      /\ ReadLine => last < last' /\ last' <= Len(log)
                      /\ Fetch => last < last' /\ NothingNew'
    OBVIOUS
  <2>0. WriterInv /\ RowsInv /\ TailInv /\ last \in Nat
    BY DEF LogInv, TailInv, TailTypes
  <2>1. ReadLine => rpc' = rpc /\ last <= last' /\ last < last' /\ last' <= Len(log)
    BY <2>0, ReadLineMoves
  <2>2. Fetch => rpc' = rpc /\ last <= last' /\ last < last' /\ NothingNew'
    BY <2>0, FetchMoves
  <2>3. ReadRaises => last' = last /\ split # {}
    BY DEF ReadRaises, Undecodable, Garbled
  <2>4. rpc = "poll" => last <= last' /\ (rpc' = "poll" \/ split # {})
    BY <2>0, <2>1, <2>2, <2>3, TailUnmoved DEF Tailing, Look, Appears, Seek
  <2> QED BY <2>1, <2>2, <2>4
<1> QED BY LogAlways, <1>1, PTL DEF Spec, TailGoesOn

(* A tail that has nothing left to read has printed every event whose line   *)
(* or row is intact and that was not in the log when it began; Postgres rows *)
(* may appear behind it.                                                     *)
CaughtUp ==
    backend # "postgres" /\ rpc = "poll" /\ NothingNew => Intact \subseteq before \cup Range(shown)

THEOREM AuditLogCaughtUp == Spec => []CaughtUp
<1>1. ASSUME NoneSkipped, WriterInv, backend # "postgres", rpc = "poll", NothingNew,
             NEW e \in Intact, e \notin before
      PROVE  e \in Range(shown)
  <2>1. PICK n \in DOMAIN log : log[n].end /\ log[n].event = e
    BY DEF Intact
  <2>2. log[n] \in Range(log)
    BY <1>1, FiniteLog DEF WriterInv, WriterTypes
  <2> QED BY <1>1, <2>1, <2>2 DEF NoneSkipped, NothingNew
<1>2. LogInv => CaughtUp
  BY <1>1, TailInvImplies DEF LogInv, CaughtUp
<1> QED BY <1>2, LogAlways, PTL
=============================================================================
