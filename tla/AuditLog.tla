------------------------------ MODULE AuditLog ------------------------------
(***************************************************************************)
(* The audit log, audit.py and cli/audit.py: processes append events to    *)
(* one JSONL file, SQLite file or Postgres table, `virelia audit tail`     *)
(* follows it, `virelia audit report` reads it from the start.             *)
(*                                                                         *)
(* The entries of the log are rows, or halves of lines: a line is appended *)
(* by one write, which keeps other writers out but lets a reader see its   *)
(* first half, and which may be cut short (a full disk, a killed process)  *)
(* with nobody the wiser.  A half line never parses, and if it ends within *)
(* a character of several bytes (names of keys and tools are written as    *)
(* they are) it does not even decode.  Readers change nothing, so a        *)
(* behaviour has one of them, a tail or a report.                          *)
(***************************************************************************)
EXTENDS Subsequences, FiniteSets, FiniteSetsExt, SequencesExt

CONSTANTS
    Writers,    \* processes with a sink
    MaxEvents   \* bound: the events each of them emits

ASSUME AuditLogAssumption == MaxEvents \in Nat

VARIABLES
    backend,   \* where the events go
    store,     \* "none", a "file" without a table in it, or a "table"
    log,       \* the entries, in the order in which they became visible
    split,     \* the events whose first half ends within a character
    nextId,    \* the next row id
    wpc,       \* where writer w is
    sent,      \* the events it has emitted
    id,        \* the id of the row it is inserting, or 0
    returned,  \* history: the events whose emit returned
    rpc,       \* where the tail is
    last,      \* up to which entry it has read
    buf,       \* the part of a line it keeps
    shown,     \* what it has printed
    before,    \* history: the events in the log, a half included, when it began
    ppc,       \* where the report is
    filter,    \* the writers whose events it is to count
    pos,       \* up to which entry it has read
    counted,   \* the events it has counted
    due        \* history: the events whose emit had returned when it began

writerVars == <<store, log, split, nextId, wpc, sent, id, returned>>
readerVars == <<rpc, last, buf, shown, before>>
reportVars == <<ppc, filter, pos, counted, due>>
vars       == <<backend, writerVars, readerVars, reportVars>>

Backends == {"jsonl", "sqlite", "postgres"}
Events   == Writers \X (1 .. MaxEvents)

(* An entry: a row, or with end the second half of a line. *)
Entries == [event : Events, end : BOOLEAN, id : Nat]

TypeOK ==
    /\ backend \in Backends
    /\ store \in {"none", "file", "table"}
    /\ log \in Seq(Entries)
    /\ split \subseteq Events
    /\ nextId \in Nat \ {0}
    /\ wpc \in [Writers -> {"start", "open", "emit", "dead"}]
    /\ sent \in [Writers -> 0 .. MaxEvents]
    /\ id \in [Writers -> Nat]
    /\ returned \subseteq Events
    /\ rpc \in {"start", "wait", "seek", "poll", "dead"}
    /\ last \in Nat
    /\ buf \in Seq(Entries)
    /\ shown \in Seq(Events)
    /\ before \subseteq Events
    /\ ppc \in {"start", "read", "printed", "dead"}
    /\ filter \subseteq Writers
    /\ pos \in 0 .. Len(log)
    /\ counted \in Seq(Events)
    /\ due \subseteq returned

Init ==
    /\ backend \in Backends
    /\ store = IF backend = "postgres" THEN "file" ELSE "none"
    /\ log = <<>>
    /\ split = {}
    /\ nextId = 1
    /\ wpc = [w \in Writers |-> "start"]
    /\ sent = [w \in Writers |-> 0]
    /\ id = [w \in Writers |-> 0]
    /\ returned = {}
    /\ rpc = "start"
    /\ last = 0
    /\ buf = <<>>
    /\ shown = <<>>
    /\ before = {}
    /\ ppc = "start"
    /\ filter = {}
    /\ pos = 0
    /\ counted = <<>>
    /\ due = {}

-----------------------------------------------------------------------------
(* The sinks.                                                              *)

Goto(w, point) == wpc' = [wpc EXCEPT ![w] = point]

(* The event w emits next. *)
Event(w) == <<w, sent[w] + 1>>

Entry(w, end, n) == [event |-> Event(w), end |-> end, id |-> n]

Emitted(w) ==
    /\ Goto(w, "open")
    /\ sent' = [sent EXCEPT ![w] = @ + 1]
    /\ returned' = returned \cup {Event(w)}

Starting(w, b) == backend = b /\ wpc[w] = "open" /\ sent[w] < MaxEvents

(* The file is there, empty: JSONL creates it with the first event, SQLite  *)
(* before it creates the table.                                             *)
CreateFile(w) ==
    /\ store = "none"
    /\ Starting(w, "jsonl") \/ (backend = "sqlite" /\ wpc[w] = "start")
    /\ store' = "file"
    /\ UNCHANGED <<backend, split, log, nextId, wpc, sent, id, returned, readerVars, reportVars>>

(* The sink is there: CREATE TABLE IF NOT EXISTS; JSONL opens nothing yet. *)
OpenSink(w) ==
    /\ wpc[w] = "start"
    /\ \/ backend = "jsonl" /\ UNCHANGED store
       \/ backend # "jsonl" /\ store # "none" /\ store' = "table"
    /\ Goto(w, "open")
    /\ UNCHANGED <<backend, split, log, nextId, sent, id, returned, readerVars, reportVars>>

(* Slip: without O_APPEND writers get in each other's lines. *)
Unlocked == TRUE

(* The file is locked while a write appends to it. *)
NobodyWrites == \A u \in Writers : wpc[u] # "emit"

(* The first half of the line is in the file, up to wherever that is. *)
BeginLine(w) ==
    /\ Starting(w, "jsonl")
    /\ store # "none"
    /\ NobodyWrites
    /\ log' = Append(log, Entry(w, FALSE, Len(log) + 1))
    /\ split' \in {split, split \cup {Event(w)}}
    /\ Goto(w, "emit")
    /\ UNCHANGED <<backend, store, nextId, sent, id, returned, readerVars, reportVars>>

EndLine(w) ==
    /\ backend = "jsonl" /\ wpc[w] = "emit"
    /\ log' = Append(log, Entry(w, TRUE, Len(log) + 1))
    /\ Emitted(w)
    /\ UNCHANGED <<backend, split, store, nextId, id, readerVars, reportVars>>

(* os.write wrote less than it was given, which emit does not look at. *)
CutLine(w) ==
    /\ backend = "jsonl" /\ wpc[w] = "emit"
    /\ Emitted(w)
    /\ UNCHANGED <<backend, split, store, log, nextId, id, readerVars, reportVars>>

(* SQLite has one writer at a time from INSERT to COMMIT. *)
InsertRow(w) ==
    /\ Starting(w, "sqlite")
    /\ log' = Append(log, Entry(w, TRUE, nextId))
    /\ nextId' = nextId + 1
    /\ Emitted(w)
    /\ UNCHANGED <<backend, split, store, id, readerVars, reportVars>>

(* Postgres hands out the id when the INSERT runs ... *)
DrawId(w) ==
    /\ Starting(w, "postgres")
    /\ id' = [id EXCEPT ![w] = nextId]
    /\ nextId' = nextId + 1
    /\ Goto(w, "emit")
    /\ UNCHANGED <<backend, split, store, log, sent, returned, readerVars, reportVars>>

(* ... and shows the row when it commits. *)
CommitRow(w) ==
    /\ backend = "postgres" /\ wpc[w] = "emit"
    /\ log' = Append(log, Entry(w, TRUE, id[w]))
    /\ id' = [id EXCEPT ![w] = 0]
    /\ Emitted(w)
    /\ UNCHANGED <<backend, split, store, nextId, readerVars, reportVars>>

(* open, write or INSERT raises: a full disk, a lock held for longer than the *)
(* five seconds of the timeout, a lost connection.  When Postgres is lost     *)
(* over a COMMIT the row may be there all the same.                           *)
EmitRaises(w) ==
    /\ \/ Starting(w, backend) /\ UNCHANGED log
       \/ /\ backend = "postgres" /\ wpc[w] = "emit"
          /\ log' \in {log, Append(log, Entry(w, TRUE, id[w]))}
    /\ id' = [id EXCEPT ![w] = 0]
    /\ Goto(w, "open")
    /\ sent' = [sent EXCEPT ![w] = @ + 1]
    /\ UNCHANGED <<backend, split, store, nextId, returned, readerVars, reportVars>>

(* Killed in the middle of a write; elsewhere it just takes no more steps. *)
Die(w) ==
    /\ wpc[w] = "emit"
    /\ Goto(w, "dead")
    /\ id' = [id EXCEPT ![w] = 0]
    /\ UNCHANGED <<backend, split, store, log, nextId, sent, returned, readerVars, reportVars>>

-----------------------------------------------------------------------------
(* The rows of S as ORDER BY id has them; no two have the same. *)
ById(S) ==
    [k \in 1 .. Cardinality(S) |-> CHOOSE e \in S : Cardinality({d \in S : d.id <= e.id}) = k]

-----------------------------------------------------------------------------
(* Reading lines.                                                          *)

(* For a reader that is behind entry p, entry n is no UTF-8: a half that     *)
(* ends within a character, at the end of the file or before another line,   *)
(* or the rest of a line in which the reader has begun within a character.   *)
Garbled(p, n) ==
    /\ log[n].event \in split
    /\ IF log[n].end THEN n = p + 1
                     ELSE n < Len(log) => log[n + 1].event # log[n].event

(* UnicodeDecodeError: the file is decoded a block of lines at a time, so    *)
(* that the culprit may be further on; but a half line at the end of the     *)
(* file is met only when the lines before it have been read.                 *)
Undecodable(p) ==
    \E n \in p + 1 .. Len(log) :
        Garbled(p, n) /\ (n = Len(log) => \A k \in p + 1 .. n - 1 : ~log[k].end)

Decodes(p, stop) == \A n \in p + 1 .. stop : ~Garbled(p, n)

-----------------------------------------------------------------------------
(* The tail.                                                               *)

(* existed = path.exists() *)
Look ==
    /\ rpc = "start" /\ ppc = "start"
    /\ rpc' = IF store = "none" THEN "wait" ELSE "seek"
    /\ UNCHANGED <<backend, writerVars, last, buf, shown, before, reportVars>>

(* Slip: SELECT MAX(id), which is NULL (here -1) of an empty table. *)
EndOrNull == IF log = <<>> THEN -1 ELSE Max({e.id : e \in Range(log)})

(* f.seek(0, 2), or SELECT COALESCE(MAX(id), 0). *)
End == Max({0} \cup {e.id : e \in Range(log)})

(* Slip: the end of the file, whether it existed or not. *)
AlwaysEnd == End

(* Where the tail starts in a file that did not exist: last = 0, no seek. *)
NewStart == 0

(* A file that appears later is read from its start. *)
Appears ==
    /\ rpc = "wait"
    /\ store # "none"
    /\ rpc' = "poll"
    /\ last' = NewStart
    /\ UNCHANGED <<backend, writerVars, buf, shown, before, reportVars>>

(* A file that exists is read from its end; MAX(id) raises without a table. *)
Seek ==
    /\ rpc = "seek"
    /\ \/ /\ backend = "jsonl" \/ store = "table"
          /\ last' = End
          /\ before' = {e.event : e \in Range(log)}
          /\ rpc' = "poll"
       \/ /\ backend # "jsonl" /\ store = "file"
          /\ rpc' = "dead"
          /\ UNCHANGED <<last, before>>
    /\ UNCHANGED <<backend, writerVars, buf, shown, reportVars>>

(* A line parses if it is the two halves of one event. *)
Parses(line) == Len(line) = 2 /\ line[1].event = line[2].event

(* Slip: a read that gets half a line is thrown away. *)
ForgetPart(part) == <<>>

(* Torn write: wait for the rest of the line. *)
KeepPart(part) == part

(* f.readline(), up to the end of the line or of the file. *)
ReadLine ==
    LET ends == {n \in last + 1 .. Len(log) : log[n].end}
        stop == IF ends = {} THEN Len(log) ELSE Min(ends)
        line == buf \o SubSeq(log, last + 1, stop)
    IN  /\ backend = "jsonl" /\ rpc = "poll" /\ last < Len(log)
        /\ Decodes(last, stop)
        /\ last' = stop
        /\ \/ /\ ends = {}
              /\ buf' = KeepPart(line)
              /\ UNCHANGED shown
           \/ /\ ends # {}
              /\ buf' = <<>>
              /\ shown' = IF Parses(line) THEN Append(shown, line[1].event) ELSE shown
        /\ UNCHANGED <<backend, writerVars, rpc, before, reportVars>>

(* The decoder raises in readline, and nobody catches it. *)
ReadRaises ==
    /\ backend = "jsonl" /\ rpc = "poll"
    /\ Undecodable(last)
    /\ rpc' = "dead"
    /\ UNCHANGED <<backend, writerVars, last, buf, shown, before, reportVars>>

(* Slip: the cursor moves by one row however many were fetched. *)
ByOne(rows) == last + 1

(* last = row[0], for every row. *)
Cursor(rows) == Last(rows).id

(* SELECT ... WHERE id > last ORDER BY id.  Without the table yet: try later. *)
Fetch ==
    LET new == {e \in Range(log) : e.id > last}
        rows == ById(new)
    IN  /\ backend # "jsonl" /\ rpc = "poll"
        /\ new # {}
        /\ shown' = shown \o [n \in DOMAIN rows |-> rows[n].event]
        /\ last' = Cursor(rows)
        /\ UNCHANGED <<backend, writerVars, rpc, buf, before, reportVars>>

-----------------------------------------------------------------------------
(* The report.                                                             *)

(* run_report for the events of one policy or of all, each writer having its *)
(* own; since and until choose events in the same way.  Nothing is found in  *)
(* a file that does not exist.                                               *)
BeginReport ==
    /\ ppc = "start" /\ rpc = "start"
    /\ filter' \in {Writers} \cup {{w} : w \in Writers}
    /\ due' = returned
    /\ ppc' = IF store = "none" THEN "printed" ELSE "read"
    /\ UNCHANGED <<backend, writerVars, readerVars, pos, counted>>

Chosen(e) == e[1] \in filter

(* Slip: the report ends at the first line that does not parse. *)
GivesUp == "printed"

(* "tolerate a torn/foreign line rather than die mid-report" *)
GoesOn == "read"

(* _iter_jsonl, one line: there may be more after what was the end. *)
CountLine ==
    LET ends == {n \in pos + 1 .. Len(log) : log[n].end}
        stop == IF ends = {} THEN Len(log) ELSE Min(ends)
        line == SubSeq(log, pos + 1, stop)
    IN  /\ backend = "jsonl" /\ ppc = "read" /\ pos < Len(log)
        /\ Decodes(pos, stop)
        /\ pos' = stop
        /\ counted' = IF Parses(line) /\ Chosen(line[1].event)
                      THEN Append(counted, line[1].event) ELSE counted
        /\ ppc' = IF Parses(line) THEN "read" ELSE GoesOn
        /\ UNCHANGED <<backend, writerVars, readerVars, filter, due>>

(* The decoder raises in the head of the loop, outside of the try. *)
ReportRaises ==
    /\ backend = "jsonl" /\ ppc = "read"
    /\ Undecodable(pos)
    /\ ppc' = "dead"
    /\ UNCHANGED <<backend, writerVars, readerVars, filter, pos, counted, due>>

EndOfLines ==
    /\ backend = "jsonl" /\ ppc = "read" /\ pos = Len(log)
    /\ ppc' = "printed"
    /\ UNCHANGED <<backend, writerVars, readerVars, filter, pos, counted, due>>

(* _iter_sqlite and _iter_postgres: one SELECT, which raises without a table. *)
CountRows ==
    LET rows   == ById(Range(log))
        events == [n \in DOMAIN rows |-> rows[n].event]
    IN  /\ backend # "jsonl" /\ ppc = "read"
        /\ ppc' = IF store = "table" THEN "printed" ELSE "dead"
        /\ pos' = Len(log)
        /\ counted' = Kept(events, {n \in DOMAIN events : Chosen(events[n])})
        /\ UNCHANGED <<backend, writerVars, readerVars, filter, due>>

Tailing == Look \/ Appears \/ Seek \/ ReadLine \/ ReadRaises \/ Fetch

Next ==
    \/ \E w \in Writers :
          \/ CreateFile(w) \/ OpenSink(w)
          \/ BeginLine(w) \/ EndLine(w) \/ CutLine(w)
          \/ InsertRow(w) \/ DrawId(w) \/ CommitRow(w)
          \/ EmitRaises(w) \/ Die(w)
    \/ Tailing
    \/ BeginReport \/ CountLine \/ ReportRaises \/ EndOfLines \/ CountRows

Spec == Init /\ [][Next]_vars

(* The tail polls twice a second; nobody has to write. *)
FairSpec == Spec /\ WF_vars(Tailing)

-----------------------------------------------------------------------------
(* Properties.                                                             *)

(* Rows, and lines that parse. *)
Intact ==
    {log[n].event : n \in
        {m \in DOMAIN log :
            /\ log[m].end
            /\ backend = "jsonl" =>
                  /\ m > 1 /\ log[m - 1].event = log[m].event
                  /\ m > 2 => log[m - 2].end}}

(* What a report yields that reads the log from end to end now: none of it   *)
(* if some line does not decode.                                             *)
Reported == IF \E n \in DOMAIN log : Garbled(0, n) THEN {} ELSE Intact

(* The half line of event e was never completed. *)
Torn(e) == ~ \E n \in DOMAIN log : log[n].event = e /\ log[n].end

(* The line of e was appended to a torn one. *)
Glued(e) == \E n \in 2 .. Len(log) :
    /\ log[n].event = e /\ ~log[n].end
    /\ ~log[n - 1].end

(* An event whose emit returned is in every report from then on, unless      *)
(* lines are cut short.  A line that is costs its own event and at most the  *)
(* one after it, if it ends between two characters; one that ends within a   *)
(* character costs the whole report.                                         *)
EmittedReported ==
    \A e \in returned :
        e \in Reported \/ (backend = "jsonl" /\ (Torn(e) \/ Glued(e) \/ \E d \in split : Torn(d)))

(* A report that is printed counts each event that its filters leave at most *)
(* once, and every one whose emit had returned when it began, but for torn   *)
(* and glued lines, although it may catch a writer in the middle of a line   *)
(* and the log grows under it.                                               *)
ReportComplete ==
    ppc = "printed" =>
        /\ \A m, n \in DOMAIN counted : counted[m] = counted[n] => m = n
        /\ \A e \in Range(counted) : Chosen(e) /\ ~Torn(e)
        /\ \A e \in due : Chosen(e) =>
              e \in Range(counted) \/ (backend = "jsonl" /\ (Torn(e) \/ Glued(e)))

(* What is printed was emitted, after the tail began, and is printed once,   *)
(* in the order of the log, although a line may be seen in halves.           *)
PrintedOnce ==
    /\ \A m, n \in DOMAIN shown : shown[m] = shown[n] => m = n
    /\ \A n \in DOMAIN shown : shown[n] \notin before /\ ~Torn(shown[n])
    /\ \A m, n \in DOMAIN shown : m < n =>
          \E d, e \in Range(log) :
              d.event = shown[m] /\ e.event = shown[n] /\ d.id < e.id

(* "tolerate a torn/foreign line rather than die mid-report"                 *)
(* (cli/audit.py:53): a report of a file that nobody is writing to does not  *)
(* die.  It does, of a line that was cut within a character.                 *)
TornTolerated ==
    [][backend = "jsonl" /\ NobodyWrites /\ ppc = "read" => ppc' # "dead"]_vars

(* The tail never moves past an event that came after it began and whose row *)
(* or line is intact; Postgres ids may be committed out of order, and there  *)
(* it does.                                                                  *)
NoneSkipped ==
    backend # "postgres" /\ rpc = "poll" =>
        \A e \in Range(log) :
            e.end /\ e.id <= last /\ e.event \in Intact \ before => e.event \in Range(shown)

(* And every such event is printed at last, unless a line that ends within a *)
(* character has ended the tail.                                             *)
AllPrinted ==
    \A e \in Events :
        (backend # "postgres" /\ rpc = "poll" /\ e \in Intact \ before)
            ~> (e \in Range(shown) \/ (rpc = "dead" /\ split # {}))
=============================================================================
