---------------------------- MODULE PromptGuard ----------------------------
(***************************************************************************)
(* The confirm-by-resend flow, hooks/prompt_guard.py over hooks/state.py.  *)
(* Every submitted prompt in which the engine finds something is handled   *)
(* by a hook process of its own.  The process looks for the prompt's       *)
(* digest in the session's pending file (consume): a fresh entry lets the  *)
(* prompt through unmasked and is removed, otherwise the digest is parked  *)
(* (store) and the prompt is blocked.                                      *)
(*                                                                         *)
(* A pending file is replaced by writing pending-<session>.tmp, one name   *)
(* for all processes of the session, and renaming it.  A process that has  *)
(* opened the .tmp file goes on writing to it after another process has    *)
(* renamed it: where[p] follows the open file from one name to the next.   *)
(* A file that is truncated and not written yet does not parse; _load      *)
(* reads that as no entries, and so does the model.                        *)
(***************************************************************************)
EXTENDS Integers, FiniteSets, FiniteSetsExt

CONSTANTS
    Procs,       \* hook processes
    Sessions,    \* sessions, after _path has sanitised their ids
    Digests,     \* prompts in which the engine finds something
    None,        \* no file, no session, no digest
    Window,      \* confirm_window_seconds
    Minute,      \* sixty seconds
    Stale,       \* _STALE_FILE_SECONDS
    MaxPending,  \* _MAX_PENDING
    MaxTime,     \* bound: the clock stops here
    Raced        \* bound: the sessions that see hook processes overlap

ASSUME PromptGuardAssumption ==
    /\ {Window, Stale, MaxTime} \subseteq Nat
    /\ {Minute, MaxPending} \subseteq Nat \ {0}
    /\ None \notin Sessions \cup Digests
    /\ Raced \subseteq Sessions

VARIABLES
    overlap,  \* prompts are submitted while a hook process runs
    now,      \* the clock
    pending,  \* pending[s]: the file pending-s.json, or None
    tmp,      \* tmp[s]: the file pending-s.tmp, or None
    pc,       \* pc[p]: what hook process p does next
    storing,  \* storing[p]: p is in store(), no longer in consume()
    sess,     \* sess[p]: the session of the prompt p handles
    digest,   \* digest[p]: its digest
    entries,  \* entries[p]: the dictionary p has loaded and is about to write
    hit,      \* hit[p]: consume found the digest
    where,    \* where[p]: the name of the file p has open for writing
    todo,     \* todo[p]: pending files p has still to look at in the sweep
    victim,   \* victim[p]: the pending file p has found stale
    owed      \* history, owed[s]: the blocked prompts a resend may still
              \* confirm, each with the number of blocks since

files == <<pending, tmp>>
call  == <<storing, sess, digest, entries, hit>>
sweep == <<todo, victim>>
vars  == <<overlap, now, files, pc, call, where, sweep, owed>>

Times   == 0 .. MaxTime
Entries == [sess : Sessions, digest : Digests, at : Times]
Files   == [entries : SUBSET Entries, mtime : Times]
Debts   == [digest : Digests, at : Times, since : 0 .. MaxPending]
Points  == {"idle", "consume", "clear", "open", "write", "rename",
            "glob", "look", "unlink", "store"}

TypeOK ==
    /\ overlap \in BOOLEAN
    /\ now \in Times
    /\ pending \in [Sessions -> Files \cup {None}]
    /\ tmp \in [Sessions -> Files \cup {None}]
    /\ pc \in [Procs -> Points]
    /\ storing \in [Procs -> BOOLEAN]
    /\ sess \in [Procs -> Sessions \cup {None}]
    /\ digest \in [Procs -> Digests \cup {None}]
    /\ entries \in [Procs -> SUBSET Entries]
    /\ hit \in [Procs -> BOOLEAN]
    /\ where \in [Procs -> {"closed", "tmp", "pending", "deleted"}]
    /\ todo \in [Procs -> SUBSET Sessions]
    /\ victim \in [Procs -> Sessions \cup {None}]
    /\ owed \in [Sessions -> SUBSET Debts]

-----------------------------------------------------------------------------
(* Entries and files.                                                      *)

(* Slip: one file whatever the session id. *)
OneFile(s) == CHOOSE x \in Sessions : TRUE

(* The session whose files s uses.  A session here is what _path makes of an  *)
(* id: ids it sanitises to one name are one session, as they are in the code. *)
FileOf(s) == s

(* _load, less what has left the window; a missing file has no entries. *)
Load(s) ==
    IF pending[FileOf(s)] = None THEN {}
    ELSE {e \in pending[FileOf(s)].entries : now - e.at <= Window}

For(E, d)     == {e \in E : e.digest = d}
Without(E, d) == {e \in E : e.digest # d}

(* Slip: nothing is evicted. *)
KeepAll(E, e) == {E}

(* Over _MAX_PENDING the oldest entries go.  The new entry e is the last of   *)
(* its second; the order among its other equals is left open.                *)
KeepNewest(E, e) ==
    {K \in SUBSET E :
        /\ Cardinality(K) = MaxPending
        /\ e \in K
        /\ \A x \in E \ K, y \in K : x.at <= y.at}

(* Hook processes of sessions that share the file names of f. *)
Sharers(f) == {p \in Procs : sess[p] # None /\ FileOf(sess[p]) = f}

(* The pending file of f loses its name to the file called new, if any. *)
Replaced(f, new) ==
    /\ pending' = [pending EXCEPT ![f] = new]
    /\ where' = [p \in Procs |->
                   IF p \in Sharers(f) /\ where[p] = "pending" THEN "deleted"
                   ELSE IF p \in Sharers(f) /\ where[p] = "tmp" /\ new # None
                   THEN "pending" ELSE where[p]]

-----------------------------------------------------------------------------
Init ==
    /\ overlap \in BOOLEAN
    /\ now = 0
    /\ pending = [s \in Sessions |-> None]
    /\ tmp = [s \in Sessions |-> None]
    /\ pc = [p \in Procs |-> "idle"]
    /\ storing = [p \in Procs |-> FALSE]
    /\ sess = [p \in Procs |-> None]
    /\ digest = [p \in Procs |-> None]
    /\ entries = [p \in Procs |-> {}]
    /\ hit = [p \in Procs |-> FALSE]
    /\ where = [p \in Procs |-> "closed"]
    /\ todo = [p \in Procs |-> {}]
    /\ victim = [p \in Procs |-> None]
    /\ owed = [s \in Sessions |-> {}]

Goto(p, point) == pc' = [pc EXCEPT ![p] = point]

(* The process is gone, with its memory. *)
Exit(p) ==
    /\ Goto(p, "idle")
    /\ storing' = [storing EXCEPT ![p] = FALSE]
    /\ sess' = [sess EXCEPT ![p] = None]
    /\ digest' = [digest EXCEPT ![p] = None]
    /\ entries' = [entries EXCEPT ![p] = {}]
    /\ hit' = [hit EXCEPT ![p] = FALSE]
    /\ todo' = [todo EXCEPT ![p] = {}]
    /\ victim' = [victim EXCEPT ![p] = None]

(* A prompt is submitted, the engine finds something in it. *)
Submit(p) ==
    /\ pc[p] = "idle"
    /\ overlap \/ \A q \in Procs : pc[q] = "idle"
    /\ \E s \in (IF overlap THEN Raced ELSE Sessions), d \in Digests :
           /\ sess' = [sess EXCEPT ![p] = s]
           /\ digest' = [digest EXCEPT ![p] = d]
    /\ Goto(p, "consume")
    /\ UNCHANGED <<overlap, now, files, storing, entries, hit, where, sweep, owed>>

WriteBack(p, E) ==
    /\ entries' = [entries EXCEPT ![p] = E]
    /\ Goto(p, IF E = {} THEN "clear" ELSE "open")

(* Slip: consume does not write back what it took out. *)
ConsumeWithoutWriteBack(p) ==
    /\ pc[p] = "consume"
    /\ LET E == Load(sess[p])
       IN  /\ hit' = [hit EXCEPT ![p] = \E e \in E : e.digest = digest[p]]
           /\ WriteBack(p, E)
    /\ UNCHANGED <<overlap, now, files, storing, sess, digest, where, sweep, owed>>

(* consume(): load, drop what has expired, take the digest out. *)
Consume(p) ==
    /\ pc[p] = "consume"
    /\ LET E == Load(sess[p])
       IN  /\ hit' = [hit EXCEPT ![p] = \E e \in E : e.digest = digest[p]]
           /\ WriteBack(p, Without(E, digest[p]))
    /\ UNCHANGED <<overlap, now, files, storing, sess, digest, where, sweep, owed>>

(* The block message promises a confirmation.  A debt counts the blocks of    *)
(* its own second or later, up to the MaxPending that push its entry out.    *)
Promise(s, d, at) ==
    LET rest == Without(owed[s], d)
        ties == {o \in rest : o.at = at}
    IN  owed' = [owed EXCEPT ![s] =
            {[digest |-> d, at |-> at, since |-> Min({Cardinality(ties), MaxPending})]}
                \cup {[o EXCEPT !.since = Min({@ + 1, MaxPending})] : o \in rest}]

(* The write is done.  store: the prompt is blocked.  consume: a hit lets the *)
(* prompt through, a miss goes on to store.                                   *)
Written(p) ==
    \/ /\ storing[p]
       /\ \E e \in For(entries[p], digest[p]) : Promise(sess[p], digest[p], e.at)
       /\ Exit(p)
    \/ /\ ~storing[p] /\ hit[p]
       /\ owed' = [owed EXCEPT ![sess[p]] = Without(@, digest[p])]
       /\ Exit(p)
    \/ /\ ~storing[p] /\ ~hit[p]
       /\ Goto(p, "glob")
       /\ UNCHANGED <<call, sweep, owed>>

(* _write with no entries left: path.unlink(missing_ok=True). *)
Clear(p) ==
    /\ pc[p] = "clear"
    /\ Replaced(FileOf(sess[p]), None)
    /\ Written(p)
    /\ UNCHANGED <<overlap, now, tmp>>

(* tmp.write_text opens the name, and truncates the file if there is one. *)
OpenTmp(p) ==
    /\ pc[p] = "open"
    /\ tmp' = [tmp EXCEPT ![FileOf(sess[p])] = [entries |-> {}, mtime |-> now]]
    /\ where' = [where EXCEPT ![p] = "tmp"]
    /\ Goto(p, "write")
    /\ UNCHANGED <<overlap, now, pending, call, sweep, owed>>

(* ... and writes to that file, whatever its name is by now. *)
WriteTmp(p) ==
    LET f == FileOf(sess[p])
        new == [entries |-> entries[p], mtime |-> now]
    IN  /\ pc[p] = "write"
        /\ tmp' = [tmp EXCEPT ![f] = IF where[p] = "tmp" THEN new ELSE @]
        /\ pending' = [pending EXCEPT ![f] = IF where[p] = "pending" THEN new ELSE @]
        /\ where' = [where EXCEPT ![p] = "closed"]
        /\ Goto(p, "rename")
        /\ UNCHANGED <<overlap, now, call, sweep, owed>>

(* os.replace(tmp, path). *)
Rename(p) ==
    LET f == FileOf(sess[p]) IN
    /\ pc[p] = "rename"
    /\ tmp[f] # None
    /\ Replaced(f, tmp[f])
    /\ tmp' = [tmp EXCEPT ![f] = None]
    /\ Written(p)
    /\ UNCHANGED <<overlap, now>>

(* Another process has renamed the file away: FileNotFoundError.  run_hook   *)
(* logs it and returns nothing, so the prompt is sent as it is.              *)
RenameFails(p) ==
    /\ pc[p] = "rename"
    /\ tmp[FileOf(sess[p])] = None
    /\ Exit(p)
    /\ UNCHANGED <<overlap, now, files, where, owed>>

(* _prune_stale_files, run by store: list the pending files of all sessions ... *)
Glob(p) ==
    /\ pc[p] = "glob"
    /\ todo' = [todo EXCEPT ![p] = {s \in Sessions : pending[s] # None}]
    /\ Goto(p, "look")
    /\ UNCHANGED <<overlap, now, files, call, where, victim, owed>>

(* Slip: any file not written this very second is stale. *)
IsNotNew(f) == pending[f] # None /\ now > pending[f].mtime

IsStale(f) == pending[f] # None /\ now - pending[f].mtime > Stale

(* ... look at the age of each ... *)
Look(p) ==
    /\ pc[p] = "look"
    /\ \E s \in todo[p] :
           /\ todo' = [todo EXCEPT ![p] = @ \ {s}]
           /\ IF IsStale(s)
              THEN Goto(p, "unlink") /\ victim' = [victim EXCEPT ![p] = s]
              ELSE UNCHANGED <<pc, victim>>
    /\ UNCHANGED <<overlap, now, files, call, where, owed>>

(* ... and remove by name what was found stale. *)
Unlink(p) ==
    /\ pc[p] = "unlink"
    /\ Replaced(victim[p], None)
    /\ victim' = [victim EXCEPT ![p] = None]
    /\ Goto(p, "look")
    /\ UNCHANGED <<overlap, now, tmp, call, todo, owed>>

(* Slip: an entry is stamped with the end of its window. *)
ExpiryStamp == now + Window

(* An entry is stamped with the time of the block. *)
Stamp == now

(* store(): load again, add the digest, throw out the oldest over the limit. *)
Store(p) ==
    LET e == [sess |-> sess[p], digest |-> digest[p], at |-> Stamp]
        E == Without(Load(sess[p]), digest[p]) \cup {e}
    IN  /\ pc[p] = "look"
        /\ todo[p] = {}
        /\ storing' = [storing EXCEPT ![p] = TRUE]
        /\ \/ Cardinality(E) <= MaxPending /\ WriteBack(p, E)
           \/ Cardinality(E) > MaxPending /\ \E K \in KeepNewest(E, e) : WriteBack(p, K)
        /\ UNCHANGED <<overlap, now, files, sess, digest, hit, where, sweep, owed>>

(* The hook process is killed, by its timeout or with the terminal. *)
Crash(p) ==
    /\ pc[p] # "idle"
    /\ Exit(p)
    /\ where' = [where EXCEPT ![p] = "closed"]
    /\ UNCHANGED <<overlap, now, files, owed>>

(* The number of minutes the block message gives the user. *)
Promised == LET m == Window \div Minute IN Minute * (IF m = 0 THEN 1 ELSE m)

(* A second passes; debts past the window and past the promised minutes are off. *)
Tick ==
    /\ now < MaxTime
    /\ now' = now + 1
    /\ owed' = [s \in Sessions |->
                  IF \E p \in Procs : sess[p] = s THEN owed[s]
                  ELSE {o \in owed[s] : now' - o.at <= Window \/ now' - o.at <= Promised}]
    /\ UNCHANGED <<overlap, files, pc, call, where, sweep>>

Next ==
    \/ Tick
    \/ \E p \in Procs :
          \/ Submit(p) \/ Consume(p) \/ Clear(p)
          \/ OpenTmp(p) \/ WriteTmp(p) \/ Rename(p) \/ RenameFails(p)
          \/ Glob(p) \/ Look(p) \/ Unlink(p) \/ Store(p)
          \/ Crash(p)

Spec == Init /\ [][Next]_vars

-----------------------------------------------------------------------------
(* Properties.                                                             *)

(* A prompt goes through by confirmation only on a digest that was parked   *)
(* in the same session and not consumed since: one block, one confirmation. *)
(* tests/test_hooks.py, "Confirmation is consumed: a third send blocks      *)
(* again".                                                                  *)
OneConfirmationPerBlock ==
    \A p \in Procs : hit[p] => For(owed[sess[p]], digest[p]) # {}

(* With one prompt at a time that is so. *)
ConfirmedOnceAlone == ~overlap => OneConfirmationPerBlock

(* "resend the exact same message within N minutes": with one prompt at a    *)
(* time, wherever hooks are killed, and while none of the session runs, a    *)
(* blocked prompt that was not resent since, nor pushed out by MaxPending    *)
(* others blocked since, has an entry in the session's file.                 *)
PromiseKept ==
    \A s \in Sessions :
        ~overlap /\ (\A p \in Procs : sess[p] # s) =>
            \A o \in owed[s] :
                o.since < MaxPending /\ now - o.at <= Promised =>
                    \E e \in Load(s) : e.digest = o.digest /\ e.at = o.at

(* Whatever order the processes write in, and wherever one is killed, no    *)
(* file of a session ever holds an entry of another session.                *)
(* tests/test_hooks.py, test_different_session_does_not_share_confirmation. *)
SessionsApart == \A s \in Sessions : \A e \in Load(s) : e.sess = s

(* No file ever holds more than _MAX_PENDING entries, nor two for a digest. *)
FilesBounded ==
    \A s \in Sessions :
        pending[s] # None =>
            /\ Cardinality(pending[s].entries) <= MaxPending
            /\ \A e, f \in pending[s].entries : e.digest = f.digest => e = f
=============================================================================
