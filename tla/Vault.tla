------------------------------- MODULE Vault -------------------------------
(***************************************************************************)
(* The reversible tokenization vault, vault/store.py: threads of several   *)
(* processes call Vault.token_for on one SQLite file.  A process has one   *)
(* connection and a threading.Lock around it, so one call runs on a        *)
(* connection at a time; calls of different processes interleave statement *)
(* by statement, and only SQLite's file locks and the two uniqueness       *)
(* constraints of the table keep them apart.                               *)
(*                                                                         *)
(* SQLite is modelled as store.py uses it (rollback journal, Python's      *)
(* implicit BEGIN DEFERRED before an INSERT): a SELECT outside a           *)
(* transaction locks nothing once it has been fetched, an INSERT opens the *)
(* transaction and takes the write lock, COMMIT needs every reader gone.   *)
(* With LockTimeouts a wait for another connection's lock may also end in  *)
(* sqlite3.OperationalError ("database is locked", after the default five  *)
(* seconds), which token_for does not catch: the call ends, the            *)
(* transaction of its connection stays as it is.                           *)
(***************************************************************************)
EXTENDS Integers, FiniteSets, FiniteSetsExt

CONSTANTS
    Threads,       \* the threads that call token_for
    Conns,         \* the Vault objects, one SQLite connection each
    ConnOf,        \* the Vault object each thread uses
    Scopes,        \* the session scopes that share the vault file
    ScopeOf,       \* the scope each Vault object is bound to
    Labels,        \* the token labels _label derives from entity types
    Values,        \* the personal values being hidden
    MaxTries,      \* rounds of the retry loop; the code's 8
    LockTimeouts,  \* may a wait for a lock exceed the busy timeout?
    NoKey          \* the key of a thread that has no call in progress

ASSUME VaultAssumption ==
    /\ ConnOf \in [Threads -> Conns]
    /\ ScopeOf \in [Conns -> Scopes]
    /\ MaxTries \in Nat \ {0}
    /\ LockTimeouts \in BOOLEAN

Keys == [scope : Scopes, label : Labels, val : Values]
Row  == [scope : Scopes, label : Labels, val : Values, id : Nat \ {0}]

ASSUME NoKeyAssumption == NoKey \notin Keys

VARIABLES
    rows,    \* the committed rows of the vault table
    open,    \* open[c]: rows connection c has inserted and not committed
    intx,    \* intx[c]: has c a transaction open (Connection.in_transaction)?
    lock,    \* lock[c]: the SQLite lock c keeps between two statements
    pc,      \* pc[t]: the statement of token_for thread t executes next
    key,     \* key[t]: scope, label and value of t's call
    id,      \* id[t]: the token number t has read or computed
    tries,   \* tries[t]: failed rounds of t's retry loop
    start,   \* start[t]: history, rows of the key's group when the call began
    issued   \* history, every token token_for has returned

dbVars   == <<rows, open, intx, lock>>
callVars == <<pc, key, id, tries, start>>
vars     == <<dbVars, callVars, issued>>

Locks  == {"none", "shared", "reserved", "pending"}
Points == {"idle", "find", "number", "insert", "commit", "return"}

TypeOK ==
    /\ rows \in SUBSET Row
    /\ open \in [Conns -> SUBSET Row]
    /\ intx \in [Conns -> BOOLEAN]
    /\ lock \in [Conns -> Locks]
    /\ pc \in [Threads -> Points]
    /\ key \in [Threads -> Keys \cup {NoKey}]
    /\ id \in [Threads -> Nat]
    /\ tries \in [Threads -> 0 .. MaxTries - 1]
    /\ start \in [Threads -> Nat]
    /\ issued \in SUBSET Row

-----------------------------------------------------------------------------
(* The table and what a connection sees of it.                             *)

SameGroup(a, b) == a.scope = b.scope /\ a.label = b.label

Group(S, k) == {r \in S : SameGroup(r, k)}

RowFor(k, n) == [scope |-> k.scope, label |-> k.label, val |-> k.val, id |-> n]

(* Slip: the table without UNIQUE (scope, entity_type, token_id). *)
ConflictsOnValue(S, r) == \E s \in Group(S, r) : s.val = r.val

(* PRIMARY KEY (scope, entity_type, value_hmac), UNIQUE (scope, entity_type, token_id). *)
Conflicts(S, r) == \E s \in Group(S, r) : s.val = r.val \/ s.id = r.id

Visible(c) == rows \cup open[c]

(* SELECT token_id WHERE scope, entity_type and value_hmac. *)
Matches(c, k) == {r \in Group(Visible(c), k) : r.val = k.val}

(* Slips: the + 1 forgotten, or added in SQL and in Python. *)
NextIdSame(S, k)     == Max({r.id : r \in Group(S, k)} \cup {0})
NextIdSkipping(S, k) == Max({r.id : r \in Group(S, k)} \cup {0}) + 2

(* SELECT COALESCE(MAX(token_id), 0) + 1. *)
NextId(S, k) == Max({r.id : r \in Group(S, k)} \cup {0}) + 1

(* Slip: lookup without the scope. *)
LookupAnyScope(c, l, n) == {r.val : r \in {s \in Visible(c) : s.label = l /\ s.id = n}}

(* The value lookup(token) gives connection c back, as a set: empty for None. *)
Lookup(c, l, n) ==
    {r.val : r \in {s \in Visible(c) : s.scope = ScopeOf[c] /\ s.label = l /\ s.id = n}}

-----------------------------------------------------------------------------
(* SQLite's file locks.                                                    *)

Others(c) == Conns \ {c}

CanRead(c)   == lock[c] # "none" \/ \A d \in Others(c) : lock[d] # "pending"
CanWrite(c)  == \A d \in Others(c) : lock[d] \notin {"reserved", "pending"}
CanCommit(c) == \A d \in Others(c) : lock[d] = "none"

(* Inside a transaction the lock a SELECT takes is kept until its end. *)
LockAfterRead(c) ==
    [lock EXCEPT ![c] = IF intx[c] /\ @ = "none" THEN "shared" ELSE @]

LockAfterInsert(c) == [lock EXCEPT ![c] = IF @ = "pending" THEN @ ELSE "reserved"]

(* COMMIT, ROLLBACK, close and the death of the process end the transaction. *)
EndTransaction(c) ==
    /\ open' = [open EXCEPT ![c] = {}]
    /\ intx' = [intx EXCEPT ![c] = FALSE]
    /\ lock' = [lock EXCEPT ![c] = "none"]

-----------------------------------------------------------------------------
(* Vault.token_for, one action per statement.                              *)

Init ==
    /\ rows = {}
    /\ open = [c \in Conns |-> {}]
    /\ intx = [c \in Conns |-> FALSE]
    /\ lock = [c \in Conns |-> "none"]
    /\ pc = [t \in Threads |-> "idle"]
    /\ key = [t \in Threads |-> NoKey]
    /\ id = [t \in Threads |-> 0]
    /\ tries = [t \in Threads |-> 0]
    /\ start = [t \in Threads |-> 0]
    /\ issued = {}

Goto(t, point) == pc' = [pc EXCEPT ![t] = point]

Users(c) == {t \in Threads : ConnOf[t] = c}

(* The calls of the threads in T are over, by a return, an exception or a crash. *)
EndCalls(T) ==
    /\ pc' = [t \in Threads |-> IF t \in T THEN "idle" ELSE pc[t]]
    /\ key' = [t \in Threads |-> IF t \in T THEN NoKey ELSE key[t]]
    /\ id' = [t \in Threads |-> IF t \in T THEN 0 ELSE id[t]]
    /\ tries' = [t \in Threads |-> IF t \in T THEN 0 ELSE tries[t]]
    /\ start' = [t \in Threads |-> IF t \in T THEN 0 ELSE start[t]]

(* Slip: token_for without the threading.Lock. *)
NoMutex(c) == TRUE

(* with self._lock: no other thread is inside token_for on this Vault object. *)
MutexFree(c) == \A u \in Users(c) : pc[u] = "idle"

(* token_for(entity_type, value): derive the key, take the lock. *)
Begin(t) ==
    /\ pc[t] = "idle"
    /\ MutexFree(ConnOf[t])
    /\ \E l \in Labels, v \in Values :
           LET k == [scope |-> ScopeOf[ConnOf[t]], label |-> l, val |-> v]
           IN  /\ key' = [key EXCEPT ![t] = k]
               /\ start' = [start EXCEPT ![t] = Cardinality(Group(rows, k))]
    /\ Goto(t, "find")
    /\ UNCHANGED <<dbVars, id, tries, issued>>

(* The SELECT by value: a hit is the token to return, a miss goes on to mint. *)
Find(t) ==
    LET c == ConnOf[t] IN
    /\ pc[t] = "find"
    /\ CanRead(c)
    /\ \/ \E r \in Matches(c, key[t]) :
              /\ id' = [id EXCEPT ![t] = r.id]
              /\ Goto(t, "return")
       \/ /\ Matches(c, key[t]) = {}
          /\ Goto(t, "number")
          /\ UNCHANGED id
    /\ lock' = LockAfterRead(c)
    /\ UNCHANGED <<rows, open, intx, key, tries, start, issued>>

(* The SELECT of the next free number; another writer may take it before the INSERT. *)
Number(t) ==
    LET c == ConnOf[t] IN
    /\ pc[t] = "number"
    /\ CanRead(c)
    /\ id' = [id EXCEPT ![t] = NextId(Visible(c), key[t])]
    /\ lock' = LockAfterRead(c)
    /\ Goto(t, "insert")
    /\ UNCHANGED <<rows, open, intx, key, tries, start, issued>>

(* The INSERT succeeds: the row is there for this connection only. *)
Insert(t) ==
    LET c == ConnOf[t]
        r == RowFor(key[t], id[t])
    IN  /\ pc[t] = "insert"
        /\ CanWrite(c)
        /\ ~Conflicts(Visible(c), r)
        /\ open' = [open EXCEPT ![c] = @ \cup {r}]
        /\ intx' = [intx EXCEPT ![c] = TRUE]
        /\ lock' = LockAfterInsert(c)
        /\ Goto(t, "commit")
        /\ UNCHANGED <<rows, key, id, tries, start, issued>>

(* Slip: the retry computes a new number and does not look the value up again. *)
NextRoundSameMiss(t) ==
    /\ Goto(t, "number")
    /\ tries' = [tries EXCEPT ![t] = @ + 1]
    /\ id' = [id EXCEPT ![t] = 0]
    /\ UNCHANGED <<key, start>>

(* The loop starts over with the SELECT by value. *)
NextRound(t) ==
    /\ Goto(t, "find")
    /\ tries' = [tries EXCEPT ![t] = @ + 1]
    /\ id' = [id EXCEPT ![t] = 0]
    /\ UNCHANGED <<key, start>>

(* IntegrityError: another writer won.  Roll back and re-read, or give up with *)
(* VaultError when the rounds are used up.                                     *)
InsertConflict(t) ==
    LET c == ConnOf[t] IN
    /\ pc[t] = "insert"
    /\ CanWrite(c)
    /\ Conflicts(Visible(c), RowFor(key[t], id[t]))
    /\ EndTransaction(c)
    /\ \/ tries[t] + 1 < MaxTries /\ NextRound(t)
       \/ tries[t] + 1 = MaxTries /\ EndCalls({t})
    /\ UNCHANGED <<rows, issued>>

(* conn.commit(): the row is in the file. *)
Commit(t) ==
    LET c == ConnOf[t] IN
    /\ pc[t] = "commit"
    /\ CanCommit(c)
    /\ rows' = Visible(c)
    /\ EndTransaction(c)
    /\ Goto(t, "return")
    /\ UNCHANGED <<key, id, tries, start, issued>>

(* return f"[{label}_{id}]": the caller holds the token from here on. *)
Return(t) ==
    /\ pc[t] = "return"
    /\ issued' = issued \cup {RowFor(key[t], id[t])}
    /\ EndCalls({t})
    /\ UNCHANGED dbVars

-----------------------------------------------------------------------------
(* A lock wait that runs into the busy timeout.  The exception leaves      *)
(* token_for; nothing rolls the connection back.                           *)

(* Slip: a read that waits for its lock without a timeout. *)
ReadWaits(t) == FALSE

ReadBusy(t) ==
    /\ LockTimeouts
    /\ pc[t] \in {"find", "number"}
    /\ ~CanRead(ConnOf[t])
    /\ EndCalls({t})
    /\ UNCHANGED <<dbVars, issued>>

(* Python has already executed BEGIN: the next SELECT runs inside it. *)
InsertBusy(t) ==
    /\ LockTimeouts
    /\ pc[t] = "insert"
    /\ ~CanWrite(ConnOf[t])
    /\ intx' = [intx EXCEPT ![ConnOf[t]] = TRUE]
    /\ EndCalls({t})
    /\ UNCHANGED <<rows, open, lock, issued>>

(* The row stays inserted and uncommitted, behind a PENDING lock. *)
CommitBusy(t) ==
    /\ LockTimeouts
    /\ pc[t] = "commit"
    /\ ~CanCommit(ConnOf[t])
    /\ lock' = [lock EXCEPT ![ConnOf[t]] = "pending"]
    /\ EndCalls({t})
    /\ UNCHANGED <<rows, open, intx, issued>>

-----------------------------------------------------------------------------
(* rehydrate(): a SELECT like any other, without the threading.Lock. *)
Rehydrate(c) ==
    /\ CanRead(c)
    /\ lock' = LockAfterRead(c)
    /\ UNCHANGED <<rows, open, intx, callVars, issued>>

(* close(), with no call in progress: uncommitted rows are rolled back.  The *)
(* file is opened again by the next Vault object.                           *)
Close(c) ==
    /\ MutexFree(c)
    /\ EndTransaction(c)
    /\ UNCHANGED <<rows, callVars, issued>>

(* The process dies between two statements; SQLite's hot journal undoes the rest. *)
Crash(c) ==
    /\ EndTransaction(c)
    /\ EndCalls(Users(c))
    /\ UNCHANGED <<rows, issued>>

Step(t) ==
    \/ Find(t)
    \/ Number(t)
    \/ Insert(t)
    \/ InsertConflict(t)
    \/ Commit(t)
    \/ Return(t)
    \/ ReadBusy(t)
    \/ InsertBusy(t)
    \/ CommitBusy(t)

Next ==
    \/ \E t \in Threads : Begin(t) \/ Step(t)
    \/ \E c \in Conns : Rehydrate(c) \/ Close(c) \/ Crash(c)

Spec == Init /\ [][Next]_vars

(* A thread inside token_for keeps running: it holds no lock that another  *)
(* thread of its process could withhold, and SQLite's busy handler ends    *)
(* every wait.  Callers need not call, and nothing needs to crash.         *)
FairSpec == Spec /\ \A t \in Threads : WF_vars(Step(t))

-----------------------------------------------------------------------------
(* Properties.                                                             *)

OneToOne(S) ==
    \A r, s \in S : SameGroup(r, s) /\ (r.val = s.val \/ r.id = s.id) => r = s

(* Within a scope and label no two values ever get the same token and no    *)
(* value two tokens, over everything token_for has returned and everything  *)
(* in the file, whatever the two processes read before they wrote.          *)
NoDoubleBooking == OneToOne(issued \cup rows)

(* A token that token_for returned is in the file: no crash, conflict or    *)
(* rollback of any thread of any process can take its value away again.     *)
IssuedDurable == issued \subseteq rows

(* rehydrate, on every connection bound to the token's scope, gives back    *)
(* the one value the token was returned for.                                *)
RehydrateFaithful ==
    \A r \in issued, c \in Conns :
        ScopeOf[c] = r.scope => Lookup(c, r.label, r.id) = {r.val}

(* Numbers count from 1 without a gap, although MAX + 1 is read one         *)
(* statement before it is used and conflicting rounds are thrown away.      *)
NoGaps == \A r \in rows : \A n \in 1 .. r.id : \E s \in Group(rows, r) : s.id = n

(* A round of the retry loop is lost only to a row somebody else committed  *)
(* meanwhile: a call can fail with "repeated conflicts" only after MaxTries *)
(* other mints in its group.                                                *)
RoundsNeedRivals ==
    \A t \in Threads :
        pc[t] # "idle" => tries[t] + start[t] <= Cardinality(Group(rows, key[t]))

(* At most one connection is ahead of the file or holds the write lock; an  *)
(* uncommitted row always sits behind it.                                   *)
OneWriter ==
    /\ \A c, d \in Conns :
           lock[c] \in {"reserved", "pending"} /\ lock[d] \in {"reserved", "pending"} => c = d
    /\ \A c \in Conns : open[c] # {} => lock[c] \in {"reserved", "pending"}

(* The table a connection sees, its own uncommitted rows included, obeys    *)
(* both uniqueness constraints.                                             *)
ViewsOneToOne == \A c \in Conns : OneToOne(Visible(c))

(* store.py's opening promise, "the same value always yields the same       *)
(* stable token within a scope", over every token ever returned.            *)
StableToken ==
    \A r, s \in issued : SameGroup(r, s) /\ r.val = s.val => r.id = s.id

(* Every call of token_for ends, with a token or an exception, also when    *)
(* connections that ran into a timeout sit on their locks forever.          *)
CallsEnd == \A t \in Threads : pc[t] # "idle" ~> pc[t] = "idle"

(* The vault implements the coat check: what is committed is on the rack,   *)
(* what token_for has returned is in callers' hands.                        *)
Abstract == INSTANCE CoatCheck WITH tickets <- rows, handed <- issued
ImplementsCoatCheck == Abstract!Spec
=============================================================================
