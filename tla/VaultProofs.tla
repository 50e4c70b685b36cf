---------------------------- MODULE VaultProofs ----------------------------
(* Proofs about Vault, for every number of threads, connections, scopes,    *)
(* labels and values, and about SecretFile, where its key comes from, for   *)
(* every number of processes and of draws.                                  *)
EXTENDS Vault, SecretFile, DataFacts

-----------------------------------------------------------------------------
(* Type correctness.                                                       *)

Tables == rows \cup UNION {open[c] : c \in Conns}

(* The strengthening TypeOK needs to be inductive: the numbers in the table *)
(* have a maximum, its rows can be counted, and a thread inside token_for   *)
(* has a key and, once it got there, a number.                              *)
TypeInv ==
    /\ TypeOK
    /\ \E b \in Nat : \A r \in Tables : r.id <= b
    /\ IsFiniteSet(rows)
    /\ \A c \in Conns : IsFiniteSet(open[c])
    /\ \A t \in Threads : pc[t] # "idle" => key[t] \in Keys
    /\ \A t \in Threads : pc[t] \in {"insert", "commit", "return"} => id[t] > 0

LEMMA NextIdType ==
  ASSUME TypeInv, NEW c \in Conns, NEW k
  PROVE  NextId(Visible(c), k) \in Nat \ {0}
<1> DEFINE ids == {r.id : r \in Group(Visible(c), k)} \cup {0}
<1>1. PICK b \in Nat : \A r \in Tables : r.id <= b
  BY DEF TypeInv
<1>2. Group(Visible(c), k) \subseteq Tables
  BY DEF Group, Visible, Tables
<1>3. Tables \subseteq Row
  BY DEF TypeInv, TypeOK, Tables
<1>4. ids \in SUBSET Nat
  BY <1>2, <1>3 DEF Row
<1>5. \A x \in ids : x <= b
  BY <1>1, <1>2
<1>6. Max(ids) \in Nat
  <2> HIDE DEF ids
  <2>1. ids # {}
    BY DEF ids
  <2> QED BY <1>4, <1>5, <2>1, MaxOfBounded
<1> QED BY <1>6 DEF NextId

LEMMA RowForType ==
  ASSUME NEW k \in Keys, NEW n \in Nat, n > 0
  PROVE  RowFor(k, n) \in Row
BY DEF Keys, Row, RowFor

LEMMA GroupFinite ==
  ASSUME NEW S, IsFiniteSet(S), NEW k
  PROVE  IsFiniteSet(Group(S, k)) /\ Cardinality(Group(S, k)) \in Nat
BY FS_Subset, FS_CardinalityType DEF Group

LEMMA EndCallsType ==
  ASSUME TypeInv, NEW T, EndCalls(T)
  PROVE  /\ pc' \in [Threads -> Points]
         /\ key' \in [Threads -> Keys \cup {NoKey}]
         /\ id' \in [Threads -> Nat]
         /\ tries' \in [Threads -> 0 .. MaxTries - 1]
         /\ start' \in [Threads -> Nat]
         /\ \A t \in Threads : pc'[t] # "idle" =>
                pc'[t] = pc[t] /\ key'[t] = key[t] /\ id'[t] = id[t]
BY VaultAssumption DEF TypeInv, TypeOK, EndCalls, Points

LEMMA TypeInvInit == Init => TypeInv
<1> USE VaultAssumption
<1>1. ASSUME Init PROVE TypeOK
  BY <1>1 DEF Init, TypeOK, Locks, Points
<1>2. ASSUME Init PROVE Tables = {}
  BY <1>2 DEF Init, Tables
<1> QED BY <1>1, <1>2, FS_EmptySet DEF Init, TypeInv

LEMMA TypeInvStep == TypeInv /\ [Next]_vars => TypeInv'
<1> SUFFICES ASSUME TypeInv, [Next]_vars PROVE TypeInv'
  OBVIOUS
<1> USE VaultAssumption, NoKeyAssumption
<1>1. ASSUME NEW t \in Threads, Begin(t) PROVE TypeInv'
  <2> USE <1>1
  <2>1. PICK l \in Labels, v \in Values :
          LET k == [scope |-> ScopeOf[ConnOf[t]], label |-> l, val |-> v]
          IN  /\ key' = [key EXCEPT ![t] = k]
              /\ start' = [start EXCEPT ![t] = Cardinality(Group(rows, k))]
    BY DEF Begin
  <2> DEFINE k == [scope |-> ScopeOf[ConnOf[t]], label |-> l, val |-> v]
  <2>2. k \in Keys
    BY DEF Keys
  <2>3. Cardinality(Group(rows, k)) \in Nat
    BY GroupFinite DEF TypeInv
  <2>4. TypeOK'
    BY <2>1, <2>2, <2>3 DEF TypeInv, TypeOK, Begin, Goto, dbVars, Points
  <2>5. (Tables = Tables)' /\ Tables' = Tables
    BY DEF Begin, dbVars, Tables
  <2> QED
    BY <2>1, <2>2, <2>4, <2>5 DEF TypeInv, TypeOK, Begin, Goto, dbVars
<1>2. ASSUME NEW t \in Threads, Find(t) PROVE TypeInv'
  <2> USE <1>2
  <2>1. Matches(ConnOf[t], key[t]) \subseteq Row
    BY DEF Matches, Group, Visible, TypeInv, TypeOK
  <2>2. TypeOK'
    BY <2>1 DEF TypeInv, TypeOK, Find, Goto, LockAfterRead, Points, Locks, Row
  <2>3. Tables' = Tables
    BY DEF Find, Tables
  <2>4. \A u \in Threads : pc'[u] \in {"insert", "commit", "return"} => id'[u] > 0
    BY <2>1 DEF TypeInv, TypeOK, Find, Goto, Row
  <2> QED BY <2>2, <2>3, <2>4 DEF TypeInv, TypeOK, Find, Goto
<1>3. ASSUME NEW t \in Threads, Number(t) PROVE TypeInv'
  <2> USE <1>3
  <2>1. NextId(Visible(ConnOf[t]), key[t]) \in Nat \ {0}
    BY NextIdType
  <2>2. TypeOK'
    BY <2>1 DEF TypeInv, TypeOK, Number, Goto, LockAfterRead, Points, Locks
  <2>3. Tables' = Tables
    BY DEF Number, Tables
  <2> QED BY <2>1, <2>2, <2>3 DEF TypeInv, TypeOK, Number, Goto
<1>4. ASSUME NEW t \in Threads, Insert(t) PROVE TypeInv'
  <2> USE <1>4
  <2> DEFINE r == RowFor(key[t], id[t])
             c == ConnOf[t]
  <2>1. r \in Row /\ c \in Conns /\ r.id = id[t]
    BY RowForType DEF TypeInv, TypeOK, Insert, RowFor
  <2>2. TypeOK'
    BY <2>1 DEF TypeInv, TypeOK, Insert, Goto, LockAfterInsert, Points, Locks
  <2>3. Tables' \subseteq Tables \cup {r}
    BY <2>1 DEF Insert, Tables, TypeInv, TypeOK
  <2>4. \E b \in Nat : \A s \in Tables' : s.id <= b
    <3>1. PICK b \in Nat : \A s \in Tables : s.id <= b
      BY DEF TypeInv
    <3>2. b + id[t] \in Nat /\ \A s \in Tables : s \in Row
      BY DEF TypeInv, TypeOK, Tables
    <3>3. \A s \in Tables' : s.id <= b + id[t]
      BY <2>1, <2>3, <3>1, <3>2 DEF TypeInv, TypeOK, Row
    <3> QED BY <3>2, <3>3
  <2>5. \A d \in Conns : IsFiniteSet(open'[d])
    <3>1. IsFiniteSet(open[c] \cup {r})
      BY <2>1, FS_AddElement DEF TypeInv
    <3>2. \A d \in Conns : open'[d] = IF d = c THEN open[c] \cup {r} ELSE open[d]
      BY <2>1 DEF TypeInv, TypeOK, Insert
    <3>3. \A d \in Conns : IsFiniteSet(open[d])
      BY DEF TypeInv
    <3> QED BY <3>1, <3>2, <3>3
  <2>6. IsFiniteSet(rows)'
    BY DEF TypeInv, Insert
  <2>7. \A u \in Threads : /\ key'[u] = key[u] /\ id'[u] = id[u]
                           /\ pc'[u] = IF u = t THEN "commit" ELSE pc[u]
    BY DEF TypeInv, TypeOK, Insert, Goto
  <2>8. pc[t] = "insert"
    BY DEF Insert
  <2>9. /\ \A u \in Threads : pc'[u] # "idle" => key'[u] \in Keys
        /\ \A u \in Threads : pc'[u] \in {"insert", "commit", "return"} => id'[u] > 0
    BY <2>7, <2>8 DEF TypeInv
  <2> QED BY <2>2, <2>4, <2>5, <2>6, <2>9 DEF TypeInv
<1>5. ASSUME NEW t \in Threads, InsertConflict(t) PROVE TypeInv'
  <2> USE <1>5
  <2>1. TypeOK'
    BY DEF TypeInv, TypeOK, InsertConflict, EndTransaction, NextRound, EndCalls, Goto,
           Points, Locks
  <2>2. Tables' \subseteq Tables /\ \A d \in Conns : open'[d] \in {{}, open[d]}
    BY DEF InsertConflict, EndTransaction, Tables, TypeInv, TypeOK
  <2> QED
    <3>1. CASE EndCalls({t})
      BY <2>1, <2>2, <3>1, EndCallsType, FS_EmptySet DEF TypeInv, InsertConflict
    <3>2. CASE NextRound(t)
      BY <2>1, <2>2, <3>2, FS_EmptySet DEF TypeInv, TypeOK, InsertConflict, NextRound, Goto
    <3> QED BY <3>1, <3>2 DEF InsertConflict
<1>6. ASSUME NEW t \in Threads, Commit(t) PROVE TypeInv'
  <2> USE <1>6
  <2>1. TypeOK'
    BY DEF TypeInv, TypeOK, Commit, EndTransaction, Visible, Goto, Points, Locks
  <2>2. Tables' \subseteq Tables /\ \A d \in Conns : open'[d] \in {{}, open[d]}
    BY DEF Commit, EndTransaction, Visible, Tables, TypeInv, TypeOK
  <2>3. IsFiniteSet(rows')
    BY FS_Union DEF TypeInv, Commit, Visible
  <2> QED BY <2>1, <2>2, <2>3, FS_EmptySet DEF TypeInv, TypeOK, Commit, Goto
<1>7. ASSUME NEW t \in Threads, Return(t) PROVE TypeInv'
  <2> USE <1>7
  <2>1. RowFor(key[t], id[t]) \in Row
    BY RowForType DEF TypeInv, TypeOK, Return
  <2>2. TypeOK'
    BY <2>1 DEF TypeInv, TypeOK, Return, EndCalls, dbVars, Points
  <2>3. Tables' = Tables
    BY DEF Return, dbVars, Tables
  <2> QED BY <2>2, <2>3 DEF TypeInv, TypeOK, Return, EndCalls, dbVars
<1>8. ASSUME NEW t \in Threads, ReadBusy(t) \/ InsertBusy(t) \/ CommitBusy(t)
      PROVE  TypeInv'
  <2> USE <1>8
  <2>1. EndCalls({t}) /\ rows' = rows /\ open' = open /\ issued' = issued
    BY DEF ReadBusy, InsertBusy, CommitBusy, dbVars
  <2>2. intx' \in [Conns -> BOOLEAN] /\ lock' \in [Conns -> Locks]
    BY DEF TypeInv, TypeOK, ReadBusy, InsertBusy, CommitBusy, dbVars, Locks
  <2>3. TypeOK'
    BY <2>1, <2>2, EndCallsType DEF TypeInv, TypeOK
  <2>4. Tables' = Tables
    BY <2>1 DEF Tables
  <2> QED
    BY <2>1, <2>3, <2>4, EndCallsType DEF TypeInv
<1>9. ASSUME NEW c \in Conns, Rehydrate(c) PROVE TypeInv'
  <2> USE <1>9
  <2>1. TypeOK'
    BY DEF TypeInv, TypeOK, Rehydrate, LockAfterRead, callVars, Locks
  <2>2. Tables' = Tables
    BY DEF Rehydrate, Tables
  <2> QED BY <2>1, <2>2 DEF TypeInv, Rehydrate, callVars
<1>10. ASSUME NEW c \in Conns, Close(c) \/ Crash(c) PROVE TypeInv'
  <2> USE <1>10
  <2>1. TypeOK'
    <3>1. CASE Close(c)
      BY <3>1 DEF TypeInv, TypeOK, Close, EndTransaction, callVars, Locks
    <3>2. CASE Crash(c)
      BY <3>2, EndCallsType DEF TypeInv, TypeOK, Crash, EndTransaction, Locks
    <3> QED BY <3>1, <3>2
  <2>2. Tables' \subseteq Tables /\ \A d \in Conns : open'[d] \in {{}, open[d]}
    BY DEF Close, Crash, EndTransaction, Tables, TypeInv, TypeOK
  <2>3. CASE Close(c)
    BY <2>1, <2>2, <2>3, FS_EmptySet DEF TypeInv, Close, callVars
  <2>4. CASE Crash(c)
    BY <2>1, <2>2, <2>4, EndCallsType, FS_EmptySet DEF TypeInv, Crash
  <2> QED BY <2>3, <2>4
<1>11. CASE UNCHANGED vars
  BY <1>11 DEF TypeInv, TypeOK, Tables, vars, dbVars, callVars
<1> QED
  BY <1>1, <1>2, <1>3, <1>4, <1>5, <1>6, <1>7, <1>8, <1>9, <1>10, <1>11
  DEF Next, Step

(* Every variable keeps its type: in particular the number a call inserts   *)
(* is a positive integer and the retry loop never counts past its bound.    *)
THEOREM VaultTypeCorrect == Spec => []TypeOK
<1>1. TypeInv => TypeOK
  BY DEF TypeInv
<1> QED BY TypeInvInit, TypeInvStep, <1>1, PTL DEF Spec

-----------------------------------------------------------------------------
(* The locks keep the connections' tables apart.                           *)

Writing(c) == lock[c] \in {"reserved", "pending"}

(* One call per connection, one writer per file, and no two rows that clash *)
(* in the file or in what any connection sees of it.                        *)
TableInv ==
    /\ \A t, u \in Threads :
           ConnOf[t] = ConnOf[u] /\ pc[t] # "idle" /\ pc[u] # "idle" => t = u
    /\ \A t \in Threads : pc[t] = "commit" => Writing(ConnOf[t])
    /\ OneWriter
    /\ OneToOne(rows)
    /\ ViewsOneToOne

(* Two rows a uniqueness check let through do not clash. *)
LEMMA InsertKeepsOneToOne ==
  ASSUME NEW S, OneToOne(S), NEW r, ~Conflicts(S, r)
  PROVE  OneToOne(S \cup {r})
BY DEF OneToOne, Conflicts, Group, SameGroup

LEMMA TableInvInit == Init => TableInv
BY VaultAssumption
DEF Init, TableInv, OneWriter, OneToOne, ViewsOneToOne, Visible, Writing

LEMMA TableInvStep == TypeOK /\ TableInv /\ [Next]_vars => TableInv'
<1> SUFFICES ASSUME TypeOK, TableInv, [Next]_vars PROVE TableInv'
  OBVIOUS
<1> USE VaultAssumption
<1>1. ASSUME NEW t \in Threads, Begin(t) PROVE TableInv'
  BY <1>1
  DEF TypeOK, TableInv, Begin, MutexFree, Users, Goto, dbVars, OneWriter, OneToOne,
      ViewsOneToOne, Visible, Writing, SameGroup
<1>2. ASSUME NEW t \in Threads, Find(t) \/ Number(t) PROVE TableInv'
  <2> USE <1>2
  <2>1. /\ rows' = rows /\ open' = open
        /\ lock' = LockAfterRead(ConnOf[t])
        /\ pc[t] # "idle"
        /\ \E point \in Points \ {"commit"} : Goto(t, point)
    BY DEF Find, Number, Points
  <2>2. \A c \in Conns : Writing(c)' = Writing(c)
    BY <2>1 DEF TypeOK, LockAfterRead, Writing
  <2> QED
    BY <2>1, <2>2
    DEF TypeOK, TableInv, Goto, OneWriter, OneToOne, ViewsOneToOne, Visible, Writing,
        SameGroup
<1>3. ASSUME NEW t \in Threads, Insert(t) PROVE TableInv'
  <2> USE <1>3
  <2> DEFINE c == ConnOf[t]
             r == RowFor(key[t], id[t])
  <2>1. c \in Conns /\ pc[t] = "insert" /\ rows' = rows
    BY DEF Insert
  <2>2. lock' = LockAfterInsert(c) /\ Goto(t, "commit")
    BY DEF Insert
  <2>3. /\ \A d \in Conns : Writing(d)' <=> d = c
        /\ \A d \in Conns : Writing(d) => d = c
    BY <2>1, <2>2 DEF Insert, CanWrite, Others, TypeOK, LockAfterInsert, Writing
  <2>4. open' = [open EXCEPT ![c] = @ \cup {r}]
    BY DEF Insert
  <2>5. OneWriter'
    <3>1. \A d \in Conns : open'[d] # {} => d = c
      BY <2>3, <2>4 DEF TypeOK, TableInv, OneWriter, Writing
    <3> QED BY <2>3, <3>1 DEF OneWriter, Writing
  <2>6. OneToOne(Visible(c) \cup {r})
    BY <2>1, InsertKeepsOneToOne DEF Insert, TableInv, ViewsOneToOne
  <2>7. ViewsOneToOne'
    <3>1. Visible(c)' = Visible(c) \cup {r}
      BY <2>1, <2>4 DEF Visible, TypeOK
    <3>2. ASSUME NEW d \in Conns, d # c PROVE Visible(d)' = Visible(d)
      BY <2>1, <2>4, <3>2 DEF Visible, TypeOK
    <3> QED BY <2>6, <3>1, <3>2 DEF TableInv, ViewsOneToOne, OneToOne, SameGroup
  <2>8. \A u \in Threads : pc'[u] = "commit" => Writing(ConnOf[u])'
    BY <2>2, <2>3 DEF TypeOK, TableInv, Goto
  <2>9. \A u, w \in Threads :
           ConnOf[u] = ConnOf[w] /\ pc'[u] # "idle" /\ pc'[w] # "idle" => u = w
    BY <2>1, <2>2 DEF TypeOK, TableInv, Goto
  <2>10. OneToOne(rows)'
    BY <2>1 DEF TableInv, OneToOne, SameGroup
  <2> QED BY <2>5, <2>7, <2>8, <2>9, <2>10 DEF TableInv
<1>4. ASSUME NEW t \in Threads, InsertConflict(t) PROVE TableInv'
  <2> USE <1>4
  <2>1. /\ rows' = rows /\ EndTransaction(ConnOf[t]) /\ pc[t] = "insert"
        /\ pc' \in [Threads -> Points]
        /\ \A u \in Threads : u # t => pc'[u] = pc[u]
        /\ pc'[t] # "commit"
    BY DEF TypeOK, InsertConflict, NextRound, EndCalls, Goto, Points
  <2> QED
    BY <2>1
    DEF TypeOK, TableInv, EndTransaction, OneWriter, OneToOne, ViewsOneToOne, Visible,
        Writing, SameGroup
<1>5. ASSUME NEW t \in Threads, Commit(t) PROVE TableInv'
  <2> USE <1>5
  <2> DEFINE c == ConnOf[t]
  <2>1. /\ c \in Conns /\ pc[t] = "commit" /\ rows' = Visible(c)
        /\ EndTransaction(c) /\ Goto(t, "return")
    BY DEF Commit
  <2>2. \A d \in Conns : d # c => ~Writing(d) /\ open[d] = {}
    BY <2>1 DEF TableInv, OneWriter, Writing
  <2>3. \A d \in Conns : open'[d] = {} /\ ~Writing(d)'
    BY <2>1, <2>2 DEF TypeOK, EndTransaction, Writing
  <2>4. OneToOne(rows)'
    BY <2>1 DEF TableInv, ViewsOneToOne, OneToOne, SameGroup
  <2>5. ViewsOneToOne'
    BY <2>3, <2>4 DEF ViewsOneToOne, Visible, OneToOne, SameGroup
  <2>6. OneWriter'
    BY <2>3 DEF OneWriter, Writing
  <2>7. \A u \in Threads : pc'[u] # "commit"
    BY <2>1, <2>2 DEF TypeOK, TableInv, Goto
  <2> QED BY <2>1, <2>4, <2>5, <2>6, <2>7 DEF TypeOK, TableInv, Goto
<1>6. ASSUME NEW t \in Threads, Return(t) \/ ReadBusy(t) \/ InsertBusy(t)
      PROVE  TableInv'
  <2> USE <1>6
  <2>1. rows' = rows /\ open' = open /\ lock' = lock
    BY DEF Return, ReadBusy, InsertBusy, dbVars
  <2>2. \A u \in Threads : pc'[u] \in {"idle", pc[u]}
    BY DEF Return, ReadBusy, InsertBusy, EndCalls
  <2> QED
    BY <2>1, <2>2
    DEF TypeOK, TableInv, OneWriter, OneToOne, ViewsOneToOne, Visible, Writing, SameGroup
<1>7. ASSUME NEW t \in Threads, CommitBusy(t) PROVE TableInv'
  <2> USE <1>7
  <2>1. rows' = rows /\ open' = open /\ pc[t] = "commit"
    BY DEF CommitBusy
  <2>2. \A c \in Conns : Writing(c)' = Writing(c)
    BY <2>1 DEF CommitBusy, TypeOK, TableInv, Writing
  <2>3. \A u \in Threads : pc'[u] \in {"idle", pc[u]}
    BY DEF CommitBusy, EndCalls
  <2> QED
    BY <2>1, <2>2, <2>3
    DEF TypeOK, TableInv, OneWriter, OneToOne, ViewsOneToOne, Visible, Writing, SameGroup
<1>8. ASSUME NEW c \in Conns, Rehydrate(c) PROVE TableInv'
  <2> USE <1>8
  <2>1. rows' = rows /\ open' = open /\ pc' = pc
    BY DEF Rehydrate, callVars
  <2>2. \A d \in Conns : Writing(d)' = Writing(d)
    BY DEF Rehydrate, TypeOK, LockAfterRead, Writing
  <2>3. OneWriter'
    BY <2>1, <2>2 DEF TableInv, OneWriter, Writing
  <2>4. OneToOne(rows)' /\ ViewsOneToOne'
    BY <2>1 DEF TableInv, ViewsOneToOne, Visible, OneToOne, SameGroup
  <2>5. \A t \in Threads : pc'[t] = "commit" => Writing(ConnOf[t])'
    BY <2>1, <2>2, VaultAssumption DEF TableInv
  <2> QED BY <2>1, <2>3, <2>4, <2>5 DEF TableInv
<1>9. ASSUME NEW c \in Conns, Close(c) \/ Crash(c) PROVE TableInv'
  <2> USE <1>9
  <2>1. rows' = rows /\ EndTransaction(c)
    BY DEF Close, Crash
  <2>2. \A u \in Threads : pc'[u] \in {"idle", pc[u]}
    BY DEF Close, Crash, EndCalls, callVars
  <2>3. \A u \in Users(c) : pc'[u] = "idle"
    BY DEF Close, Crash, MutexFree, EndCalls, callVars, Users
  <2>4. \A d \in Conns : d # c => Writing(d)' = Writing(d) /\ open'[d] = open[d]
    BY <2>1 DEF TypeOK, EndTransaction, Writing
  <2>5. open'[c] = {} /\ ~Writing(c)'
    BY <2>1 DEF TypeOK, EndTransaction, Writing
  <2>6. OneWriter'
    BY <2>4, <2>5 DEF TableInv, OneWriter, Writing
  <2>7. OneToOne(rows)' /\ ViewsOneToOne'
    BY <2>1, <2>4, <2>5 DEF TableInv, ViewsOneToOne, Visible, OneToOne, SameGroup
  <2>8. \A u \in Threads : pc'[u] = "commit" => Writing(ConnOf[u])'
    BY <2>2, <2>3, <2>4 DEF TableInv, Users
  <2> QED BY <2>2, <2>6, <2>7, <2>8 DEF TableInv
<1>10. CASE UNCHANGED vars
  BY <1>10
  DEF TableInv, vars, dbVars, callVars, OneWriter, OneToOne, ViewsOneToOne, Visible,
      Writing, SameGroup
<1> QED
  BY <1>1, <1>2, <1>3, <1>4, <1>5, <1>6, <1>7, <1>8, <1>9, <1>10 DEF Next, Step

(* Whatever times out, no connection ever sees two rows that clash, and the *)
(* uncommitted rows of the whole system sit behind one write lock.          *)
THEOREM VaultTableConsistent == Spec => [](OneWriter /\ ViewsOneToOne)
<1>1. TypeInv => TypeOK
  BY DEF TypeInv
<1>2. TableInv => OneWriter /\ ViewsOneToOne
  BY DEF TableInv
<1> QED
  BY TypeInvInit, TypeInvStep, TableInvInit, TableInvStep, <1>1, <1>2, PTL DEF Spec

-----------------------------------------------------------------------------
(* What token_for promises its callers, proved for runs in which no wait    *)
(* for a lock exceeds the busy timeout.  With timeouts it is false: the     *)
(* run of StableToken shows how.                                            *)

(* The token a call is about to commit or to return. *)
Due(t) == RowFor(key[t], id[t])

(* An uncommitted row always belongs to a call that is about to commit it,  *)
(* and a token is returned only after its row is in the file.               *)
CallInv ==
    /\ \A t \in Threads : pc[t] = "commit" => open[ConnOf[t]] = {Due(t)}
    /\ \A t \in Threads : pc[t] = "return" => Due(t) \in rows
    /\ \A c \in Conns : open[c] # {} => \E t \in Users(c) : pc[t] = "commit"
    /\ IssuedDurable

LEMMA CallInvInit == Init => CallInv
BY VaultAssumption DEF Init, CallInv, IssuedDurable

(* A connection whose one running call is not at its COMMIT has nothing open. *)
LEMMA NothingOpen ==
  ASSUME TableInv, CallInv, NEW t \in Threads, pc[t] \notin {"idle", "commit"}
  PROVE  open[ConnOf[t]] = {} /\ Visible(ConnOf[t]) = rows
BY VaultAssumption DEF TableInv, CallInv, Users, Visible

(* A row is what its key and its number say. *)
LEMMA RowIsItsKey ==
  ASSUME NEW r \in Row, NEW k \in Keys, SameGroup(r, k), r.val = k.val
  PROVE  RowFor(k, r.id) = r
BY DEF Row, Keys, SameGroup, RowFor

LEMMA CallInvStep ==
  ASSUME LockTimeouts = FALSE
  PROVE  TypeInv /\ TableInv /\ CallInv /\ [Next]_vars => CallInv'
<1> SUFFICES ASSUME TypeInv, TableInv, CallInv, [Next]_vars PROVE CallInv'
  OBVIOUS
<1> USE VaultAssumption
<1>0. TypeOK
  BY DEF TypeInv
<1>1. ASSUME NEW t \in Threads, Begin(t) PROVE CallInv'
  <2> USE <1>1
  <2>1. /\ pc[t] = "idle" /\ pc' = [pc EXCEPT ![t] = "find"]
        /\ \A u \in Threads : u # t => key'[u] = key[u]
        /\ id' = id /\ rows' = rows /\ open' = open /\ issued' = issued
    BY <1>0 DEF Begin, Goto, dbVars, TypeOK
  <2>2. \A u \in Threads : u # t => pc'[u] = pc[u] /\ Due(u)' = Due(u)
    BY <1>0, <2>1 DEF TypeOK, Due, RowFor
  <2>3. pc'[t] = "find"
    BY <1>0, <2>1 DEF TypeOK
  <2> QED BY <2>1, <2>2, <2>3 DEF CallInv, IssuedDurable, Users
<1>2. ASSUME NEW t \in Threads, Find(t) \/ Number(t) PROVE CallInv'
  <2> USE <1>2
  <2>1. /\ pc[t] \in {"find", "number"} /\ pc'[t] \in {"number", "insert", "return"}
        /\ key' = key /\ rows' = rows /\ open' = open /\ issued' = issued
        /\ \A u \in Threads : u # t => pc'[u] = pc[u] /\ id'[u] = id[u]
    BY <1>0 DEF Find, Number, Goto, TypeOK
  <2>2. \A u \in Threads : u # t => Due(u)' = Due(u)
    BY <2>1 DEF Due, RowFor
  <2>3. pc'[t] = "return" => Due(t)' \in rows
    <3>1. SUFFICES ASSUME pc'[t] = "return" PROVE Due(t)' \in rows
      OBVIOUS
    <3>2. PICK r \in Matches(ConnOf[t], key[t]) : id' = [id EXCEPT ![t] = r.id]
      BY <1>0, <3>1 DEF Find, Number, Goto, TypeOK
    <3>3. r \in rows /\ SameGroup(r, key[t]) /\ r.val = key[t].val
      BY <2>1, <3>2, NothingOpen DEF Matches, Group
    <3>4. r \in Row /\ key[t] \in Keys
      BY <1>0, <2>1, <3>3 DEF TypeInv, TypeOK
    <3>5. Due(t)' = RowFor(key[t], r.id)
      BY <1>0, <2>1, <3>2 DEF Due, RowFor, TypeOK
    <3> QED BY <3>3, <3>4, <3>5, RowIsItsKey
  <2> QED BY <2>1, <2>2, <2>3 DEF CallInv, IssuedDurable, Users
<1>3. ASSUME NEW t \in Threads, Insert(t) PROVE CallInv'
  <2> USE <1>3
  <2> DEFINE c == ConnOf[t]
  <2>1. /\ c \in Conns /\ pc[t] = "insert"
        /\ pc' = [pc EXCEPT ![t] = "commit"]
        /\ open' = [open EXCEPT ![c] = @ \cup {Due(t)}]
        /\ rows' = rows /\ key' = key /\ id' = id /\ issued' = issued
    BY DEF Insert, Goto, Due
  <2>2. open'[c] = {Due(t)}
    BY <1>0, <2>1, NothingOpen DEF TypeOK
  <2>3. \A u \in Threads : Due(u)' = Due(u)
    BY <2>1 DEF Due, RowFor
  <2>4. \A u \in Threads : u # t /\ pc'[u] = "commit" => ConnOf[u] # c /\ pc[u] = "commit"
    BY <1>0, <2>1 DEF TypeOK, TableInv
  <2>5. \A d \in Conns : d # c => open'[d] = open[d]
    BY <1>0, <2>1 DEF TypeOK
  <2>6. t \in Users(c) /\ pc'[t] = "commit"
    BY <1>0, <2>1 DEF TypeOK, Users
  <2>7. \A u \in Threads : pc'[u] = "commit" => open'[ConnOf[u]] = {Due(u)'}
    BY <2>2, <2>3, <2>4, <2>5 DEF CallInv
  <2>8. \A d \in Conns : open'[d] # {} => \E u \in Users(d) : pc'[u] = "commit"
    BY <1>0, <2>1, <2>5, <2>6 DEF CallInv, TypeOK, Users
  <2>9. \A u \in Threads : pc'[u] = "return" => Due(u)' \in rows'
    BY <1>0, <2>1, <2>3 DEF CallInv, TypeOK
  <2> QED BY <2>1, <2>7, <2>8, <2>9 DEF CallInv, IssuedDurable
<1>4. ASSUME NEW t \in Threads, InsertConflict(t) PROVE CallInv'
  <2> USE <1>4
  <2>1. /\ pc[t] = "insert" /\ pc'[t] \in {"idle", "find"}
        /\ rows' = rows /\ issued' = issued
        /\ open' = [open EXCEPT ![ConnOf[t]] = {}]
        /\ \A u \in Threads : u # t => pc'[u] = pc[u] /\ key'[u] = key[u] /\ id'[u] = id[u]
    BY <1>0 DEF InsertConflict, EndTransaction, NextRound, EndCalls, Goto, TypeOK
  <2>2. open' = open
    BY <1>0, <2>1, NothingOpen DEF TypeOK
  <2>3. \A u \in Threads : u # t => Due(u)' = Due(u)
    BY <2>1 DEF Due, RowFor
  <2> QED BY <2>1, <2>2, <2>3 DEF CallInv, IssuedDurable, Users
<1>5. ASSUME NEW t \in Threads, Commit(t) PROVE CallInv'
  <2> USE <1>5
  <2> DEFINE c == ConnOf[t]
  <2>1. /\ c \in Conns /\ pc[t] = "commit" /\ pc' = [pc EXCEPT ![t] = "return"]
        /\ rows' = rows \cup open[c]
        /\ open' = [open EXCEPT ![c] = {}]
        /\ key' = key /\ id' = id /\ issued' = issued
    BY DEF Commit, EndTransaction, Goto, Visible
  <2>2. \A u \in Threads : Due(u)' = Due(u)
    BY <2>1 DEF Due, RowFor
  <2>3. Due(t)' \in rows' /\ rows \subseteq rows'
    BY <2>1, <2>2 DEF CallInv
  <2>4. \A u \in Threads : u # t /\ pc'[u] = "commit" => ConnOf[u] # c /\ pc[u] = "commit"
    BY <1>0, <2>1 DEF TypeOK, TableInv
  <2>5. \A d \in Conns : open'[d] # {} => d # c /\ open'[d] = open[d]
    BY <1>0, <2>1 DEF TypeOK
  <2>6. \A u \in Threads : pc'[u] = "commit" => open'[ConnOf[u]] = {Due(u)'}
    BY <1>0, <2>1, <2>2, <2>4 DEF CallInv, TypeOK
  <2>7. \A d \in Conns : open'[d] # {} => \E u \in Users(d) : pc'[u] = "commit"
    BY <1>0, <2>1, <2>5 DEF CallInv, TypeOK, Users
  <2>8. \A u \in Threads : pc'[u] = "return" => Due(u)' \in rows'
    BY <1>0, <2>1, <2>2, <2>3 DEF CallInv, TypeOK
  <2> QED BY <2>1, <2>3, <2>6, <2>7, <2>8 DEF CallInv, IssuedDurable
<1>6. ASSUME NEW t \in Threads, Return(t) PROVE CallInv'
  <2> USE <1>6
  <2>1. /\ pc[t] = "return" /\ pc'[t] = "idle"
        /\ rows' = rows /\ open' = open
        /\ issued' = issued \cup {Due(t)}
        /\ \A u \in Threads : u # t => pc'[u] = pc[u] /\ key'[u] = key[u] /\ id'[u] = id[u]
    BY <1>0 DEF Return, EndCalls, dbVars, Due
  <2>2. \A u \in Threads : u # t => Due(u)' = Due(u)
    BY <2>1 DEF Due, RowFor
  <2> QED BY <2>1, <2>2 DEF CallInv, IssuedDurable, Users
<1>7. ASSUME NEW t \in Threads, ReadBusy(t) \/ InsertBusy(t) \/ CommitBusy(t)
      PROVE  CallInv'
  BY <1>7 DEF ReadBusy, InsertBusy, CommitBusy
<1>8. ASSUME NEW c \in Conns, Rehydrate(c) PROVE CallInv'
  BY <1>8 DEF CallInv, Rehydrate, callVars, IssuedDurable, Due, RowFor, Users
<1>9. ASSUME NEW c \in Conns, Close(c) \/ Crash(c) PROVE CallInv'
  <2> USE <1>9
  <2>1. /\ rows' = rows /\ issued' = issued
        /\ open' = [open EXCEPT ![c] = {}]
        /\ \A u \in Threads : u \notin Users(c) =>
               pc'[u] = pc[u] /\ key'[u] = key[u] /\ id'[u] = id[u]
        /\ \A u \in Users(c) : pc'[u] = "idle"
    BY DEF Close, Crash, EndTransaction, EndCalls, callVars, MutexFree, Users
  <2>2. \A u \in Threads : u \notin Users(c) => Due(u)' = Due(u)
    BY <2>1 DEF Due, RowFor
  <2>3. \A d \in Conns : open'[d] = IF d = c THEN {} ELSE open[d]
    BY <1>0, <2>1 DEF TypeOK
  <2> QED BY <2>1, <2>2, <2>3 DEF CallInv, IssuedDurable, Users
<1>10. CASE UNCHANGED vars
  BY <1>10
  DEF CallInv, vars, dbVars, callVars, IssuedDurable, Due, RowFor, Users
<1> QED
  BY <1>1, <1>2, <1>3, <1>4, <1>5, <1>6, <1>7, <1>8, <1>9, <1>10 DEF Next, Step

LEMMA VaultInvariant ==
  ASSUME LockTimeouts = FALSE
  PROVE  Spec => [](TypeInv /\ TableInv /\ CallInv)
<1>1. TypeInv => TypeOK
  BY DEF TypeInv
<1> QED
  BY TypeInvInit, TypeInvStep, TableInvInit, TableInvStep, CallInvInit, CallInvStep,
     <1>1, PTL DEF Spec

(* Every token token_for ever returned is in the file. *)
THEOREM VaultIssuedDurable ==
  ASSUME LockTimeouts = FALSE
  PROVE  Spec => []IssuedDurable
<1>1. CallInv => IssuedDurable
  BY DEF CallInv
<1> QED BY VaultInvariant, <1>1, PTL

(* Two processes that tokenize at the same time never share a token between *)
(* two values nor give one value two tokens.                                *)
THEOREM VaultNoDoubleBooking ==
  ASSUME LockTimeouts = FALSE
  PROVE  Spec => []NoDoubleBooking
<1>1. TableInv /\ CallInv => NoDoubleBooking
  BY DEF TableInv, CallInv, IssuedDurable, NoDoubleBooking, OneToOne
<1> QED BY VaultInvariant, <1>1, PTL

(* Every token gives back the value it was returned for, on every connection *)
(* of its scope and at every moment.                                         *)
THEOREM VaultRehydrateFaithful ==
  ASSUME LockTimeouts = FALSE
  PROVE  Spec => []RehydrateFaithful
<1>1. ASSUME TypeInv, TableInv, CallInv PROVE RehydrateFaithful
  <2> SUFFICES ASSUME NEW r \in issued, NEW c \in Conns, ScopeOf[c] = r.scope
               PROVE  Lookup(c, r.label, r.id) = {r.val}
    BY DEF RehydrateFaithful
  <2>1. r \in Visible(c)
    BY <1>1 DEF CallInv, IssuedDurable, Visible
  <2>2. ASSUME NEW s \in Visible(c),
               s.scope = ScopeOf[c], s.label = r.label, s.id = r.id
        PROVE  s = r
    BY <1>1, <2>1, <2>2 DEF TableInv, ViewsOneToOne, OneToOne, SameGroup
  <2> QED BY <2>1, <2>2 DEF Lookup
<1> QED BY VaultInvariant, <1>1, PTL

(* The vault is a coat check. *)
THEOREM VaultImplementsCoatCheck ==
  ASSUME LockTimeouts = FALSE
  PROVE  Spec => ImplementsCoatCheck
<1> USE VaultAssumption
<1>1. Init => Abstract!Init
  BY DEF Init, Abstract!Init
<1>2. TypeInv /\ TableInv /\ CallInv /\ (TypeInv /\ TableInv)' /\ [Next]_vars
        => [Abstract!Next]_(Abstract!vars)
  <2> SUFFICES ASSUME TypeInv, TableInv, CallInv, (TypeInv /\ TableInv)', [Next]_vars
               PROVE  [Abstract!Next]_(Abstract!vars)
    OBVIOUS
  <2>1. ASSUME NEW t \in Threads, Commit(t) PROVE Abstract!Mint
    <3> DEFINE c == ConnOf[t]
    <3>1. rows' = rows \cup {Due(t)} /\ issued' = issued
      BY <2>1 DEF Commit, Visible, CallInv
    <3>2. rows' \in SUBSET Abstract!Ticket
      BY DEF TypeInv, TypeOK, Row, Abstract!Ticket
    <3>3. Abstract!OneToOne(rows')
      BY DEF TableInv, OneToOne, SameGroup, Abstract!OneToOne, Abstract!SameGroup
    <3> QED BY <3>1, <3>2, <3>3 DEF Abstract!Mint
  <2>2. ASSUME NEW t \in Threads, Return(t) PROVE Abstract!HandOut
    <3>1. issued' = issued \cup {Due(t)} /\ rows' = rows
      BY <2>2 DEF Return, dbVars, Due
    <3>2. Due(t) \in rows
      BY <2>2 DEF Return, CallInv
    <3> QED BY <3>1, <3>2 DEF Abstract!HandOut
  <2>3. ASSUME NEW t \in Threads,
               \/ Begin(t) \/ Find(t) \/ Number(t) \/ Insert(t) \/ InsertConflict(t)
               \/ ReadBusy(t) \/ InsertBusy(t) \/ CommitBusy(t)
        PROVE  UNCHANGED <<rows, issued>>
    BY <2>3
    DEF Begin, Find, Number, Insert, InsertConflict, ReadBusy, InsertBusy, CommitBusy,
        dbVars
  <2>4. ASSUME NEW c \in Conns, Rehydrate(c) \/ Close(c) \/ Crash(c)
        PROVE  UNCHANGED <<rows, issued>>
    BY <2>4 DEF Rehydrate, Close, Crash
  <2>5. CASE UNCHANGED vars
    BY <2>5 DEF vars, dbVars, Abstract!vars
  <2> QED
    BY <2>1, <2>2, <2>3, <2>4, <2>5 DEF Next, Step, Abstract!Next, Abstract!vars
<1> QED BY VaultInvariant, <1>1, <1>2, PTL DEF Spec, Abstract!Spec, ImplementsCoatCheck

(* What that is worth to a caller: whatever is a coat check never forgets a  *)
(* token, holds a row for each that was handed out, and is one to one.       *)
THEOREM CoatCheckPromises ==
  ImplementsCoatCheck =>
      /\ [](OneToOne(rows) /\ issued \subseteq rows)
      /\ [][rows \subseteq rows' /\ issued \subseteq issued']_<<rows, issued>>
<1> DEFINE Promise == OneToOne(rows) /\ issued \subseteq rows
           Growth == rows \subseteq rows' /\ issued \subseteq issued'
<1>1. Abstract!Init => Promise
  BY DEF Abstract!Init, OneToOne
<1>2. [Abstract!Next]_(Abstract!vars) => [Growth]_<<rows, issued>>
  BY DEF Abstract!Next, Abstract!Mint, Abstract!HandOut, Abstract!vars
<1>3. Promise /\ [Abstract!Next]_(Abstract!vars) => Promise'
  <2> SUFFICES ASSUME Promise, [Abstract!Next]_(Abstract!vars) PROVE Promise'
    OBVIOUS
  <2>1. CASE Abstract!Mint
    BY <2>1 DEF Abstract!Mint, OneToOne, SameGroup, Abstract!OneToOne, Abstract!SameGroup
  <2>2. CASE Abstract!HandOut
    BY <2>2 DEF Abstract!HandOut, OneToOne
  <2>3. CASE UNCHANGED Abstract!vars
    BY <2>3 DEF Abstract!vars, OneToOne
  <2> QED BY <2>1, <2>2, <2>3 DEF Abstract!Next
<1> HIDE DEF Promise, Growth
<1>4. Abstract!Spec => []Promise /\ [][Growth]_<<rows, issued>>
  BY <1>1, <1>2, <1>3, PTL DEF Abstract!Spec
<1> QED BY <1>4 DEF ImplementsCoatCheck, Promise, Growth

-----------------------------------------------------------------------------
(* The numbers of tokens and the rounds of the retry loop, proved for runs   *)
(* in which no wait for a lock exceeds the busy timeout.                     *)

(* Every number below that of thread t is taken in its group.               *)
BelowTaken(t) == \A n \in 1 .. id[t] - 1 : \E s \in Group(rows, key[t]) : s.id = n

GapInv ==
    /\ NoGaps
    /\ \A t \in Threads : pc[t] \in {"insert", "commit"} => BelowTaken(t)

(* MAX + 1 is above all the numbers of the group; it is 1, or MAX is one.   *)
LEMMA NextIdIsMaxPlusOne ==
  ASSUME TypeInv, NEW k
  PROVE  /\ NextId(rows, k) \in Nat \ {0}
         /\ \A r \in Group(rows, k) : r.id < NextId(rows, k)
         /\ NextId(rows, k) = 1 \/ \E r \in Group(rows, k) : r.id = NextId(rows, k) - 1
<1> DEFINE ids == {r.id : r \in Group(rows, k)} \cup {0}
<1>1. PICK b \in Nat : \A r \in rows : r.id <= b
  BY DEF TypeInv, Tables
<1>2. rows \subseteq Row
  BY DEF TypeInv, TypeOK
<1>3. ids \in SUBSET Nat /\ ids # {} /\ \A x \in ids : x <= b
  BY <1>1, <1>2 DEF Group, Row
<1>4. Max(ids) \in ids /\ \A x \in ids : x <= Max(ids)
  <2> HIDE DEF ids
  <2> QED BY <1>3, MaxOfBounded
<1>5. NextId(rows, k) = Max(ids) + 1
  BY DEF NextId
<1> HIDE DEF NextId
<1>6. \A r \in Group(rows, k) : r.id \in ids
  OBVIOUS
<1>7. Max(ids) = 0 \/ \E r \in Group(rows, k) : r.id = Max(ids)
  BY <1>4
<1> HIDE DEF ids
<1>8. Max(ids) \in Nat
  BY <1>3, <1>4
<1>9. \A r \in Group(rows, k) : r.id \in Nat /\ r.id <= Max(ids)
  BY <1>3, <1>4, <1>6
<1> QED BY <1>5, <1>7, <1>8, <1>9

(* A statement of t, its COMMIT apart, neither changes the table nor the     *)
(* call of another thread.                                                   *)
LEMMA OthersUnmoved ==
  ASSUME TypeOK, NEW t \in Threads, NEW u \in Threads, u # t,
         Begin(t) \/ Find(t) \/ Number(t) \/ Insert(t) \/ InsertConflict(t) \/ Return(t)
  PROVE  /\ rows' = rows
         /\ pc'[u] = pc[u] /\ key'[u] = key[u] /\ id'[u] = id[u]
         /\ tries'[u] = tries[u] /\ start'[u] = start[u]
<1> USE DEF TypeOK, Goto
<1>1. CASE Begin(t)
  BY <1>1 DEF Begin, dbVars
<1>2. CASE Find(t)
  BY <1>2 DEF Find
<1>3. CASE Number(t)
  BY <1>3 DEF Number
<1>4. CASE Insert(t)
  BY <1>4 DEF Insert
<1>5. CASE InsertConflict(t)
  <2>1. CASE NextRound(t)
    BY <1>5, <2>1 DEF InsertConflict, NextRound
  <2>2. CASE EndCalls({t})
    BY <1>5, <2>2 DEF InsertConflict, EndCalls
  <2> QED BY <1>5, <2>1, <2>2 DEF InsertConflict
<1>6. CASE Return(t)
  BY <1>6 DEF Return, EndCalls, dbVars
<1> QED BY <1>1, <1>2, <1>3, <1>4, <1>5, <1>6

LEMMA GapStep ==
  ASSUME LockTimeouts = FALSE
  PROVE  TypeInv /\ TableInv /\ CallInv /\ GapInv /\ [Next]_vars => GapInv'
<1> SUFFICES ASSUME TypeInv, TableInv, CallInv, GapInv, [Next]_vars PROVE GapInv'
  OBVIOUS
<1> USE VaultAssumption
<1>0. TypeOK /\ rows \subseteq Row
  BY DEF TypeInv, TypeOK
(* Nothing is committed, and who is at its INSERT or its COMMIT was so before. *)
<1>1. ASSUME rows' = rows,
             \A t \in Threads : pc'[t] \in {"insert", "commit"} =>
                 pc[t] \in {"insert", "commit"} /\ key'[t] = key[t] /\ id'[t] = id[t]
      PROVE  GapInv'
  BY <1>1 DEF GapInv, NoGaps, BelowTaken
<1>2. ASSUME NEW t \in Threads,
             Begin(t) \/ Find(t) \/ Insert(t) \/ InsertConflict(t) \/ Return(t)
      PROVE  GapInv'
  <2>1. rows' = rows
    BY <1>2 DEF Begin, Find, Insert, InsertConflict, Return, dbVars
  <2>2. pc'[t] \in {"insert", "commit"} =>
            pc[t] \in {"insert", "commit"} /\ key'[t] = key[t] /\ id'[t] = id[t]
    <3>1. CASE Begin(t) \/ Find(t)
      BY <1>0, <3>1 DEF Begin, Find, Goto, TypeOK
    <3>2. CASE Insert(t)
      BY <1>0, <3>2 DEF Insert, Goto, TypeOK
    <3>3. CASE InsertConflict(t) \/ Return(t)
      BY <1>0, <3>3 DEF InsertConflict, Return, NextRound, EndCalls, Goto, TypeOK
    <3> QED BY <1>2, <3>1, <3>2, <3>3
  <2>3. \A u \in Threads : u # t => pc'[u] = pc[u] /\ key'[u] = key[u] /\ id'[u] = id[u]
    BY <1>0, <1>2, OthersUnmoved
  <2> QED BY <1>1, <2>1, <2>2, <2>3
<1>3. ASSUME NEW t \in Threads, Number(t) PROVE GapInv'
  <2>1. /\ pc[t] = "number" /\ rows' = rows /\ key' = key
        /\ id' = [id EXCEPT ![t] = NextId(Visible(ConnOf[t]), key[t])]
        /\ pc' = [pc EXCEPT ![t] = "insert"]
    BY <1>3 DEF Number, Goto
  <2>2. id'[t] = NextId(rows, key[t])
    BY <1>0, <2>1, NothingOpen DEF TypeOK
  <2>3. ASSUME NEW n \in 1 .. id'[t] - 1 PROVE \E s \in Group(rows, key[t]) : s.id = n
    <3>1. PICK r \in Group(rows, key[t]) : r.id = NextId(rows, key[t]) - 1
      BY <2>2, <2>3, NextIdIsMaxPlusOne
    <3>2. r \in rows /\ SameGroup(r, key[t]) /\ n \in 1 .. r.id
      BY <2>2, <2>3, <3>1 DEF Group
    <3>3. PICK s \in Group(rows, r) : s.id = n
      BY <3>2 DEF GapInv, NoGaps
    <3> QED BY <3>2, <3>3 DEF Group, SameGroup
  <2>4. \A u \in Threads : u # t => pc'[u] = pc[u] /\ id'[u] = id[u]
    BY <1>0, <2>1 DEF TypeOK
  <2> QED BY <2>1, <2>3, <2>4 DEF GapInv, NoGaps, BelowTaken
<1>4. ASSUME NEW t \in Threads, Commit(t) PROVE GapInv'
  <2>1. /\ pc[t] = "commit" /\ pc' = [pc EXCEPT ![t] = "return"] /\ key' = key /\ id' = id
        /\ rows' = rows \cup {Due(t)}
    BY <1>4 DEF Commit, Goto, Visible, CallInv
  <2>2. key[t] \in Keys /\ id[t] \in Nat \ {0}
    BY <1>0, <2>1 DEF TypeInv, TypeOK
  <2>3. Due(t).id = id[t] /\ SameGroup(Due(t), key[t])
    BY <2>2 DEF Due, RowFor, SameGroup, Keys
  <2>4. \A k : Group(rows, k) \subseteq Group(rows', k)
    BY <2>1 DEF Group
  <2>5. ASSUME NEW r \in rows', NEW n \in 1 .. r.id PROVE \E s \in Group(rows', r) : s.id = n
    <3>1. CASE r \in rows
      BY <2>4, <2>5, <3>1 DEF GapInv, NoGaps
    <3>2. CASE r = Due(t) /\ n = id[t]
      BY <2>1, <2>3, <3>2 DEF Group, SameGroup
    <3>3. CASE r = Due(t) /\ n # id[t]
      <4>1. n \in 1 .. id[t] - 1
        BY <2>2, <2>3, <3>3
      <4>2. PICK s \in Group(rows, key[t]) : s.id = n
        BY <2>1, <4>1 DEF GapInv, BelowTaken
      <4> QED BY <2>1, <2>3, <3>3, <4>2 DEF Group, SameGroup
    <3> QED BY <2>1, <3>1, <3>2, <3>3
  <2>6. \A u \in Threads : pc'[u] \in {"insert", "commit"} => pc[u] \in {"insert", "commit"}
    BY <1>0, <2>1 DEF TypeOK
  <2>7. NoGaps'
    BY <2>5 DEF NoGaps
  <2>8. ASSUME NEW u \in Threads, pc'[u] \in {"insert", "commit"} PROVE BelowTaken(u)'
    <3>1. BelowTaken(u) /\ key'[u] = key[u] /\ id'[u] = id[u]
      BY <2>1, <2>6, <2>8 DEF GapInv
    <3> QED BY <2>4, <3>1 DEF BelowTaken
  <2> QED BY <2>7, <2>8 DEF GapInv
<1>5. ASSUME NEW t \in Threads, ReadBusy(t) \/ InsertBusy(t) \/ CommitBusy(t) PROVE GapInv'
  BY <1>5 DEF ReadBusy, InsertBusy, CommitBusy
<1>6. ASSUME NEW c \in Conns, Rehydrate(c) \/ Close(c) \/ Crash(c) PROVE GapInv'
  BY <1>0, <1>1, <1>6 DEF Rehydrate, Close, Crash, EndCalls, callVars, TypeOK
<1>7. CASE UNCHANGED vars
  BY <1>1, <1>7 DEF vars, dbVars, callVars
<1> QED BY <1>2, <1>3, <1>4, <1>5, <1>6, <1>7 DEF Next, Step

(* The numbers of the tokens of a scope and label run from 1 without a gap,  *)
(* although MAX + 1 is read a statement before it is used and conflicting    *)
(* rounds are thrown away.                                                   *)
THEOREM VaultNoGaps ==
  ASSUME LockTimeouts = FALSE
  PROVE  Spec => []NoGaps
<1>1. Init => GapInv
  BY DEF Init, GapInv, NoGaps
<1>2. GapInv => NoGaps
  BY DEF GapInv
<1> QED BY VaultInvariant, GapStep, <1>1, <1>2, PTL DEF Spec

-----------------------------------------------------------------------------
(* Lost rounds.                                                             *)

(* The rounds t has lost, and the rows its group had when its call began.   *)
Spent(t) == tries[t] + start[t]

(* The rows its group has.                                                  *)
Rivals(t) == Cardinality(Group(rows, key[t]))

(* The round of t is lost already.                                          *)
Lost(t) ==
    \/ pc[t] = "number" /\ \E r \in Group(rows, key[t]) : r.val = key[t].val
    \/ pc[t] = "insert" /\ Conflicts(rows, Due(t))

(* No round is lost but to a rival, the one t is in not excepted.           *)
Accounted(t) ==
    IF pc[t] = "idle" THEN tries[t] = 0
    ELSE Spent(t) <= Rivals(t) /\ (Lost(t) => Spent(t) + 1 <= Rivals(t))

RoundsInv == \A t \in Threads : Accounted(t)

(* A row that is committed adds one to the rows of its group.               *)
LEMMA GroupGrows ==
  ASSUME TypeInv, NEW x, NEW k
  PROVE  LET g == Group(rows \cup {x}, k) IN
         /\ Cardinality(Group(rows, k)) \in Nat
         /\ \/ g = Group(rows, k)
            \/ Cardinality(g) = Cardinality(Group(rows, k)) + 1
<1>1. IsFiniteSet(Group(rows, k)) /\ Cardinality(Group(rows, k)) \in Nat
  BY GroupFinite DEF TypeInv
<1>2. CASE x \in Group(rows, k) \/ ~SameGroup(x, k)
  <2>1. Group(rows \cup {x}, k) = Group(rows, k)
    BY <1>2 DEF Group
  <2> QED BY <1>1, <2>1
<1>3. CASE x \notin Group(rows, k) /\ SameGroup(x, k)
  <2>1. Group(rows \cup {x}, k) = Group(rows, k) \cup {x}
    BY <1>3 DEF Group
  <2>2. Cardinality(Group(rows, k) \cup {x}) = Cardinality(Group(rows, k)) + 1
    BY <1>1, <1>3, FS_AddElement
  <2> QED BY <1>1, <2>1, <2>2
<1> QED BY <1>2, <1>3

(* A thread that is idle again, or whose call nothing has happened to.      *)
LEMMA StillAccounted ==
  ASSUME NEW u \in Threads, Accounted(u), rows' = rows,
         \/ pc'[u] = "idle" /\ tries'[u] = 0
         \/ /\ pc'[u] = pc[u] /\ key'[u] = key[u] /\ id'[u] = id[u]
            /\ tries'[u] = tries[u] /\ start'[u] = start[u]
  PROVE  Accounted(u)'
<1>1. CASE pc'[u] = "idle" /\ tries'[u] = 0
  BY <1>1 DEF Accounted
<1>2. CASE /\ pc'[u] = pc[u] /\ key'[u] = key[u] /\ id'[u] = id[u]
           /\ tries'[u] = tries[u] /\ start'[u] = start[u]
  <2>1. Spent(u)' = Spent(u) /\ Rivals(u)' = Rivals(u) /\ Due(u)' = Due(u)
    BY <1>2 DEF Spent, Rivals, Due, RowFor
  <2>2. Lost(u)' => Lost(u)
    BY <1>2, <2>1 DEF Lost
  <2> QED BY <1>2, <2>1, <2>2 DEF Accounted
<1> QED BY <1>1, <1>2

LEMMA RoundsStep ==
  ASSUME LockTimeouts = FALSE
  PROVE  TypeInv /\ TableInv /\ CallInv /\ RoundsInv /\ [Next]_vars => RoundsInv'
<1> SUFFICES ASSUME TypeInv, TableInv, CallInv, RoundsInv, [Next]_vars, NEW u \in Threads
             PROVE  Accounted(u)'
  BY DEF RoundsInv
<1> USE VaultAssumption
<1>0. TypeOK /\ Accounted(u)
  BY DEF TypeInv, RoundsInv
<1>a. Rivals(u) \in Nat /\ Spent(u) \in Nat
  BY <1>0, GroupFinite DEF TypeInv, TypeOK, Rivals, Spent
<1>1. ASSUME NEW t \in Threads, t # u,
             Begin(t) \/ Find(t) \/ Number(t) \/ Insert(t) \/ InsertConflict(t) \/ Return(t)
      PROVE  Accounted(u)'
  BY <1>0, <1>1, OthersUnmoved, StillAccounted
<1>2. CASE Begin(u)
  <2>1. PICK k : key' = [key EXCEPT ![u] = k]
                 /\ start' = [start EXCEPT ![u] = Cardinality(Group(rows, k))]
    BY <1>2 DEF Begin
  <2>2. rows' = rows /\ tries' = tries /\ pc' = [pc EXCEPT ![u] = "find"] /\ pc[u] = "idle"
    BY <1>2 DEF Begin, Goto, dbVars
  <2>3. Spent(u)' = Cardinality(Group(rows, k)) /\ Rivals(u)' = Cardinality(Group(rows, k))
        /\ Cardinality(Group(rows, k)) \in Nat
    <3>1. Cardinality(Group(rows, k)) \in Nat
      BY GroupFinite DEF TypeInv
    <3>2. tries'[u] = 0 /\ start'[u] = Cardinality(Group(rows, k)) /\ key'[u] = k
      BY <1>0, <2>1, <2>2 DEF Accounted, TypeOK
    <3> QED BY <2>2, <3>1, <3>2 DEF Spent, Rivals
  <2>4. pc'[u] = "find"
    BY <1>0, <2>2 DEF TypeOK
  <2> QED BY <2>3, <2>4 DEF Accounted, Lost
<1>3. CASE Find(u)
  <2>1. /\ pc[u] = "find" /\ pc'[u] \in {"number", "return"}
        /\ rows' = rows /\ key' = key /\ tries' = tries /\ start' = start
        /\ pc'[u] = "number" => Matches(ConnOf[u], key[u]) = {}
    BY <1>0, <1>3 DEF Find, Goto, TypeOK
  <2>2. ~Lost(u)'
    BY <2>1, NothingOpen DEF Lost, Matches
  <2>3. Spent(u)' = Spent(u) /\ Rivals(u)' = Rivals(u)
    BY <2>1 DEF Spent, Rivals
  <2> QED BY <1>0, <2>1, <2>2, <2>3 DEF Accounted
<1>4. CASE Number(u)
  <2>1. /\ pc[u] = "number" /\ pc'[u] = "insert"
        /\ rows' = rows /\ key' = key /\ tries' = tries /\ start' = start
        /\ id'[u] = NextId(Visible(ConnOf[u]), key[u])
    BY <1>0, <1>4 DEF Number, Goto, TypeOK
  <2>2. id'[u] = NextId(rows, key[u]) /\ key[u] \in Keys
    BY <2>1, NothingOpen DEF TypeInv
  <2>3. Spent(u)' = Spent(u) /\ Rivals(u)' = Rivals(u)
    BY <2>1 DEF Spent, Rivals
  <2>4. Lost(u)' => Lost(u)
    <3>1. SUFFICES ASSUME Conflicts(rows, RowFor(key[u], id'[u])) PROVE Lost(u)
      BY <2>1 DEF Lost, Due
    <3>2. PICK s \in Group(rows, RowFor(key[u], id'[u])) : s.val = key[u].val \/ s.id = id'[u]
      BY <3>1 DEF Conflicts, RowFor
    <3>3. s \in Group(rows, key[u])
      BY <3>2 DEF Group, SameGroup, RowFor
    <3>4. s \in Row
      BY <1>0, <3>3 DEF Group, TypeOK
    <3>5. s.id \in Nat /\ s.id < id'[u] /\ id'[u] \in Nat
      BY <2>2, <3>3, <3>4, NextIdIsMaxPlusOne DEF Row
    <3>6. s.val = key[u].val
      BY <3>2, <3>5
    <3> QED BY <2>1, <3>3, <3>6 DEF Lost
  <2> QED BY <1>0, <2>1, <2>3, <2>4 DEF Accounted
<1>5. CASE Insert(u)
  <2>1. /\ pc[u] = "insert" /\ pc'[u] = "commit"
        /\ rows' = rows /\ key' = key /\ tries' = tries /\ start' = start
    BY <1>0, <1>5 DEF Insert, Goto, TypeOK
  <2>2. Spent(u)' = Spent(u) /\ Rivals(u)' = Rivals(u)
    BY <2>1 DEF Spent, Rivals
  <2> QED BY <1>0, <2>1, <2>2 DEF Accounted, Lost
<1>6. CASE InsertConflict(u)
  <2>1. pc[u] = "insert" /\ rows' = rows /\ Conflicts(Visible(ConnOf[u]), Due(u))
    BY <1>6 DEF InsertConflict, Due
  <2>2. Spent(u) + 1 <= Rivals(u)
    BY <1>0, <2>1, NothingOpen DEF Accounted, Lost
  <2>3. CASE NextRound(u)
    <3>1. pc'[u] = "find" /\ tries'[u] = tries[u] + 1 /\ start' = start /\ key' = key
      BY <1>0, <2>3 DEF NextRound, Goto, TypeOK
    <3>2. Spent(u)' = Spent(u) + 1 /\ Rivals(u)' = Rivals(u)
      BY <1>0, <2>1, <3>1 DEF Spent, Rivals, TypeOK
    <3> QED BY <2>2, <3>1, <3>2 DEF Accounted, Lost
  <2>4. CASE EndCalls({u})
    BY <2>4 DEF EndCalls, Accounted
  <2> QED BY <1>6, <2>3, <2>4 DEF InsertConflict
<1>7. CASE Return(u)
  BY <1>7 DEF Return, EndCalls, Accounted
<1>8. ASSUME NEW t \in Threads, Commit(t) PROVE Accounted(u)'
  <2>1. /\ pc[t] = "commit" /\ pc' = [pc EXCEPT ![t] = "return"] /\ rows' = rows \cup {Due(t)}
        /\ key' = key /\ id' = id /\ tries' = tries /\ start' = start
    BY <1>8 DEF Commit, Goto, Visible, CallInv
  <2>2. Spent(u)' = Spent(u) /\ Due(u)' = Due(u) /\ Rivals(u)' = Cardinality(Group(rows', key[u]))
    BY <2>1 DEF Spent, Due, RowFor, Rivals
  <2>3. pc'[u] # "idle" => pc[u] # "idle"
    BY <1>0, <2>1 DEF TypeOK
  <2>4. CASE Group(rows', key[u]) = Group(rows, key[u])
    <3>1. Group(rows', Due(u)) = Group(rows, Due(u))
      BY <2>4 DEF Group, SameGroup, Due, RowFor
    <3>2. Lost(u)' => Lost(u)
      BY <1>0, <2>1, <2>2, <2>4, <3>1 DEF Lost, Conflicts, TypeOK
    <3> QED BY <1>0, <2>1, <2>2, <2>3, <2>4, <3>2 DEF Accounted, Rivals
  <2>5. CASE Cardinality(Group(rows', key[u])) = Rivals(u) + 1
    BY <1>0, <1>a, <2>1, <2>2, <2>3, <2>5 DEF Accounted
  <2> QED BY <2>1, <2>4, <2>5, GroupGrows DEF Rivals
<1>9. ASSUME NEW t \in Threads, ReadBusy(t) \/ InsertBusy(t) \/ CommitBusy(t) PROVE Accounted(u)'
  BY <1>9 DEF ReadBusy, InsertBusy, CommitBusy
<1>10. ASSUME NEW c \in Conns, Rehydrate(c) \/ Close(c) \/ Crash(c) PROVE Accounted(u)'
  <2>1. /\ rows' = rows
        /\ \/ pc'[u] = "idle" /\ tries'[u] = 0
           \/ /\ pc'[u] = pc[u] /\ key'[u] = key[u] /\ id'[u] = id[u]
              /\ tries'[u] = tries[u] /\ start'[u] = start[u]
    BY <1>10 DEF Rehydrate, Close, Crash, EndCalls, callVars
  <2> QED BY <1>0, <2>1, StillAccounted
<1>11. CASE UNCHANGED vars
  BY <1>0, <1>11, StillAccounted DEF vars, dbVars, callVars
<1> QED
  BY <1>1, <1>2, <1>3, <1>4, <1>5, <1>6, <1>7, <1>8, <1>9, <1>10, <1>11 DEF Next, Step

(* A round of the retry loop is lost only to a row that another call has     *)
(* committed meanwhile: nobody fails with "repeated conflicts" for less than *)
(* MaxTries other mints in his group.                                        *)
THEOREM VaultRoundsNeedRivals ==
  ASSUME LockTimeouts = FALSE
  PROVE  Spec => []RoundsNeedRivals
<1>1. Init => RoundsInv
  BY DEF Init, RoundsInv, Accounted
<1>2. RoundsInv => RoundsNeedRivals
  BY DEF RoundsInv, Accounted, RoundsNeedRivals, Spent, Rivals
<1> QED BY VaultInvariant, RoundsStep, <1>1, <1>2, PTL DEF Spec

-----------------------------------------------------------------------------
(* Every call of token_for gets to its end, as far as it is safety: it has   *)
(* a bounded number of statements before it, each takes it on, and there is  *)
(* always one that can be executed.  That threads run is fairness, and TLC's *)
(* CallsEnd has both together.                                               *)

Ahead == [find |-> 5, number |-> 4, insert |-> 3, commit |-> 2, return |-> 1]

(* The most statements t's call can still execute: a round is a SELECT by    *)
(* value, one of MAX and an INSERT.                                          *)
Left(t) ==
    IF pc[t] = "idle" THEN 0 ELSE 3 * (MaxTries - 1 - tries[t]) + Ahead[pc[t]]

(* Each statement of a call, also one that fails or times out, leaves fewer  *)
(* to come, and nothing that anybody else does leaves more.                  *)
CallsShrink ==
    [][\A t \in Threads :
           /\ Left(t) \in 0 .. 3 * MaxTries + 2
           /\ Step(t) => Left(t)' < Left(t)
           /\ pc[t] # "idle" /\ ~Step(t) => Left(t)' <= Left(t)]_vars

LEMMA LeftType ==
  ASSUME TypeOK, NEW t \in Threads
  PROVE  /\ Left(t) \in 0 .. 3 * MaxTries + 2
         /\ pc[t] # "idle" => Left(t) > 0 /\ Ahead[pc[t]] \in 1 .. 5
<1>1. pc[t] \in Points /\ tries[t] \in 0 .. MaxTries - 1 /\ MaxTries \in Nat \ {0}
  BY VaultAssumption DEF TypeOK
<1>2. pc[t] # "idle" => Ahead[pc[t]] \in 1 .. 5
  BY <1>1 DEF Points, Ahead
<1>3. PICK n \in Int : n = MaxTries - 1 - tries[t]
  BY <1>1
<1>4. n \in 0 .. MaxTries - 1
  BY <1>1, <1>3
<1>5. CASE pc[t] = "idle"
  BY <1>1, <1>5 DEF Left
<1>6. CASE pc[t] # "idle"
  <2>1. PICK a \in 1 .. 5 : a = Ahead[pc[t]]
    BY <1>2, <1>6
  <2>2. Left(t) = 3 * n + a
    BY <1>3, <1>6, <2>1 DEF Left
  <2> QED BY <1>1, <1>2, <1>4, <2>2
<1> QED BY <1>5, <1>6

(* The statement after this one in the same round. *)
LEMMA NextStatement ==
  ASSUME TypeOK, NEW t \in Threads, NEW p \in Points, pc[t] # "idle", p # "idle",
         pc' = [pc EXCEPT ![t] = p], tries' = tries, Ahead[p] < Ahead[pc[t]]
  PROVE  Left(t)' < Left(t)
<1>1. pc'[t] = p /\ tries'[t] = tries[t] /\ pc[t] \in Points /\ tries[t] \in Int /\ MaxTries \in Int
  BY VaultAssumption DEF TypeOK
<1>2. Ahead[p] \in Int /\ Ahead[pc[t]] \in Int
  BY <1>1 DEF Ahead, Points
<1>3. PICK n \in Int : n = 3 * (MaxTries - 1 - tries[t])
  BY <1>1
<1>4. Left(t) = n + Ahead[pc[t]] /\ Left(t)' = n + Ahead[p]
  BY <1>1, <1>3 DEF Left
<1> QED BY <1>2, <1>4

LEMMA StepShrinks ==
  ASSUME TypeOK, NEW t \in Threads, Step(t)
  PROVE  Left(t)' < Left(t)
<1>1. pc[t] # "idle"
  BY DEF Step, Find, Number, Insert, InsertConflict, Commit, Return, ReadBusy, InsertBusy,
         CommitBusy
<1>2. Left(t) \in Nat /\ Left(t) > 0
  BY <1>1, LeftType
<1>3. CASE Left(t)' = 0
  BY <1>2, <1>3
<1>4. ASSUME EndCalls({t}) PROVE Left(t)' = 0
  BY <1>4 DEF EndCalls, Left
<1>5. CASE Find(t)
  <2>1. PICK p \in {"number", "return"} : pc' = [pc EXCEPT ![t] = p]
    BY <1>5 DEF Find, Goto
  <2>2. pc[t] = "find" /\ tries' = tries
    BY <1>5 DEF Find
  <2>3. p \in Points /\ p # "idle" /\ Ahead[p] < Ahead[pc[t]]
    BY <2>1, <2>2 DEF Points, Ahead
  <2> QED BY <1>1, <2>1, <2>2, <2>3, NextStatement
<1>6. CASE Number(t)
  <2>1. /\ pc[t] = "number" /\ pc' = [pc EXCEPT ![t] = "insert"] /\ tries' = tries
        /\ "insert" \in Points /\ "insert" # "idle" /\ Ahead["insert"] < Ahead["number"]
    BY <1>6 DEF Number, Goto, Points, Ahead
  <2> QED BY <1>1, <2>1, NextStatement
<1>7. CASE Insert(t)
  <2>1. /\ pc[t] = "insert" /\ pc' = [pc EXCEPT ![t] = "commit"] /\ tries' = tries
        /\ "commit" \in Points /\ "commit" # "idle" /\ Ahead["commit"] < Ahead["insert"]
    BY <1>7 DEF Insert, Goto, Points, Ahead
  <2> QED BY <1>1, <2>1, NextStatement
<1>8. CASE Commit(t)
  <2>1. /\ pc[t] = "commit" /\ pc' = [pc EXCEPT ![t] = "return"] /\ tries' = tries
        /\ "return" \in Points /\ "return" # "idle" /\ Ahead["return"] < Ahead["commit"]
    BY <1>8 DEF Commit, Goto, Points, Ahead
  <2> QED BY <1>1, <2>1, NextStatement
<1>9. CASE InsertConflict(t)
  <2>1. CASE NextRound(t)
    <3>1. pc[t] = "insert" /\ pc'[t] = "find" /\ tries'[t] = tries[t] + 1 /\ tries[t] \in Int
      BY <1>9, <2>1 DEF InsertConflict, NextRound, Goto, TypeOK
    <3>2. PICK n \in Int : n = MaxTries - 1 - tries[t]
      BY <3>1, VaultAssumption
    <3>3. MaxTries - 1 - tries'[t] = n - 1
      BY <3>1, <3>2, VaultAssumption
    <3>4. Left(t) = 3 * n + 3 /\ Left(t)' = 3 * (n - 1) + 5
      BY <3>1, <3>2, <3>3 DEF Left, Ahead
    <3> QED BY <3>4
  <2> QED BY <1>3, <1>4, <1>9, <2>1 DEF InsertConflict
<1>10. CASE Return(t) \/ ReadBusy(t) \/ InsertBusy(t) \/ CommitBusy(t)
  BY <1>3, <1>4, <1>10 DEF Return, ReadBusy, InsertBusy, CommitBusy
<1> QED BY <1>5, <1>6, <1>7, <1>8, <1>9, <1>10 DEF Step

(* A call is left alone by the others, or ended by a crash. *)
LEMMA LeftAlone ==
  ASSUME TypeOK, NEW u \in Threads,
         \/ pc'[u] = pc[u] /\ tries'[u] = tries[u]
         \/ pc'[u] = "idle"
  PROVE  Left(u)' <= Left(u)
<1>1. Left(u) \in Nat
  BY LeftType
<1> QED BY <1>1 DEF Left

LEMMA OthersShrinkNone ==
  ASSUME TypeOK, NEW u \in Threads, pc[u] # "idle", Next, ~Step(u)
  PROVE  Left(u)' <= Left(u)
<1>1. ASSUME NEW t \in Threads, Begin(t) \/ Step(t)
      PROVE  pc'[u] = pc[u] /\ tries'[u] = tries[u]
  <2>1. CASE Begin(t)
    BY <2>1 DEF Begin, Goto, TypeOK
  <2>2. CASE EndCalls({t}) /\ t # u
    BY <2>2 DEF EndCalls
  <2>3. CASE Step(t) /\ t # u
    <3>1. CASE Find(t) \/ Number(t) \/ Insert(t) \/ Commit(t)
      BY <2>3, <3>1 DEF Find, Number, Insert, Commit, Goto, TypeOK
    <3>2. CASE InsertConflict(t)
      BY <2>2, <2>3, <3>2 DEF InsertConflict, NextRound, Goto, TypeOK
    <3>3. CASE Return(t) \/ ReadBusy(t) \/ InsertBusy(t) \/ CommitBusy(t)
      BY <2>2, <2>3, <3>3 DEF Return, ReadBusy, InsertBusy, CommitBusy
    <3> QED BY <2>3, <3>1, <3>2, <3>3 DEF Step
  <2> QED BY <1>1, <2>1, <2>3
<1>2. ASSUME NEW c \in Conns, Rehydrate(c) \/ Close(c) \/ Crash(c)
      PROVE  (pc'[u] = pc[u] /\ tries'[u] = tries[u]) \/ pc'[u] = "idle"
  BY <1>2 DEF Rehydrate, Close, Crash, EndCalls, callVars
<1> QED BY <1>1, <1>2, LeftAlone DEF Next

(* A call of token_for executes at most 3 * MaxTries + 2 statements, 26 with *)
(* the code's 8 rounds, however it is interleaved and whatever times out.    *)
THEOREM VaultCallsShrink == Spec => CallsShrink
<1>1. TypeInv /\ [Next]_vars
      => [\A t \in Threads :
              /\ Left(t) \in 0 .. 3 * MaxTries + 2
              /\ Step(t) => Left(t)' < Left(t)
              /\ pc[t] # "idle" /\ ~Step(t) => Left(t)' <= Left(t)]_vars
  <2> SUFFICES ASSUME TypeOK, Next, NEW t \in Threads
               PROVE  /\ Left(t) \in 0 .. 3 * MaxTries + 2
                      /\ Step(t) => Left(t)' < Left(t)
                      /\ pc[t] # "idle" /\ ~Step(t) => Left(t)' <= Left(t)
    BY DEF TypeInv
  <2>1. Left(t) \in 0 .. 3 * MaxTries + 2
    BY LeftType
  <2>2. Step(t) => Left(t)' < Left(t)
    BY StepShrinks
  <2>3. pc[t] # "idle" /\ ~Step(t) => Left(t)' <= Left(t)
    BY OthersShrinkNone
  <2> QED BY <2>1, <2>2, <2>3
<1> QED BY TypeInvInit, TypeInvStep, <1>1, PTL DEF Spec, CallsShrink

(* Does no lock keep the statement of t's call waiting? *)
Clear(t) ==
    /\ pc[t] \in {"find", "number"} => CanRead(ConnOf[t])
    /\ pc[t] = "insert" => CanWrite(ConnOf[t])
    /\ pc[t] = "commit" => CanCommit(ConnOf[t])

(* Nobody waits in a circle: a call that has to wait waits for one that is   *)
(* at its COMMIT and can commit.                                             *)
NobodyStuck ==
    \A t \in Threads : pc[t] # "idle" =>
        Clear(t) \/ \E u \in Threads : pc[u] = "commit" /\ Clear(u)

(* Only a call that is about to commit keeps a transaction, or a lock.       *)
LocksInv ==
    \A c \in Conns : intx[c] \/ lock[c] # "none" =>
        lock[c] = "reserved" /\ \E u \in Users(c) : pc[u] = "commit"

LEMMA LocksInvInit == Init => LocksInv
  BY DEF Init, LocksInv

LEMMA LocksInvStep ==
  ASSUME LockTimeouts = FALSE
  PROVE  TypeOK /\ TableInv /\ LocksInv /\ [Next]_vars => LocksInv'
<1> SUFFICES ASSUME TypeOK, TableInv, LocksInv, [Next]_vars,
                    NEW c \in Conns, intx'[c] \/ lock'[c] # "none"
             PROVE  lock'[c] = "reserved" /\ \E u \in Users(c) : pc'[u] = "commit"
  BY DEF LocksInv, Users
<1> USE VaultAssumption
(* The connection keeps its lock, and whoever is at its COMMIT stays there. *)
<1>1. ASSUME intx'[c] = intx[c], lock'[c] = lock[c],
             \A u \in Users(c) : pc[u] = "commit" => pc'[u] = "commit"
      PROVE  lock'[c] = "reserved" /\ \E u \in Users(c) : pc'[u] = "commit"
  BY <1>1 DEF LocksInv
<1>2. ASSUME NEW d \in Conns, lock' = LockAfterRead(d), intx' = intx
      PROVE  intx'[c] = intx[c] /\ lock'[c] = lock[c]
  BY <1>2 DEF LockAfterRead, LocksInv, TypeOK
<1>3. ASSUME NEW d \in Conns, EndTransaction(d)
      PROVE  c # d /\ intx'[c] = intx[c] /\ lock'[c] = lock[c]
  BY <1>3 DEF EndTransaction, TypeOK
<1>4. ASSUME NEW t \in Threads,
             Begin(t) \/ Find(t) \/ Number(t) \/ Return(t)
      PROVE  /\ intx'[c] = intx[c] /\ lock'[c] = lock[c]
             /\ \A u \in Threads : pc[u] = "commit" => pc'[u] = "commit"
  <2>1. intx'[c] = intx[c] /\ lock'[c] = lock[c]
    BY <1>2, <1>4 DEF Begin, Find, Number, Return, dbVars
  <2>2. \A u \in Threads : pc[u] = "commit" => pc'[u] = "commit"
    BY <1>4 DEF Begin, Find, Number, Return, Goto, EndCalls, TypeOK
  <2> QED BY <2>1, <2>2
<1>5. ASSUME NEW t \in Threads, Insert(t)
      PROVE  lock'[c] = "reserved" /\ \E u \in Users(c) : pc'[u] = "commit"
  <2>1. /\ pc[t] = "insert" /\ pc' = [pc EXCEPT ![t] = "commit"]
        /\ intx' = [intx EXCEPT ![ConnOf[t]] = TRUE]
        /\ lock' = LockAfterInsert(ConnOf[t])
    BY <1>5 DEF Insert, Goto
  <2>2. CASE c = ConnOf[t]
    <3>1. lock[c] # "pending"
      BY DEF LocksInv
    <3>2. lock'[c] = "reserved"
      BY <2>1, <2>2, <3>1 DEF LockAfterInsert, TypeOK
    <3>3. t \in Users(c) /\ pc'[t] = "commit"
      BY <2>1, <2>2 DEF Users, TypeOK
    <3> QED BY <3>2, <3>3
  <2>3. CASE c # ConnOf[t]
    <3>1. intx'[c] = intx[c] /\ lock'[c] = lock[c]
      BY <2>1, <2>3 DEF LockAfterInsert, TypeOK
    <3>2. \A u \in Users(c) : pc[u] = "commit" => pc'[u] = "commit"
      BY <2>1 DEF Users, TypeOK
    <3> QED BY <1>1, <3>1, <3>2
  <2> QED BY <2>2, <2>3
<1>6. ASSUME NEW t \in Threads, InsertConflict(t) \/ Commit(t)
      PROVE  lock'[c] = "reserved" /\ \E u \in Users(c) : pc'[u] = "commit"
  <2>1. EndTransaction(ConnOf[t])
    BY <1>6 DEF InsertConflict, Commit
  <2>2. c # ConnOf[t] /\ intx'[c] = intx[c] /\ lock'[c] = lock[c]
    BY <1>3, <2>1
  <2>3. \A u \in Users(c) : pc'[u] = pc[u]
    BY <1>6, <2>2 DEF InsertConflict, Commit, NextRound, EndCalls, Goto, Users, TypeOK
  <2> QED BY <1>1, <2>2, <2>3
<1>7. ASSUME NEW d \in Conns, Rehydrate(d)
      PROVE  lock'[c] = "reserved" /\ \E u \in Users(c) : pc'[u] = "commit"
  BY <1>1, <1>2, <1>7 DEF Rehydrate, callVars
<1>8. ASSUME NEW d \in Conns, Close(d) \/ Crash(d)
      PROVE  lock'[c] = "reserved" /\ \E u \in Users(c) : pc'[u] = "commit"
  <2>1. c # d /\ intx'[c] = intx[c] /\ lock'[c] = lock[c]
    BY <1>3, <1>8 DEF Close, Crash
  <2>2. \A u \in Users(c) : pc'[u] = pc[u]
    BY <1>8, <2>1 DEF Close, Crash, EndCalls, callVars, Users
  <2> QED BY <1>1, <2>1, <2>2
<1>9. CASE UNCHANGED vars
  BY <1>1, <1>9 DEF vars, dbVars, callVars
<1>10. ASSUME NEW t \in Threads, ReadBusy(t) \/ InsertBusy(t) \/ CommitBusy(t) PROVE FALSE
  BY <1>10 DEF ReadBusy, InsertBusy, CommitBusy
<1> QED
  BY <1>1, <1>4, <1>5, <1>6, <1>7, <1>8, <1>9, <1>10 DEF Next, Step, Users

(* However many processes tokenize at once, there is no deadlock: SQLite's   *)
(* locks make everybody wait for at most one call, and that one can go on.   *)
THEOREM VaultNobodyStuck ==
  ASSUME LockTimeouts = FALSE
  PROVE  Spec => []NobodyStuck
<1>1. ASSUME TypeOK, TableInv, LocksInv PROVE NobodyStuck
  <2> USE VaultAssumption
  <2>1. \A c \in Conns : CanRead(c)
    BY <1>1 DEF LocksInv, CanRead, Others
  <2>2. ASSUME NEW u \in Threads, pc[u] = "commit" PROVE Clear(u)
    <3>1. Writing(ConnOf[u])
      BY <1>1, <2>2 DEF TableInv
    <3>2. \A d \in Others(ConnOf[u]) : lock[d] = "none"
      BY <1>1, <3>1 DEF LocksInv, TableInv, OneWriter, Writing, Others
    <3> QED BY <2>2, <3>2 DEF Clear, CanCommit
  <2>3. ASSUME NEW t \in Threads, pc[t] = "insert", ~CanWrite(ConnOf[t])
        PROVE  \E u \in Threads : pc[u] = "commit"
    BY <1>1, <2>3 DEF CanWrite, Others, LocksInv, Users
  <2> QED BY <2>1, <2>2, <2>3 DEF NobodyStuck, Clear
<1>2. TypeInv => TypeOK
  BY DEF TypeInv
<1> QED BY VaultInvariant, LocksInvInit, LocksInvStep, <1>1, <1>2, PTL DEF Spec

-----------------------------------------------------------------------------
(* What is left of the promise when waits for a lock do time out.            *)

(* A token that a call returns stands for a row its connection sees.         *)
SeenInv ==
    \A t \in Threads : pc[t] \in {"commit", "return"} => Due(t) \in Visible(ConnOf[t])

(* No other connection, and no thread outside a call, takes a row from the   *)
(* view of a connection with a call in progress.                             *)
LEMMA SeenStep == TypeInv /\ TableInv /\ SeenInv /\ [Next]_vars => SeenInv'
<1> SUFFICES ASSUME TypeInv, TableInv, SeenInv, [Next]_vars,
                    NEW t \in Threads, pc'[t] \in {"commit", "return"}
             PROVE  (Due(t) \in Visible(ConnOf[t]))'
  BY DEF SeenInv
<1> USE VaultAssumption
<1>0. TypeOK /\ (pc[t] \in {"commit", "return"} => Due(t) \in Visible(ConnOf[t]))
  BY DEF TypeInv, SeenInv
<1> DEFINE c == ConnOf[t]
(* The call of t is where it was, and its connection sees what it saw. *)
<1>1. ASSUME pc'[t] = pc[t], key'[t] = key[t], id'[t] = id[t], rows \subseteq rows',
             open'[c] = open[c]
      PROVE  (Due(t) \in Visible(ConnOf[t]))'
  BY <1>0, <1>1 DEF Due, RowFor, Visible
<1>2. ASSUME NEW u \in Threads, u # t,
             Begin(u) \/ Find(u) \/ Number(u) \/ Insert(u) \/ InsertConflict(u) \/ Return(u)
      PROVE  (Due(t) \in Visible(ConnOf[t]))'
  <2>1. /\ rows' = rows
        /\ pc'[t] = pc[t] /\ key'[t] = key[t] /\ id'[t] = id[t]
    BY <1>0, <1>2, OthersUnmoved
  <2>2. CASE Begin(u) \/ Find(u) \/ Number(u) \/ Return(u)
    BY <1>1, <2>1, <2>2 DEF Begin, Find, Number, Return, dbVars
  <2>3. CASE Insert(u) \/ InsertConflict(u)
    <3>1. ConnOf[u] # c
      BY <1>2, <2>1, <2>3 DEF TableInv, Insert, InsertConflict
    <3>2. open'[c] = open[c]
      BY <1>0, <2>3, <3>1 DEF Insert, InsertConflict, EndTransaction, TypeOK
    <3> QED BY <1>1, <2>1, <3>2
  <2> QED BY <1>2, <2>2, <2>3
<1>3. ASSUME NEW u \in Threads, Commit(u) PROVE (Due(t) \in Visible(ConnOf[t]))'
  <2>1. /\ pc[u] = "commit" /\ rows' = rows \cup open[ConnOf[u]]
        /\ open' = [open EXCEPT ![ConnOf[u]] = {}]
        /\ pc' = [pc EXCEPT ![u] = "return"] /\ key' = key /\ id' = id
    BY <1>3 DEF Commit, EndTransaction, Goto, Visible
  <2>2. CASE u = t
    BY <1>0, <2>1, <2>2 DEF Due, RowFor, Visible
  <2>3. CASE u # t
    <3>1. pc'[t] = pc[t] /\ pc[t] # "idle"
      BY <1>0, <2>1, <2>3 DEF TypeOK
    <3>2. ConnOf[u] # c
      BY <2>1, <2>3, <3>1 DEF TableInv
    <3>3. open'[c] = open[c]
      BY <1>0, <2>1, <3>2 DEF TypeOK
    <3> QED BY <1>1, <2>1, <3>1, <3>3
  <2> QED BY <2>2, <2>3
<1>4. CASE Begin(t) \/ Number(t) \/ InsertConflict(t) \/ Return(t)
  BY <1>0, <1>4 DEF Begin, Number, InsertConflict, NextRound, Return, EndCalls, Goto, TypeOK
<1>5. CASE Find(t)
  <2>1. PICK r \in Matches(c, key[t]) : id' = [id EXCEPT ![t] = r.id]
    BY <1>0, <1>5 DEF Find, Goto, TypeOK
  <2>2. /\ r \in Visible(c) /\ SameGroup(r, key[t]) /\ r.val = key[t].val
        /\ r \in Row /\ key[t] \in Keys
    BY <1>0, <1>5, <2>1 DEF Matches, Group, Visible, TypeInv, TypeOK, Find
  <2>3. id'[t] = r.id /\ key' = key /\ Visible(c)' = Visible(c)
    BY <1>0, <1>5, <2>1 DEF Find, Visible, TypeOK
  <2>4. Due(t)' = r
    BY <2>2, <2>3, RowIsItsKey DEF Due
  <2> QED BY <2>2, <2>3, <2>4
<1>6. CASE Insert(t)
  <2>1. /\ open' = [open EXCEPT ![c] = @ \cup {Due(t)}] /\ key' = key /\ id' = id
    BY <1>6 DEF Insert, Due
  <2> QED BY <1>0, <2>1 DEF Due, Visible, RowFor, TypeOK
<1>7. ASSUME NEW u \in Threads, ReadBusy(u) \/ InsertBusy(u) \/ CommitBusy(u)
      PROVE  (Due(t) \in Visible(ConnOf[t]))'
  <2>1. rows' = rows /\ open' = open /\ EndCalls({u})
    BY <1>7 DEF ReadBusy, InsertBusy, CommitBusy, dbVars
  <2> QED BY <1>1, <2>1 DEF EndCalls
<1>8. ASSUME NEW d \in Conns, Rehydrate(d) \/ Close(d) \/ Crash(d)
      PROVE  (Due(t) \in Visible(ConnOf[t]))'
  <2>1. rows' = rows /\ pc'[t] = pc[t] /\ key'[t] = key[t] /\ id'[t] = id[t] /\ pc[t] # "idle"
    BY <1>8 DEF Rehydrate, Close, Crash, EndCalls, callVars
  <2>2. open'[c] = open[c]
    BY <1>0, <1>8, <2>1
       DEF Rehydrate, Close, Crash, EndCalls, EndTransaction, MutexFree, Users, TypeOK
  <2> QED BY <1>1, <2>1, <2>2
<1>9. CASE UNCHANGED vars
  BY <1>1, <1>9 DEF vars, dbVars, callVars
<1> QED
  BY <1>2, <1>3, <1>4, <1>5, <1>6, <1>7, <1>8, <1>9 DEF Next, Step

(* Also with timeouts, a row that is in the file stays, and on every         *)
(* connection of its scope its token stands for its value and no other; and  *)
(* a call returns the token of a row that its connection sees.  What is lost *)
(* is a row that was seen before it was committed: its COMMIT had timed out. *)
THEOREM VaultInSpiteOfTimeouts ==
  Spec =>
      /\ [](\A r \in rows, c \in Conns :
                ScopeOf[c] = r.scope => Lookup(c, r.label, r.id) = {r.val})
      /\ [](\A t \in Threads : pc[t] = "return" => Due(t) \in Visible(ConnOf[t]))
      /\ [][rows \subseteq rows']_vars
<1> DEFINE Faithful == \A r \in rows, c \in Conns :
               ScopeOf[c] = r.scope => Lookup(c, r.label, r.id) = {r.val}
           Seen == \A t \in Threads : pc[t] = "return" => Due(t) \in Visible(ConnOf[t])
<1>1. ASSUME TableInv PROVE Faithful
  <2> SUFFICES ASSUME NEW r \in rows, NEW c \in Conns, ScopeOf[c] = r.scope
               PROVE  Lookup(c, r.label, r.id) = {r.val}
    OBVIOUS
  <2>1. r \in Visible(c)
    BY DEF Visible
  <2>2. ASSUME NEW s \in Visible(c),
               s.scope = ScopeOf[c], s.label = r.label, s.id = r.id
        PROVE  s = r
    BY <1>1, <2>1, <2>2 DEF TableInv, ViewsOneToOne, OneToOne, SameGroup
  <2> QED BY <2>1, <2>2 DEF Lookup
<1>2. SeenInv => Seen
  BY DEF SeenInv
<1>3. Init => SeenInv
  BY DEF Init, SeenInv
<1>4. [Next]_vars => [rows \subseteq rows']_vars
  BY DEF Next, Step, Begin, Find, Number, Insert, InsertConflict, Commit, Return, ReadBusy,
     InsertBusy, CommitBusy, Rehydrate, Close, Crash, Visible, dbVars, vars
<1>5. TypeInv => TypeOK
  BY DEF TypeInv
<1>6. TableInv => Faithful
  BY <1>1
<1> HIDE DEF Faithful, Seen
<1>7. Spec => []Faithful /\ []Seen /\ [][rows \subseteq rows']_vars
  BY TypeInvInit, TypeInvStep, TableInvInit, TableInvStep, SeenStep,
     <1>2, <1>3, <1>4, <1>5, <1>6, PTL DEF Spec
<1> QED BY <1>7 DEF Faithful, Seen

-----------------------------------------------------------------------------
(* The key file, and the other secret.                                      *)

(* Between create and write a file is empty and belongs to its creator. *)
CreatorsInv ==
    /\ \A p \in Procs : doing[p] # "idle" => mine[p] \in Secrets
    /\ \A p \in Procs : doing[p] = "write" => file[kind[p]] = Empty
    /\ \A p, q \in Procs :
           doing[p] = "write" /\ doing[q] = "write" /\ kind[p] = kind[q] => p = q

SecretInv == SecretTypes /\ CreatorsInv /\ KeyOnDisk

LEMMA SecretsStart == NoSecrets => SecretInv
  BY SecretFileAssumption
     DEF NoSecrets, SecretInv, SecretTypes, CreatorsInv, KeyOnDisk, Kinds, Secrets

LEMMA SecretStep == SecretInv /\ [SecretNext]_secretVars => SecretInv'
<1> SUFFICES ASSUME SecretInv, [SecretNext]_secretVars PROVE SecretInv'
  OBVIOUS
<1> USE SecretFileAssumption DEF SecretInv, SecretTypes, CreatorsInv, KeyOnDisk, Kinds, Secrets
<1>1. ASSUME NEW p \in Procs, Open(p) PROVE SecretInv'
  <2>1. PICK k \in Kinds : kind' = [kind EXCEPT ![p] = k]
    BY <1>1 DEF Open
  <2>2. drawn + 1 \in Secrets
    BY <1>1 DEF Open
  <2> QED BY <1>1, <2>1, <2>2 DEF Open, Proceed
<1>2. ASSUME NEW p \in Procs, Create(p) PROVE SecretInv'
  BY <1>2 DEF Create, Proceed
<1>3. ASSUME NEW p \in Procs, Exists(p) PROVE SecretInv'
  BY <1>3 DEF Exists, Proceed
<1>4. ASSUME NEW p \in Procs, Write(p) PROVE SecretInv'
  <2>1. kind[p] = "key" => used["key"] = {}
    BY <1>4 DEF Write
  <2>2. SecretTypes'
    BY <1>4 DEF Write, Use, Done, Proceed
  <2>3. CreatorsInv'
    BY <1>4 DEF Write, Use, Done, Proceed
  <2>4. KeyOnDisk'
    BY <1>4, <2>1 DEF Write, Use, Done, Proceed
  <2> QED BY <2>2, <2>3, <2>4
<1>5. ASSUME NEW p \in Procs, Read(p) PROVE SecretInv'
  BY <1>5 DEF Read, Use, Done, Proceed
<1>6. ASSUME NEW p \in Procs, ReadEmpty(p) PROVE SecretInv'
  BY <1>6 DEF ReadEmpty, Use, Done, Proceed
<1>7. ASSUME NEW p \in Procs, Killed(p) PROVE SecretInv'
  BY <1>7 DEF Killed, Done, Proceed
<1>8. ASSUME UNCHANGED secretVars PROVE SecretInv'
  BY <1>8 DEF secretVars
<1> QED BY <1>1, <1>2, <1>3, <1>4, <1>5, <1>6, <1>7, <1>8 DEF SecretNext

LEMMA SecretFileInvariant == SecretSpec => []SecretInv
  BY SecretsStart, SecretStep, PTL DEF SecretSpec

(* Every variable keeps its type. *)
THEOREM SecretFileTypeCorrect == SecretSpec => []SecretTypes
<1>1. SecretInv => SecretTypes
  BY DEF SecretInv
<1> QED BY SecretFileInvariant, <1>1, PTL

(* No Vault is ever built on a key that the key file does not hold. *)
THEOREM VaultKeyOnDisk == SecretSpec => []KeyOnDisk
<1>1. SecretInv => KeyOnDisk
  BY DEF SecretInv
<1> QED BY SecretFileInvariant, <1>1, PTL

(* No step changes a secret that is in its file: only the creator writes, once. *)
THEOREM SecretsAreKept == SecretSpec => SecretsKept
<1>1. SecretInv /\ [SecretNext]_secretVars
      => [\A k \in Kinds : file[k] \in Secrets => file'[k] = file[k]]_secretVars
  <2> SUFFICES ASSUME SecretInv, SecretNext, NEW k \in Kinds, file[k] \in Secrets
               PROVE  file'[k] = file[k]
    OBVIOUS
  <2> USE SecretFileAssumption DEF SecretInv, SecretTypes, CreatorsInv, Kinds, Secrets
  <2>1. ASSUME NEW p \in Procs, Create(p) PROVE file'[k] = file[k]
    BY <2>1 DEF Create
  <2>2. ASSUME NEW p \in Procs, Write(p) PROVE file'[k] = file[k]
    BY <2>2 DEF Write
  <2>3. ASSUME NEW p \in Procs,
               Open(p) \/ Exists(p) \/ Read(p) \/ ReadEmpty(p) \/ Killed(p)
        PROVE  file'[k] = file[k]
    BY <2>3 DEF Open, Exists, Read, ReadEmpty, Killed
  <2> QED BY <2>1, <2>2, <2>3 DEF SecretNext
<1> QED BY SecretFileInvariant, <1>1, PTL DEF SecretSpec, SecretsKept
=============================================================================
