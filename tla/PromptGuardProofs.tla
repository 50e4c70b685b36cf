------------------------- MODULE PromptGuardProofs -------------------------
(***************************************************************************)
(* Proofs about PromptGuard, for any number of hook processes, sessions    *)
(* and prompts, any window and any limits.                                 *)
(***************************************************************************)
EXTENDS PromptGuard, FiniteSetTheorems, TLAPS

-----------------------------------------------------------------------------
(* Types.                                                                  *)

(* A running process has its prompt; a session is owed finitely many debts, *)
(* so that they can be counted.                                             *)
TypeInv ==
    /\ TypeOK
    /\ \A p \in Procs : pc[p] # "idle" => sess[p] \in Sessions /\ digest[p] \in Digests
    /\ \A s \in Sessions : IsFiniteSet(owed[s])

(* The lesser of a count and the limit is a count within the limit. *)
LEMMA MinWithin == ASSUME NEW n \in Nat PROVE Min({n, MaxPending}) \in 0 .. MaxPending
<1>1. CASE n <= MaxPending
  <2>1. Min({n, MaxPending}) = n
    BY <1>1, PromptGuardAssumption DEF Min
  <2> QED BY <1>1, <2>1, PromptGuardAssumption
<1>2. CASE ~(n <= MaxPending)
  <2>1. Min({n, MaxPending}) = MaxPending
    BY <1>2, PromptGuardAssumption DEF Min
  <2> QED BY <2>1, PromptGuardAssumption
<1> QED BY <1>1, <1>2

LEMMA TypeInit == Init => TypeInv
  BY FS_EmptySet, PromptGuardAssumption
     DEF Init, TypeInv, TypeOK, Times, Files, Entries, Points

(* A promise leaves finitely many debts, with counts within the limit. *)
LEMMA PromiseTypes ==
  ASSUME TypeInv, NEW s \in Sessions, NEW d \in Digests, NEW at \in Times, Promise(s, d, at)
  PROVE  /\ owed' \in [Sessions -> SUBSET Debts]
         /\ \A t \in Sessions : IsFiniteSet(owed'[t])
<1> DEFINE rest == Without(owed[s], d)
           ties == {o \in rest : o.at = at}
           new  == [digest |-> d, at |-> at, since |-> Min({Cardinality(ties), MaxPending})]
           F(o) == [o EXCEPT !.since = Min({@ + 1, MaxPending})]
           old  == {F(o) : o \in rest}
<1> USE DEF TypeInv, TypeOK
<1>1. owed' = [owed EXCEPT ![s] = {new} \cup old]
  BY DEF Promise
<1>2. IsFiniteSet(rest) /\ IsFiniteSet(ties) /\ rest \subseteq Debts
  BY FS_Subset DEF Without
<1>3. new \in Debts
  <2>1. Cardinality(ties) \in Nat
    BY <1>2, FS_CardinalityType
  <2> QED BY <2>1, MinWithin DEF Debts
<1>4. \A o \in rest : F(o) \in Debts
  <2> SUFFICES ASSUME NEW o \in rest PROVE F(o) \in Debts
    OBVIOUS
  <2>1. o \in Debts /\ o.since \in 0 .. MaxPending
    BY <1>2 DEF Debts
  <2>2. o.since + 1 \in Nat
    BY <2>1, PromptGuardAssumption
  <2>3. Min({o.since + 1, MaxPending}) \in 0 .. MaxPending
    BY <2>2, MinWithin
  <2> QED BY <2>1, <2>3 DEF Debts
<1>5. IsFiniteSet(old)
  <2> DEFINE f == [o \in rest |-> F(o)]
  <2>1. f \in Surjection(rest, old)
    BY DEF Surjection
  <2> QED BY <1>2, <2>1, FS_Surjection
<1>6. IsFiniteSet({new} \cup old)
  BY <1>5, FS_Singleton, FS_Union
<1>7. {new} \cup old \in SUBSET Debts
  BY <1>3, <1>4
<1> HIDE DEF new, old
<1> QED BY <1>1, <1>6, <1>7

LEMMA LoadTypes ==
  ASSUME TypeOK, NEW s \in Sessions PROVE Load(s) \subseteq Entries
  BY DEF TypeOK, Load, FileOf, Files

(* What Written does keeps the types, in consume and in store. *)
LEMMA WrittenTypes ==
  ASSUME TypeInv, NEW p \in Procs, pc[p] # "idle", Written(p)
  PROVE  /\ pc' \in [Procs -> Points] /\ storing' \in [Procs -> BOOLEAN]
         /\ sess' \in [Procs -> Sessions \cup {None}]
         /\ digest' \in [Procs -> Digests \cup {None}]
         /\ entries' \in [Procs -> SUBSET Entries] /\ hit' \in [Procs -> BOOLEAN]
         /\ todo' \in [Procs -> SUBSET Sessions] /\ victim' \in [Procs -> Sessions \cup {None}]
         /\ owed' \in [Sessions -> SUBSET Debts]
         /\ \A s \in Sessions : IsFiniteSet(owed'[s])
         /\ \A q \in Procs : pc'[q] # "idle" => sess'[q] \in Sessions /\ digest'[q] \in Digests
<1> USE DEF TypeInv, TypeOK
<1>1. CASE /\ storing[p]
           /\ \E e \in For(entries[p], digest[p]) : Promise(sess[p], digest[p], e.at)
           /\ Exit(p)
  <2>1. PICK e \in For(entries[p], digest[p]) : Promise(sess[p], digest[p], e.at)
    BY <1>1
  <2>2. e.at \in Times
    BY <2>1 DEF For, Entries
  <2>3. owed' \in [Sessions -> SUBSET Debts] /\ \A s \in Sessions : IsFiniteSet(owed'[s])
    BY <2>1, <2>2, PromiseTypes
  <2> QED BY <1>1, <2>3 DEF Exit, Goto, Points
<1>2. CASE /\ ~storing[p] /\ hit[p]
           /\ owed' = [owed EXCEPT ![sess[p]] = Without(@, digest[p])]
           /\ Exit(p)
  <2>1. \A s \in Sessions : owed'[s] \in SUBSET owed[s]
    BY <1>2 DEF Without
  <2>2. \A s \in Sessions : IsFiniteSet(owed'[s])
    BY <2>1, FS_Subset
  <2>3. owed' \in [Sessions -> SUBSET Debts]
    BY <1>2, <2>1
  <2> QED BY <1>2, <2>2, <2>3 DEF Exit, Goto, Points
<1>3. CASE /\ ~storing[p] /\ ~hit[p]
           /\ Goto(p, "glob")
           /\ UNCHANGED <<call, sweep, owed>>
  BY <1>3 DEF Goto, Points, call, sweep
<1> QED BY <1>1, <1>2, <1>3 DEF Written

LEMMA ReplacedTypes ==
  ASSUME TypeOK, NEW f, NEW new \in Files \cup {None}, Replaced(f, new)
  PROVE  /\ pending' \in [Sessions -> Files \cup {None}]
         /\ where' \in [Procs -> {"closed", "tmp", "pending", "deleted"}]
  BY DEF TypeOK, Replaced

LEMMA TypeStep == TypeInv /\ [Next]_vars => TypeInv'
<1> SUFFICES ASSUME TypeInv, [Next]_vars PROVE TypeInv'
  OBVIOUS
<1> USE PromptGuardAssumption DEF TypeInv, TypeOK, files, call, sweep
<1>1. CASE Tick
  <2>1. \A s \in Sessions : owed'[s] \in SUBSET owed[s]
    BY <1>1 DEF Tick
  <2>2. \A s \in Sessions : IsFiniteSet(owed'[s])
    BY <2>1, FS_Subset
  <2>3. owed' \in [Sessions -> SUBSET Debts]
    BY <1>1, <2>1 DEF Tick
  <2>4. now' \in Times
    BY <1>1 DEF Tick, Times
  <2> QED BY <1>1, <2>2, <2>3, <2>4 DEF Tick
<1>2. ASSUME NEW p \in Procs, Submit(p) PROVE TypeInv'
  BY <1>2 DEF Submit, Goto, Points
<1>3. ASSUME NEW p \in Procs, Consume(p) PROVE TypeInv'
  <2>1. Without(Load(sess[p]), digest[p]) \subseteq Entries
    BY <1>3, LoadTypes DEF Consume, Without
  <2> QED BY <1>3, <2>1 DEF Consume, WriteBack, Goto, Points
<1>4. ASSUME NEW p \in Procs, Clear(p) PROVE TypeInv'
  BY <1>4, WrittenTypes, ReplacedTypes DEF Clear
<1>5. ASSUME NEW p \in Procs, OpenTmp(p) PROVE TypeInv'
  <2>1. [entries |-> {}, mtime |-> now] \in Files
    BY DEF Files
  <2> QED BY <1>5, <2>1 DEF OpenTmp, Goto, Points
<1>6. ASSUME NEW p \in Procs, WriteTmp(p) PROVE TypeInv'
  <2>1. [entries |-> entries[p], mtime |-> now] \in Files
    BY DEF Files
  <2> QED BY <1>6, <2>1 DEF WriteTmp, Goto, Points
<1>7. ASSUME NEW p \in Procs, Rename(p) PROVE TypeInv'
  <2>1. tmp[FileOf(sess[p])] \in Files \cup {None}
    BY <1>7 DEF Rename, FileOf
  <2>2. tmp' \in [Sessions -> Files \cup {None}]
    BY <1>7 DEF Rename
  <2> QED BY <1>7, <2>1, <2>2, WrittenTypes, ReplacedTypes DEF Rename
<1>8. ASSUME NEW p \in Procs, RenameFails(p) PROVE TypeInv'
  BY <1>8 DEF RenameFails, Exit, Goto, Points
<1>9. ASSUME NEW p \in Procs, Glob(p) PROVE TypeInv'
  BY <1>9 DEF Glob, Goto, Points
<1>10. ASSUME NEW p \in Procs, Look(p) PROVE TypeInv'
  BY <1>10 DEF Look, Goto, Points
<1>11. ASSUME NEW p \in Procs, Unlink(p) PROVE TypeInv'
  BY <1>11, ReplacedTypes DEF Unlink, Goto, Points
<1>12. ASSUME NEW p \in Procs, Store(p) PROVE TypeInv'
  <2> DEFINE e == [sess |-> sess[p], digest |-> digest[p], at |-> Stamp]
             E == Without(Load(sess[p]), digest[p]) \cup {e}
  <2>1. E \subseteq Entries
    BY <1>12, LoadTypes DEF Store, Without, Entries, Stamp
  <2>2. PICK K \in SUBSET E : WriteBack(p, K)
    BY <1>12 DEF Store, KeepNewest
  <2> HIDE DEF E
  <2> QED BY <1>12, <2>1, <2>2 DEF Store, WriteBack, Goto, Points
<1>13. ASSUME NEW p \in Procs, Crash(p) PROVE TypeInv'
  BY <1>13 DEF Crash, Exit, Goto, Points
<1>14. ASSUME UNCHANGED vars PROVE TypeInv'
  BY <1>14 DEF vars
<1> QED BY <1>1, <1>2, <1>3, <1>4, <1>5, <1>6, <1>7, <1>8, <1>9, <1>10, <1>11, <1>12, <1>13, <1>14
        DEF Next

(* The state keeps its types, whatever the limits, and however many hook     *)
(* processes race, crash and sweep.                                          *)
THEOREM PromptGuardTypeCorrect == Spec => []TypeOK
<1>1. TypeInv => TypeOK
  BY DEF TypeInv
<1> QED BY TypeInit, TypeStep, <1>1, PTL DEF Spec

-----------------------------------------------------------------------------
(* What is written.                                                        *)

(* At most MaxPending entries, and one for each prompt. *)
Bounded(E) ==
    /\ IsFiniteSet(E) /\ Cardinality(E) <= MaxPending
    /\ \A e, f \in E : e.digest = f.digest => e = f

(* Whatever is read or about to be written is bounded: a process writes into *)
(* whichever file it has open, and so any of them may become the pending one. *)
BoundInv ==
    /\ \A s \in Sessions : pending[s] # None => Bounded(pending[s].entries)
    /\ \A s \in Sessions : tmp[s] # None => Bounded(tmp[s].entries)
    /\ \A p \in Procs : Bounded(entries[p])

(* Likewise, everything a process has loaded is of its own session. *)
ApartInv ==
    /\ \A s \in Sessions : pending[s] # None => \A e \in pending[s].entries : e.sess = s
    /\ \A s \in Sessions : tmp[s] # None => \A e \in tmp[s].entries : e.sess = s
    /\ \A p \in Procs : \A e \in entries[p] : e.sess = sess[p]
    /\ \A p \in Procs : pc[p] = "idle" => entries[p] = {}

WriteInv == BoundInv /\ ApartInv

LEMMA BoundedSubset == ASSUME NEW E, Bounded(E), NEW K \in SUBSET E PROVE Bounded(K)
<1>1. IsFiniteSet(K) /\ Cardinality(K) <= Cardinality(E)
  BY FS_Subset DEF Bounded
<1>2. Cardinality(K) \in Nat /\ Cardinality(E) \in Nat
  BY <1>1, FS_CardinalityType DEF Bounded
<1> QED BY <1>1, <1>2, PromptGuardAssumption DEF Bounded

LEMMA NothingBounded == Bounded({})
  BY FS_EmptySet, PromptGuardAssumption DEF Bounded

LEMMA LoadBounded ==
  ASSUME TypeOK, BoundInv, NEW s \in Sessions PROVE Bounded(Load(s))
<1>1. CASE pending[s] = None
  BY <1>1, NothingBounded DEF Load, FileOf
<1>2. CASE pending[s] # None
  <2>1. Load(s) \in SUBSET pending[s].entries
    BY <1>2 DEF Load, FileOf
  <2> QED BY <1>2, <2>1, BoundedSubset DEF BoundInv
<1> QED BY <1>1, <1>2

(* Evicting the oldest leaves a bounded set with the new entry in it. *)
LEMMA StoreBounded ==
  ASSUME NEW L, Bounded(L), NEW d, NEW e, e.digest = d,
         NEW K, LET E == Without(L, d) \cup {e}
                IN  \/ Cardinality(E) <= MaxPending /\ K = E
                    \/ Cardinality(E) > MaxPending /\ K \in KeepNewest(E, e)
  PROVE  Bounded(K)
<1> DEFINE E == Without(L, d) \cup {e}
<1>1. Bounded(Without(L, d))
  BY BoundedSubset DEF Without
<1>2. IsFiniteSet(E)
  BY <1>1, FS_AddElement DEF Bounded
<1>3. \A f, g \in E : f.digest = g.digest => f = g
  BY DEF Without, Bounded
<1>4. K \in SUBSET E
  BY DEF KeepNewest
<1>5. IsFiniteSet(K)
  BY <1>2, <1>4, FS_Subset
<1>6. Cardinality(K) <= MaxPending
  BY PromptGuardAssumption DEF KeepNewest
<1> QED BY <1>3, <1>4, <1>5, <1>6 DEF Bounded

LEMMA WriteInit == Init => WriteInv
  BY NothingBounded DEF Init, WriteInv, BoundInv, ApartInv

(* After its last write a process is gone, or goes on with what it has. *)
LEMMA WrittenWrites ==
  ASSUME TypeInv, WriteInv, NEW p \in Procs, pc[p] # "idle", Written(p)
  PROVE  /\ \A q \in Procs : Bounded(entries'[q])
         /\ \A q \in Procs : \A e \in entries'[q] : e.sess = sess'[q]
         /\ \A q \in Procs : pc'[q] = "idle" => entries'[q] = {}
<1> USE DEF TypeInv, TypeOK, WriteInv, BoundInv, ApartInv
<1>1. CASE Exit(p)
  BY <1>1, NothingBounded DEF Exit, Goto
<1>2. CASE Goto(p, "glob") /\ UNCHANGED <<call, sweep, owed>>
  BY <1>2 DEF Goto, call
<1> QED BY <1>1, <1>2 DEF Written

LEMMA WriteStep == TypeInv /\ WriteInv /\ [Next]_vars => WriteInv'
<1> SUFFICES ASSUME TypeInv, WriteInv, [Next]_vars PROVE WriteInv'
  OBVIOUS
<1> USE PromptGuardAssumption DEF TypeInv, TypeOK, WriteInv, BoundInv, ApartInv, files, call, sweep
<1>0. Bounded({})
  BY NothingBounded
<1>1. CASE Tick
  BY <1>1 DEF Tick
<1>2. ASSUME NEW p \in Procs, Submit(p) PROVE WriteInv'
  BY <1>2 DEF Submit, Goto
<1>3. ASSUME NEW p \in Procs, Consume(p) PROVE WriteInv'
  <2> DEFINE K == Without(Load(sess[p]), digest[p])
  <2>1. Bounded(K)
    <3>1. Bounded(Load(sess[p])) /\ K \in SUBSET Load(sess[p])
      BY <1>3, LoadBounded DEF Consume, Without
    <3> QED BY <3>1, BoundedSubset
  <2>2. \A e \in K : e.sess = sess[p]
    BY <1>3 DEF Consume, Without, Load, FileOf
  <2>3. entries' = [entries EXCEPT ![p] = K] /\ pc'[p] # "idle"
    BY <1>3 DEF Consume, WriteBack, Goto
  <2> HIDE DEF K
  <2> QED BY <1>3, <2>1, <2>2, <2>3 DEF Consume, WriteBack, Goto
<1>4. ASSUME NEW p \in Procs, Clear(p) PROVE WriteInv'
  <2>1. pc[p] # "idle" /\ Written(p)
    BY <1>4 DEF Clear
  <2> QED BY <1>4, <2>1, WrittenWrites DEF Clear, Replaced, FileOf
<1>5. ASSUME NEW p \in Procs, OpenTmp(p) PROVE WriteInv'
  BY <1>0, <1>5 DEF OpenTmp, FileOf, Goto
<1>6. ASSUME NEW p \in Procs, WriteTmp(p) PROVE WriteInv'
  BY <1>6 DEF WriteTmp, FileOf, Goto
<1>7. ASSUME NEW p \in Procs, Rename(p) PROVE WriteInv'
  <2>1. pc[p] # "idle" /\ Written(p)
    BY <1>7 DEF Rename
  <2> QED BY <1>7, <2>1, WrittenWrites DEF Rename, Replaced, FileOf
<1>8. ASSUME NEW p \in Procs, RenameFails(p) PROVE WriteInv'
  BY <1>0, <1>8 DEF RenameFails, Exit, Goto
<1>9. ASSUME NEW p \in Procs, Glob(p) PROVE WriteInv'
  BY <1>9 DEF Glob, Goto
<1>10. ASSUME NEW p \in Procs, Look(p) PROVE WriteInv'
  BY <1>10 DEF Look, Goto
<1>11. ASSUME NEW p \in Procs, Unlink(p) PROVE WriteInv'
  BY <1>11 DEF Unlink, Replaced, Goto
<1>12. ASSUME NEW p \in Procs, Store(p) PROVE WriteInv'
  <2> DEFINE e == [sess |-> sess[p], digest |-> digest[p], at |-> Stamp]
             E == Without(Load(sess[p]), digest[p]) \cup {e}
  <2>1. PICK K : /\ WriteBack(p, K)
                 /\ \/ Cardinality(E) <= MaxPending /\ K = E
                    \/ Cardinality(E) > MaxPending /\ K \in KeepNewest(E, e)
    BY <1>12 DEF Store
  <2>2. Bounded(K)
    <3>1. Bounded(Load(sess[p]))
      BY <1>12, LoadBounded DEF Store
    <3> QED BY <2>1, <3>1, StoreBounded
  <2>3. \A f \in K : f.sess = sess[p]
    BY <1>12, <2>1 DEF Store, KeepNewest, Without, Load, FileOf
  <2>4. entries' = [entries EXCEPT ![p] = K] /\ pc'[p] # "idle"
    BY <1>12, <2>1 DEF WriteBack, Goto
  <2> HIDE DEF E, e
  <2> QED BY <1>12, <2>1, <2>2, <2>3, <2>4 DEF Store, WriteBack, Goto
<1>13. ASSUME NEW p \in Procs, Crash(p) PROVE WriteInv'
  BY <1>0, <1>13 DEF Crash, Exit, Goto
<1>14. ASSUME UNCHANGED vars PROVE WriteInv'
  BY <1>14 DEF vars
<1> QED BY <1>1, <1>2, <1>3, <1>4, <1>5, <1>6, <1>7, <1>8, <1>9, <1>10, <1>11, <1>12, <1>13, <1>14
        DEF Next

LEMMA WriteInvariant == Spec => [](TypeInv /\ WriteInv)
  BY TypeInit, TypeStep, WriteInit, WriteStep, PTL DEF Spec

(* However many hook processes of a session race through its .tmp file, and  *)
(* wherever they are killed, no pending file outgrows _MAX_PENDING, or has   *)
(* two entries for one prompt.                                               *)
THEOREM PromptGuardFilesBounded == Spec => []FilesBounded
<1>1. WriteInv => FilesBounded
  BY DEF WriteInv, BoundInv, Bounded, FilesBounded
<1> QED BY WriteInvariant, <1>1, PTL

(* In every such race no session is confirmed by the block of another. *)
THEOREM PromptGuardSessionsApart == Spec => []SessionsApart
<1>1. WriteInv => SessionsApart
  BY DEF WriteInv, ApartInv, SessionsApart, Load, FileOf
<1> QED BY WriteInvariant, <1>1, PTL

-----------------------------------------------------------------------------
(* One prompt at a time.                                                   *)

(* Session s owes the confirmation of e: to a block as late as e's. *)
Owes(s, e) == \E o \in owed[s] : o.digest = e.digest /\ o.at >= e.at

Fresh(e) == now - e.at <= Window

(* Every entry that could confirm is owed, in the file and in the memory of  *)
(* the one process there is, but for its own prompt: consume takes that out, *)
(* and store puts it in with the promise still to be made.                   *)
DebtsInv ==
    /\ \A p, q \in Procs : pc[p] # "idle" /\ pc[q] # "idle" => p = q
    /\ \A s \in Sessions : pending[s] # None =>
           \A e \in pending[s].entries : Fresh(e) => Owes(s, e)
    /\ \A p \in Procs : pc[p] # "idle" =>
           \A e \in entries[p] : e.digest # digest[p] /\ Fresh(e) => Owes(sess[p], e)
    /\ \A p \in Procs : ~storing[p] => \A e \in entries[p] : e.digest # digest[p]
    /\ \A p \in Procs : hit[p] => pc[p] # "idle" /\ For(owed[sess[p]], digest[p]) # {}

(* What the process has written is still in the file it renames. *)
TmpInv ==
    /\ \A p \in Procs : pc[p] = "write" => where[p] = "tmp"
    /\ \A p \in Procs : pc[p] = "rename" /\ tmp[sess[p]] # None =>
           tmp[sess[p]].entries = entries[p]

OwedInv == DebtsInv /\ TmpInv

AloneInv == ~overlap => OwedInv

LEMMA AloneInit == Init => AloneInv
  BY DEF Init, AloneInv, OwedInv, DebtsInv, TmpInv, For

(* A promise keeps what is owed for other prompts, and owes the new block. *)
LEMMA PromiseOwes ==
  ASSUME TypeInv, NEW s \in Sessions, NEW d \in Digests, NEW at \in Times, Promise(s, d, at)
  PROVE  /\ \A t \in Sessions, e \in Entries :
                (t # s \/ e.digest # d) /\ Owes(t, e) => Owes(t, e)'
         /\ \A e \in Entries : e.digest = d /\ e.at = at => Owes(s, e)'
<1> DEFINE rest == Without(owed[s], d)
           new  == [digest |-> d, at |-> at,
                    since |-> Min({Cardinality({o \in rest : o.at = at}), MaxPending})]
           F(o) == [o EXCEPT !.since = Min({@ + 1, MaxPending})]
<1> USE DEF TypeInv, TypeOK
<1>1. owed' = [owed EXCEPT ![s] = {new} \cup {F(o) : o \in rest}]
  BY DEF Promise
<1>2. new.digest = d /\ new.at = at
  OBVIOUS
<1>3. \A o \in rest : F(o).digest = o.digest /\ F(o).at = o.at
  BY DEF Without, Debts
<1> HIDE DEF new, F
<1>4. ASSUME NEW t \in Sessions, NEW e \in Entries, t # s \/ e.digest # d, Owes(t, e)
      PROVE  Owes(t, e)'
  <2>1. CASE t # s
    BY <1>1, <1>4, <2>1 DEF Owes
  <2>2. CASE t = s
    <3>1. PICK o \in owed[s] : o.digest = e.digest /\ o.at >= e.at
      BY <1>4, <2>2 DEF Owes
    <3>2. o \in rest /\ F(o) \in owed'[s]
      BY <1>1, <1>4, <2>2, <3>1 DEF Without
    <3> QED BY <1>3, <2>2, <3>1, <3>2 DEF Owes
  <2> QED BY <2>1, <2>2
<1>5. ASSUME NEW e \in Entries, e.digest = d, e.at = at PROVE Owes(s, e)'
  <2>1. new \in owed'[s] /\ e.at \in Nat
    BY <1>1, PromptGuardAssumption DEF Entries, Times
  <2> QED BY <1>2, <1>5, <2>1 DEF Owes
<1> QED BY <1>4, <1>5

(* When the last write is done everything in the new file is owed; what other *)
(* sessions owe is the same; the process is gone, or goes on to the sweep.    *)
WrittenDone(p, s, d) ==
    /\ \A t \in Sessions \ {s}, e \in Entries : Owes(t, e) => Owes(t, e)'
    /\ \A e \in entries[p] : Fresh(e) => Owes(s, e)'
    /\ \A q \in Procs : pc'[q] # "idle" =>
          /\ q = p /\ pc'[p] = "glob" /\ owed' = owed
          /\ sess'[p] = s /\ digest'[p] = d /\ entries'[p] = entries[p]
    /\ \A q \in Procs : ~storing'[q] => \A e \in entries'[q] : e.digest # digest'[q]
    /\ \A q \in Procs : ~hit'[q]

LEMMA WrittenOwes ==
  ASSUME TypeInv, WriteInv, OwedInv, now' = now,
         NEW p \in Procs, pc[p] # "idle", Written(p),
         NEW s, s = sess[p], NEW d, d = digest[p]
  PROVE  WrittenDone(p, s, d)
<1> USE DEF WrittenDone
<1>0. /\ s \in Sessions /\ d \in Digests /\ entries[p] \subseteq Entries
      /\ \A e \in entries[p] : e.digest # d /\ Fresh(e) => Owes(s, e)
  BY DEF TypeInv, TypeOK, OwedInv, DebtsInv
<1>1. CASE /\ storing[p]
           /\ \E e \in For(entries[p], d) : Promise(s, d, e.at)
           /\ Exit(p)
  <2>1. PICK e \in For(entries[p], d) : Promise(s, d, e.at)
    BY <1>1
  <2>2. e \in entries[p] /\ e.digest = d /\ e.at \in Times
    BY <1>0, <2>1 DEF For, Entries
  <2>3. /\ \A t \in Sessions, f \in Entries :
              (t # s \/ f.digest # d) /\ Owes(t, f) => Owes(t, f)'
        /\ \A f \in Entries : f.digest = d /\ f.at = e.at => Owes(s, f)'
    BY <1>0, <2>1, <2>2, PromiseOwes
  <2>4. \A f \in entries[p] : f.digest = d => f = e
    BY <2>2 DEF WriteInv, BoundInv, Bounded
  <2>5. \A f \in entries[p] : Fresh(f) => Owes(s, f)'
    <3> SUFFICES ASSUME NEW f \in entries[p], Fresh(f) PROVE Owes(s, f)'
      OBVIOUS
    <3>1. CASE f.digest = d
      BY <1>0, <2>2, <2>3, <2>4, <3>1
    <3>2. CASE f.digest # d
      BY <1>0, <2>3, <3>2
    <3> QED BY <3>1, <3>2
  <2>6. \A t \in Sessions \ {s}, f \in Entries : Owes(t, f) => Owes(t, f)'
    BY <1>0, <2>3
  <2>7. /\ \A q \in Procs : pc'[q] = "idle" /\ ~hit'[q]
        /\ \A q \in Procs : ~storing'[q] => \A f \in entries'[q] : f.digest # digest'[q]
    BY <1>1 DEF Exit, Goto, TypeInv, TypeOK, OwedInv, DebtsInv
  <2> QED BY <2>5, <2>6, <2>7
<1>2. CASE /\ ~storing[p] /\ hit[p]
           /\ owed' = [owed EXCEPT ![s] = Without(@, d)]
           /\ Exit(p)
  <2>1. /\ \A t \in Sessions \ {s} : owed'[t] = owed[t]
        /\ owed'[s] = Without(owed[s], d)
    BY <1>0, <1>2 DEF TypeInv, TypeOK
  <2>2. \A e \in entries[p] : Fresh(e) => Owes(s, e)'
    <3> SUFFICES ASSUME NEW e \in entries[p], Fresh(e) PROVE Owes(s, e)'
      OBVIOUS
    <3>1. e.digest # d /\ Owes(s, e)
      BY <1>0, <1>2 DEF OwedInv, DebtsInv
    <3>2. PICK o \in owed[s] : o.digest = e.digest /\ o.at >= e.at
      BY <3>1 DEF Owes
    <3>3. o \in owed'[s]
      BY <2>1, <3>1, <3>2 DEF Without
    <3> QED BY <1>2, <3>2, <3>3 DEF Owes, Exit
  <2>3. /\ \A q \in Procs : pc'[q] = "idle" /\ ~hit'[q]
        /\ \A q \in Procs : ~storing'[q] => \A f \in entries'[q] : f.digest # digest'[q]
    BY <1>2 DEF Exit, Goto, TypeInv, TypeOK, OwedInv, DebtsInv
  <2> QED BY <2>1, <2>2, <2>3 DEF Owes
<1>3. CASE /\ ~storing[p] /\ ~hit[p]
           /\ Goto(p, "glob")
           /\ UNCHANGED <<call, sweep, owed>>
  <2>1. \A t, e : Owes(t, e)' <=> Owes(t, e)
    BY <1>3 DEF Owes
  <2>2. \A e \in entries[p] : Fresh(e) => Owes(s, e)
    BY <1>0, <1>3 DEF OwedInv, DebtsInv
  <2> QED BY <1>3, <2>1, <2>2 DEF Goto, call, TypeInv, TypeOK, OwedInv, DebtsInv
<1> QED BY <1>1, <1>2, <1>3 DEF Written

(* Steps that touch neither the debts nor what the process has loaded. *)
LEMMA DebtsKept ==
  ASSUME TypeInv, DebtsInv, UNCHANGED <<now, owed, call>>,
         \A s \in Sessions : pending'[s] \in {pending[s], None},
         \A q \in Procs : pc'[q] # "idle" <=> pc[q] # "idle"
  PROVE  DebtsInv'
<1> USE DEF DebtsInv, call
<1>1. /\ \A s, e : Owes(s, e)' <=> Owes(s, e)
      /\ \A e : Fresh(e)' <=> Fresh(e)
  BY DEF Owes, Fresh
<1>2. \A s \in Sessions : pending'[s] # None =>
          \A e \in pending'[s].entries : Fresh(e)' => Owes(s, e)'
  BY <1>1
<1>3. \A p \in Procs : pc'[p] # "idle" =>
          \A e \in entries'[p] : e.digest # digest'[p] /\ Fresh(e)' => Owes(sess[p], e)
  BY <1>1
<1>4. \A p \in Procs : hit'[p] => pc'[p] # "idle" /\ For(owed[sess[p]], digest[p]) # {}
  OBVIOUS
<1> QED BY <1>2, <1>3, <1>4 DEF Owes

LEMMA AloneStep == TypeInv /\ WriteInv /\ AloneInv /\ [Next]_vars => AloneInv'
<1> SUFFICES ASSUME TypeInv, WriteInv, AloneInv, [Next]_vars, ~overlap' PROVE OwedInv'
  BY DEF AloneInv
<1> USE PromptGuardAssumption DEF TypeInv, TypeOK, files, call, sweep
<1>a. overlap' = overlap
  BY DEF Next, vars, Tick, Submit, Consume, Clear, OpenTmp, WriteTmp, Rename, RenameFails,
         Glob, Look, Unlink, Store, Crash
<1>b. OwedInv
  BY <1>a DEF AloneInv
<1> USE <1>b DEF OwedInv, DebtsInv, TmpInv
<1>c. ASSUME now' = now, owed' = owed
      PROVE  /\ \A s, e : Owes(s, e)' <=> Owes(s, e)
             /\ \A e : Fresh(e)' <=> Fresh(e)
  BY <1>c DEF Owes, Fresh
<1>1. CASE Tick
  <2>1. \A e \in Entries : Fresh(e)' => Fresh(e)
    BY <1>1 DEF Tick, Fresh, Entries, Times
  <2>2. \A s \in Sessions, e \in Entries : Fresh(e)' /\ Owes(s, e) => Owes(s, e)'
    <3> SUFFICES ASSUME NEW s \in Sessions, NEW e \in Entries, Fresh(e)', Owes(s, e)
                 PROVE  Owes(s, e)'
      OBVIOUS
    <3>1. PICK o \in owed[s] : o.digest = e.digest /\ o.at >= e.at
      BY DEF Owes
    <3>2. now' - e.at <= Window
      BY DEF Fresh
    <3>3. o.at \in Nat /\ e.at \in Nat /\ now' \in Nat
      BY <1>1 DEF Tick, Debts, Entries, Times
    <3>4. now' - o.at <= Window
      BY <3>1, <3>2, <3>3
    <3>5. o \in owed'[s]
      BY <1>1, <3>1, <3>4 DEF Tick
    <3> QED BY <3>1, <3>5 DEF Owes
  <2>3. \A p \in Procs : pc[p] # "idle" => owed'[sess[p]] = owed[sess[p]]
    BY <1>1 DEF Tick
  <2> QED BY <1>1, <2>1, <2>2, <2>3 DEF Tick, Files, For
<1>2. ASSUME NEW p \in Procs, Submit(p) PROVE OwedInv'
  <2>1. \A q \in Procs : pc[q] = "idle" /\ entries[q] = {} /\ ~hit[q]
    BY <1>2, <1>a DEF Submit, WriteInv, ApartInv
  <2> QED BY <1>2, <1>c, <2>1 DEF Submit, Goto
<1>3. ASSUME NEW p \in Procs, Consume(p) PROVE OwedInv'
  <2> DEFINE K == Without(Load(sess[p]), digest[p])
  <2>1. \A e \in Load(sess[p]) : Owes(sess[p], e)
    BY <1>3 DEF Consume, Load, FileOf, Fresh
  <2>2. \A e \in K : e.digest # digest[p] /\ Owes(sess[p], e)
    BY <2>1 DEF Without
  <2>3. (\E e \in Load(sess[p]) : e.digest = digest[p]) => For(owed[sess[p]], digest[p]) # {}
    BY <2>1 DEF Owes, For
  <2>4. entries' = [entries EXCEPT ![p] = K] /\ pc'[p] \in {"clear", "open"}
    BY <1>3 DEF Consume, WriteBack, Goto
  <2> HIDE DEF K
  <2>5. UNCHANGED <<now, pending, owed, sess, digest, storing>>
    BY <1>3 DEF Consume
  <2>6. \A q \in Procs : pc'[q] # "idle" =>
            \A e \in entries'[q] : e.digest # digest'[q] /\ Fresh(e)' => Owes(sess[q], e)
    BY <1>3, <1>c, <2>2, <2>4, <2>5 DEF Consume, WriteBack, Goto
  <2>7. \A q \in Procs : hit'[q] => pc'[q] # "idle" /\ For(owed[sess[q]], digest[q]) # {}
    <3>1. hit' = [hit EXCEPT ![p] = \E e \in Load(sess[p]) : e.digest = digest[p]]
      BY <1>3 DEF Consume
    <3>2. \A q \in Procs : hit[q] => q = p
      BY <1>3 DEF Consume
    <3> QED BY <2>3, <2>4, <3>1, <3>2
  <2>8. \A q \in Procs : pc'[q] # "idle" => q = p
    BY <1>3, <2>4 DEF Consume, WriteBack, Goto
  <2>9. \A q \in Procs : ~storing'[q] => \A e \in entries'[q] : e.digest # digest'[q]
    BY <1>3, <2>2, <2>4, <2>5
  <2> QED BY <1>c, <2>4, <2>5, <2>6, <2>7, <2>8, <2>9 DEF Owes
<1>4. ASSUME NEW p \in Procs, Clear(p) PROVE OwedInv'
  <2>1. pc[p] # "idle" /\ Written(p) /\ now' = now
    BY <1>4 DEF Clear
  <2>2. \A e : Fresh(e)' <=> Fresh(e)
    BY <2>1 DEF Fresh
  <2>3. PICK s, d : s = sess[p] /\ d = digest[p]
    OBVIOUS
  <2>4. \A t \in Sessions : pending'[t] # None => t # s /\ pending'[t] = pending[t]
    BY <1>4, <2>3 DEF Clear, Replaced, FileOf
  <2>5. WrittenDone(p, s, d)
    BY <2>1, <2>3, WrittenOwes
  <2> QED BY <1>4, <2>2, <2>3, <2>4, <2>5 DEF WrittenDone, Clear, Files
<1>5. ASSUME NEW p \in Procs, OpenTmp(p) PROVE OwedInv'
  <2>1. \A q \in Procs : pc'[q] # "idle" => q = p /\ pc'[p] = "write" /\ where'[p] = "tmp"
    BY <1>5 DEF OpenTmp, Goto
  <2>2. UNCHANGED <<now, pending, owed, call>>
    BY <1>5 DEF OpenTmp
  <2>3. \A q \in Procs : pc'[q] # "idle" <=> pc[q] # "idle"
    BY <1>5 DEF OpenTmp, Goto
  <2>4. DebtsInv'
    BY <2>2, <2>3, DebtsKept
  <2> QED BY <2>1, <2>4
<1>6. ASSUME NEW p \in Procs, WriteTmp(p) PROVE OwedInv'
  <2>1. where[p] = "tmp" /\ pc[p] = "write"
    BY <1>6 DEF WriteTmp
  <2>2. UNCHANGED <<now, pending, owed, call>>
    BY <1>6, <2>1 DEF WriteTmp
  <2>3. \A q \in Procs : pc'[q] # "idle" => q = p /\ pc'[p] = "rename"
    BY <1>6, <2>1 DEF WriteTmp, Goto
  <2>4. tmp'[sess[p]].entries = entries[p]
    BY <1>6, <2>1 DEF WriteTmp, FileOf
  <2>5. \A q \in Procs : pc'[q] # "idle" <=> pc[q] # "idle"
    BY <1>6 DEF WriteTmp, Goto
  <2>6. DebtsInv'
    BY <2>2, <2>5, DebtsKept
  <2> QED BY <2>2, <2>3, <2>4, <2>6
<1>7. ASSUME NEW p \in Procs, Rename(p) PROVE OwedInv'
  <2>1. pc[p] # "idle" /\ Written(p) /\ now' = now
    BY <1>7 DEF Rename
  <2>2. \A e : Fresh(e)' <=> Fresh(e)
    BY <2>1 DEF Fresh
  <2>3. PICK s, d : s = sess[p] /\ d = digest[p]
    OBVIOUS
  <2>4. pending' = [pending EXCEPT ![s] = tmp[s]] /\ tmp[s].entries = entries[p]
    BY <1>7, <2>3 DEF Rename, Replaced, FileOf
  <2>5. WrittenDone(p, s, d)
    BY <2>1, <2>3, WrittenOwes
  <2>6. \A t \in Sessions : pending'[t] # None =>
            \A e \in pending'[t].entries : Fresh(e)' => Owes(t, e)'
    BY <2>2, <2>3, <2>4, <2>5 DEF WrittenDone, Files
  <2> QED BY <1>7, <2>2, <2>3, <2>5, <2>6 DEF WrittenDone
<1>8. ASSUME NEW p \in Procs, RenameFails(p) PROVE OwedInv'
  BY <1>8, <1>c DEF RenameFails, Exit, Goto
<1>9. ASSUME NEW p \in Procs, Glob(p) PROVE OwedInv'
  BY <1>9, <1>c DEF Glob, Goto
<1>10. ASSUME NEW p \in Procs, Look(p) PROVE OwedInv'
  BY <1>10, <1>c DEF Look, Goto
<1>11. ASSUME NEW p \in Procs, Unlink(p) PROVE OwedInv'
  <2>1. \A s \in Sessions : pending'[s] \in {pending[s], None}
    BY <1>11 DEF Unlink, Replaced
  <2>2. UNCHANGED <<now, tmp, owed, call>> /\ pc[p] = "unlink"
    BY <1>11 DEF Unlink
  <2>3. \A q \in Procs : pc'[q] # "idle" => q = p /\ pc'[p] = "look"
    BY <1>11 DEF Unlink, Goto
  <2>4. \A q \in Procs : pc'[q] # "idle" <=> pc[q] # "idle"
    BY <1>11 DEF Unlink, Goto
  <2>5. DebtsInv'
    BY <2>1, <2>2, <2>4, DebtsKept
  <2> QED BY <2>3, <2>5
<1>12. ASSUME NEW p \in Procs, Store(p) PROVE OwedInv'
  <2> DEFINE e == [sess |-> sess[p], digest |-> digest[p], at |-> Stamp]
             E == Without(Load(sess[p]), digest[p]) \cup {e}
  <2>1. PICK K \in SUBSET E : WriteBack(p, K)
    BY <1>12 DEF Store, KeepNewest
  <2>2. \A f \in K : f.digest # digest[p] => Owes(sess[p], f)
    BY <1>12 DEF Store, Without, Load, FileOf, Fresh
  <2>3. entries' = [entries EXCEPT ![p] = K] /\ pc'[p] \in {"clear", "open"}
    BY <1>12, <2>1 DEF WriteBack, Goto
  <2> HIDE DEF E
  <2> QED BY <1>12, <1>c, <2>1, <2>2, <2>3 DEF Store, WriteBack, Goto
<1>13. ASSUME NEW p \in Procs, Crash(p) PROVE OwedInv'
  BY <1>13, <1>c DEF Crash, Exit, Goto
<1>14. ASSUME UNCHANGED vars PROVE OwedInv'
  BY <1>14, <1>c DEF vars
<1> QED BY <1>1, <1>2, <1>3, <1>4, <1>5, <1>6, <1>7, <1>8, <1>9, <1>10, <1>11, <1>12, <1>13, <1>14
        DEF Next

(* With one prompt at a time, wherever hooks are killed and however long the *)
(* window, a prompt goes through only by a block of its own session that was *)
(* not used before.                                                          *)
THEOREM PromptGuardConfirmedOnceAlone == Spec => []ConfirmedOnceAlone
<1>1. AloneInv => ConfirmedOnceAlone
  BY DEF AloneInv, OwedInv, DebtsInv, ConfirmedOnceAlone, OneConfirmationPerBlock
<1> QED BY TypeInit, TypeStep, WriteInit, WriteStep, AloneInit, AloneStep, <1>1, PTL DEF Spec

-----------------------------------------------------------------------------
(* The promise.                                                            *)

(* The entry that debt o promises is among E. *)
Parked(E, o) == \E e \in E : e.digest = o.digest /\ e.at = o.at

(* What session s has promised since, or in the second of o. *)
Later(s, o) == {x \in owed[s] : x.digest # o.digest /\ x.at >= o.at}

(* A file is not from the future, nor older than what is in it. *)
Dated(f) == f.mtime <= now /\ \A e \in f.entries : e.at <= f.mtime

(* Nothing is from the future. *)
AgesInv ==
    /\ \A s \in Sessions : \A o \in owed[s] : o.at <= now
    /\ \A s \in Sessions : pending[s] # None => Dated(pending[s])
    /\ \A s \in Sessions : tmp[s] # None => Dated(tmp[s])
    /\ \A p \in Procs : \A e \in entries[p] : e.at <= now

(* A prompt has one debt, and while its count is below the limit it counts   *)
(* every other debt that is as young.                                        *)
CountsInv ==
    /\ \A s \in Sessions : \A o, x \in owed[s] : o.digest = x.digest => o = x
    /\ \A s \in Sessions : \A o \in owed[s] :
           o.since < MaxPending => Cardinality(Later(s, o)) <= o.since

(* A promise that still holds is in the file. *)
Holds(o) == o.since < MaxPending /\ Fresh(o)

ParkedInv ==
    \A s \in Sessions : \A o \in owed[s] :
        Holds(o) => pending[s] # None /\ Parked(pending[s].entries, o)

Writing(p) == pc[p] \in {"clear", "open", "write", "rename"}

(* ... and in what p is about to write, but for its own prompt: if consume   *)
(* has not found that, no promise for it holds.  store may leave out what    *)
(* its own promise will push out.  What the sweep removes is stale.          *)
Handled(p) ==
    /\ Writing(p) => \A o \in owed[sess[p]] :
           /\ o.digest # digest[p] /\ Fresh(o)
           /\ o.since + (IF storing[p] THEN 1 ELSE 0) < MaxPending
           => Parked(entries[p], o)
    /\ pc[p] \notin {"idle", "consume"} /\ ~hit[p] =>
           \A o \in owed[sess[p]] : o.digest = digest[p] => ~Holds(o)
    /\ storing[p] =>
           /\ Writing(p)
           /\ \A e \in entries[p] : e.digest = digest[p] =>
                  \A o \in owed[sess[p]] : o.at <= e.at
    /\ pc[p] = "clear" => entries[p] = {}
    /\ pc[p] = "unlink" =>
           /\ victim[p] \in Sessions
           /\ pending[victim[p]] # None => IsStale(victim[p])

PromisedInv == CountsInv /\ ParkedInv /\ \A p \in Procs : Handled(p)

KeptInv == AgesInv /\ (~overlap => PromisedInv)

LEMMA KeptInit == Init => KeptInv
<1> SUFFICES ASSUME Init PROVE KeptInv
  OBVIOUS
<1>1. /\ \A s \in Sessions : owed[s] = {} /\ pending[s] = None /\ tmp[s] = None
      /\ \A p \in Procs : pc[p] = "idle" /\ ~storing[p] /\ entries[p] = {}
  BY DEF Init
<1>2. \A p \in Procs : Handled(p)
  BY <1>1 DEF Handled, Writing
<1> QED BY <1>1, <1>2 DEF KeptInv, PromisedInv, AgesInv, CountsInv, ParkedInv

LEMMA DebtTypes ==
  ASSUME TypeInv, NEW s \in Sessions, NEW o \in owed[s]
  PROVE  /\ o \in Debts /\ o.digest \in Digests /\ o.at \in Nat /\ o.since \in Nat
         /\ \A d, n : [o EXCEPT !.since = n].digest = o.digest
                      /\ [o EXCEPT !.since = n].at = o.at /\ [o EXCEPT !.since = n].since = n
<1>1. o \in Debts
  BY DEF TypeInv, TypeOK
<1> QED BY <1>1, PromptGuardAssumption DEF Debts, Times

LEMMA EntryAges == ASSUME NEW e \in Entries PROVE e.at \in Nat /\ e.digest \in Digests
  BY PromptGuardAssumption DEF Entries, Times

LEMMA MinBelow ==
  ASSUME NEW n \in Nat, Min({n, MaxPending}) < MaxPending PROVE Min({n, MaxPending}) = n
<1>1. CASE n <= MaxPending
  BY <1>1, PromptGuardAssumption DEF Min
<1>2. CASE ~(n <= MaxPending)
  <2>1. Min({n, MaxPending}) = MaxPending
    BY <1>2, PromptGuardAssumption DEF Min
  <2> QED BY <2>1, PromptGuardAssumption
<1> QED BY <1>1, <1>2

-----------------------------------------------------------------------------
(* What a promise does to the debts.                                       *)

(* A debt after a promise of d at the time at: the new one, which counts the *)
(* debts of its second, or an older one with one block more.                 *)
IsNew(o, s, d, at) ==
    /\ o.digest = d /\ o.at = at
    /\ o.since < MaxPending =>
           o.since = Cardinality({x \in Without(owed[s], d) : x.at = at})

IsOlder(o, x, d) ==
    /\ x.digest # d /\ o.digest = x.digest /\ o.at = x.at
    /\ o.since < MaxPending => o.since = x.since + 1

MadeBy(D, s, d, at) ==
    \E new, F :
        /\ D = {new} \cup {F[x] : x \in Without(owed[s], d)}
        /\ IsNew(new, s, d, at)
        /\ \A x \in Without(owed[s], d) : IsOlder(F[x], x, d)

LEMMA PromiseMade ==
  ASSUME TypeInv, NEW s \in Sessions, NEW d \in Digests, NEW at \in Times, Promise(s, d, at)
  PROVE  /\ \A t \in Sessions \ {s} : owed'[t] = owed[t]
         /\ MadeBy(owed'[s], s, d, at)
<1> DEFINE rest == Without(owed[s], d)
           ties == {o \in rest : o.at = at}
           new  == [digest |-> d, at |-> at, since |-> Min({Cardinality(ties), MaxPending})]
           F    == [o \in rest |-> [o EXCEPT !.since = Min({@ + 1, MaxPending})]]
<1>1. owed' = [owed EXCEPT ![s] = {new} \cup {F[o] : o \in rest}]
  <2>1. {F[o] : o \in rest} = {[o EXCEPT !.since = Min({@ + 1, MaxPending})] : o \in rest}
    OBVIOUS
  <2> QED BY <2>1 DEF Promise
<1>2. IsNew(new, s, d, at)
  <2>1. IsFiniteSet(ties)
    BY FS_Subset DEF Without, TypeInv
  <2>2. Cardinality(ties) \in Nat
    BY <2>1, FS_CardinalityType
  <2>3. new.since < MaxPending => new.since = Cardinality(ties)
    BY <2>2, MinBelow
  <2> QED BY <2>3 DEF IsNew
<1>3. ASSUME NEW x \in rest PROVE IsOlder(F[x], x, d)
  <2>1. x \in owed[s] /\ x.digest # d
    BY DEF Without
  <2>2. x \in Debts /\ x.since + 1 \in Nat
    BY <2>1, DebtTypes
  <2>3. /\ F[x].digest = x.digest /\ F[x].at = x.at
        /\ F[x].since = Min({x.since + 1, MaxPending})
    BY <2>2 DEF Debts
  <2>4. F[x].since < MaxPending => F[x].since = x.since + 1
    BY <2>2, <2>3, MinBelow
  <2> QED BY <2>1, <2>3, <2>4 DEF IsOlder
<1>4. /\ \A t \in Sessions \ {s} : owed'[t] = owed[t]
      /\ owed'[s] = {new} \cup {F[o] : o \in rest}
  BY <1>1 DEF TypeInv, TypeOK
<1> HIDE DEF new, F
<1> QED BY <1>2, <1>3, <1>4 DEF MadeBy

(* A count of what is later is no less than that of a part of it.            *)
LEMMA LaterFinite ==
  ASSUME TypeInv, NEW s \in Sessions, NEW o
  PROVE  /\ IsFiniteSet(Later(s, o)) /\ Cardinality(Later(s, o)) \in Nat
         /\ \A S \in SUBSET Later(s, o) :
                IsFiniteSet(S) /\ Cardinality(S) \in Nat
                /\ Cardinality(S) <= Cardinality(Later(s, o))
<1>1. IsFiniteSet(Later(s, o))
  BY FS_Subset DEF Later, TypeInv
<1>2. \A S \in SUBSET Later(s, o) :
          IsFiniteSet(S) /\ Cardinality(S) <= Cardinality(Later(s, o))
  BY <1>1, FS_Subset
<1> QED BY <1>1, <1>2, FS_CardinalityType

(* Fewer debts are counted as well. *)
LEMMA FewerCounted ==
  ASSUME TypeInv, CountsInv, \A s \in Sessions : owed'[s] \subseteq owed[s]
  PROVE  CountsInv'
<1>1. ASSUME NEW s \in Sessions, NEW o \in owed'[s], o.since < MaxPending
      PROVE  Cardinality(Later(s, o)') <= o.since
  <2>1. o \in owed[s] /\ Cardinality(Later(s, o)) <= o.since
    BY <1>1 DEF CountsInv
  <2>2. Later(s, o)' \in SUBSET Later(s, o)
    BY DEF Later
  <2>3. /\ Cardinality(Later(s, o)') <= Cardinality(Later(s, o))
        /\ Cardinality(Later(s, o)') \in Nat /\ Cardinality(Later(s, o)) \in Nat
    BY <2>2, LaterFinite
  <2>4. o.since \in Nat
    BY <2>1, DebtTypes
  <2> QED BY <2>1, <2>3, <2>4
<1>2. \A s \in Sessions : \A o, x \in owed'[s] : o.digest = x.digest => o = x
  BY DEF CountsInv
<1>3. CountsInv' <=> /\ \A s \in Sessions : \A o, x \in owed'[s] : o.digest = x.digest => o = x
                     /\ \A s \in Sessions : \A o \in owed'[s] :
                            o.since < MaxPending => Cardinality(Later(s, o)') <= o.since
  BY DEF CountsInv
<1> QED BY <1>1, <1>2, <1>3

(* A promise made now is counted by all, and counts all of its second. *)
LEMMA PromiseCounted ==
  ASSUME TypeInv, CountsInv, NEW s \in Sessions, NEW d \in Digests, NEW at \in Times,
         \A o \in owed[s] : o.at <= at, Promise(s, d, at)
  PROVE  CountsInv'
<1> DEFINE rest == Without(owed[s], d)
<1>1. \A t \in Sessions \ {s} : owed'[t] = owed[t]
  BY PromiseMade
<1>2. PICK new, F : /\ owed'[s] = {new} \cup {F[x] : x \in rest}
                    /\ IsNew(new, s, d, at)
                    /\ \A x \in rest : IsOlder(F[x], x, d)
  BY PromiseMade DEF MadeBy
<1>3. \A x \in rest : x \in owed[s] /\ x.digest # d
  BY DEF Without
<1>4. \A x \in owed[s] : x.digest # d => x \in rest
  BY DEF Without
<1> HIDE DEF rest
<1>5. \A S \in SUBSET owed[s] : IsFiniteSet(S) /\ Cardinality(S) \in Nat
  BY FS_Subset, FS_CardinalityType DEF TypeInv
<1>6. ASSUME NEW S \in SUBSET owed[s], NEW T, \A o \in T : \E x \in S : o = F[x]
      PROVE  IsFiniteSet(T) /\ Cardinality(T) \in Nat /\ Cardinality(T) <= Cardinality(S)
  <2> DEFINE U == {x \in S : F[x] \in T}
             f == [x \in U |-> F[x]]
  <2>1. f \in Surjection(U, T)
    BY <1>6 DEF Surjection
  <2>2. IsFiniteSet(S) /\ U \in SUBSET S /\ Cardinality(S) \in Nat
    BY <1>5
  <2>3. IsFiniteSet(U) /\ Cardinality(U) <= Cardinality(S) /\ Cardinality(U) \in Nat
    BY <2>2, FS_Subset, FS_CardinalityType
  <2>4. IsFiniteSet(T) /\ Cardinality(T) <= Cardinality(U)
    BY ONLY <2>1, <2>3, FS_Surjection
  <2> QED BY <2>2, <2>3, <2>4, FS_CardinalityType
<1>7. ASSUME NEW x \in rest, F[x].since < MaxPending
      PROVE  Cardinality(Later(s, F[x])') <= F[x].since
  <2> DEFINE L == Later(s, x)
             T == Later(s, F[x])'
             old == T \ {new}
  <2>1. x \in owed[s] /\ x.since \in Nat /\ F[x].since = x.since + 1
    BY <1>2, <1>3, <1>7, DebtTypes DEF IsOlder
  <2>2. Cardinality(L) <= x.since
    BY <1>7, <2>1, PromptGuardAssumption DEF CountsInv
  <2>3. \A o \in old : \E y \in L : o = F[y]
    <3> SUFFICES ASSUME NEW o \in old PROVE \E y \in L : o = F[y]
      OBVIOUS
    <3>1. o \in owed'[s] /\ o # new /\ o.digest # F[x].digest /\ o.at >= F[x].at
      BY DEF Later
    <3>2. PICK y \in rest : o = F[y]
      BY <1>2, <3>1
    <3>3. y \in owed[s] /\ y.digest # x.digest /\ y.at >= x.at
      BY <1>2, <1>3, <3>1, <3>2 DEF IsOlder
    <3> QED BY <3>2, <3>3 DEF Later
  <2>4. L \in SUBSET owed[s]
    BY DEF Later
  <2> HIDE DEF L, T
  <2>5. IsFiniteSet(old) /\ Cardinality(old) \in Nat /\ Cardinality(old) <= Cardinality(L)
    BY <1>6, <2>3, <2>4
  <2>6. T \in SUBSET (old \cup {new})
    OBVIOUS
  <2> HIDE DEF old
  <2>7. /\ IsFiniteSet(old \cup {new}) /\ Cardinality(old \cup {new}) \in Nat
        /\ Cardinality(old \cup {new}) <= Cardinality(old) + 1
    <3>1. /\ IsFiniteSet(old \cup {new})
          /\ Cardinality(old \cup {new}) \in {Cardinality(old), Cardinality(old) + 1}
      BY <2>5, FS_AddElement
    <3> QED BY <2>5, <3>1
  <2>8. Cardinality(T) <= Cardinality(old \cup {new}) /\ Cardinality(T) \in Nat
    BY <2>6, <2>7, FS_Subset, FS_CardinalityType
  <2>9. Cardinality(L) \in Nat
    BY <1>5, <2>4
  <2>10. Cardinality(T) <= F[x].since
    BY <2>1, <2>2, <2>5, <2>7, <2>8, <2>9
  <2> QED BY <2>10 DEF T
<1>8. new.since < MaxPending => Cardinality(Later(s, new)') <= new.since
  <2> SUFFICES ASSUME new.since < MaxPending PROVE Cardinality(Later(s, new)') <= new.since
    OBVIOUS
  <2> DEFINE ties == {x \in rest : x.at = at}
             T == Later(s, new)'
  <2>1. new.since = Cardinality(ties) /\ new.digest = d /\ new.at = at
    BY <1>2 DEF IsNew, rest
  <2>2. \A o \in T : \E y \in ties : o = F[y]
    <3> SUFFICES ASSUME NEW o \in T PROVE \E y \in ties : o = F[y]
      OBVIOUS
    <3>1. o \in owed'[s] /\ o.digest # new.digest /\ o.at >= new.at
      BY DEF Later
    <3>2. PICK y \in rest : o = F[y]
      BY <1>2, <3>1
    <3>3. y \in owed[s] /\ y.at >= at
      BY <1>2, <1>3, <2>1, <3>1, <3>2 DEF IsOlder
    <3>4. y.at <= at /\ y.at \in Nat /\ at \in Nat
      BY <3>3, DebtTypes, PromptGuardAssumption DEF Times
    <3> QED BY <3>2, <3>3, <3>4
  <2>3. ties \in SUBSET owed[s]
    BY <1>3
  <2> HIDE DEF ties, T
  <2>4. Cardinality(T) <= Cardinality(ties)
    BY <1>6, <2>2, <2>3
  <2> QED BY <2>1, <2>4 DEF T
<1>9. \A o, x \in owed'[s] : o.digest = x.digest => o = x
  <2>1. \A x, y \in rest : F[x].digest = F[y].digest => x = y
    BY <1>2, <1>3 DEF IsOlder, CountsInv
  <2>2. \A x \in rest : F[x].digest # new.digest
    BY <1>2 DEF IsOlder, IsNew
  <2> QED BY <1>2, <2>1, <2>2
<1>10. ASSUME NEW t \in Sessions, NEW o \in owed'[t], o.since < MaxPending
       PROVE  Cardinality(Later(t, o)') <= o.since
  <2>1. CASE t = s
    BY <1>2, <1>7, <1>8, <1>10, <2>1
  <2>2. CASE t # s
    <3>1. owed'[t] = owed[t]
      BY <1>1, <2>2
    <3>2. Later(t, o)' = Later(t, o)
      BY <3>1 DEF Later
    <3> QED BY <1>10, <3>1, <3>2 DEF CountsInv
  <2> QED BY <2>1, <2>2
<1>11. \A t \in Sessions : \A o, x \in owed'[t] : o.digest = x.digest => o = x
  BY <1>1, <1>9 DEF CountsInv
<1>12. CountsInv' <=> /\ \A t \in Sessions : \A o, x \in owed'[t] : o.digest = x.digest => o = x
                      /\ \A t \in Sessions : \A o \in owed'[t] :
                             o.since < MaxPending => Cardinality(Later(t, o)') <= o.since
  BY DEF CountsInv
<1> QED BY <1>10, <1>11, <1>12

-----------------------------------------------------------------------------
(* Ages.                                                                   *)

LEMMA WrittenAges ==
  ASSUME TypeInv, AgesInv, now' = now, NEW p \in Procs, pc[p] # "idle", Written(p)
  PROVE  /\ \A s \in Sessions : \A o \in owed'[s] : o.at <= now
         /\ \A q \in Procs : \A e \in entries'[q] : e.at <= now
<1> USE DEF TypeInv, TypeOK
<1>0. PICK s \in Sessions, d \in Digests : s = sess[p] /\ d = digest[p]
  OBVIOUS
<1>1. CASE storing[p] /\ (\E e \in For(entries[p], d) : Promise(s, d, e.at)) /\ Exit(p)
  <2>1. PICK at \in Times : at <= now /\ Promise(s, d, at)
    <3>1. PICK e \in For(entries[p], d) : Promise(s, d, e.at)
      BY <1>1
    <3>2. e \in entries[p] /\ e.at \in Times
      BY <3>1 DEF For, Entries
    <3> QED BY <3>1, <3>2 DEF AgesInv
  <2>2. (\A t \in Sessions \ {s} : owed'[t] = owed[t]) /\ MadeBy(owed'[s], s, d, at)
    BY <2>1, PromiseMade
  <2>3. \A o \in owed'[s] : o.at <= now
    BY <2>1, <2>2 DEF MadeBy, IsNew, IsOlder, Without, AgesInv
  <2>4. \A t \in Sessions : \A o \in owed'[t] : o.at <= now
    BY <2>2, <2>3 DEF AgesInv
  <2> QED BY <1>1, <2>4 DEF Exit, AgesInv
<1>2. CASE ~storing[p] /\ hit[p] /\ owed' = [owed EXCEPT ![s] = Without(@, d)] /\ Exit(p)
  <2>1. \A t \in Sessions : owed'[t] \subseteq owed[t]
    BY <1>2 DEF Without
  <2> QED BY <1>2, <2>1 DEF Exit, AgesInv
<1>3. CASE ~storing[p] /\ ~hit[p] /\ Goto(p, "glob") /\ UNCHANGED <<call, sweep, owed>>
  BY <1>3 DEF call, AgesInv
<1> QED BY <1>0, <1>1, <1>2, <1>3 DEF Written

LEMMA DatedTypes ==
  ASSUME TypeInv, NEW f \in Files, Dated(f)
  PROVE  /\ f.mtime \in Nat /\ now \in Nat /\ f.mtime <= now
         /\ \A e \in f.entries : e \in Entries /\ e.at \in Nat /\ e.at <= f.mtime /\ e.at <= now
<1>1. /\ f.mtime \in Nat /\ now \in Nat /\ f.mtime <= now /\ f.entries \subseteq Entries
      /\ \A e \in f.entries : e.at <= f.mtime
  BY PromptGuardAssumption DEF TypeInv, TypeOK, Files, Times, Dated
<1>2. ASSUME NEW e \in f.entries
      PROVE  e \in Entries /\ e.at \in Nat /\ e.at <= f.mtime /\ e.at <= now
  <2>1. e \in Entries /\ e.at <= f.mtime
    BY <1>1
  <2>2. e.at \in Nat
    BY <2>1, EntryAges
  <2> QED BY <1>1, <2>1, <2>2
<1> QED BY <1>1, <1>2

LEMMA LoadAges ==
  ASSUME TypeInv, AgesInv, NEW s \in Sessions
  PROVE  \A e \in Load(s) : e \in Entries /\ e.at <= now
<1>1. CASE pending[s] = None
  BY <1>1 DEF Load, FileOf
<1>2. CASE pending[s] # None
  <2>1. pending[s] \in Files /\ Dated(pending[s])
    BY <1>2 DEF TypeInv, TypeOK, AgesInv
  <2>2. \A e \in pending[s].entries : e \in Entries /\ e.at <= now
    BY <2>1, DatedTypes
  <2> QED BY <1>2, <2>2 DEF Load, FileOf
<1> QED BY <1>1, <1>2

LEMMA AgesStep == TypeInv /\ AgesInv /\ [Next]_vars => AgesInv'
<1> SUFFICES ASSUME TypeInv, AgesInv, [Next]_vars PROVE AgesInv'
  OBVIOUS
<1> USE PromptGuardAssumption DEF TypeInv, TypeOK, AgesInv, files, call, sweep
<1>0. now \in Nat
  BY DEF Times
<1>a. ASSUME now' = now PROVE \A f : Dated(f)' <=> Dated(f)
  BY <1>a DEF Dated
<1>1. CASE Tick
  <2>1. now' = now + 1 /\ UNCHANGED <<pending, tmp, entries>>
    BY <1>1 DEF Tick, files, call
  <2>2. \A s \in Sessions : \A o \in owed'[s] : o.at <= now /\ o.at \in Nat
    <3>1. \A s \in Sessions : owed'[s] \subseteq owed[s]
      BY <1>1 DEF Tick
    <3> QED BY <3>1, DebtTypes
  <2>3. \A p \in Procs : \A e \in entries[p] : e.at <= now /\ e.at \in Nat
    BY EntryAges
  <2>4. \A f \in Files : Dated(f) => Dated(f)'
    <3> SUFFICES ASSUME NEW f \in Files, Dated(f) PROVE Dated(f)'
      OBVIOUS
    <3>1. f.mtime <= now' /\ \A e \in f.entries : e.at <= f.mtime
      BY <2>1, DatedTypes
    <3> QED BY <3>1 DEF Dated
  <2>5. \A s \in Sessions : pending[s] # None => pending[s] \in Files
    OBVIOUS
  <2>6. \A s \in Sessions : tmp[s] # None => tmp[s] \in Files
    OBVIOUS
  <2>7. \A s \in Sessions : \A o \in owed'[s] : o.at <= now'
    BY <1>0, <2>1, <2>2
  <2>8. \A p \in Procs : \A e \in entries'[p] : e.at <= now'
    BY <1>0, <2>1, <2>3
  <2> QED BY <2>1, <2>4, <2>5, <2>6, <2>7, <2>8
<1>2. ASSUME NEW p \in Procs, Submit(p) PROVE AgesInv'
  BY <1>a, <1>2 DEF Submit
<1>3. ASSUME NEW p \in Procs, Consume(p) PROVE AgesInv'
  <2>1. \A e \in Without(Load(sess[p]), digest[p]) : e.at <= now
    BY <1>3, LoadAges DEF Consume, Without
  <2> QED BY <1>a, <1>3, <2>1 DEF Consume, WriteBack
<1>4. ASSUME NEW p \in Procs, Clear(p) PROVE AgesInv'
  <2>1. pc[p] # "idle" /\ Written(p) /\ UNCHANGED <<now, tmp>>
    BY <1>4 DEF Clear
  <2>2. \A s \in Sessions : pending'[s] \in {pending[s], None}
    BY <1>4 DEF Clear, Replaced
  <2> QED BY <1>a, <2>1, <2>2, WrittenAges
<1>5. ASSUME NEW p \in Procs, OpenTmp(p) PROVE AgesInv'
  <2>1. Dated([entries |-> {}, mtime |-> now])
    BY <1>0 DEF Dated
  <2> QED BY <1>a, <1>5, <2>1 DEF OpenTmp
<1>6. ASSUME NEW p \in Procs, WriteTmp(p) PROVE AgesInv'
  <2>1. Dated([entries |-> entries[p], mtime |-> now])
    BY <1>0 DEF Dated
  <2> QED BY <1>a, <1>6, <2>1 DEF WriteTmp
<1>7. ASSUME NEW p \in Procs, Rename(p) PROVE AgesInv'
  <2>1. pc[p] # "idle" /\ Written(p) /\ now' = now
    BY <1>7 DEF Rename
  <2>2. \A s \in Sessions : pending'[s] \in {pending[s], tmp[s]} /\ tmp'[s] \in {tmp[s], None}
    BY <1>7 DEF Rename, Replaced
  <2> QED BY <1>a, <2>1, <2>2, WrittenAges
<1>8. ASSUME NEW p \in Procs, RenameFails(p) PROVE AgesInv'
  BY <1>a, <1>8 DEF RenameFails, Exit
<1>9. ASSUME NEW p \in Procs, Glob(p) PROVE AgesInv'
  BY <1>a, <1>9 DEF Glob
<1>10. ASSUME NEW p \in Procs, Look(p) PROVE AgesInv'
  BY <1>a, <1>10 DEF Look
<1>11. ASSUME NEW p \in Procs, Unlink(p) PROVE AgesInv'
  <2>1. \A s \in Sessions : pending'[s] \in {pending[s], None}
    BY <1>11 DEF Unlink, Replaced
  <2> QED BY <1>a, <1>11, <2>1 DEF Unlink
<1>12. ASSUME NEW p \in Procs, Store(p) PROVE AgesInv'
  <2> DEFINE e == [sess |-> sess[p], digest |-> digest[p], at |-> Stamp]
             E == Without(Load(sess[p]), digest[p]) \cup {e}
  <2>1. PICK K \in SUBSET E : WriteBack(p, K)
    BY <1>12 DEF Store, KeepNewest
  <2>2. \A f \in E : f.at <= now
    BY <1>0, <1>12, LoadAges DEF Store, Without, Stamp
  <2> HIDE DEF E
  <2> QED BY <1>a, <1>12, <2>1, <2>2 DEF Store, WriteBack
<1>13. ASSUME NEW p \in Procs, Crash(p) PROVE AgesInv'
  BY <1>a, <1>13 DEF Crash, Exit
<1>14. ASSUME UNCHANGED vars PROVE AgesInv'
  BY <1>a, <1>14 DEF vars
<1> QED BY <1>1, <1>2, <1>3, <1>4, <1>5, <1>6, <1>7, <1>8, <1>9, <1>10, <1>11, <1>12, <1>13, <1>14
        DEF Next

-----------------------------------------------------------------------------
(* The promises, one prompt at a time.                                     *)

(* What store throws out is older than MaxPending - 1 blocks that stay, and  *)
(* each of those is owed: the count of a debt that holds after the next      *)
(* block leaves no room for them.                                            *)
LEMMA EvictedIsPushedOut ==
  ASSUME TypeInv, WriteInv, OwedInv, PromisedInv,
         NEW s \in Sessions, NEW d, NEW e, e.digest = d,
         NEW K, K \in KeepNewest(Without(Load(s), d) \cup {e}, e),
         NEW o \in owed[s], o.digest # d, Fresh(o), o.since + 1 < MaxPending
  PROVE  Parked(K, o)
<1> DEFINE L == Later(s, o)
           Y == K \ {e}
           twin == [y \in Y |-> CHOOSE x \in L : x.digest = y.digest]
<1>0. o.since \in Nat /\ o.at \in Nat
  BY DebtTypes
<1>1. PICK x \in Load(s) : x.digest = o.digest /\ x.at = o.at
  <2>1. Holds(o)
    BY <1>0, PromptGuardAssumption DEF Holds
  <2>2. pending[s] # None /\ Parked(pending[s].entries, o)
    BY <2>1 DEF PromisedInv, ParkedInv
  <2>3. PICK x \in pending[s].entries : x.digest = o.digest /\ x.at = o.at
    BY <2>2 DEF Parked
  <2> QED BY <2>2, <2>3 DEF Load, FileOf, Fresh
<1>2. x \in Without(Load(s), d) \cup {e}
  BY <1>1 DEF Without
<1>3. SUFFICES ASSUME x \notin K PROVE FALSE
  BY <1>1 DEF Parked
<1>4. /\ Cardinality(K) = MaxPending /\ e \in K
      /\ \A y \in K : x.at <= y.at /\ (y = e \/ (y \in Load(s) /\ y.digest # d))
  <2> DEFINE E == Without(Load(s), d) \cup {e}
  <2>1. K \in SUBSET E /\ Cardinality(K) = MaxPending /\ e \in K
        /\ \A z \in E \ K, y \in K : z.at <= y.at
    BY DEF KeepNewest
  <2>2. \A y \in E : y = e \/ (y \in Load(s) /\ y.digest # d)
    BY DEF Without
  <2>3. x \in E \ K
    BY <1>2, <1>3
  <2> HIDE DEF E
  <2> QED BY <2>1, <2>2, <2>3
<1>5. \A y \in Y : \E z \in L : z.digest = y.digest
  <2> SUFFICES ASSUME NEW y \in Y PROVE \E z \in L : z.digest = y.digest
    OBVIOUS
  <2>1. y \in Load(s) /\ x.at <= y.at
    BY <1>4
  <2>2. y.digest # x.digest
    BY <1>1, <1>3, <2>1, LoadBounded DEF TypeInv, WriteInv, Bounded
  <2>3. pending[s] # None /\ y \in pending[s].entries /\ Fresh(y)
    BY <2>1 DEF Load, FileOf, Fresh
  <2>4. PICK z \in owed[s] : z.digest = y.digest /\ z.at >= y.at
    BY <2>3 DEF OwedInv, DebtsInv, Owes
  <2>5. x.at \in Nat /\ y.at \in Nat /\ z.at \in Nat
    BY <1>1, <2>1, <2>4, LoadTypes, EntryAges, DebtTypes DEF TypeInv
  <2>6. z.at >= o.at
    BY <1>1, <2>1, <2>4, <2>5
  <2> QED BY <1>1, <2>2, <2>4, <2>6 DEF Later
<1>6. \A y, z \in Y : y.digest = z.digest => y = z
  <2>1. \A y \in Y : y \in Load(s)
    BY <1>4
  <2> QED BY <2>1, LoadBounded DEF TypeInv, WriteInv, Bounded
<1>7. IsFiniteSet(L) /\ Cardinality(L) \in Nat /\ Cardinality(L) <= o.since
  <2>1. o.since < MaxPending
    BY <1>0, PromptGuardAssumption
  <2> QED BY <2>1, LaterFinite DEF PromisedInv, CountsInv
<1> HIDE DEF L, Y
<1>8. \A y \in Y : twin[y] \in L /\ twin[y].digest = y.digest
  BY <1>5
<1>9. twin \in Injection(Y, L)
  BY <1>6, <1>8 DEF Injection, IsInjective
<1>10. IsFiniteSet(Y) /\ Cardinality(Y) <= Cardinality(L)
  BY ONLY <1>7, <1>9, FS_Injection
<1>11. Cardinality(Y \cup {e}) = Cardinality(Y) + 1 /\ Cardinality(Y) \in Nat
  BY <1>10, FS_AddElement, FS_CardinalityType DEF Y
<1>12. Y \cup {e} = K
  BY <1>4 DEF Y
<1>13. Cardinality(Y) + 1 = MaxPending
  BY <1>4, <1>11, <1>12
<1> QED BY <1>0, <1>7, <1>10, <1>11, <1>13

(* A process that is not running handles nothing. *)
LEMMA IdleHandles ==
  ASSUME NEW p, pc[p] = "idle", ~storing[p] PROVE Handled(p)
  BY DEF Handled, Writing

(* The last write of p is done: what it has written has taken the place of   *)
(* the file, or there was nothing to write.                                  *)
LEMMA WrittenKeeps ==
  ASSUME TypeInv, OwedInv, AgesInv, PromisedInv, now' = now,
         NEW p \in Procs, Writing(p), Written(p),
         NEW s, s = sess[p], \A t \in Sessions \ {s} : pending'[t] = pending[t],
         \/ pending'[s] = None /\ entries[p] = {}
         \/ pending'[s] # None /\ pending'[s].entries = entries[p]
  PROVE  PromisedInv'
<1> USE DEF TypeInv, TypeOK
<1>0. PICK d \in Digests : s \in Sessions /\ d = digest[p] /\ pc[p] # "idle"
  BY DEF Writing
<1>a. Handled(p) /\ CountsInv /\ ParkedInv
  BY DEF PromisedInv
<1>b. \A q \in Procs \ {p} : pc[q] = "idle" /\ ~storing[q]
  <2>1. \A q \in Procs \ {p} : pc[q] = "idle"
    BY <1>0 DEF OwedInv, DebtsInv
  <2> QED BY <2>1 DEF PromisedInv, Handled, Writing
<1>c. \A o : Fresh(o)' <=> Fresh(o)
  BY DEF Fresh
<1>d. ASSUME \A t \in Sessions \ {s} : owed'[t] = owed[t],
             \A o \in owed'[s] : Holds(o) => Parked(entries[p], o)
      PROVE  ParkedInv'
  <2>1. \A t \in Sessions \ {s} : \A o \in owed'[t] :
            Holds(o) => pending'[t] # None /\ Parked(pending'[t].entries, o)
    BY <1>a, <1>d DEF ParkedInv
  <2>2. \A o \in owed'[s] : Holds(o) => pending'[s] # None /\ Parked(pending'[s].entries, o)
    BY <1>d DEF Parked
  <2> QED BY <1>c, <2>1, <2>2 DEF ParkedInv, Holds, Parked
<1>e. ASSUME Exit(p) PROVE \A q \in Procs : Handled(q)'
  <2>1. \A q \in Procs : pc'[q] = "idle" /\ ~storing'[q]
    BY <1>b, <1>e DEF Exit, Goto
  <2> QED BY <2>1 DEF Handled, Writing
<1>1. CASE storing[p] /\ (\E e \in For(entries[p], d) : Promise(s, d, e.at)) /\ Exit(p)
  <2>1. PICK e \in entries[p] : e.digest = d /\ Promise(s, d, e.at)
    BY <1>1 DEF For
  <2>2. PICK at \in Times : at = e.at
    BY <2>1 DEF Entries
  <2>3. \A o \in owed[s] : o.at <= at
    BY <1>0, <1>1, <1>a, <2>1, <2>2 DEF Handled
  <2>4. CountsInv'
    BY <1>0, <1>a, <2>1, <2>2, <2>3, PromiseCounted
  <2>5. (\A t \in Sessions \ {s} : owed'[t] = owed[t]) /\ MadeBy(owed'[s], s, d, at)
    BY <1>0, <2>1, <2>2, PromiseMade
  <2>6. \A o \in owed'[s] : Holds(o) => Parked(entries[p], o)
    <3> SUFFICES ASSUME NEW o \in owed'[s], Holds(o) PROVE Parked(entries[p], o)
      OBVIOUS
    <3>1. CASE IsNew(o, s, d, at)
      BY <2>1, <2>2, <3>1 DEF IsNew, Parked
    <3>2. ASSUME NEW x \in Without(owed[s], d), IsOlder(o, x, d) PROVE Parked(entries[p], o)
      <4>1. x \in owed[s] /\ x.digest # d /\ o.digest = x.digest /\ o.at = x.at
        BY <3>2 DEF Without, IsOlder
      <4>2. Fresh(x) /\ x.since + 1 < MaxPending
        BY <3>2, <4>1 DEF Holds, Fresh, IsOlder
      <4>3. Parked(entries[p], x)
        BY <1>0, <1>1, <1>a, <4>1, <4>2 DEF Handled
      <4> QED BY <4>1, <4>3 DEF Parked
    <3> QED BY <2>5, <3>1, <3>2 DEF MadeBy
  <2> QED BY <1>1, <1>d, <1>e, <2>4, <2>5, <2>6 DEF PromisedInv
<1>f. ASSUME NEW o \in owed[s], ~storing[p], Holds(o), o.digest # d
      PROVE  Parked(entries[p], o)
  <2>1. o.since + 0 < MaxPending /\ Fresh(o)
    BY <1>0, <1>f, DebtTypes DEF Holds
  <2> QED BY <1>0, <1>a, <1>f, <2>1 DEF Handled
<1>2. CASE ~storing[p] /\ hit[p] /\ owed' = [owed EXCEPT ![s] = Without(@, d)] /\ Exit(p)
  <2>1. /\ \A t \in Sessions : owed'[t] \subseteq owed[t]
        /\ \A t \in Sessions \ {s} : owed'[t] = owed[t]
        /\ \A o \in owed'[s] : o \in owed[s] /\ o.digest # d
    BY <1>0, <1>2 DEF Without
  <2>2. CountsInv'
    BY <1>a, <2>1, FewerCounted
  <2> QED BY <1>2, <1>d, <1>e, <1>f, <2>1, <2>2 DEF PromisedInv
<1>3. CASE ~storing[p] /\ ~hit[p] /\ Goto(p, "glob") /\ UNCHANGED <<call, sweep, owed>>
  <2>1. CountsInv'
    BY <1>3, <1>a, FewerCounted
  <2>2. \A o \in owed[s] : Holds(o) => o.digest # d
    BY <1>0, <1>3, <1>a DEF Handled, Writing
  <2>3. ParkedInv'
    BY <1>3, <1>d, <1>f, <2>2
  <2>4. Handled(p)'
    BY <1>0, <1>3, <1>c, <2>2 DEF Handled, Writing, Holds, Goto, call
  <2>5. \A q \in Procs \ {p} : Handled(q)'
    BY <1>b, <1>3 DEF Handled, Writing, Goto, call
  <2> QED BY <2>1, <2>3, <2>4, <2>5 DEF PromisedInv
<1> QED BY <1>0, <1>1, <1>2, <1>3 DEF Written

(* Steps that leave the debts and the files alone, and what p has loaded:    *)
(* what p handles is all there is to see to.                                 *)
LEMMA OthersIdle ==
  ASSUME OwedInv, PromisedInv, NEW p \in Procs, pc[p] # "idle",
         \A q \in Procs \ {p} : pc'[q] = pc[q] /\ storing'[q] = storing[q]
  PROVE  \A q \in Procs \ {p} : Handled(q)'
<1>1. \A q \in Procs \ {p} : pc[q] = "idle"
  BY DEF OwedInv, DebtsInv
<1>2. \A q \in Procs \ {p} : ~storing[q]
  BY <1>1 DEF PromisedInv, Handled, Writing
<1> QED BY <1>1, <1>2 DEF Handled, Writing

LEMMA FilesAlone ==
  ASSUME PromisedInv, UNCHANGED <<now, pending, owed>> PROVE CountsInv' /\ ParkedInv'
<1>1. \A s, o : Later(s, o)' = Later(s, o) /\ (Holds(o)' <=> Holds(o))
  BY DEF Later, Holds, Fresh
<1> QED BY <1>1 DEF PromisedInv, CountsInv, ParkedInv, Parked

LEMMA PromisedStep ==
  ASSUME Window <= Stale, TypeInv, WriteInv, AloneInv, KeptInv, [Next]_vars
  PROVE  ~overlap' => PromisedInv'
<1> SUFFICES ASSUME ~overlap' PROVE PromisedInv'
  OBVIOUS
<1> USE PromptGuardAssumption DEF TypeInv, TypeOK, files, call, sweep
<1>a. overlap' = overlap
  BY DEF Next, vars, Tick, Submit, Consume, Clear, OpenTmp, WriteTmp, Rename, RenameFails,
         Glob, Look, Unlink, Store, Crash
<1>b. OwedInv /\ AgesInv /\ PromisedInv /\ CountsInv /\ ParkedInv
  BY <1>a DEF AloneInv, KeptInv, PromisedInv
<1>c. \A p \in Procs : Handled(p)
  BY <1>b DEF PromisedInv
<1>d. ASSUME now' = now PROVE \A o : (Fresh(o)' <=> Fresh(o)) /\ (Holds(o)' <=> Holds(o))
  BY <1>d DEF Fresh, Holds
<1>e. ASSUME NEW p \in Procs, pc[p] # "idle", Handled(p)',
             \A q \in Procs \ {p} : pc'[q] = pc[q] /\ storing'[q] = storing[q],
             UNCHANGED <<now, pending, owed>>
      PROVE  PromisedInv'
  BY <1>b, <1>e, OthersIdle, FilesAlone DEF PromisedInv
<1>1. CASE Tick
  <2>1. /\ now' = now + 1 /\ now \in Nat /\ UNCHANGED <<pending, tmp, pc, storing, sess, digest, entries, hit, victim>>
        /\ \A s \in Sessions : owed'[s] \subseteq owed[s]
    BY <1>1 DEF Tick, Times
  <2>2. \A s \in Sessions : \A o \in owed[s] : (Fresh(o)' => Fresh(o)) /\ (Holds(o)' => Holds(o))
    <3> SUFFICES ASSUME NEW s \in Sessions, NEW o \in owed[s]
                 PROVE  (Fresh(o)' => Fresh(o)) /\ (Holds(o)' => Holds(o))
      OBVIOUS
    <3>1. o.at \in Nat
      BY DebtTypes
    <3> QED BY <2>1, <3>1 DEF Fresh, Holds
  <2>3. CountsInv'
    BY <1>b, <2>1, FewerCounted
  <2>4. ParkedInv'
    BY <1>b, <2>1, <2>2 DEF ParkedInv, Parked
  <2>5. ASSUME NEW p \in Procs PROVE Handled(p)'
    <3>1. Handled(p)
      BY <1>c
    <3>2. CASE pc[p] = "idle"
      <4>1. ~storing[p]
        BY <3>1, <3>2 DEF Handled, Writing
      <4> QED BY <2>1, <3>2, <4>1 DEF Handled, Writing
    <3>3. CASE pc[p] # "idle"
      <4>1. sess[p] \in Sessions /\ owed'[sess[p]] \subseteq owed[sess[p]]
        BY <2>1, <3>3
      <4>2. /\ Writing(p)' => \A o \in owed'[sess[p]] :
                  o.digest # digest[p] /\ Fresh(o)' /\ o.since + (IF storing[p] THEN 1 ELSE 0) < MaxPending
                  => Parked(entries[p], o)
            /\ pc[p] \notin {"idle", "consume"} /\ ~hit[p] =>
                  \A o \in owed'[sess[p]] : o.digest = digest[p] => ~Holds(o)'
            /\ storing[p] => /\ Writing(p)
                             /\ \A e \in entries[p] : e.digest = digest[p] =>
                                   \A o \in owed'[sess[p]] : o.at <= e.at
        BY <2>1, <2>2, <3>1, <4>1 DEF Handled, Writing
      <4>3. pc[p] = "unlink" => /\ victim[p] \in Sessions
                                /\ pending[victim[p]] # None => IsStale(victim[p])'
        <5> SUFFICES ASSUME pc[p] = "unlink", pending[victim[p]] # None, victim[p] \in Sessions
                     PROVE  IsStale(victim[p])'
          BY <3>1 DEF Handled
        <5>1. pending[victim[p]].mtime \in Nat
          BY DEF Files, Times
        <5>2. now - pending[victim[p]].mtime > Stale
          BY <3>1 DEF Handled, IsStale
        <5> QED BY <2>1, <5>1, <5>2 DEF IsStale
      <4> QED BY <2>1, <3>1, <4>2, <4>3 DEF Handled, Writing, Parked
    <3> QED BY <3>2, <3>3
  <2> QED BY <2>3, <2>4, <2>5 DEF PromisedInv
<1>2. ASSUME NEW p \in Procs, Submit(p) PROVE PromisedInv'
  <2>1. \A q \in Procs : pc[q] = "idle"
    BY <1>2, <1>a DEF Submit
  <2>2. \A q \in Procs : ~storing[q]
    BY <1>c, <2>1 DEF Handled, Writing
  <2>3. \A q \in Procs : pc'[q] \in {"idle", "consume"} /\ ~storing'[q]
    BY <1>2, <2>1, <2>2 DEF Submit, Goto
  <2>4. \A q \in Procs : Handled(q)'
    BY <2>3 DEF Handled, Writing
  <2> QED BY <1>2, <1>b, <2>4, FilesAlone DEF Submit, PromisedInv
<1>3. ASSUME NEW p \in Procs, Consume(p) PROVE PromisedInv'
  <2> DEFINE s == sess[p]
             d == digest[p]
             K == Without(Load(s), d)
  <2>1. s \in Sessions /\ pc[p] = "consume" /\ ~storing[p]
    BY <1>3, <1>c DEF Consume, Handled, Writing
  <2>2. /\ entries' = [entries EXCEPT ![p] = K] /\ UNCHANGED <<now, pending, owed, sess, digest, storing>>
        /\ pc' = [pc EXCEPT ![p] = IF K = {} THEN "clear" ELSE "open"]
        /\ hit' = [hit EXCEPT ![p] = \E e \in Load(s) : e.digest = d]
    BY <1>3 DEF Consume, WriteBack, Goto
  <2>3. \A o \in owed[s] : Holds(o) => Parked(Load(s), o)
    <3> SUFFICES ASSUME NEW o \in owed[s], Holds(o) PROVE Parked(Load(s), o)
      OBVIOUS
    <3>1. PICK e \in pending[s].entries : pending[s] # None /\ e.digest = o.digest /\ e.at = o.at
      BY <1>b, <2>1 DEF ParkedInv, Parked
    <3>2. now - e.at <= Window
      BY <3>1 DEF Holds, Fresh
    <3> QED BY <3>1, <3>2 DEF Load, FileOf, Parked
  <2>4. \A o \in owed[s] : Fresh(o) /\ o.digest # d /\ o.since + 0 < MaxPending => Parked(K, o)
    <3> SUFFICES ASSUME NEW o \in owed[s], Fresh(o), o.digest # d, o.since + 0 < MaxPending
                 PROVE  Parked(K, o)
      OBVIOUS
    <3>1. o.since \in Nat
      BY <2>1, DebtTypes
    <3>2. Parked(Load(s), o)
      BY <2>3, <3>1 DEF Holds
    <3> QED BY <3>2 DEF Parked, Without
  <2>5. ~hit'[p] => \A o \in owed[s] : o.digest = d => ~Holds(o)
    BY <2>2, <2>3 DEF Parked
  <2>6. entries'[p] = K /\ ~storing'[p] /\ pc'[p] \in {"clear", "open"} /\ (pc'[p] = "clear" => K = {})
    BY <2>1, <2>2
  <2>7. s = sess'[p] /\ d = digest'[p] /\ owed' = owed /\ now' = now
    BY <2>2
  <2> HIDE DEF s, d, K
  <2>8. Handled(p)'
    BY <1>d, <2>4, <2>5, <2>6, <2>7 DEF Handled, Writing, Parked
  <2> QED BY <1>e, <2>1, <2>2, <2>8
<1>4. ASSUME NEW p \in Procs, Clear(p) PROVE PromisedInv'
  <2>1. Writing(p) /\ Written(p) /\ now' = now /\ entries[p] = {}
    BY <1>4, <1>c DEF Clear, Writing, Handled
  <2>2. PICK s : s = sess[p]
    OBVIOUS
  <2>3. s \in Sessions /\ pending' = [pending EXCEPT ![s] = None]
    BY <1>4, <2>2 DEF Clear, Replaced, FileOf
  <2>4. pending'[s] = None /\ \A t \in Sessions \ {s} : pending'[t] = pending[t]
    BY <2>3
  <2> QED BY <1>b, <2>1, <2>2, <2>4, WrittenKeeps
<1>5. ASSUME NEW p \in Procs, OpenTmp(p) PROVE PromisedInv'
  <2>1. /\ pc[p] = "open" /\ pc' = [pc EXCEPT ![p] = "write"]
        /\ UNCHANGED <<now, pending, owed, sess, digest, storing, entries, hit>>
    BY <1>5 DEF OpenTmp, Goto
  <2>2. Handled(p)'
    BY <1>c, <1>d, <2>1 DEF Handled, Writing, Parked
  <2> QED BY <1>e, <2>1, <2>2
<1>6. ASSUME NEW p \in Procs, WriteTmp(p) PROVE PromisedInv'
  <2>1. where[p] = "tmp"
    BY <1>6, <1>b DEF WriteTmp, OwedInv, TmpInv
  <2>2. /\ pc[p] = "write" /\ pc' = [pc EXCEPT ![p] = "rename"]
        /\ UNCHANGED <<now, pending, owed, sess, digest, storing, entries, hit>>
    BY <1>6, <2>1 DEF WriteTmp, Goto
  <2>3. Handled(p)'
    BY <1>c, <1>d, <2>2 DEF Handled, Writing, Parked
  <2> QED BY <1>e, <2>2, <2>3
<1>7. ASSUME NEW p \in Procs, Rename(p) PROVE PromisedInv'
  <2>1. Writing(p) /\ Written(p) /\ now' = now
    BY <1>7 DEF Rename, Writing
  <2>2. PICK s : s = sess[p]
    OBVIOUS
  <2>3. s \in Sessions /\ pending' = [pending EXCEPT ![s] = tmp[s]]
        /\ tmp[s] # None /\ tmp[s].entries = entries[p]
    BY <1>7, <1>b, <2>2 DEF Rename, Replaced, FileOf, OwedInv, TmpInv
  <2>4. /\ pending'[s] # None /\ pending'[s].entries = entries[p]
        /\ \A t \in Sessions \ {s} : pending'[t] = pending[t]
    BY <2>3
  <2> QED BY <1>b, <2>1, <2>2, <2>4, WrittenKeeps
<1>8. ASSUME NEW p \in Procs, RenameFails(p) \/ Crash(p) PROVE PromisedInv'
  <2>1. /\ pc[p] # "idle" /\ pc' = [pc EXCEPT ![p] = "idle"]
        /\ storing' = [storing EXCEPT ![p] = FALSE] /\ UNCHANGED <<now, pending, owed>>
    BY <1>8 DEF RenameFails, Crash, Exit, Goto
  <2>2. Handled(p)'
    BY <2>1 DEF Handled, Writing
  <2> QED BY <1>e, <2>1, <2>2
<1>9. ASSUME NEW p \in Procs, Glob(p) PROVE PromisedInv'
  <2>1. /\ pc[p] = "glob" /\ pc' = [pc EXCEPT ![p] = "look"]
        /\ UNCHANGED <<now, pending, owed, sess, digest, storing, entries, hit>>
    BY <1>9 DEF Glob, Goto
  <2>2. Handled(p)'
    BY <1>c, <1>d, <2>1 DEF Handled, Writing
  <2> QED BY <1>e, <2>1, <2>2
<1>10. ASSUME NEW p \in Procs, Look(p) PROVE PromisedInv'
  <2>1. /\ pc[p] = "look" /\ pc'[p] \in {"look", "unlink"}
        /\ \A q \in Procs \ {p} : pc'[q] = pc[q]
        /\ UNCHANGED <<now, pending, owed, sess, digest, storing, entries, hit>>
    BY <1>10 DEF Look, Goto
  <2>2. pc'[p] = "unlink" => victim'[p] \in Sessions /\ IsStale(victim'[p])
    BY <1>10, <2>1 DEF Look, Goto
  <2>3. \A x : IsStale(x)' <=> IsStale(x)
    BY <2>1 DEF IsStale
  <2>4. Handled(p)'
    BY <1>c, <1>d, <2>1, <2>2, <2>3 DEF Handled, Writing, IsStale
  <2> QED BY <1>e, <2>1, <2>4
<1>11. ASSUME NEW p \in Procs, Unlink(p) PROVE PromisedInv'
  <2>1. /\ pc[p] = "unlink" /\ pc' = [pc EXCEPT ![p] = "look"]
        /\ UNCHANGED <<now, owed, sess, digest, storing, entries, hit>>
    BY <1>11 DEF Unlink, Goto
  <2>2. PICK v \in Sessions : v = victim[p] /\ (pending[v] # None => IsStale(v))
    BY <1>c, <2>1 DEF Handled
  <2>3. pending' = [pending EXCEPT ![v] = None]
    BY <1>11, <2>2 DEF Unlink, Replaced
  <2>4. ASSUME NEW o \in owed[v], Holds(o) PROVE FALSE
    <3>1. PICK e \in pending[v].entries : pending[v] # None /\ e.at = o.at
      BY <1>b, <2>4 DEF ParkedInv, Parked
    <3>2. pending[v] \in Files /\ Dated(pending[v])
      BY <1>b, <3>1 DEF AgesInv
    <3>3. /\ pending[v].mtime \in Nat /\ now \in Nat
          /\ e.at \in Nat /\ e.at <= pending[v].mtime
      BY <3>1, <3>2, DatedTypes
    <3>4. now - pending[v].mtime > Stale
      BY <2>2, <3>1 DEF IsStale
    <3>5. now - e.at <= Window
      BY <2>4, <3>1 DEF Holds, Fresh
    <3> QED BY <3>3, <3>4, <3>5
  <2>5. ParkedInv'
    BY <1>b, <1>d, <2>1, <2>3, <2>4 DEF ParkedInv, Parked
  <2>6. CountsInv'
    BY <1>b, <2>1, FewerCounted
  <2>7. Handled(p)'
    BY <1>c, <1>d, <2>1 DEF Handled, Writing
  <2>8. \A q \in Procs \ {p} : Handled(q)'
    BY <1>b, <2>1, OthersIdle
  <2> QED BY <2>5, <2>6, <2>7, <2>8 DEF PromisedInv
<1>12. ASSUME NEW p \in Procs, Store(p) PROVE PromisedInv'
  <2>0. PICK s \in Sessions, d \in Digests : s = sess[p] /\ d = digest[p]
    BY <1>12 DEF Store
  <2>1. PICK e : e = [sess |-> s, digest |-> d, at |-> now]
    OBVIOUS
  <2> DEFINE E == Without(Load(s), d) \cup {e}
  <2>2. PICK K : /\ WriteBack(p, K)
                 /\ \/ Cardinality(E) <= MaxPending /\ K = E
                    \/ Cardinality(E) > MaxPending /\ K \in KeepNewest(E, e)
    BY <1>12, <2>0, <2>1 DEF Store, Stamp
  <2>3. /\ pc[p] = "look" /\ entries' = [entries EXCEPT ![p] = K]
        /\ pc' = [pc EXCEPT ![p] = IF K = {} THEN "clear" ELSE "open"]
        /\ storing' = [storing EXCEPT ![p] = TRUE]
        /\ UNCHANGED <<now, pending, owed, sess, digest, hit>>
    BY <1>12, <2>2 DEF Store, WriteBack, Goto
  <2>4. ASSUME NEW o \in owed[s], o.digest # d, Fresh(o), o.since + 1 < MaxPending
        PROVE  Parked(K, o)
    <3>1. CASE K = E
      <4>1. o.since \in Nat
        BY DebtTypes
      <4>2. Holds(o)
        BY <2>4, <4>1 DEF Holds
      <4>3. PICK x \in pending[s].entries : pending[s] # None /\ x.digest = o.digest /\ x.at = o.at
        BY <1>b, <4>2 DEF ParkedInv, Parked
      <4>4. x \in Load(s)
        BY <2>4, <4>3 DEF Load, FileOf, Fresh
      <4> QED BY <2>4, <3>1, <4>3, <4>4 DEF Parked, Without
    <3>2. CASE K \in KeepNewest(E, e)
      BY <1>b, <2>1, <2>4, <3>2, EvictedIsPushedOut
    <3> QED BY <2>2, <3>1, <3>2
  <2>5. \A f \in K : f.digest = d => f.at = now
    <3>1. K \in SUBSET E
      BY <2>2 DEF KeepNewest
    <3> QED BY <2>1, <3>1 DEF Without
  <2>6. \A o \in owed[s] : o.at <= now
    BY <1>b DEF AgesInv
  <2> HIDE DEF E
  <2>7. Handled(p)'
    <3>1. /\ sess'[p] = s /\ digest'[p] = d /\ entries'[p] = K /\ storing'[p] /\ owed' = owed
          /\ hit'[p] = hit[p] /\ pc'[p] \in {"clear", "open"} /\ (pc'[p] = "clear" => K = {})
      BY <2>0, <2>3
    <3>2. ~hit[p] => \A o \in owed[s] : o.digest = d => ~Holds(o)
      BY <1>c, <2>0, <2>3 DEF Handled
    <3> QED BY <1>d, <2>3, <2>4, <2>5, <2>6, <3>1, <3>2 DEF Handled, Writing, Parked
  <2> QED BY <1>e, <2>3, <2>7
<1>13. ASSUME UNCHANGED vars PROVE PromisedInv'
  <2>1. UNCHANGED <<now, pending, owed, pc, storing, sess, digest, entries, hit, victim>>
    BY <1>13 DEF vars
  <2>2. \A p \in Procs : Handled(p)'
    BY <1>c, <1>d, <2>1 DEF Handled, Writing, Parked, IsStale
  <2> QED BY <1>b, <2>1, <2>2, FilesAlone DEF PromisedInv
<1> QED BY <1>1, <1>2, <1>3, <1>4, <1>5, <1>6, <1>7, <1>8, <1>9, <1>10, <1>11, <1>12, <1>13 DEF Next

(* With one prompt at a time, wherever hooks are killed: while the promised  *)
(* minutes last, a blocked prompt that neither was resent nor MaxPending     *)
(* others have pushed out is in its session's file.  The window has to be a  *)
(* minute at least, as the message never promises less, and no longer than   *)
(* a file may lie untouched.                                                 *)
THEOREM PromptGuardPromiseKept ==
  ASSUME Minute <= Window, Window <= Stale
  PROVE  Spec => []PromiseKept
<1>1. Promised <= Window
  <2>1. Window \in Nat /\ Minute \in Nat /\ Minute > 0
    BY PromptGuardAssumption
  <2>2. PICK m : m = Window \div Minute
    OBVIOUS
  <2>3. m \in Nat /\ Minute * m <= Window
    BY <2>1, <2>2
  <2>4. Minute * 1 = Minute
    BY <2>1
  <2> QED BY <2>2, <2>3, <2>4 DEF Promised
<1>2. TypeInv /\ KeptInv => PromiseKept
  <2> SUFFICES ASSUME TypeInv, KeptInv, NEW s \in Sessions, ~overlap, NEW o \in owed[s],
                      o.since < MaxPending, now - o.at <= Promised
               PROVE  \E e \in Load(s) : e.digest = o.digest /\ e.at = o.at
    BY DEF PromiseKept
  <2>1. o.at \in Nat /\ now \in Nat /\ Promised \in Int
    BY DebtTypes, PromptGuardAssumption DEF TypeInv, TypeOK, Times, Promised
  <2>2. now - o.at <= Window
    BY <1>1, <2>1, PromptGuardAssumption
  <2>3. PICK e \in pending[s].entries : pending[s] # None /\ e.digest = o.digest /\ e.at = o.at
    BY <2>2 DEF KeptInv, PromisedInv, ParkedInv, Parked, Holds, Fresh
  <2> QED BY <2>2, <2>3 DEF Load, FileOf
<1>3. TypeInv /\ WriteInv /\ AloneInv /\ KeptInv /\ [Next]_vars => KeptInv'
  BY AgesStep, PromisedStep DEF KeptInv
<1> QED BY TypeInit, TypeStep, WriteInit, WriteStep, AloneInit, AloneStep, KeptInit,
           <1>2, <1>3, PTL DEF Spec
=============================================================================
