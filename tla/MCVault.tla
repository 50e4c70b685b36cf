------------------------------ MODULE MCVault ------------------------------
(* Small instances of Vault: which thread works on which Vault object, and  *)
(* which scope each Vault object is bound to.                               *)
EXTENDS Vault, TLC

CONSTANTS t1, t2, t3, t4, c1, c2, c3, s1, s2

(* Two threads of one process and a third in a process of its own, all in one *)
(* scope; a fourth in another scope of the same file.                         *)
MCThreads == {t1, t2, t3, t4}
MCConns   == {c1, c2, c3}
MCConnOf  == (t1 :> c1) @@ (t2 :> c1) @@ (t3 :> c2) @@ (t4 :> c3)
MCScopeOf == (c1 :> s1) @@ (c2 :> s1) @@ (c3 :> s2)

(* Two processes of one thread each, in one scope. *)
MCPair        == {t1, t3}
MCPairConns   == {c1, c2}
MCPairConnOf  == (t1 :> c1) @@ (t3 :> c2)
MCPairScopeOf == (c1 :> s1) @@ (c2 :> s1)

=============================================================================
