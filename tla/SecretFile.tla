----------------------------- MODULE SecretFile -----------------------------
(***************************************************************************)
(* The two secrets the processes share through small files created once:   *)
(* the vault's Fernet key (vault/store.py, _load_or_create_key) and the    *)
(* salt of the audit HMACs (hooks/runner.py, hmac_salt, with the fallback  *)
(* of Engine.__init__).  A process creates the file with O_EXCL and writes *)
(* it in a second step; who comes later reads it, and may come in between. *)
(* A write of some forty bytes is seen whole or not at all.  Without       *)
(* VIRELIA_HMAC_SALT in the environment an engine that is given an empty   *)
(* salt draws a random one; Fernet refuses an empty key.                   *)
(* The names differ from those of Vault, whose key this is: VaultProofs    *)
(* extends both modules.                                                   *)
(***************************************************************************)
EXTENDS Naturals

CONSTANTS Procs,     \* the processes that open secrets
          MaxDraws,  \* bound: how many secrets are ever drawn
          Missing,   \* there is no such file
          Empty      \* the file was created and holds nothing

Kinds   == {"key", "salt"}
Secrets == 1 .. MaxDraws

ASSUME SecretFileAssumption ==
    /\ MaxDraws \in Nat
    /\ Missing # Empty
    /\ Missing \notin Secrets
    /\ Empty \notin Secrets

VARIABLES
    file,   \* file[k]: the file of a secret, or Missing, or Empty
    drawn,  \* random secrets drawn so far; no two are equal
    doing,  \* doing[p]: what process p does next
    kind,   \* kind[p]: the secret p is opening
    mine,   \* mine[p]: the secret p has drawn itself; 0 when it opens none
    used    \* history, used[k]: the secrets Vaults and Engines were built on

secretVars == <<file, drawn, doing, kind, mine, used>>

SecretTypes ==
    /\ file \in [Kinds -> Secrets \cup {Missing, Empty}]
    /\ drawn \in 0 .. MaxDraws
    /\ doing \in [Procs -> {"idle", "create", "write", "read"}]
    /\ kind \in [Procs -> Kinds]
    /\ mine \in [Procs -> 0 .. MaxDraws]
    /\ used \in [Kinds -> SUBSET Secrets]

-----------------------------------------------------------------------------
NoSecrets ==
    /\ file = [k \in Kinds |-> Missing]
    /\ drawn = 0
    /\ doing = [p \in Procs |-> "idle"]
    /\ kind = [p \in Procs |-> "key"]
    /\ mine = [p \in Procs |-> 0]
    /\ used = [k \in Kinds |-> {}]

Proceed(p, point) == doing' = [doing EXCEPT ![p] = point]

(* The secret is in hand, or opening it failed; either way the open is over. *)
Done(p) ==
    /\ Proceed(p, "idle")
    /\ mine' = [mine EXCEPT ![p] = 0]

Use(k, s) == used' = [used EXCEPT ![k] = @ \cup {s}]

(* A process needs a secret and has random bytes of its own at hand. *)
Open(p) ==
    /\ doing[p] = "idle"
    /\ drawn < MaxDraws
    /\ drawn' = drawn + 1
    /\ mine' = [mine EXCEPT ![p] = drawn + 1]
    /\ \E k \in Kinds : kind' = [kind EXCEPT ![p] = k]
    /\ Proceed(p, "create")
    /\ UNCHANGED <<file, used>>

(* Slip: O_TRUNC in place of O_EXCL. *)
CreateTruncating(p) ==
    /\ doing[p] = "create"
    /\ file' = [file EXCEPT ![kind[p]] = Empty]
    /\ Proceed(p, "write")
    /\ UNCHANGED <<drawn, kind, mine, used>>

(* os.open with O_CREAT and O_EXCL: one process gets to create the file. *)
Create(p) ==
    /\ doing[p] = "create"
    /\ file[kind[p]] = Missing
    /\ file' = [file EXCEPT ![kind[p]] = Empty]
    /\ Proceed(p, "write")
    /\ UNCHANGED <<drawn, kind, mine, used>>

(* FileExistsError. *)
Exists(p) ==
    /\ doing[p] = "create"
    /\ file[kind[p]] # Missing
    /\ Proceed(p, "read")
    /\ UNCHANGED <<file, drawn, kind, mine, used>>

(* os.write: the secret is in the file, and in use. *)
Write(p) ==
    /\ doing[p] = "write"
    /\ file' = [file EXCEPT ![kind[p]] = mine[p]]
    /\ Use(kind[p], mine[p])
    /\ Done(p)
    /\ UNCHANGED <<drawn, kind>>

(* Slip: whatever was read is a secret. *)
ReadUnchecked(p) ==
    /\ doing[p] = "read"
    /\ Use(kind[p], file[kind[p]])
    /\ Done(p)
    /\ UNCHANGED <<file, drawn, kind>>

(* path.read_bytes(). *)
Read(p) ==
    /\ doing[p] = "read"
    /\ file[kind[p]] \in Secrets
    /\ Use(kind[p], file[kind[p]])
    /\ Done(p)
    /\ UNCHANGED <<file, drawn, kind>>

(* Slip: a Vault that makes do with the key it has generated. *)
OwnSecret(p) ==
    /\ doing[p] = "read"
    /\ file[kind[p]] = Empty
    /\ Use(kind[p], mine[p])
    /\ Done(p)
    /\ UNCHANGED <<file, drawn, kind>>

(* path.read_bytes() is b"".  Key: Fernet raises ValueError, there is no Vault. *)
(* Salt: b"" is false, and the engine takes a random salt of its own.           *)
ReadEmpty(p) ==
    /\ doing[p] = "read"
    /\ file[kind[p]] = Empty
    /\ \/ kind[p] = "key" /\ UNCHANGED used
       \/ kind[p] = "salt" /\ Use("salt", mine[p])
    /\ Done(p)
    /\ UNCHANGED <<file, drawn, kind>>

(* The process is killed, or its os.write fails.  What is created stays so. *)
Killed(p) ==
    /\ doing[p] # "idle"
    /\ Done(p)
    /\ UNCHANGED <<file, drawn, kind, used>>

SecretNext ==
    \E p \in Procs :
        \/ Open(p) \/ Create(p) \/ Exists(p) \/ Write(p)
        \/ Read(p) \/ ReadEmpty(p) \/ Killed(p)

SecretSpec == NoSecrets /\ [][SecretNext]_secretVars

-----------------------------------------------------------------------------
(* Properties.                                                             *)

(* Every Vault ever opened encrypts, and indexes values, with the key that  *)
(* is in the key file now: however processes race to create it and wherever *)
(* one dies, no row is written under a key that later processes lack.       *)
KeyOnDisk == used["key"] \subseteq {file["key"]}

(* A secret that made it into its file is there to stay: no late creator    *)
(* truncates or overwrites the key that rows are encrypted with, or the     *)
(* salt that events were hashed with.                                       *)
SecretsKept ==
    [][\A k \in Kinds : file[k] \in Secrets => file'[k] = file[k]]_secretVars
=============================================================================
