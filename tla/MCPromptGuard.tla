--------------------------- MODULE MCPromptGuard ---------------------------
(* Small instances of PromptGuard; the cfg files give the constants.        *)
EXTENDS PromptGuard, TLC

Symmetry == Permutations(Procs) \cup Permutations(Digests)

=============================================================================
