---------------------------- MODULE Subsequences ----------------------------
(* What a loop that looks at each element of a sequence and keeps some of    *)
(* them has at its end.                                                      *)
EXTENDS Integers, Sequences

(* The elements of s at the places in K, in their order. *)
Kept(s, K) ==
    LET kept[n \in 0 .. Len(s)] ==
            IF n = 0 THEN <<>>
            ELSE IF n \in K THEN Append(kept[n - 1], s[n]) ELSE kept[n - 1]
    IN  kept[Len(s)]
=============================================================================
