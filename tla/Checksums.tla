------------------------------ MODULE Checksums -----------------------------
(***************************************************************************)
(* The two checksums that gate candidates, detectors/checksums.py.  Both   *)
(* go through the digits of a number from the last to the first, and read  *)
(* the position only modulo 8 or 2, so a number of any length is a walk    *)
(* through finitely many states.  Two numbers are read side by side, one   *)
(* as it was issued, one as somebody has typed it, with at most one slip.  *)
(***************************************************************************)
EXTENDS Integers, Sequences

D == << <<0, 1, 2, 3, 4, 5, 6, 7, 8, 9>>, <<1, 2, 3, 4, 0, 6, 7, 8, 9, 5>>,
        <<2, 3, 4, 0, 1, 7, 8, 9, 5, 6>>, <<3, 4, 0, 1, 2, 8, 9, 5, 6, 7>>,
        <<4, 0, 1, 2, 3, 9, 5, 6, 7, 8>>, <<5, 9, 8, 7, 6, 0, 4, 3, 2, 1>>,
        <<6, 5, 9, 8, 7, 1, 0, 4, 3, 2>>, <<7, 6, 5, 9, 8, 2, 1, 0, 4, 3>>,
        <<8, 7, 6, 5, 9, 3, 2, 1, 0, 4>>, <<9, 8, 7, 6, 5, 4, 3, 2, 1, 0>> >>

P == << <<0, 1, 2, 3, 4, 5, 6, 7, 8, 9>>, <<1, 5, 7, 6, 2, 8, 3, 0, 9, 4>>,
        <<5, 8, 0, 3, 7, 9, 6, 1, 4, 2>>, <<8, 9, 1, 6, 0, 4, 3, 5, 2, 7>>,
        <<9, 4, 5, 3, 1, 2, 6, 8, 7, 0>>, <<4, 2, 8, 6, 5, 7, 3, 9, 0, 1>>,
        <<2, 7, 9, 3, 8, 0, 6, 4, 1, 5>>, <<7, 0, 4, 6, 9, 1, 3, 2, 5, 8>> >>

INV == <<0, 4, 3, 2, 1, 5, 6, 7, 8, 9>>

Digits == 0 .. 9

VARIABLES
    algorithm,  \* "verhoeff" or "luhn"
    pos,        \* the position of the next digit, modulo 8
    length,     \* the digits read so far; 2 stands for more
    issued,     \* c, or total modulo 10, of the number that was issued
    typed,      \* that of the number that was typed
    last,       \* the last digit of the number that was issued, 0 if there is none
    rest,       \* c of verhoeff_check_digit over the digits before it
    mistake     \* the slip made so far

digitVars == <<algorithm, pos, length, issued, typed, last, rest, mistake>>

-----------------------------------------------------------------------------
(* Slip: the same permutation at every position. *)
Unmoved(i, d) == P[1][d + 1]

Permuted(i, d) == P[(i % 8) + 1][d + 1]

(* verhoeff_valid and luhn_valid: one turn of the loop.  Of the total only   *)
(* what it is modulo 10 is kept.                                             *)
Verhoeff(c, i, d) == D[c + 1][Permuted(i, d) + 1]

Luhn(t, i, d) ==
    LET e == IF i % 2 = 1 THEN d * 2 ELSE d
    IN  (t + IF e > 9 THEN e - 9 ELSE e) % 10

Turn(c, i, d) == IF algorithm = "verhoeff" THEN Verhoeff(c, i, d) ELSE Luhn(c, i, d)

(* What they return: no digits, or a single one for Luhn, are never valid. *)
Valid(c) == length >= (IF algorithm = "verhoeff" THEN 1 ELSE 2) /\ c = 0

(* Slip: the check digit is what the others come to. *)
Uninverted(c) == c

(* verhoeff_check_digit, of the digits of a payload that come to c. *)
CheckDigit(c) == INV[c + 1]

-----------------------------------------------------------------------------
Unread ==
    /\ algorithm \in {"verhoeff", "luhn"}
    /\ pos = 0 /\ length = 0
    /\ issued = 0 /\ typed = 0
    /\ last = 0 /\ rest = 0
    /\ mistake = "none"

(* n digits more have been read, of which d is the first; the payload of a   *)
(* check digit has its positions one further on in the number.               *)
Advance(n, d) ==
    /\ pos' = (pos + n) % 8
    /\ length' = IF length + n > 2 THEN 2 ELSE length + n
    /\ last' = IF length = 0 THEN d ELSE last
    /\ UNCHANGED algorithm

Read(d) ==
    /\ issued' = Turn(issued, pos, d)
    /\ typed' = Turn(typed, pos, d)
    /\ rest' = IF length = 0 THEN 0 ELSE Verhoeff(rest, pos, d)
    /\ Advance(1, d)
    /\ UNCHANGED mistake

(* e is typed for d. *)
Mistype(d, e) ==
    /\ mistake = "none" /\ d # e
    /\ issued' = Turn(issued, pos, d)
    /\ typed' = Turn(typed, pos, e)
    /\ rest' = IF length = 0 THEN 0 ELSE Verhoeff(rest, pos, d)
    /\ mistake' = "digit"
    /\ Advance(1, d)

(* Two digits next to each other have changed places. *)
Swap(d, e) ==
    /\ mistake = "none" /\ d # e
    /\ issued' = Turn(Turn(issued, pos, d), pos + 1, e)
    /\ typed' = Turn(Turn(typed, pos, e), pos + 1, d)
    /\ rest' = Verhoeff(IF length = 0 THEN 0 ELSE Verhoeff(rest, pos, d), pos + 1, e)
    /\ mistake' = IF {d, e} = {0, 9} THEN "swap09" ELSE "swap"
    /\ Advance(2, d)

NextDigits ==
    \/ \E d \in Digits : Read(d)
    \/ \E d, e \in Digits : Mistype(d, e) \/ Swap(d, e)

ChecksumSpec == Unread /\ [][NextDigits]_digitVars

-----------------------------------------------------------------------------
(* Properties.                                                             *)

(* Of a valid number nobody gets another valid one by changing a digit or by *)
(* swapping two neighbours, whatever its length; but Luhn cannot tell 09     *)
(* from 90.  So a candidate that passes is not the mistyped number of        *)
(* somebody else, and _D, _P and their indices are as they should be.        *)
MistakesCaught ==
    Valid(issued) /\ mistake # "none" =>
        \/ ~Valid(typed)
        \/ algorithm = "luhn" /\ mistake = "swap09"

(* A number is valid for Verhoeff exactly if it ends in the check digit of   *)
(* its other digits: the helper reads positions one further on and in the    *)
(* other table, and has to agree with the validator all the same.            *)
OneCheckDigit ==
    algorithm = "verhoeff" /\ length > 0 => (Valid(issued) <=> last = CheckDigit(rest))
=============================================================================
