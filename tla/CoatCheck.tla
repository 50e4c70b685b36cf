----------------------------- MODULE CoatCheck -----------------------------
(***************************************************************************)
(* What the tokenization vault promises its callers, with no database in   *)
(* sight: a rack of tickets that only grows, on which every value of a     *)
(* group (a scope and a token label) hangs at most once, and a record of   *)
(* the tickets callers hold, none of which was handed out before it was    *)
(* on the rack.  vault/store.py, module docstring and class Vault.         *)
(***************************************************************************)
EXTENDS Naturals

CONSTANTS Scopes,   \* the session scopes that share the vault file
          Labels,   \* the token labels (normalised entity types)
          Values    \* the personal values being hidden

VARIABLES tickets,  \* the tickets on the rack
          handed    \* the tickets callers hold

vars == <<tickets, handed>>

Ticket == [scope : Scopes, label : Labels, val : Values, id : Nat \ {0}]

SameGroup(a, b) == a.scope = b.scope /\ a.label = b.label

(* One to one within a group: a value has one token, a token one value. *)
OneToOne(S) ==
    \A r, s \in S : SameGroup(r, s) /\ (r.val = s.val \/ r.id = s.id) => r = s

Init == tickets = {} /\ handed = {}

(* A value seen for the first time gets a ticket nobody else of its group has. *)
Mint ==
    /\ \E r \in tickets' : tickets' = tickets \cup {r}
    /\ tickets' \in SUBSET Ticket
    /\ OneToOne(tickets')
    /\ UNCHANGED handed

(* A caller is told the token of a value that is on the rack. *)
HandOut ==
    /\ \E r \in tickets : handed' = handed \cup {r}
    /\ UNCHANGED tickets

Next == Mint \/ HandOut

Spec == Init /\ [][Next]_vars
=============================================================================
