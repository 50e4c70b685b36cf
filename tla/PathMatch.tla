----------------------------- MODULE PathMatch -----------------------------
(***************************************************************************)
(* The path patterns of policy rules, pathmatch.py.  A path is the         *)
(* sequence of the keys and indices that lead to a leaf.  A pattern is the *)
(* sequence of the tokens after its "$": ".key" and "[3]" with a name or   *)
(* "*", and "..", which stands for any number of segments, with a name,    *)
(* "*" or "" for nothing.  It is compiled to a sequence of segments.       *)
(***************************************************************************)
EXTENDS Integers, SequencesExt

Key(k)    == [kind |-> "key", name |-> k]
Index(n)  == [kind |-> "index", name |-> n]
WildKey   == [kind |-> "wildkey", name |-> "*"]
WildIndex == [kind |-> "wildindex", name |-> "*"]
Descend   == [kind |-> "descend", name |-> ".."]

Dot(k)     == [sep |-> ".", sel |-> k]
Bracket(n) == [sep |-> "[]", sel |-> n]
Dots(k)    == [sep |-> "..", sel |-> k]

(* The segments of one token.  Wildcards are told apart by where they stand. *)
Segments(t) ==
    LET key == IF t.sel = "*" THEN WildKey ELSE Key(t.sel)
    IN  CASE t.sep = ".." -> IF t.sel = "" THEN <<Descend>> ELSE <<Descend, key>>
          [] t.sep = "."  -> <<key>>
          [] t.sep = "[]" -> <<IF t.sel = "*" THEN WildIndex ELSE Index(t.sel)>>

(* What _TOKEN does not match, or nothing at all, is a PathPatternError. *)
Compiles(pattern) ==
    pattern # <<>> /\ \A n \in DOMAIN pattern : pattern[n].sep \in {".", "[]", ".."}

compile_path(pattern) == FlattenSeq([n \in DOMAIN pattern |-> Segments(pattern[n])])

(* One segment of a path against one of a pattern. *)
Fits(p, seg) ==
    \/ seg.kind = "wildkey" /\ p.kind = "key"
    \/ seg.kind = "wildindex" /\ p.kind = "index"
    \/ seg = p

(* Slip: ".." stands for at least one segment. *)
SkipSome(pi) == pi + 1

(* Where ".." may go on: range(len(path) - pi + 1), from no segment on. *)
SkipFrom(pi) == pi

(* _match(segs, si, path, pi): for every si, the places pi at which the path  *)
(* goes on as the segments from si on want it.                               *)
Match(segs, path) ==
    LET m[si \in 1 .. Len(segs) + 1] ==
            IF si > Len(segs) THEN {Len(path) + 1}
            ELSE IF segs[si] = Descend
                 THEN {pi \in 1 .. Len(path) + 1 :
                          \E q \in SkipFrom(pi) .. Len(path) + 1 : q \in m[si + 1]}
                 ELSE {pi \in 1 .. Len(path) : Fits(path[pi], segs[si]) /\ pi + 1 \in m[si + 1]}
    IN  m

Matches(segs, path) == 1 \in Match(segs, path)[1]

(* What the grammar in pathmatch.py's docstring says of the pattern as it is *)
(* written: the path can be cut into one stretch for each token, a stretch   *)
(* that ends in what the token names, of that alone unless it begins "..".   *)
Picks(t, seg) ==
    /\ seg.kind = IF t.sep = "[]" THEN "index" ELSE "key"
    /\ t.sel \in {"*", seg.name}

Covers(pattern, path) ==
    \E cut \in [0 .. Len(pattern) -> 0 .. Len(path)] :
        /\ cut[0] = 0 /\ cut[Len(pattern)] = Len(path)
        /\ \A i \in DOMAIN pattern :
              LET more == cut[i] - cut[i - 1] IN
              \/ more >= 1 /\ Picks(pattern[i], path[cut[i]])
                 /\ (more = 1 \/ pattern[i].sep = "..")
              \/ more >= 0 /\ pattern[i].sep = ".." /\ pattern[i].sel = ""
=============================================================================
