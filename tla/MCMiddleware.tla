---------------------------- MODULE MCMiddleware ----------------------------
(* A small instance of Middleware: policies, and payloads to try them on.    *)
EXTENDS Middleware

NoMatch == <<>>

Entity(E, action, scope) ==
    [entities |-> E, match |-> NoMatch, tools |-> {}, action |-> action, scope |-> scope]
Path(pattern, T, action, scope) ==
    [entities |-> {}, match |-> pattern, tools |-> T, action |-> action, scope |-> scope]

Policy(rs, default, min, ner) ==
    [rules |-> rs, default |-> default, minConf |-> min, ner |-> ner]

Rows  == Key("rows")
Notes == Key("notes")
Names == Key("names")
FileName == Key("file_name")

MCColumns == ("names" :> "NAME" @@ "file_name" :> "NAME")

(* The first rule wins, a rule for the whole result, an unknown entity. *)
Strict == Policy(<<Entity({"KEY"}, "block", "result"),
                   Entity({"PHONE"}, "redact", "field"),
                   Entity({"PHONE", "NAME"}, "mask", "field")>>, "block", 2, "auto")

(* $.rows[*].notes is tokenized for one tool, $..notes redacted for all. *)
Tables == Policy(<<Path(<<Dot("rows"), Bracket("*"), Dot("notes")>>, {"list"}, "tokenize", "field"),
                   Path(<<Dots("notes")>>, {"list", "get"}, "redact", "field"),
                   Entity({"PHONE"}, "block", "field")>>, "mask", 1, "on")

(* What no rule names is allowed, and not looked for; $.* is withheld. *)
Lenient == Policy(<<Entity({"NAME"}, "tokenize", "field"),
                    Entity({"PHONE"}, "allow", "field"),
                    Path(<<Dot("*")>>, {"get"}, "block", "result")>>, "allow", 1, "auto")

Equip(p, v, n) == [policy |-> p, vault |-> v, ner |-> n]

MCEngines ==
    {Equip(Strict, FALSE, TRUE), Equip(Tables, TRUE, FALSE), Equip(Tables, FALSE, TRUE),
     Equip(Lenient, TRUE, TRUE), Equip(Lenient, TRUE, FALSE)}

Span(p, e, t, c) == [place |-> p, entity |-> e, tier |-> t, conf |-> c]

Leaf(path, kind, spans) == [path |-> path, kind |-> kind, spans |-> spans]

Cell == <<Rows, Index("0"), Notes>>

Phone     == Span(1, "PHONE", 1, 2)
OtherName == Span(2, "NAME", 2, 3)
SamePhone == Span(1, "PHONE", 2, 1)
Secret    == Span(2, "KEY", 1, 2)

(* Values of fields with telling names: in a list, empty, in an exempt field. *)
Named ==
    {Leaf(<<Names, Index("0")>>, "text", <<Phone>>),
     Leaf(<<Names>>, "empty", <<>>),
     Leaf(<<Names, FileName>>, "number", <<>>)}

Leaves ==
    {Leaf(Cell, "text", <<Phone, OtherName>>),
     Leaf(Cell, "other", <<>>),
     Leaf(<<Notes>>, "text", <<Phone>>),
     Leaf(<<Key("key")>>, "text", <<Phone, Secret>>),
     Leaf(<<Rows, Index("1")>>, "number", <<Phone>>),
     Leaf(<<Rows, Index("1")>>, "text", <<Phone, SamePhone, Secret>>)}

Text == Leaf(<<>>, "text", <<Phone, Secret>>)
Mail == Leaf(<<>>, "text", <<OtherName>>)

MCArguments == {<<>>, <<Leaf(<<Names, Index("0")>>, "text", <<Phone>>)>>,
                <<Leaf(<<Key("key")>>, "text", <<Secret>>)>>}

Part(kind, leaves) == [kind |-> kind, leaves |-> leaves]

(* Structured content and a text, or a picture before or after scanned parts. *)
MCResults ==
    {<<>>, <<Part("image", <<Text>>), Part("text", <<Mail>>), Part("text", <<Text>>)>>}
    \cup {<<Part("structured", <<l>>), Part("image", <<Text>>)>> : l \in Leaves \cup Named}
    \cup {<<Part("structured", <<a, b>>), p>> :
             a \in Leaves, b \in {l \in Leaves : l.path # <<Notes>>},
             p \in {Part("text", <<Text>>), Part("text", <<Mail>>)}}
=============================================================================
