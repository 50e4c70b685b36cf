------------------------------- MODULE MCHooks ------------------------------
(* A small instance of Hooks: policies sound and unsound, configurations,    *)
(* inputs of every shape.                                                    *)
EXTENDS Hooks

Entity(id, E, action, scope) ==
    [id |-> id, entities |-> E, match |-> <<>>, tools |-> {}, action |-> action, scope |-> scope]
Path(id, pattern, action) ==
    [id |-> id, entities |-> {}, match |-> pattern, tools |-> Tools, action |-> action, scope |-> "field"]

Policy(rs, default, parses) ==
    [rules |-> rs, default |-> default, minConf |-> 1, ner |-> "auto", parses |-> parses]

(* The personal preset: secrets are withheld, most of the rest is allowed. *)
Personal == <<Entity("secrets", {"KEY"}, "block", "result"),
              Entity("contacts", {"PHONE"}, "partial_mask", "field")>>

Tables == <<Path("notes", <<Dots(""), Dot("notes")>>, "tokenize"),
            Entity("names", {"NAME"}, "redact", "field"),
            Entity("phones", {"PHONE"}, "allow", "field")>>

(* Unsound: scope result with mask, no path, no such entity, an id used twice. *)
Scoped == <<Entity("phones", {"PHONE"}, "mask", "result")>>
Broken == <<Path("p", <<[sep |-> "junk", sel |-> ""]>>, "mask")>>
Typo   == <<Entity("phones", {"PHOEN"}, "mask", "field")>>
Twice  == <<Entity("a", {"PHONE"}, "mask", "field"), Entity("a", {"KEY"}, "mask", "field")>>

Equip(p, n) == [policy |-> p, vault |-> FALSE, ner |-> n]

MCEngines ==
    {Equip(Policy(Personal, "allow", TRUE), FALSE), Equip(Policy(Tables, "mask", TRUE), TRUE),
     Equip(Policy(Scoped, "allow", TRUE), FALSE), Equip(Policy(Typo, "mask", TRUE), FALSE),
     Equip(Policy(Broken, "allow", TRUE), FALSE), Equip(Policy(Twice, "allow", TRUE), FALSE), Equip(Policy(Personal, "allow", FALSE), FALSE)}

Source(i, o, a) == [input |-> i, output |-> o, allow |-> a]
Nothing == Source("absent", "absent", {})

MCConfigurations ==
    {[file |-> f, env |-> Nothing] :
        f \in {Nothing, Source("mask", "warn", {{}}), Source("warn", "off", {}),
               Source("'off'", "'off'", {}), Source("off", "absent", {{"search"}})}}
    \cup {[file |-> f, env |-> e] :
        f \in {Source("'off'", "warn", {{"fetch"}}), Source("ask", "'off'", {{"search"}})},
        e \in {Source("mask", "warn", {{"search"}}), Source("off", "off", {{}}), Source("ask", "absent", {})}}

Span(p, e, t, c) == [place |-> p, entity |-> e, tier |-> t, conf |-> c]
Leaf(path, kind, spans) == [path |-> path, kind |-> kind, spans |-> spans]

Phone  == Span(1, "PHONE", 1, 2)
Secret == Span(2, "KEY", 1, 2)
Person == Span(2, "NAME", 2, 3)

Payload(shape, leaves) == [shape |-> shape, leaves |-> leaves]

MCColumns == "names" :> "NAME"

MCInputs ==
    {Payload("none", <<>>),
     Payload("text", <<Leaf(<<>>, "text", <<Phone, Person>>)>>),
     Payload("list", <<Leaf(<<Index("0")>>, "text", <<Phone>>), Leaf(<<Index("1")>>, "text", <<Phone, Secret>>)>>)}
    \cup {Payload("dict", <<a, b>>) :
        a \in {Leaf(<<Key("to")>>, "text", <<Phone, Person>>), Leaf(<<Key("names")>>, "number", <<Phone>>)},
        b \in {Leaf(<<Key("cc")>>, "text", <<>>), Leaf(<<Key("notes")>>, "other", <<>>),
               Leaf(<<Key("notes")>>, "text", <<Phone, Secret>>)}}

MCResponses ==
    {Payload("none", <<>>),
     Payload("scalar", <<Leaf(<<>>, "number", <<Phone>>)>>),
     Payload("scalar", <<Leaf(<<>>, "other", <<>>)>>),
     Payload("list", <<Leaf(<<Index("0")>>, "text", <<Phone, Secret>>)>>),
     Payload("dict", <<Leaf(<<Key("names")>>, "text", <<Phone>>), Leaf(<<Key("notes")>>, "text", <<Secret>>)>>)}
=============================================================================
