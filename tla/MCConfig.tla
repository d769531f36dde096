------------------------------ MODULE MCConfig ------------------------------
(***************************************************************************)
(* Model checking of the configuration.                                    *)
(***************************************************************************)
EXTENDS Config

CONSTANT MaxInput  \* lines and options together

Indent == {TRUE, FALSE}

Section(s) == [kind : {"section"}, name : {s}, indent : Indent]

Pair(n, t) == [kind |-> "pair", name |-> n, text |-> t, indent |-> FALSE]

MCLine ==
    Section("Tracker") \cup Section("Router") \cup
    {[kind |-> "comment", indent |-> FALSE], [kind |-> "open", indent |-> TRUE],
     Pair("max-threads", Plain(3)), Pair("max-threads", Plain(INT)), Pair("max-threads", Plain(-3)),
     Pair("listen-port", [num |-> 2, rest |-> TRUE]), Pair("listen-port", Plain(-3)),
     Pair("directory-address", Word),
     [kind |-> "pair", name |-> "listen-port", text |-> Plain(5), indent |-> TRUE]}
    \cup [kind : {"text"}, text : {Plain(7), Word}, indent : Indent]

MCOption ==
    {[name |-> "max-threads", text |-> Plain(INT + 4)], [name |-> "max-threads", text |-> Plain(-1)],
     [name |-> "listen-port", text |-> Plain(6)], [name |-> "listen-port", text |-> Plain(PORT)],
     [name |-> "listen-port", text |-> Plain(INT + PORT + 3)],
     [name |-> "listen-port", text |-> [num |-> 6, rest |-> TRUE]],
     [name |-> "directory-address", text |-> Plain(9)], [name |-> "directory-port", text |-> Plain(8)]}

MCNext == GNext /\ Len(lines') + Len(given') <= MaxInput

MCSpec == GInit /\ [][MCNext]_gvars
=============================================================================
