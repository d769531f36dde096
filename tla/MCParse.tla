------------------------------- MODULE MCParse -------------------------------
(***************************************************************************)
(* Model checking of the tokenizer and of what is made of its tokens.      *)
(***************************************************************************)
EXTENDS Parse

CONSTANT MaxLexemes  \* in the messages of one connection

VARIABLE rest  \* what is left of the piece of text being read

Brackets == {<<Open("OBJECT")>>, <<Close("OBJECT")>>, <<Open("ARRAY")>>, <<Close("ARRAY")>>}

Obj(fields) == <<Open("OBJECT")>> \o FlattenSeq(fields) \o <<Close("OBJECT")>>

\* Texts that are not a number, and numbers that begin with the digit d, with
\* or without something behind their digits.
Name(parts, n) == Str(parts, Chars(49, 0, TRUE, n))

Null == Prim(<<"null">>, Chars(62, 0, TRUE, 4))

Number(d, n, len) == Prim(<<"digits">>, Chars(d, n, FALSE, len))

NumberAnd(d, n, len) == Prim(<<"digits", "x">>, Chars(d, n, TRUE, len))

Minus == Prim(<<"-", "digits">>, Chars(-3, 0, TRUE, 2))

v4   == Name(<<"v4">>, 9)
v6   == Name(<<"v6">>, 24)
long == Name(<<"v6", "v6">>, 46)

ip(a)   == <<Name(<<"ip">>, 2), a>>
port(n) == <<Name(<<"port">>, 4), n>>
ipv(n)  == <<Name(<<"ip", "v">>, 3), n>>
size(n) == <<Name(<<"size">>, 4), n>>
more    == <<Name(<<"x">>, 1), Open("ARRAY"), Null, Open("OBJECT"),
             Name(<<"port">>, 4), Number(5, 5, 1), Close("OBJECT"), Close("ARRAY")>>

p80 == Number(8, 80, 2)
f4  == Number(4, 4, 1)

status(s) == <<Name(<<"status">>, 6), s>>

\* use -> the pieces its texts are put together from
Piece ==
    [message |-> Brackets \cup {<<Name(<<"method">>, 6)>>, <<Name(<<"method", "s">>, 7)>>,
                                <<Number(1, 1, 1)>>, <<Bad>>, <<Cut>>},
     nodes |-> {<<Open("ARRAY")>>, <<Close("ARRAY")>>, <<f4>>,
                Obj(<<ip(v4), port(p80), ipv(f4)>>),
                Obj(<<port(Number(6, 65537, 5)), ip(v6), ipv(NumberAnd(6, 6, 2))>>),
                Obj(<<ipv(f4), port(p80), ip(v4)>>),
                Obj(<<ip(v6), port(p80), ipv(f4)>>),
                Obj(<<more, ip(v4), more, port(Number(0, 0, 1)), ipv(Number(4, 41, 2))>>),
                Obj(<<ip(v4), port(Number(7, 700000, 6)), ipv(f4)>>),
                Obj(<<ip(v4), port(NumberAnd(8, 80, 3)), ipv(f4)>>),
                Obj(<<ip(long), port(p80), ipv(Number(6, 6, 1))>>),
                Obj(<<ip(v4), port(Number(0, 80, 46)), ipv(f4)>>)},
     header |-> {<<Open("OBJECT")>>, <<Close("OBJECT")>>, more,
                 status(Name(<<"okay">>, 4)), status(Name(<<"error">>, 5)),
                 size(Number(7, 7, 1)), size(Minus), size(NumberAnd(7, 7, 2)),
                 size(Number(9, 9999, 4)), size(Number(1, 10000, 5)),
                 <<Name(<<"size", "s">>, 5), Number(7, 7, 1)>>}]

MCLexeme == UNION {ToSet(w) : w \in UNION {Piece[u] : u \in DOMAIN Piece}}

(***************************************************************************)
(* Bounds.  A message has at most MaxLexemes lexemes; a node list is one   *)
(* bracket around a few entries more than the limit, a header one around   *)
(* four fields.                                                            *)
(***************************************************************************)
Bounded ==
    /\ use = "message" => Len(js) <= MaxLexemes
    /\ use # "message" /\ rest = <<>> =>
         /\ Len(js) > 0 => js[1] = Open(IF use = "nodes" THEN "ARRAY" ELSE "OBJECT")
         /\ Last(around) \in {-1, 0}
         /\ Len(inside[-1]) <= 1
         /\ Len(js) > 0 => Len(inside[0]) <= IF use = "nodes" THEN nentries + 1 ELSE 8

MCInit == PInit /\ rest = <<>>

\* A text is read piece by piece.
MCRead ==
    \E w \in IF rest = <<>> THEN Piece[use] ELSE {rest} : Read(Head(w)) /\ rest' = Tail(w)

MCNext ==
    /\ MCRead \/ (rest = <<>> /\ (EndOfText \/ NextMessage) /\ UNCHANGED rest)
    /\ Bounded'

MCSpec == MCInit /\ [][MCNext]_<<pvars, rest>>
=============================================================================
