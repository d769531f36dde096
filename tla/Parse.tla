-------------------------------- MODULE Parse --------------------------------
(***************************************************************************)
(* common/parse.c: what the daemons make of a tokenized text.  A text is   *)
(* read lexeme by lexeme; when it is complete, its use says which function *)
(* looks at the tokens: parse_message at the messages of one connection,   *)
(* in an array of tokens that is never cleared, parse_node_list at the     *)
(* body and parse_header at the header of a tracker's response.            *)
(*                                                                         *)
(* A definition named Mut... is the next one with a plausible mistake.     *)
(***************************************************************************)
EXTENDS Jsmn

CONSTANTS
    JSMN_NTOK,  \* tokens for a message, and
    HeaderTok,  \* for a header: 256 in the code
    Nentries,   \* values for the limit given to parse_node_list
    Lexeme      \* what texts are put together from

ASSUME ParseAssumption ==
    /\ {JSMN_NTOK, HeaderTok} \subseteq Nat \ {0} /\ Nentries \subseteq Nat \ {0}
    /\ Lexeme \subseteq LexemeType

VARIABLES
    use,       \* "message", "nodes" or "header"
    nentries,  \* the limit, if nodes are parsed
    parser,    \* the parser and its tokens
    js,        \* history: the text read so far
    place,     \* history: the positions of the tokens in the text, in order
    around,    \* history: position in the text -> the number of the token whose
               \* brackets are around it, or -1; also for the one behind the text
    inside     \* history: token (or -1) -> the tokens directly inside, in order

hist  == <<js, place, around, inside>>
pvars == <<use, nentries, parser, hist>>

PORT_MIN == 0
PORT_MAX == 665535  \* as include/types.h has it

INET6_ADDRSTRLEN == 46  \* the buffer for the text of an address or of a port, and
SizeBuffer       == 5   \* for that of a size

\* What is in an array of tokens before anything was parsed.
Unset == jsmn_fill_token("UNSET", FALSE, <<"unset">>, NoChars)

-----------------------------------------------------------------------------
(***************************************************************************)
(* What is made of the tokens.                                             *)
(***************************************************************************)
\* inet_pton, for the texts of one address of each family.
inet_pton(ipv, text) == text = IF ipv = 4 THEN <<"v4">> ELSE <<"v6">>

\* What a function has returned: 0, -1 for what it refuses, or nothing that
\* could be told because a text was copied behind the end of its buffer.
Overrun == 1

Node(rc) == [rc |-> rc, new |-> <<>>]

Entry(ip, port) == [ip |-> ip.text, port |-> port.chars.num % 65536]

NewNode(ip, port) == [rc |-> 0, new |-> <<Entry(ip, port)>>]

BeginsWithDigit(t) == t.type = "PRIMITIVE" /\ t.chars.first \in 0 .. 9

\* The fields are told apart by their order.
MutNodeByOrder(tok, node) ==
    LET ip == tok[node + 2] port == tok[node + 4] ipv == tok[node + 6]
    IN  IF /\ ip.type = "STRING" /\ BeginsWithDigit(port)
           /\ ipv.type = "PRIMITIVE" /\ inet_pton(ipv.chars.first, ip.text)
           /\ ~port.chars.more /\ port.chars.num \in PORT_MIN .. PORT_MAX
        THEN NewNode(ip, port) ELSE Node(-1)

\* parse_node: the address is copied and converted first, and then the port.
\* Of "ipv" only the first character counts.
parse_node(tok, node) ==
    LET iip   == jsmn_get_value(tok, node, <<"ip">>)
        iport == jsmn_get_value(tok, node, <<"port">>)
        iipv  == jsmn_get_value(tok, node, <<"ip", "v">>)
        ip    == tok[node + iip]
        port  == tok[node + iport]
        ipv   == tok[node + iipv]
    IN  IF ~(/\ iip # -1 /\ iport # -1 /\ iipv # -1
             /\ ip.type = "STRING" /\ BeginsWithDigit(port)
             /\ ipv.type = "PRIMITIVE" /\ ipv.chars.first \in {4, 6}) THEN Node(-1)
        ELSE IF ip.chars.len >= INET6_ADDRSTRLEN THEN Node(Overrun)
        ELSE IF ~inet_pton(ipv.chars.first, ip.text) THEN Node(-1)
        ELSE IF port.chars.len >= INET6_ADDRSTRLEN THEN Node(Overrun)
        ELSE IF port.chars.more \/ port.chars.num \notin PORT_MIN .. PORT_MAX THEN Node(-1)
        ELSE NewNode(ip, port)

\* The tokens of the array itself are forgotten.
MutMaxTok(n) == 7 * n

MaxTok(n) == 1 + 10 * n

\* What becomes of the element i of the list, which has to be an object of
\* three fields or more.
Element(tok, i) ==
    IF tok[i].type # "OBJECT" \/ tok[i].size < 6 THEN Node(-1) ELSE parse_node(tok, i)

\* One round of the loop over the elements, which ends at one that is no node.
ElementRound(tok, s) ==
    IF s.i >= s.ntok \/ Element(tok, s.i).rc # 0 THEN s
    ELSE LET behind == Skip(tok, s.i, s.ntok)
         IN  [i |-> behind.i, ntok |-> behind.ntok, head |-> s.head \o Element(tok, s.i).new]

\* parse_node_list: the entries up to the first that is no node, and whether
\* there is one.
parse_node_list(tok) ==
    LET at[n \in 0 .. Cardinality(DOMAIN tok)] ==
          IF n = 0 THEN [i |-> 1, ntok |-> tok[0].size + 1, head |-> <<>>]
          ELSE ElementRound(tok, at[n - 1])
        s == at[Cardinality(DOMAIN tok)]
    IN  IF tok[0].type # "ARRAY" THEN [rc |-> -1, head |-> <<>>]
        ELSE [rc |-> IF s.i >= s.ntok THEN 0 ELSE Element(tok, s.i).rc, head |-> s.head]

NoHeader(rc) == [rc |-> rc]

\* A header without a size is refused.
MutHeaderNeedsSize(tok) ==
    LET istatus == jsmn_get_value(tok, 0, <<"status">>)
        isize   == jsmn_get_value(tok, 0, <<"size">>)
    IN  IF tok[0].type # "OBJECT" \/ istatus = -1 \/ isize = -1 THEN NoHeader(-1)
        ELSE [rc |-> 0, size |-> tok[isize].chars.num,
              okay |-> IsPrefix(<<"okay">>, tok[istatus].text)]

\* parse_header: a missing size counts as 0, and the digits another begins with
\* are the size, whatever follows them.
parse_header(tok) ==
    LET istatus == jsmn_get_value(tok, 0, <<"status">>)
        isize   == jsmn_get_value(tok, 0, <<"size">>)
        size    == tok[isize]
    IN  IF tok[0].type # "OBJECT" \/ istatus = -1 THEN NoHeader(-1)
        ELSE IF isize # -1 /\ ~BeginsWithDigit(size) THEN NoHeader(-1)
        ELSE IF isize # -1 /\ size.chars.len >= SizeBuffer THEN NoHeader(Overrun)
        ELSE [rc |-> 0, size |-> IF isize = -1 THEN 0 ELSE size.chars.num,
              okay |-> IsPrefix(<<"okay">>, tok[istatus].text)]

-----------------------------------------------------------------------------
(***************************************************************************)
(* Reading a text.                                                         *)
(***************************************************************************)
\* The outline of the text, from its brackets alone.
NewToken ==
    LET k == Len(place)
        a == Last(around)
    IN  /\ place' = Append(place, Len(js) + 1)
        /\ inside' = [i \in -1 .. k |-> IF i = k THEN <<>>
                                        ELSE IF i = a THEN Append(inside[i], k) ELSE inside[i]]

Outline(c) ==
    LET a == Last(around)
    IN  /\ js' = Append(js, c)
        /\ IF c.kind \in {"open", "text"} THEN NewToken ELSE UNCHANGED <<place, inside>>
        /\ around' = Append(around,
                       CASE c.kind = "open" -> Len(place)
                         [] c.kind = "close" /\ a # -1 -> around[place[a + 1]]
                         [] OTHER -> a)

NoChildren == [i \in {-1} |-> <<>>]

NewText == js' = <<>> /\ place' = <<>> /\ around' = <<-1>> /\ inside' = NoChildren

\* jsmn_parse returns at the first error.
Read(c) ==
    /\ parser.r = "PARSING"
    /\ parser' = jsmn_parse(parser, c)
    /\ Outline(c)
    /\ UNCHANGED <<use, nentries>>

EndOfText ==
    /\ parser.r = "PARSING"
    /\ parser' = jsmn_parse_end(parser)
    /\ UNCHANGED <<use, nentries, hist>>

\* One more than the tokens used is stored back.
MutStoresOneMore ==
    /\ use = "message" /\ parser.r = "SUCCESS"
    /\ parser.toknext > 0 => /\ parser.tok[0].type = "OBJECT"
                             /\ jsmn_get_value(parser.tok, 0, <<"method">>) # -1
    /\ parser' = jsmn_init(parser.toknext + 1, parser.tok)
    /\ NewText
    /\ UNCHANGED <<use, nentries>>

\* parse_message has found a method, and stored the number of tokens used
\* where the capacity for the next message is taken from.  A text without
\* any token is taken for whatever the array still holds.
NextMessage ==
    /\ use = "message" /\ parser.r = "SUCCESS"
    /\ parser.toknext > 0 => /\ parser.tok[0].type = "OBJECT"
                             /\ jsmn_get_value(parser.tok, 0, <<"method">>) # -1
    /\ parser' = jsmn_init(parser.toknext, parser.tok)
    /\ NewText
    /\ UNCHANGED <<use, nentries>>

\* The array of tokens each text is parsed into.
Capacity == CASE use = "message" -> JSMN_NTOK
              [] use = "nodes" -> MaxTok(nentries)
              [] use = "header" -> HeaderTok

NewTokens(n) == [i \in 0 .. n - 1 |-> Unset]

PInit ==
    /\ use \in {"message", "nodes", "header"}
    /\ nentries \in IF use = "nodes" THEN Nentries ELSE {0}
    /\ parser = jsmn_init(Capacity, NewTokens(Capacity))
    /\ js = <<>> /\ place = <<>> /\ around = <<-1>> /\ inside = NoChildren

PNext == (\E c \in Lexeme : Read(c)) \/ EndOfText \/ NextMessage

PSpec == PInit /\ [][PNext]_pvars

-----------------------------------------------------------------------------
(***************************************************************************)
(* What the outline says of a text.                                        *)
(***************************************************************************)
Of(kind) == {i \in 1 .. Len(js) : js[i].kind \in kind}

\* The lexeme the token k stands for, and the token around it.
Token(k) == js[place[k + 1]]

Up(k) == around[place[k + 1]]

\* Where jsmn_parse should stop, and why.
Invalid == Of({"bad"}) \cup
    {b \in Of({"close"}) : around[b] = -1 \/ Token(around[b]).type # js[b].type}

NoRoom == {place[k] : k \in parser.num_tokens + 1 .. Len(place)}

Complete == parser.r = "SUCCESS" /\ parser.toknext > 0

Tok(k) == parser.tok[k]

(***************************************************************************)
(* Type invariant.                                                         *)
(***************************************************************************)
PTypeOK ==
    /\ parser.r \in {"PARSING", "SUCCESS", "INVAL", "NOMEM", "PART"}
    /\ parser.num_tokens \in 0 .. Cardinality(DOMAIN parser.tok)
    /\ parser.toknext \in 0 .. parser.num_tokens
    /\ parser.toksuper \in -1 .. parser.toknext - 1

(***************************************************************************)
(* While a text is read, without links to parents and in an array full of  *)
(* stale tokens, jsmn_parse knows the bracket it is in, and every token is *)
(* its lexeme's and counts what is directly inside it.                     *)
(***************************************************************************)
Nesting ==
    parser.r \in {"PARSING", "SUCCESS"} =>
        /\ parser.toknext = Len(place)
        /\ parser.toksuper = Last(around)
        /\ \A k \in 0 .. Len(place) - 1 :
              /\ Tok(k).size = Len(inside[k])
              /\ Tok(k).type = Token(k).type
              /\ Token(k).kind = "text" => /\ Tok(k).text = Token(k).text
                                           /\ Tok(k).chars = Token(k).chars

(***************************************************************************)
(* jsmn_parse accepts exactly the texts whose brackets match and whose     *)
(* tokens fit the array, and its error names the first thing wrong.        *)
(***************************************************************************)
Verdict ==
    LET stops == Invalid \cup NoRoom \cup Of({"cut"})
        first == Min(stops)
    IN  parser.r =
          IF stops # {}
          THEN IF first \in Invalid THEN "INVAL" ELSE IF first \in NoRoom THEN "NOMEM" ELSE "PART"
          ELSE IF parser.r = "PARSING" THEN "PARSING"
          ELSE IF Last(around) = -1 THEN "SUCCESS" ELSE "PART"

(***************************************************************************)
(* The fields of the object o.                                             *)
(***************************************************************************)
\* Where their names are among the tokens inside it, up to the first that is
\* not a string.
Names(o) ==
    {i \in 1 .. Len(inside[o]) - 1 :
        i % 2 = 1 /\ \A j \in 1 .. i : j % 2 = 1 => Tok(inside[o][j]).type = "STRING"}

Value(o, hits) == IF hits = {} THEN -1 ELSE inside[o][Min(hits) + 1]

\* The value of the first field whose name begins with the key, ...
Field(o, key) == Value(o, {i \in Names(o) : IsPrefix(key, Tok(inside[o][i]).text)})

\* ... and of the one with exactly this name.
Exact(o, key) == Value(o, {i \in Names(o) : Tok(inside[o][i]).text = key})

\* No field whose name only begins with a key is taken for it.
Plain(o, keys) == \A key \in keys : Field(o, key) = Exact(o, key)

NodeKeys == {<<"ip">>, <<"port">>, <<"ip", "v">>}
HeaderKeys == {<<"status">>, <<"size">>}

(***************************************************************************)
(* jsmn_get_value finds the value of the first field whose name begins     *)
(* with the key, behind values of any depth, and never a token of another  *)
(* object, of an earlier message or behind the last one.                   *)
(***************************************************************************)
ValueFound ==
    Complete =>
        \A o \in 0 .. parser.toknext - 1, key \in NodeKeys \cup HeaderKeys \cup {<<"method">>} :
            Tok(o).type = "OBJECT" =>
                LET i == jsmn_get_value(parser.tok, o, key)
                IN  Field(o, key) = IF i = -1 THEN -1 ELSE o + i

\* The number a token begins with.
Num(k) == IF BeginsWithDigit(Tok(k)) THEN Tok(k).chars.num ELSE -1

\* The address an element of a node list stands for, by the names of its
\* fields: "ipv" may be anything that begins with a 4 or a 6.
Address(o) ==
    LET ip == Exact(o, <<"ip">>) port == Exact(o, <<"port">>) ipv == Exact(o, <<"ip", "v">>)
    IN  IF /\ Tok(o).type = "OBJECT"
           /\ ip # -1 /\ port # -1 /\ ipv # -1
           /\ Tok(ip).type = "STRING"
           /\ Num(port) \in 0 .. PORT_MAX /\ ~Tok(port).chars.more
           /\ Tok(ipv).type = "PRIMITIVE"
           /\ <<Tok(ipv).chars.first, Tok(ip).text>> \in {<<4, <<"v4">>>>, <<6, <<"v6">>>>}
        THEN <<[ip |-> Tok(ip).text, port |-> Num(port) % 65536]>>
        ELSE <<>>

\* It has a text that no buffer of n characters holds with its end.
Long(k, n) == k # -1 /\ Tok(k).chars.len >= n

TooLong(o) ==
    \/ Long(Exact(o, <<"ip">>), INET6_ADDRSTRLEN)
    \/ Long(Exact(o, <<"port">>), INET6_ADDRSTRLEN)

\* The outcome of parse_node_list for a list of the elements `in': their
\* addresses, up to the first that is none or whose texts are too long.
Yields(list, in) ==
    LET got == Len(list.head)
    IN  /\ got <= Len(in)
        /\ \A i \in 1 .. got : Address(in[i]) = <<list.head[i]>> /\ ~TooLong(in[i])
        /\ list.rc = 0 => got = Len(in)
        /\ list.rc = -1 => got < Len(in) /\ Address(in[got + 1]) = <<>>
        /\ list.rc = Overrun => got < Len(in) /\ TooLong(in[got + 1])
        /\ list.rc \in {0, -1, Overrun}

(***************************************************************************)
(* parse_node_list yields the addresses of the list, whatever else their   *)
(* objects hold and in whichever order, up to the first that is not one -  *)
(* as long as no name that only begins with "ip" (as "ipv" does), "port"   *)
(* or "ipv" is in front of it and taken for it.  It runs over the end of   *)
(* its buffer only for an entry with an address or a port of 46 characters *)
(* or more, and never takes one that has such.                             *)
(***************************************************************************)
NodesParsed ==
    Complete /\ use = "nodes" /\ Tok(0).type = "ARRAY" =>
        LET in == inside[0]
        IN  (\A i \in 1 .. Len(in) : Tok(in[i]).type = "OBJECT" => Plain(in[i], NodeKeys)) =>
            Yields(parse_node_list(parser.tok), in)

(***************************************************************************)
(* A list is refused for want of room only if it has more than nentries    *)
(* entries, or one of more than ten tokens.                                *)
(***************************************************************************)
RoomForEntries ==
    use = "nodes" =>
        LET in == inside[0]
            behind(i) == IF i < Len(in) THEN in[i + 1] ELSE Len(place)
        IN  parser.r = "NOMEM" /\ Token(0) = Open("ARRAY") /\ inside[-1] = <<0>> =>
              \/ Len(in) > nentries
              \/ \E i \in 1 .. Len(in) : behind(i) - in[i] > 10

(***************************************************************************)
(* parse_header takes status and size of a header from the fields of these *)
(* names, whatever else it holds, and a missing size for an empty body; of *)
(* a size longer than its buffer nothing can be said.                      *)
(***************************************************************************)
HeaderParsed ==
    Complete /\ use = "header" /\ Tok(0).type = "OBJECT" /\ Plain(0, HeaderKeys) =>
        LET status == Exact(0, <<"status">>)
            size == Exact(0, <<"size">>)
        IN  ~Long(size, SizeBuffer) =>
              parse_header(parser.tok) =
                IF status = -1 \/ (size # -1 /\ Num(size) < 0) THEN NoHeader(-1)
                ELSE [rc |-> 0, size |-> IF size = -1 THEN 0 ELSE Num(size),
                      okay |-> IsPrefix(<<"okay">>, Tok(status).text)]
=============================================================================
