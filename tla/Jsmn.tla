-------------------------------- MODULE Jsmn --------------------------------
(***************************************************************************)
(* The JSON tokenizer common/jsmn.c, compiled without JSMN_STRICT and      *)
(* JSMN_PARENT_LINKS, and psnet's additions to it.                         *)
(*                                                                         *)
(* A text is a sequence of lexemes: brackets, strings and primitives, a    *)
(* piece in which a character is not allowed (bad) and a string that does  *)
(* not end (cut).  White space, colons and commas are skipped by the code  *)
(* and left out.  What a string or a primitive says is the token's text,   *)
(* a sequence of parts, so that one name may begin another as "ip" does    *)
(* "ipv"; and of its characters is kept what the code looks at.            *)
(*                                                                         *)
(* A definition named Mut... is the next one with a plausible mistake.     *)
(***************************************************************************)
EXTENDS Integers, Sequences, SequencesExt, FiniteSets, FiniteSetsExt

Container == {"OBJECT", "ARRAY"}

Open(t)  == [kind |-> "open", type |-> t]
Close(t) == [kind |-> "close", type |-> t]
Str(s, c)  == [kind |-> "text", type |-> "STRING", text |-> s, chars |-> c]
Prim(s, c) == [kind |-> "text", type |-> "PRIMITIVE", text |-> s, chars |-> c]
Bad      == [kind |-> "bad"]
Cut      == [kind |-> "cut"]

\* The characters of a text: how far the first is from '0', what strtol makes
\* of the digits it begins with, whether anything follows them, and how many
\* there are (jsmn_toklen).
Chars(first, num, more, len) == [first |-> first, num |-> num, more |-> more, len |-> len]

CharsType == [first : Int, num : Nat, more : BOOLEAN, len : Nat]

\* Those of a bracket are never looked at.
NoChars == Chars(-1, 0, TRUE, 0)

LexemeType ==
    [kind : {"open", "close"}, type : Container]
      \cup [kind : {"text"}, type : {"STRING", "PRIMITIVE"}, text : Seq(STRING), chars : CharsType]
      \cup [kind : {"bad", "cut"}]

-----------------------------------------------------------------------------
(***************************************************************************)
(* The parser, with the array of tokens it fills.  A token is open from    *)
(* its bracket on until its end is known.                                  *)
(***************************************************************************)
jsmn_init(num, tok) ==
    [toknext |-> 0, toksuper |-> -1, num_tokens |-> num, tok |-> tok, r |-> "PARSING"]

Fail(p, error) == [p EXCEPT !.r = error]

\* jsmn_alloc_token: the next token becomes t, one more in the one around it.
jsmn_alloc_token(p, t) ==
    IF p.toknext >= p.num_tokens THEN Fail(p, "NOMEM")
    ELSE LET tok == [p.tok EXCEPT ![p.toknext] = t]
         IN  [p EXCEPT !.toknext = @ + 1,
                       !.tok = IF p.toksuper = -1 THEN tok
                               ELSE [tok EXCEPT ![p.toksuper].size = @ + 1]]

jsmn_fill_token(type, open, text, chars) ==
    [type |-> type, open |-> open, size |-> 0, text |-> text, chars |-> chars]

OpenBracket(p, type) ==
    LET q == jsmn_alloc_token(p, jsmn_fill_token(type, TRUE, <<"{">>, NoChars))
    IN  IF q.r = "NOMEM" THEN q ELSE [q EXCEPT !.toksuper = p.toknext]

OpenTokens(p) == {i \in 0 .. p.toknext - 1 : p.tok[i].open}

Innermost(S) == IF S = {} THEN -1 ELSE Max(S)

\* The token around a closed one is forgotten.
MutCloseForgets(p, type) ==
    LET i == Innermost(OpenTokens(p))
    IN  IF i = -1 \/ p.tok[i].type # type THEN Fail(p, "INVAL")
        ELSE [p EXCEPT !.tok[i].open = FALSE, !.toksuper = -1]

\* A bracket closes whatever is open.
MutCloseAny(p, type) ==
    LET i == Innermost(OpenTokens(p))
    IN  IF i = -1 THEN Fail(p, "INVAL")
        ELSE [p EXCEPT !.tok[i].open = FALSE,
                       !.toksuper = Innermost(OpenTokens(p) \ {i})]

\* The innermost open token is closed, if it is of that type; the next open
\* one outside it is then the token around what follows.
CloseBracket(p, type) ==
    LET i == Innermost(OpenTokens(p))
    IN  IF i = -1 \/ p.tok[i].type # type THEN Fail(p, "INVAL")
        ELSE [p EXCEPT !.tok[i].open = FALSE,
                       !.toksuper = Innermost(OpenTokens(p) \ {i})]

\* jsmn_parse_string and jsmn_parse_primitive.
Text(p, c) == jsmn_alloc_token(p, jsmn_fill_token(c.type, FALSE, c.text, c.chars))

\* One round of jsmn_parse's loop.
jsmn_parse(p, c) ==
    CASE c.kind = "open"  -> OpenBracket(p, c.type)
      [] c.kind = "close" -> CloseBracket(p, c.type)
      [] c.kind = "text"  -> Text(p, c)
      [] c.kind = "bad"   -> Fail(p, "INVAL")
      [] c.kind = "cut"   -> Fail(p, "PART")

\* ... and what follows the loop, at the end of the text.
jsmn_parse_end(p) == [p EXCEPT !.r = IF OpenTokens(p) = {} THEN "SUCCESS" ELSE "PART"]

-----------------------------------------------------------------------------
(***************************************************************************)
(* psnet's additions.  Indices are relative to the object obj, as in the   *)
(* code, where obj points into the array.                                  *)
(***************************************************************************)
\* The tokens skipped are not added to the limit.
MutSkipForgetsLimit(tok, s) ==
    IF s.end = 0 THEN s
    ELSE [i |-> s.i + 1, end |-> s.end + tok[s.i].size - 1, ntok |-> s.ntok]

\* One round of the loop that jumps over a token and all inside it: `end'
\* tokens are still to be skipped, and ntok is raised by what they hold.
SkipRound(tok, s) ==
    IF s.end = 0 THEN s
    ELSE [i |-> s.i + 1, end |-> s.end + tok[s.i].size - 1, ntok |-> s.ntok + tok[s.i].size]

\* The loop ends within the array, or runs out of it.
Skip(tok, i, ntok) ==
    LET at[n \in 0 .. Cardinality(DOMAIN tok)] ==
          IF n = 0 THEN [i |-> i, end |-> 1, ntok |-> ntok] ELSE SkipRound(tok, at[n - 1])
    IN  at[Cardinality(DOMAIN tok)]

\* The conditions of the loop over the fields, at the token s.i: a name with
\* a value, and not the one looked for.
IsField(tok, s) == s.i + 1 < s.ntok /\ tok[s.i].type = "STRING"

IsKey(tok, s, key) == IsField(tok, s) /\ IsPrefix(key, tok[s.i].text)

FieldRound(tok, s, key) ==
    IF ~IsField(tok, s) \/ IsKey(tok, s, key) THEN s
    ELSE IF tok[s.i + 1].type \in Container
    THEN LET behind == Skip(tok, s.i + 1, s.ntok) IN [i |-> behind.i, ntok |-> behind.ntok]
    ELSE [i |-> s.i + 2, ntok |-> s.ntok]

\* jsmn_get_value: the index behind the first key that begins with `key'.
jsmn_get_value(tok, obj, key) ==
    LET at[n \in 0 .. Cardinality(DOMAIN tok)] ==
          IF n = 0 THEN [i |-> obj + 1, ntok |-> obj + tok[obj].size + 1]
          ELSE FieldRound(tok, at[n - 1], key)
        s == at[Cardinality(DOMAIN tok)]
    IN  IF IsKey(tok, s, key) THEN s.i + 1 - obj ELSE -1
=============================================================================
