------------------------------ MODULE ParseProof ------------------------------
(***************************************************************************)
(* Proofs about the tokenizer and about what is made of its tokens, for    *)
(* texts of any length and depth and arrays of any size.                   *)
(***************************************************************************)
EXTENDS Parse, FiniteSetTheorems, WellFoundedInduction, TLAPS

-----------------------------------------------------------------------------
(***************************************************************************)
(* The tokens of a text as a forest, numbered in the order in which they   *)
(* begin: up gives each the one around it, or -1, and in the ones directly *)
(* inside it in order.  What lies between a token and the one around it is *)
(* inside the latter.                                                      *)
(***************************************************************************)
Forest(n, up, in) ==
    /\ n \in Nat
    /\ up \in [0 .. n - 1 -> Int]
    /\ in \in [-1 .. n - 1 -> Seq(Nat)]
    /\ \A k \in 0 .. n - 1 : -1 <= up[k] /\ up[k] < k
    /\ \A j, k \in 0 .. n - 1 : up[k] < j /\ j < k => up[k] <= up[j]
    /\ \A o \in -1 .. n - 1 :
          /\ \A q \in 1 .. Len(in[o]) : in[o][q] \in 0 .. n - 1 /\ up[in[o][q]] = o
          /\ \A p, q \in 1 .. Len(in[o]) : p < q => in[o][p] < in[o][q]
    /\ \A k \in 0 .. n - 1 : \E q \in 1 .. Len(in[up[k]]) : in[up[k]][q] = k

Ups == [k \in 0 .. Len(place) - 1 |-> Up(k)]

TokenText == Seq(STRING) \cup {<<"{">>, <<"unset">>}

TokenType ==
    [type : {"OBJECT", "ARRAY", "STRING", "PRIMITIVE", "UNSET"}, open : BOOLEAN, size : Nat,
     text : TokenText, chars : CharsType]

ParserRecord(m) ==
    [toknext : Nat, toksuper : Int, num_tokens : Nat, tok : [0 .. m - 1 -> TokenType],
     r : {"PARSING", "SUCCESS", "INVAL", "NOMEM", "PART"}]

ParserType ==
    /\ use \in {"message", "nodes", "header"}
    /\ nentries \in Nat /\ (use = "nodes" => nentries \in Nentries)
    /\ parser \in ParserRecord(Capacity)
    /\ parser.num_tokens <= Capacity
    /\ use # "message" => parser.num_tokens = Capacity
    /\ parser.toknext <= parser.num_tokens
    /\ parser.toksuper >= -1 /\ parser.toksuper < parser.toknext

\* The history variables are the outline of the text.
Outlined ==
    /\ js \in Seq(LexemeType)
    /\ place \in Seq(Nat)
    /\ \A k \in 1 .. Len(place) : place[k] \in 1 .. Len(js)
    /\ around \in Seq(Int)
    /\ Len(around) = Len(js) + 1
    /\ \A b \in 1 .. Len(around) :
          /\ around[b] >= -1 /\ around[b] < Len(place)
          /\ around[b] # -1 => Token(around[b]).kind = "open"
    /\ Forest(Len(place), Ups, inside)

\* The parser agrees with it; its open tokens are the one it is in and those
\* around that.
Agrees ==
    /\ parser.toknext = Len(place)
    /\ parser.toksuper = Last(around)
    /\ \A k \in 0 .. Len(place) - 1 :
          /\ Tok(k).size = Len(inside[k])
          /\ Tok(k).type = Token(k).type
          /\ Token(k).kind = "text" => /\ Tok(k).text = Token(k).text
                                       /\ Tok(k).chars = Token(k).chars
          /\ Token(k).kind \in {"open", "text"}

Path ==
    /\ \A k \in 0 .. Len(place) - 1 : Tok(k).open => Up(k) = -1 \/ Tok(Up(k)).open
    /\ \A j, k \in 0 .. Len(place) - 1 : Tok(j).open /\ j < k => Up(k) >= j
    /\ parser.toksuper # -1 => Tok(parser.toksuper).open
    /\ \A j \in 0 .. Len(place) - 1 : Tok(j).open => j <= parser.toksuper

Stopped ==
    LET cut == Of({"cut"})
    IN  CASE parser.r = "PARSING" -> Invalid = {} /\ NoRoom = {} /\ cut = {}
          [] parser.r = "SUCCESS" -> Invalid = {} /\ NoRoom = {} /\ cut = {} /\ Last(around) = -1
          [] parser.r = "INVAL" -> Invalid = {Len(js)} /\ NoRoom = {} /\ cut = {}
          [] parser.r = "NOMEM" -> Invalid = {} /\ NoRoom = {Len(js)} /\ cut = {}
          [] parser.r = "PART" -> /\ Invalid = {} /\ NoRoom = {}
                                  /\ cut = {Len(js)} \/ (cut = {} /\ Last(around) # -1)

ParseInv ==
    /\ ParserType
    /\ Outlined
    /\ parser.r \in {"PARSING", "SUCCESS"} => Agrees /\ Path
    /\ Stopped
    /\ parser.r = "NOMEM" => Len(place) = parser.num_tokens + 1

-----------------------------------------------------------------------------
(***************************************************************************)
(* The step of the outline.                                                *)
(***************************************************************************)
\* What is appended leaves the rest as it was.
LEMMA AppendFacts ==
  ASSUME NEW S, NEW s \in Seq(S), NEW x, NEW t, t = Append(s, x)
  PROVE  /\ x \in S => t \in Seq(S)
         /\ Len(t) = Len(s) + 1 /\ Len(s) \in Nat /\ t[Len(s) + 1] = x
         /\ \A i \in 1 .. Len(s) : t[i] = s[i]
  OBVIOUS

LEMMA ForestIs ==
  ASSUME NEW m \in Nat, NEW n, n = m - 1, NEW up \in [0 .. n -> Int],
         NEW in \in [-1 .. n -> Seq(Nat)],
         \A k \in 0 .. n : -1 <= up[k] /\ up[k] < k,
         \A j, k \in 0 .. n : up[k] < j /\ j < k => up[k] <= up[j],
         \A o \in -1 .. n :
            /\ \A q \in 1 .. Len(in[o]) : in[o][q] \in 0 .. n /\ up[in[o][q]] = o
            /\ \A p, q \in 1 .. Len(in[o]) : p < q => in[o][p] < in[o][q],
         \A k \in 0 .. n : \E q \in 1 .. Len(in[up[k]]) : in[up[k]][q] = k
  PROVE  Forest(m, up, in)
  BY DEF Forest

\* A new token inside the token a, which nothing before it is behind of.
Grown(n, up, in, a, up2, in2) ==
    /\ a \in -1 .. n - 1
    /\ \A j \in 0 .. n - 1 : a < j => a <= up[j]
    /\ up2 \in [0 .. n -> Int] /\ up2[n] = a
    /\ \A k \in 0 .. n - 1 : up2[k] = up[k]
    /\ DOMAIN in2 = -1 .. n /\ in2 = [i \in DOMAIN in2 |-> in2[i]]
    /\ in2[n] = <<>> /\ in2[a] = Append(in[a], n)
    /\ \A i \in -1 .. n - 1 : i # a => in2[i] = in[i]

LEMMA ForestGrows ==
  ASSUME NEW n, NEW up, NEW in, Forest(n, up, in),
         NEW a, NEW up2, NEW in2, Grown(n, up, in, a, up2, in2)
  PROVE  Forest(n + 1, up2, in2)
<1>1. n \in Nat /\ up \in [0 .. n - 1 -> Int] /\ in \in [-1 .. n - 1 -> Seq(Nat)]
  BY DEF Forest
<1>2. /\ a \in -1 .. n - 1 /\ up2 \in [0 .. n -> Int] /\ up2[n] = a
      /\ \A k \in 0 .. n - 1 : up2[k] = up[k]
  BY DEF Grown
<1>3. /\ a \in -1 .. n - 1 /\ in2[n] = <<>> /\ in2[a] = Append(in[a], n)
      /\ \A i \in -1 .. n - 1 : i # a => in2[i] = in[i]
  BY DEF Grown
<1>4. in[a] \in Seq(Nat)
  BY <1>1, <1>2
<1>5. /\ in2[a] \in Seq(Nat) /\ Len(in2[a]) = Len(in[a]) + 1 /\ in2[a][Len(in[a]) + 1] = n
      /\ \A q \in 1 .. Len(in[a]) : in2[a][q] = in[a][q]
  BY <1>1, <1>3, <1>4, AppendFacts
<1>6. in2 \in [-1 .. n -> Seq(Nat)]
  <2>1. ASSUME NEW i \in -1 .. n PROVE in2[i] \in Seq(Nat)
    <3>1. CASE i = n
      <4>1. <<>> \in Seq(Nat)
        OBVIOUS
      <4>2. in2[i] = <<>>
        BY <1>3, <3>1
      <4> QED
        BY <4>1, <4>2, Zenon
    <3>2. CASE i = a
      BY <1>5, <3>2
    <3>3. CASE i # n /\ i # a
      <4>1. i \in -1 .. n - 1
        BY <1>1, <3>3
      <4>2. in2[i] = in[i]
        BY <1>3, <3>3, <4>1
      <4> QED
        BY <1>1, <4>1, <4>2
    <3> QED
      BY <3>1, <3>2, <3>3
  <2> QED
    BY <2>1 DEF Grown
<1>7. ASSUME NEW k \in 0 .. n PROVE -1 <= up2[k] /\ up2[k] < k
  <2>1. CASE k = n
    BY <1>1, <1>2, <2>1
  <2>2. CASE k # n
    <3>1. k \in 0 .. n - 1
      BY <1>1, <2>2
    <3> QED
      BY <1>2, <3>1 DEF Forest
  <2> QED
    BY <2>1, <2>2
<1>8. ASSUME NEW j \in 0 .. n, NEW k \in 0 .. n, up2[k] < j, j < k
      PROVE  up2[k] <= up2[j]
  <2>1. j \in 0 .. n - 1 /\ up2[j] = up[j]
    BY <1>1, <1>2, <1>8
  <2>2. CASE k = n
    BY <1>2, <1>8, <2>1, <2>2 DEF Grown
  <2>3. CASE k # n
    <3>1. k \in 0 .. n - 1 /\ up2[k] = up[k]
      BY <1>1, <1>2, <2>3
    <3> QED
      BY <1>8, <2>1, <3>1 DEF Forest
  <2> QED
    BY <2>2, <2>3
<1>9. ASSUME NEW o \in -1 .. n
      PROVE  /\ \A q \in 1 .. Len(in2[o]) : in2[o][q] \in 0 .. n /\ up2[in2[o][q]] = o
             /\ \A p, q \in 1 .. Len(in2[o]) : p < q => in2[o][p] < in2[o][q]
  <2>1. CASE o = n
    BY <2>1, <1>3
  <2>2. CASE o # n /\ o # a
    <3>0. o \in -1 .. n - 1
      BY <2>2, <1>1
    <3>1. o \in -1 .. n - 1 /\ in2[o] = in[o]
      BY <2>2, <3>0, <1>3
    <3>2. /\ \A q \in 1 .. Len(in[o]) : in[o][q] \in 0 .. n - 1 /\ up[in[o][q]] = o
          /\ \A p, q \in 1 .. Len(in[o]) : p < q => in[o][p] < in[o][q]
      BY <3>1 DEF Forest
    <3>3. \A k \in 0 .. n - 1 : k \in 0 .. n
      BY <1>1
    <3>4. \A q \in 1 .. Len(in2[o]) : in2[o][q] \in 0 .. n /\ up2[in2[o][q]] = o
      BY <3>1, <3>2, <3>3, <1>2
    <3> QED
      BY <3>1, <3>2, <3>4
  <2>3. CASE o = a
    <3>1. /\ Len(in[a]) \in Nat
          /\ \A q \in 1 .. Len(in[a]) : in[a][q] \in 0 .. n - 1 /\ up[in[a][q]] = a
          /\ \A p, q \in 1 .. Len(in[a]) : p < q => in[a][p] < in[a][q]
      BY <1>2, <1>4 DEF Forest
    <3>2. ASSUME NEW q \in 1 .. Len(in2[a])
          PROVE  /\ in2[a][q] \in 0 .. n /\ up2[in2[a][q]] = a
                 /\ IF q = Len(in[a]) + 1 THEN in2[a][q] = n
                    ELSE q \in 1 .. Len(in[a]) /\ in2[a][q] = in[a][q] /\ in[a][q] \in 0 .. n - 1
      <4>1. CASE q = Len(in[a]) + 1
        BY <1>1, <1>2, <1>5, <4>1
      <4>2. CASE q # Len(in[a]) + 1
        <5>1. q \in 1 .. Len(in[a])
          BY <3>1, <1>5, <4>2
        <5>2. in2[a][q] = in[a][q] /\ in[a][q] \in 0 .. n - 1 /\ up[in[a][q]] = a
          BY <3>1, <5>1, <1>5
        <5>3. up2[in[a][q]] = a /\ in[a][q] \in 0 .. n
          BY <5>2, <1>1, <1>2
        <5> QED
          BY <4>2, <5>1, <5>2, <5>3
      <4> QED
        BY <4>1, <4>2
    <3>3. \A p, q \in 1 .. Len(in2[a]) : p < q => in2[a][p] < in2[a][q]
      <4> SUFFICES ASSUME NEW p \in 1 .. Len(in2[a]), NEW q \in 1 .. Len(in2[a]), p < q
                   PROVE  in2[a][p] < in2[a][q]
        OBVIOUS
      <4>1. p # Len(in[a]) + 1 /\ p \in 1 .. Len(in[a])
        BY <3>1, <1>5, SMTT(20)
      <4>2. in2[a][p] = in[a][p] /\ in[a][p] \in 0 .. n - 1
        BY <3>1, <4>1, <1>5
      <4>3. CASE q = Len(in[a]) + 1
        <5>1. in2[a][q] = n
          BY <4>3, <1>5
        <5> QED
          BY <4>2, <5>1, <1>1
      <4>4. CASE q # Len(in[a]) + 1
        <5>1. q \in 1 .. Len(in[a])
          BY <3>1, <1>5, <4>4
        <5>2. in2[a][q] = in[a][q] /\ in[a][p] < in[a][q]
          BY <3>1, <4>1, <5>1, <1>5
        <5> QED
          BY <4>2, <5>2
      <4> QED
        BY <4>3, <4>4
    <3> QED
      BY <2>3, <3>2, <3>3
  <2> QED
    BY <2>1, <2>2, <2>3
<1>10. ASSUME NEW k \in 0 .. n
       PROVE  \E q \in 1 .. Len(in2[up2[k]]) : in2[up2[k]][q] = k
  <2>0. Len(in[a]) \in Nat
    BY <1>4
  <2>1. CASE k = n
    BY <2>0, <2>1, <1>2, <1>5
  <2>2. CASE k # n
    <3>1. k \in 0 .. n - 1 /\ up2[k] = up[k] /\ up[k] \in -1 .. n - 1
      BY <2>2, <1>1, <1>2 DEF Forest
    <3>2. PICK q \in 1 .. Len(in[up[k]]) : in[up[k]][q] = k
      BY <3>1 DEF Forest
    <3>3. CASE up[k] = a
      <4>1. q \in 1 .. Len(in2[a]) /\ in2[a][q] = k
        BY <2>0, <3>2, <3>3, <1>5
      <4> QED
        BY <3>1, <3>3, <4>1
    <3>4. CASE up[k] # a
      BY <3>1, <3>2, <3>4, <1>3
    <3> QED
      BY <3>3, <3>4
  <2> QED
    BY <2>1, <2>2
<1>11. n + 1 \in Nat /\ (n + 1) - 1 = n
  BY <1>1
<1>12. PICK m \in Nat : m = n + 1 /\ m - 1 = n
  BY <1>11
<1>13. Forest(m, up2, in2)
  BY <1>2, <1>6, <1>7, <1>8, <1>9, <1>10, <1>12, ForestIs
<1> QED
  BY <1>12, <1>13

LEMMA LexemeKinds ==
  ASSUME NEW c \in LexemeType
  PROVE  /\ c.kind \in {"open", "close", "text", "bad", "cut"}
         /\ c.kind \in {"open", "close"} => c.type \in {"OBJECT", "ARRAY"}
         /\ c.kind = "text" => /\ c.type \in {"STRING", "PRIMITIVE"}
                               /\ c.text \in Seq(STRING) /\ c.chars \in CharsType
<1>1. CASE c \in [kind : {"open", "close"}, type : Container]
  BY <1>1 DEF Container
<1>2. CASE c \in [kind : {"text"}, type : {"STRING", "PRIMITIVE"}, text : Seq(STRING),
                 chars : CharsType]
  BY <1>2
<1>3. CASE c \in [kind : {"bad", "cut"}]
  BY <1>3
<1> QED
  BY <1>1, <1>2, <1>3 DEF LexemeType

LEMMA NoCharsType == NoChars \in CharsType
  BY DEF NoChars, Chars, CharsType

LEMMA OutlineNew ==
  ASSUME Outlined, NEW c \in LexemeType, c.kind \in {"open", "text"}, Outline(c),
         NEW n, n = Len(place), NEW a, a = Last(around),
         \A j \in 0 .. n - 1 : a < j => a <= Up(j)
  PROVE  /\ Outlined'
         /\ Len(place)' = n + 1 /\ n \in Nat
         /\ Token(n)' = c /\ Up(n)' = a
         /\ \A k \in 0 .. n - 1 : Token(k)' = Token(k) /\ Up(k)' = Up(k)
         /\ Last(around)' = IF c.kind = "open" THEN n ELSE a
<1>1. /\ js' = Append(js, c) /\ place' = Append(place, Len(js) + 1)
      /\ around' = Append(around, IF c.kind = "open" THEN n ELSE a)
      /\ inside' = [i \in -1 .. n |-> IF i = n THEN <<>>
                                      ELSE IF i = a THEN Append(inside[i], n) ELSE inside[i]]
  BY DEF Outline, NewToken
<1>2. /\ js \in Seq(LexemeType) /\ place \in Seq(Nat) /\ around \in Seq(Int)
      /\ Len(js) \in Nat /\ n \in Nat /\ Len(around) = Len(js) + 1
  BY DEF Outlined
<1>3. a \in -1 .. n - 1 /\ a = around[Len(js) + 1]
  BY <1>2 DEF Outlined, Last
<1>4. /\ js' \in Seq(LexemeType) /\ Len(js') = Len(js) + 1 /\ js'[Len(js) + 1] = c
      /\ \A b \in 1 .. Len(js) : js'[b] = js[b]
  BY <1>1, <1>2, AppendFacts
<1>5. /\ place' \in Seq(Nat) /\ Len(place') = n + 1 /\ place'[n + 1] = Len(js) + 1
      /\ \A k \in 1 .. n : place'[k] = place[k]
  BY <1>1, <1>2, AppendFacts
<1>6. /\ around' \in Seq(Int) /\ Len(around') = Len(js) + 2
      /\ around'[Len(js) + 2] = IF c.kind = "open" THEN n ELSE a
      /\ \A b \in 1 .. Len(js) + 1 : around'[b] = around[b]
  <2>1. (IF c.kind = "open" THEN n ELSE a) \in Int
    BY <1>2, <1>3
  <2>2. PICK y \in Int : y = IF c.kind = "open" THEN n ELSE a
    BY <2>1
  <2>3. around' = Append(around, y)
    BY <1>1, <2>2
  <2>4. /\ around' \in Seq(Int) /\ Len(around') = Len(around) + 1
        /\ around'[Len(around) + 1] = y
        /\ \A b \in 1 .. Len(around) : around'[b] = around[b]
    BY <1>2, <2>3, AppendFacts
  <2> QED
    BY <1>2, <2>2, <2>4
<1>7. \A k \in 0 .. n - 1 : k + 1 \in 1 .. n /\ place[k + 1] \in 1 .. Len(js)
  BY <1>2 DEF Outlined
<1>8. ASSUME NEW k \in 0 .. n - 1
      PROVE  Token(k)' = Token(k) /\ Up(k)' = Up(k)
  <2>1. place'[k + 1] = place[k + 1] /\ place[k + 1] \in 1 .. Len(js)
    BY <1>5, <1>7
  <2> QED
    <3>1. js'[place[k + 1]] = js[place[k + 1]]
      BY <1>4, <2>1
    <3>2. place[k + 1] \in 1 .. Len(js) + 1
      BY <1>2, <2>1
    <3>3. around'[place[k + 1]] = around[place[k + 1]]
      BY <1>6, <3>2
    <3> QED
      BY <2>1, <3>1, <3>3 DEF Token, Up
<1>9. Token(n)' = c /\ Up(n)' = a
  <2>1. place'[n + 1] = Len(js) + 1 /\ Len(js) + 1 \in 1 .. Len(js) + 1
    BY <1>2, <1>5
  <2> QED
    BY <2>1, <1>2, <1>3, <1>4, <1>6 DEF Token, Up
<1>10. Last(around)' = IF c.kind = "open" THEN n ELSE a
  BY <1>6 DEF Last
<1>11. ASSUME NEW k \in 1 .. Len(place')
       PROVE  place'[k] \in 1 .. Len(js')
  <2>1. CASE k = n + 1
    BY <2>1, <1>2, <1>4, <1>5
  <2>2. CASE k # n + 1
    <3>1. k \in 1 .. n
      BY <2>2, <1>2, <1>5
    <3>2. place[k] \in 1 .. Len(js)
      BY <3>1 DEF Outlined
    <3> QED
      BY <3>1, <3>2, <1>2, <1>4, <1>5
  <2> QED
    BY <2>1, <2>2
<1>12. ASSUME NEW b \in 1 .. Len(around')
       PROVE  /\ around'[b] >= -1 /\ around'[b] < Len(place')
              /\ around'[b] # -1 => Token(around[b])'.kind = "open"
  <2>1. \A d \in 1 .. Len(js) + 1 : /\ around[d] \in Int /\ around[d] >= -1 /\ around[d] < n
                                    /\ around[d] # -1 => Token(around[d]).kind = "open"
    BY <1>2 DEF Outlined
  <2>2. \A d \in 1 .. Len(js) + 1 : around[d] # -1 => Token(around[d])'.kind = "open"
    <3> SUFFICES ASSUME NEW d \in 1 .. Len(js) + 1, around[d] # -1
                 PROVE  Token(around[d])'.kind = "open"
      OBVIOUS
    <3>1. PICK k \in 0 .. n - 1 : k = around[d]
      BY <1>2, <2>1
    <3>2. Token(k).kind = "open" /\ Token(k)' = Token(k)
      BY <1>8, <2>1, <3>1
    <3>3. js'[place'[k + 1]].kind = "open"
      BY <3>2 DEF Token
    <3>4. around'[d] = k
      BY <3>1, <1>6
    <3> QED
      BY <3>3, <3>4 DEF Token
  <2>3. CASE b \in 1 .. Len(js) + 1
    <3>1. around'[b] = around[b]
      BY <1>6, <2>3
    <3>2. around[b] \in Int /\ around[b] >= -1 /\ around[b] < n
      BY <2>1, <2>3
    <3>3. around'[b] < Len(place')
      BY <1>2, <1>5, <3>1, <3>2
    <3>4. around'[b] # -1 => js'[place'[around'[b] + 1]].kind = "open"
      BY <2>2, <2>3, <3>1 DEF Token
    <3> QED
      BY <3>1, <3>2, <3>3, <3>4 DEF Token
  <2>4. CASE b = Len(js) + 2
    <3>1. CASE c.kind = "open"
      <4>1. around'[b] = n
        BY <1>6, <2>4, <3>1
      <4>2. js'[place'[n + 1]].kind = "open"
        BY <1>9, <3>1 DEF Token
      <4> QED
        BY <1>2, <1>5, <4>1, <4>2 DEF Token
    <3>2. CASE c.kind # "open"
      <4>1. around'[b] = around[Len(js) + 1] /\ around'[Len(js) + 1] = around[Len(js) + 1]
        <5>1. around'[b] = a
          BY <1>6, <2>4, <3>2
        <5>2. Len(js) + 1 \in 1 .. Len(js) + 1
          BY <1>2
        <5> QED
          BY <1>3, <1>6, <5>1, <5>2
      <4>2. Len(js) + 1 \in 1 .. Len(js) + 1
        BY <1>2
      <4>3. around'[Len(js) + 1] # -1 => js'[place'[around'[Len(js) + 1] + 1]].kind = "open"
        BY <2>2, <4>1, <4>2 DEF Token
      <4>4. around'[b] = around'[Len(js) + 1]
        BY <4>1
      <4> QED
        BY <1>2, <1>5, <2>1, <4>1, <4>2, <4>3, <4>4 DEF Token
    <3> QED
      BY <3>1, <3>2
  <2> QED
    BY <1>2, <1>6, <2>3, <2>4
<1>13. Forest(n + 1, Ups', inside')
  <2>1. Forest(n, Ups, inside)
    BY DEF Outlined
  <2>2. \A k \in 0 .. n - 1 : Ups[k] = Up(k)
    BY DEF Ups
  <2>3. Ups' = [k \in 0 .. n |-> IF k = n THEN a ELSE Ups[k]]
    <3>1. Ups' = [k \in 0 .. n |-> Up(k)']
      BY <1>2, <1>5 DEF Ups, Up
    <3>2. \A k \in 0 .. n : Up(k)' = IF k = n THEN a ELSE Ups[k]
      <4>1. \A k \in 0 .. n : k = n \/ (k # n /\ k \in 0 .. n - 1)
        BY <1>2
      <4> QED
        BY <1>8, <1>9, <2>2, <4>1
    <3> QED
      BY <3>1, <3>2
  <2>4. \A j \in 0 .. n - 1 : a < j => a <= Ups[j]
    BY <2>2
  <2>5. /\ Ups' \in [0 .. n -> Int] /\ Ups'[n] = a /\ \A k \in 0 .. n - 1 : Ups'[k] = Ups[k]
    <3>1. \A k \in 0 .. n - 1 : Ups[k] \in Int
      BY <2>1 DEF Forest
    <3>2. n \in 0 .. n /\ \A k \in 0 .. n : k # n => k \in 0 .. n - 1
      BY <1>2
    <3>3. \A k \in 0 .. n - 1 : k \in 0 .. n /\ k # n
      BY <1>2
    <3>4. \A k \in 0 .. n : (IF k = n THEN a ELSE Ups[k]) \in Int
      BY <1>3, <3>1, <3>2
    <3>5. Ups' \in [0 .. n -> Int]
      BY <2>3, <3>4
    <3>6. Ups'[n] = a
      BY <2>3, <3>2
    <3>7. \A k \in 0 .. n - 1 : Ups'[k] = Ups[k]
      BY <2>3, <3>3
    <3> QED
      BY <3>5, <3>6, <3>7
  <2>6. /\ DOMAIN inside' = -1 .. n /\ inside' = [i \in DOMAIN inside' |-> inside'[i]]
        /\ inside'[n] = <<>> /\ inside'[a] = Append(inside[a], n)
        /\ \A i \in -1 .. n - 1 : i # a => inside'[i] = inside[i]
    <3>1. /\ DOMAIN inside' = -1 .. n /\ inside' = [i \in DOMAIN inside' |-> inside'[i]]
      BY <1>1
    <3>2. \A i \in -1 .. n : inside'[i] = IF i = n THEN <<>>
                                        ELSE IF i = a THEN Append(inside[i], n) ELSE inside[i]
      BY <1>1
    <3>3. n \in -1 .. n /\ a \in -1 .. n /\ a # n
      BY <1>2, <1>3
    <3>4. \A i \in -1 .. n - 1 : i \in -1 .. n /\ i # n
      BY <1>2
    <3> QED
      BY <3>1, <3>2, <3>3, <3>4
  <2>7. Grown(n, Ups, inside, a, Ups', inside')
    BY <1>3, <2>4, <2>5, <2>6 DEF Grown
  <2> QED
    BY <2>1, <2>7, ForestGrows
<1> QED
  BY <1>2, <1>4, <1>5, <1>6, <1>8, <1>9, <1>10, <1>11, <1>12, <1>13 DEF Outlined

LEMMA OutlineKeeps ==
  ASSUME Outlined, NEW c \in LexemeType, Outline(c)
  PROVE  /\ Len(js) \in Nat /\ Len(place) \in Nat
         /\ js' \in Seq(LexemeType) /\ Len(js') = Len(js) + 1 /\ js'[Len(js) + 1] = c
         /\ \A b \in 1 .. Len(js) : js'[b] = js[b]
         /\ \A b \in 1 .. Len(js) + 1 : around'[b] = around[b]
         /\ \A k \in 0 .. Len(place) - 1 : Token(k)' = Token(k) /\ Up(k)' = Up(k)
         /\ Last(around) = around[Len(js) + 1] /\ Last(around) \in -1 .. Len(place) - 1
<1>1. /\ js \in Seq(LexemeType) /\ place \in Seq(Nat) /\ around \in Seq(Int)
      /\ Len(js) \in Nat /\ Len(place) \in Nat /\ Len(around) = Len(js) + 1
  BY DEF Outlined
<1>2. /\ js' \in Seq(LexemeType) /\ Len(js') = Len(js) + 1 /\ js'[Len(js) + 1] = c
      /\ \A b \in 1 .. Len(js) : js'[b] = js[b]
  BY <1>1, AppendFacts DEF Outline
<1>3. \A b \in 1 .. Len(js) + 1 : around'[b] = around[b]
  <2>1. PICK y : around' = Append(around, y)
    BY DEF Outline
  <2> QED
    BY <1>1, <2>1, AppendFacts
<1>4. \A k \in 1 .. Len(place) : place'[k] = place[k]
  <2>1. place' = place \/ place' = Append(place, Len(js) + 1)
    BY DEF Outline, NewToken
  <2> QED
    BY <1>1, <2>1, AppendFacts
<1>5. ASSUME NEW k \in 0 .. Len(place) - 1
      PROVE  Token(k)' = Token(k) /\ Up(k)' = Up(k)
  <2>1. k + 1 \in 1 .. Len(place)
    BY <1>1
  <2>2. place'[k + 1] = place[k + 1] /\ place[k + 1] \in 1 .. Len(js)
    BY <1>4, <2>1 DEF Outlined
  <2> QED
    BY <2>2, <1>1, <1>2, <1>3 DEF Token, Up
<1>6. Last(around) = around[Len(js) + 1] /\ Last(around) \in -1 .. Len(place) - 1
  BY <1>1 DEF Outlined, Last
<1> QED
  BY <1>1, <1>2, <1>3, <1>5, <1>6

LEMMA OutlineOld ==
  ASSUME Outlined, NEW c \in LexemeType, c.kind \notin {"open", "text"}, Outline(c),
         NEW a, a = Last(around)
  PROVE  /\ Outlined'
         /\ place' = place /\ inside' = inside
         /\ Last(around)' = IF c.kind = "close" /\ a # -1 THEN Up(a) ELSE a
<1> DEFINE n == Len(place)
           x == IF c.kind = "close" /\ a # -1 THEN Up(a) ELSE a
<1>1. /\ place' = place /\ inside' = inside /\ around' = Append(around, x)
  BY DEF Outline, Up
<1>2. /\ Len(js) \in Nat /\ n \in Nat
      /\ js' \in Seq(LexemeType) /\ Len(js') = Len(js) + 1
      /\ \A b \in 1 .. Len(js) + 1 : around'[b] = around[b]
      /\ \A k \in 0 .. n - 1 : Token(k)' = Token(k) /\ Up(k)' = Up(k)
      /\ a = around[Len(js) + 1] /\ a \in -1 .. n - 1
  BY OutlineKeeps
<1>3. /\ place \in Seq(Nat) /\ around \in Seq(Int) /\ Len(around) = Len(js) + 1
  BY DEF Outlined
<1>4. \A d \in 1 .. Len(js) + 1 : /\ around[d] \in Int /\ around[d] >= -1 /\ around[d] < n
                                  /\ around[d] # -1 => Token(around[d]).kind = "open"
  BY <1>3 DEF Outlined
<1>5. PICK d \in 1 .. Len(js) + 1 : x = around[d]
  <2>1. CASE x = a
    BY <1>2, <2>1
  <2>2. CASE x # a
    <3>1. a \in 0 .. n - 1 /\ x = around[place[a + 1]]
      BY <1>2, <2>2 DEF Up
    <3>2. place[a + 1] \in 1 .. Len(js)
      BY <3>1, <1>2 DEF Outlined
    <3> QED
      <4>1. place[a + 1] \in 1 .. Len(js) + 1
        BY <1>2, <3>2
      <4> QED
        BY <3>1, <4>1
  <2> QED
    BY <2>1, <2>2
<1> HIDE DEF n, x
<1>6. /\ around' \in Seq(Int) /\ Len(around') = Len(js) + 2 /\ around'[Len(js) + 2] = x
  <2>1. x \in Int
    BY <1>4, <1>5
  <2>2. around' \in Seq(Int) /\ Len(around') = Len(around) + 1 /\ around'[Len(around) + 1] = x
    BY <1>1, <1>3, <2>1, AppendFacts
  <2> QED
    BY <1>2, <1>3, <2>2
<1>7. Last(around)' = x
  BY <1>6 DEF Last
<1>8. ASSUME NEW b \in 1 .. Len(around')
      PROVE  /\ around'[b] >= -1 /\ around'[b] < Len(place')
             /\ around'[b] # -1 => Token(around[b])'.kind = "open"
  <2>1. PICK e \in 1 .. Len(js) + 1 : around'[b] = around[e]
    <3>1. CASE b = Len(js) + 2
      BY <1>5, <1>6, <3>1
    <3>2. CASE b # Len(js) + 2
      <4>1. b \in 1 .. Len(js) + 1
        BY <1>2, <1>6, <3>2
      <4> QED
        BY <1>2, <4>1
    <3> QED
      BY <3>1, <3>2
  <2>2. CASE around[e] = -1
    BY <1>1, <1>4, <2>1, <2>2 DEF n
  <2>3. CASE around[e] # -1
    <3>1. PICK k \in 0 .. n - 1 : k = around[e]
      BY <1>2, <1>4, <2>3
    <3>2. Token(k)'.kind = "open" /\ k = around'[b]
      BY <1>2, <1>4, <2>1, <2>3, <3>1
    <3>3. js'[place'[around'[b] + 1]].kind = "open"
      BY <3>2 DEF Token
    <3> QED
      BY <1>1, <1>4, <2>1, <3>3 DEF Token, n
  <2> QED
    BY <2>2, <2>3
<1>9. Ups' = Ups
  <2>1. Ups' = [k \in 0 .. n - 1 |-> Up(k)']
    BY <1>1 DEF Ups, Up, n
  <2> QED
    BY <1>2, <2>1 DEF Ups, n
<1>10. \A k \in 1 .. Len(place') : place'[k] \in 1 .. Len(js')
  <2>1. \A k \in 1 .. Len(place) : place[k] \in 1 .. Len(js)
    BY DEF Outlined
  <2>2. 1 .. Len(js) \subseteq 1 .. Len(js')
    BY <1>2
  <2> QED
    BY <1>1, <2>1, <2>2
<1>11. Forest(Len(place'), Ups', inside')
  BY <1>1, <1>9 DEF Outlined
<1>12. Outlined'
  <2>1. place' \in Seq(Nat)
    BY <1>1, <1>3
  <2>2. Len(around') = Len(js') + 1
    BY <1>2, <1>6
  <2> QED
    BY <1>2, <1>6, <1>8, <1>10, <1>11, <2>1, <2>2 DEF Outlined
<1> QED
  BY <1>1, <1>7, <1>12 DEF x

-----------------------------------------------------------------------------
(***************************************************************************)
(* Where the text should stop the parser.                                  *)
(***************************************************************************)
InvalidAt(b) ==
    \/ js[b].kind = "bad"
    \/ js[b].kind = "close" /\ (around[b] = -1 \/ Token(around[b]).type # js[b].type)

LEMMA InvalidIs == Invalid = {b \in 1 .. Len(js) : InvalidAt(b)}
  BY DEF Invalid, InvalidAt, Of

LEMMA InvalidIsPrimed == Invalid' = {b \in 1 .. Len(js') : InvalidAt(b)'}
  BY DEF Invalid, InvalidAt, Of, Token

LEMMA StopSets ==
  ASSUME Outlined, NEW c \in LexemeType, Outline(c),
         Invalid = {}, NoRoom = {}, Of({"cut"}) = {},
         parser.num_tokens \in Nat, parser'.num_tokens = parser.num_tokens,
         NEW a, a = Last(around)
  PROVE  /\ Of({"cut"})' = IF c.kind = "cut" THEN {Len(js')} ELSE {}
         /\ Invalid' = IF \/ c.kind = "bad"
                          \/ c.kind = "close" /\ (a = -1 \/ Token(a).type # c.type)
                       THEN {Len(js')} ELSE {}
         /\ NoRoom' = IF c.kind \in {"open", "text"} /\ Len(place) >= parser.num_tokens
                      THEN {Len(js')} ELSE {}
<1>1. /\ Len(js) \in Nat /\ Len(place) \in Nat
      /\ Len(js') = Len(js) + 1 /\ js'[Len(js) + 1] = c
      /\ \A b \in 1 .. Len(js) : js'[b] = js[b]
      /\ \A b \in 1 .. Len(js) + 1 : around'[b] = around[b]
      /\ \A k \in 0 .. Len(place) - 1 : Token(k)' = Token(k)
      /\ a = around[Len(js) + 1] /\ a \in -1 .. Len(place) - 1
  BY OutlineKeeps
<1>2. PICK l \in Nat : l = Len(js) + 1
  BY <1>1
<1>3. Of({"cut"})' = IF c.kind = "cut" THEN {l} ELSE {}
  <2>1. \A b \in 1 .. Len(js) : js'[b].kind # "cut"
    BY <1>1 DEF Of
  <2>2. Of({"cut"})' = {b \in 1 .. l : js'[b].kind = "cut"}
    BY <1>1, <1>2 DEF Of
  <2>3. \A b \in 1 .. l : b = l \/ b \in 1 .. Len(js)
    BY <1>1, <1>2
  <2>4. l \in 1 .. l /\ js'[l] = c
    BY <1>1, <1>2
  <2> QED
    BY <2>1, <2>2, <2>3, <2>4
<1>4. Invalid' = IF \/ c.kind = "bad"
                    \/ c.kind = "close" /\ (a = -1 \/ Token(a).type # c.type)
                 THEN {l} ELSE {}
  <2>1. ASSUME NEW b \in 1 .. Len(js) PROVE ~InvalidAt(b)'
    <3>1. ~InvalidAt(b)
      BY InvalidIs
    <3>2. js'[b] = js[b] /\ around'[b] = around[b]
      BY <1>1
    <3>3. around[b] # -1 => Token(around[b])' = Token(around[b])
      <4>1. around[b] \in -1 .. Len(place) - 1
        BY <1>1 DEF Outlined
      <4>2. PICK y : y = around[b]
        OBVIOUS
      <4>3. CASE y # -1
        <5>1. Token(y)' = Token(y)
          BY <1>1, <4>1, <4>2, <4>3
        <5>2. js'[place'[y + 1]] = Token(y)
          BY <5>1 DEF Token
        <5> QED
          BY <3>2, <4>2, <5>2 DEF Token
      <4> QED
        BY <4>2, <4>3
    <3> QED
      BY <3>1, <3>2, <3>3 DEF InvalidAt
  <2>2. InvalidAt(l)' <=> \/ c.kind = "bad"
                          \/ c.kind = "close" /\ (a = -1 \/ Token(a).type # c.type)
    <3>1. js'[l] = c /\ around'[l] = a
      BY <1>1, <1>2
    <3>2. a # -1 => js'[place'[a + 1]] = Token(a)
      <4>1. a # -1 => Token(a)' = Token(a)
        BY <1>1
      <4> QED
        BY <4>1 DEF Token
    <3>3. InvalidAt(l)' <=> \/ js'[l].kind = "bad"
                            \/ /\ js'[l].kind = "close"
                               /\ \/ around'[l] = -1
                                  \/ js'[place'[around'[l] + 1]].type # js'[l].type
      BY DEF InvalidAt, Token
    <3> QED
      BY <3>1, <3>2, <3>3
  <2>3. \A b \in 1 .. l : b = l \/ b \in 1 .. Len(js)
    BY <1>1, <1>2
  <2>4. l \in 1 .. l /\ l = Len(js')
    BY <1>1, <1>2
  <2> QED
    BY <2>1, <2>2, <2>3, <2>4, InvalidIsPrimed
<1>5. NoRoom' = IF c.kind \in {"open", "text"} /\ Len(place) >= parser.num_tokens
                THEN {l} ELSE {}
  <2> DEFINE m == parser.num_tokens
  <2>1. Len(place) <= m
    <3>1. CASE Len(place) > m
      <4>1. m + 1 \in m + 1 .. Len(place)
        BY <1>1, <3>1
      <4> QED
        BY <4>1 DEF NoRoom
    <3> QED
      BY <1>1, <3>1
  <2>2. NoRoom' = {place'[k] : k \in m + 1 .. Len(place')}
    BY DEF NoRoom
  <2>3. place \in Seq(Nat)
    BY DEF Outlined
  <2>4. CASE c.kind \notin {"open", "text"}
    <3>1. place' = place
      BY <2>4 DEF Outline
    <3>2. m + 1 .. Len(place') = {}
      BY <1>1, <2>1, <3>1
    <3> QED
      BY <2>2, <2>4, <3>2
  <2>5. CASE c.kind \in {"open", "text"}
    <3>1. place' = Append(place, l)
      BY <1>2, <2>5 DEF Outline, NewToken
    <3>2. Len(place') = Len(place) + 1 /\ place'[Len(place) + 1] = l
      BY <2>3, <3>1, AppendFacts
    <3>3. CASE Len(place) >= m
      <4>1. m + 1 .. Len(place') = {Len(place) + 1}
        BY <1>1, <2>1, <3>2, <3>3
      <4> QED
        BY <2>2, <2>5, <3>2, <3>3, <4>1
    <3>4. CASE ~(Len(place) >= m)
      <4>1. m + 1 .. Len(place') = {}
        BY <1>1, <2>1, <3>2, <3>4
      <4> QED
        BY <2>2, <2>5, <3>4, <4>1
    <3> QED
      BY <3>3, <3>4
  <2> QED
    BY <2>4, <2>5
<1> QED
  BY <1>1, <1>2, <1>3, <1>4, <1>5

-----------------------------------------------------------------------------
(***************************************************************************)
(* The parser's operations.                                                *)
(***************************************************************************)
LEMMA InnermostIs ==
  ASSUME NEW S \in SUBSET Int, NEW m \in Int,
         (m = -1 /\ S = {}) \/ (m \in S /\ \A y \in S : y <= m)
  PROVE  Innermost(S) = m
<1>1. CASE S = {}
  BY <1>1 DEF Innermost
<1>2. CASE S # {}
  <2>1. m \in S /\ \A y \in S : m >= y
    BY <1>2
  <2>2. \A x \in S : (\A y \in S : x >= y) => x = m
    BY <2>1
  <2>3. Max(S) = m
    BY <2>1, <2>2 DEF Max
  <2> QED
    BY <1>2, <2>3 DEF Innermost
<1> QED
  BY <1>1, <1>2

LEMMA AllocFacts ==
  ASSUME NEW m \in Nat, NEW p \in ParserRecord(m), p.toknext < p.num_tokens, p.num_tokens <= m,
         p.toksuper >= -1, p.toksuper < p.toknext, NEW t \in TokenType,
         NEW q, q = jsmn_alloc_token(p, t)
  PROVE  /\ q \in ParserRecord(m)
         /\ q.toknext = p.toknext + 1 /\ q.toksuper = p.toksuper
         /\ q.num_tokens = p.num_tokens /\ q.r = p.r
         /\ q.tok[p.toknext] = t
         /\ \A k \in 0 .. m - 1 : k # p.toknext =>
               /\ q.tok[k].open = p.tok[k].open
               /\ q.tok[k].type = p.tok[k].type
               /\ q.tok[k].text = p.tok[k].text /\ q.tok[k].chars = p.tok[k].chars
               /\ q.tok[k].size = IF k = p.toksuper THEN p.tok[k].size + 1 ELSE p.tok[k].size
<1> DEFINE n == p.toknext
           a == p.toksuper
           tok == [p.tok EXCEPT ![n] = t]
           new == IF a = -1 THEN tok ELSE [tok EXCEPT ![a] = [tok[a] EXCEPT !.size = @ + 1]]
<1>1. n \in 0 .. m - 1 /\ n \in Nat /\ a \in Int /\ p.num_tokens \in Nat
  BY DEF ParserRecord
<1>2. tok \in [0 .. m - 1 -> TokenType] /\ tok[n] = t /\ \A k \in 0 .. m - 1 : k # n => tok[k] = p.tok[k]
  BY <1>1 DEF ParserRecord
<1>3. q = [p EXCEPT !.toknext = n + 1, !.tok = new]
  BY <1>1 DEF jsmn_alloc_token
<1>4. /\ new \in [0 .. m - 1 -> TokenType] /\ new[n] = t
      /\ \A k \in 0 .. m - 1 : k # n =>
               /\ new[k].open = p.tok[k].open
               /\ new[k].type = p.tok[k].type
               /\ new[k].text = p.tok[k].text /\ new[k].chars = p.tok[k].chars
               /\ new[k].size = IF k = a THEN p.tok[k].size + 1 ELSE p.tok[k].size
  <2>1. CASE a = -1
    BY <1>2, <2>1
  <2>2. CASE a # -1
    <3>1. a \in 0 .. m - 1 /\ a # n
      BY <1>1, <2>2
    <3>2. tok[a] = p.tok[a] /\ tok[a] \in TokenType
      BY <1>2, <3>1
    <3> HIDE DEF tok
    <3>3. PICK y \in TokenType : y = tok[a]
      BY <3>2
    <3>4. PICK z : z = [y EXCEPT !.size = @ + 1]
      OBVIOUS
    <3>5. /\ z \in TokenType /\ z.open = y.open /\ z.type = y.type
          /\ z.text = y.text /\ z.chars = y.chars /\ z.size = y.size + 1
      BY <3>3, <3>4 DEF TokenType
    <3>6. new = [tok EXCEPT ![a] = z]
      BY <2>2, <3>3, <3>4
    <3>7. /\ new \in [0 .. m - 1 -> TokenType] /\ new[a] = z
          /\ \A k \in 0 .. m - 1 : k # a => new[k] = tok[k]
      BY <1>2, <3>1, <3>5, <3>6
    <3> HIDE DEF new
    <3> QED
      BY <1>1, <1>2, <3>1, <3>2, <3>3, <3>5, <3>7
  <2> QED
    BY <2>1, <2>2
<1> HIDE DEF new, tok
<1>5. /\ q.toknext = n + 1 /\ q.toksuper = a /\ q.num_tokens = p.num_tokens /\ q.r = p.r
      /\ q.tok = new
  BY <1>3 DEF ParserRecord
<1>6. q \in ParserRecord(m)
  <2>1. n + 1 \in Nat /\ new \in [0 .. m - 1 -> TokenType]
    BY <1>1, <1>4
  <2> HIDE DEF n, a
  <2> QED
    BY <1>3, <2>1 DEF ParserRecord
<1> QED
  BY <1>4, <1>5, <1>6

LEMMA InsideNew ==
  ASSUME Outlined, NEW c \in LexemeType, c.kind \in {"open", "text"}, Outline(c),
         NEW n, n = Len(place), NEW a, a = Last(around), NEW k \in 0 .. n
  PROVE  Len(inside'[k]) = IF k = n THEN 0
                           ELSE IF k = a THEN Len(inside[k]) + 1 ELSE Len(inside[k])
<1>1. inside' = [i \in -1 .. n |-> IF i = n THEN <<>>
                                   ELSE IF i = a THEN Append(inside[i], n) ELSE inside[i]]
  BY DEF Outline, NewToken
<1>2. n \in Nat /\ inside \in [-1 .. n - 1 -> Seq(Nat)]
  BY DEF Outlined, Forest
<1>3. k \in -1 .. n
  BY <1>2
<1>4. CASE k = n
  <2>1. inside'[k] = <<>>
    BY <1>1, <1>3, <1>4
  <2> QED
    BY <1>4, <2>1
<1>5. CASE k # n /\ k = a
  <2>1. inside'[k] = Append(inside[k], n)
    BY <1>1, <1>3, <1>5
  <2>2. k \in -1 .. n - 1
    BY <1>2, <1>5
  <2>3. inside[k] \in Seq(Nat)
    BY <1>2, <2>2
  <2> QED
    BY <1>2, <1>5, <2>1, <2>3, AppendFacts
<1>6. CASE k # n /\ k # a
  BY <1>1, <1>3, <1>6
<1> QED
  BY <1>4, <1>5, <1>6

LEMMA CapacityType ==
  ASSUME use \in {"message", "nodes", "header"}, nentries \in Nat
  PROVE  Capacity \in Nat
<1>1. JSMN_NTOK \in Nat /\ HeaderTok \in Nat /\ MaxTok(nentries) \in Nat
  BY ParseAssumption DEF MaxTok
<1> QED
  BY <1>1 DEF Capacity

\* While a text is read.
Reading ==
    /\ ParserType /\ Outlined /\ Agrees /\ Path
    /\ Invalid = {} /\ NoRoom = {} /\ Of({"cut"}) = {}

LEMMA ReadingIs == ParseInv /\ parser.r = "PARSING" => Reading
  BY DEF ParseInv, Reading, Stopped

LEMMA ReadFrame ==
  ASSUME Reading, NEW c, Read(c), parser' \in ParserRecord(Capacity),
         parser'.num_tokens = parser.num_tokens,
         parser'.toknext <= parser.num_tokens,
         parser'.toksuper >= -1, parser'.toksuper < parser'.toknext
  PROVE  ParserType'
<1>1. use' = use /\ nentries' = nentries /\ Capacity' = Capacity
  BY DEF Read, Capacity
<1> QED
  BY <1>1 DEF ParserType, Reading

LEMMA InsideOf ==
  ASSUME Reading
  PROVE  /\ Len(place) \in Nat
         /\ \A j \in 0 .. Len(place) - 1 : Last(around) < j => Last(around) <= Up(j)
<1>1. Len(place) \in Nat /\ Last(around) \in -1 .. Len(place) - 1
  BY DEF Reading, Outlined, Last
<1>2. ASSUME NEW j \in 0 .. Len(place) - 1, Last(around) < j PROVE Last(around) <= Up(j)
  <2>1. Up(j) = Ups[j] /\ Ups[j] \in Int /\ -1 <= Ups[j]
    BY DEF Ups, Reading, Outlined, Forest
  <2>2. CASE Last(around) = -1
    BY <2>1, <2>2
  <2>3. CASE Last(around) # -1
    <3>1. Last(around) \in 0 .. Len(place) - 1 /\ Last(around) = parser.toksuper
      BY <1>1, <2>3 DEF Reading, Agrees
    <3>2. Tok(Last(around)).open
      BY <2>3, <3>1 DEF Reading, Path
    <3> QED
      BY <1>2, <2>1, <3>1, <3>2 DEF Reading, Path
  <2> QED
    BY <2>2, <2>3
<1> QED
  BY <1>1, <1>2

\* A lexeme that is a token, if there is room for it.
LEMMA TokenStep ==
  ASSUME Reading, NEW c \in LexemeType, Read(c), c.kind \in {"open", "text"},
         parser.r = "PARSING", parser.toknext < parser.num_tokens
  PROVE  Reading' /\ parser'.r = "PARSING"
<1> DEFINE t == IF c.kind = "open" THEN jsmn_fill_token(c.type, TRUE, <<"{">>, NoChars)
                ELSE jsmn_fill_token(c.type, FALSE, c.text, c.chars)
<1>1. PICK n \in Nat : n = Len(place) /\ n = parser.toknext
  BY DEF Reading, Agrees, Outlined
<1>2. PICK a \in Int : a = Last(around) /\ a = parser.toksuper /\ a >= -1 /\ a < n
  BY <1>1 DEF Reading, Agrees, ParserType, ParserRecord
<1>3. PICK m \in Nat : m = Capacity /\ parser \in ParserRecord(m) /\ parser.num_tokens <= m
  BY CapacityType DEF Reading, ParserType
<1>4. /\ t \in TokenType /\ t.size = 0 /\ t.type = c.type
      /\ c.kind = "text" => t.text = c.text /\ t.chars = c.chars
      /\ t.open <=> c.kind = "open"
  <2>1. /\ c.type \in {"OBJECT", "ARRAY", "STRING", "PRIMITIVE"}
        /\ c.kind = "text" => c.text \in TokenText /\ c.chars \in CharsType
    BY LexemeKinds DEF TokenText
  <2>2. <<"{">> \in TokenText
    BY DEF TokenText
  <2>3. CASE c.kind = "open"
    <3>1. t = [type |-> c.type, open |-> TRUE, size |-> 0, text |-> <<"{">>, chars |-> NoChars]
      BY <2>3 DEF jsmn_fill_token
    <3> HIDE DEF t
    <3> QED
      BY <2>1, <2>2, <2>3, <3>1, NoCharsType DEF TokenType
  <2>4. CASE c.kind = "text"
    <3>1. t = [type |-> c.type, open |-> FALSE, size |-> 0, text |-> c.text, chars |-> c.chars]
      BY <2>4 DEF jsmn_fill_token
    <3> HIDE DEF t
    <3> QED
      BY <2>1, <2>4, <3>1 DEF TokenType
  <2> QED
    BY <2>3, <2>4
<1>5. PICK q : q = jsmn_alloc_token(parser, t)
  OBVIOUS
<1> HIDE DEF t
<1>6. /\ q \in ParserRecord(m)
      /\ q.toknext = n + 1 /\ q.toksuper = a
      /\ q.num_tokens = parser.num_tokens /\ q.r = "PARSING"
      /\ q.tok[n] = t
      /\ \A k \in 0 .. m - 1 : k # n =>
               /\ q.tok[k].open = parser.tok[k].open
               /\ q.tok[k].type = parser.tok[k].type
               /\ q.tok[k].text = parser.tok[k].text /\ q.tok[k].chars = parser.tok[k].chars
               /\ q.tok[k].size = IF k = a THEN parser.tok[k].size + 1 ELSE parser.tok[k].size
  BY <1>1, <1>2, <1>3, <1>4, <1>5, AllocFacts
<1>7. parser' = IF c.kind = "open" THEN [q EXCEPT !.toksuper = n] ELSE q
  <2>1. parser' = jsmn_parse(parser, c)
    BY DEF Read
  <2>2. CASE c.kind = "open"
    <3>1. parser' = OpenBracket(parser, c.type)
      BY <2>1, <2>2 DEF jsmn_parse
    <3> QED
      BY <1>1, <1>5, <1>6, <2>2, <3>1 DEF OpenBracket, t
  <2>3. CASE c.kind = "text"
    <3>1. parser' = Text(parser, c)
      BY <2>1, <2>3 DEF jsmn_parse
    <3> QED
      BY <1>5, <2>3, <3>1 DEF Text, t
  <2> QED
    BY <2>2, <2>3
<1>8. /\ parser' \in ParserRecord(m) /\ parser'.tok = q.tok /\ parser'.r = "PARSING"
      /\ parser'.toknext = n + 1 /\ parser'.num_tokens = parser.num_tokens
      /\ parser'.toksuper = IF c.kind = "open" THEN n ELSE a
  <2>1. CASE c.kind = "open"
    <3>1. parser' = [q EXCEPT !.toksuper = n] /\ n \in Int
      BY <1>7, <2>1
    <3> QED
      BY <1>6, <2>1, <3>1 DEF ParserRecord
  <2>2. CASE c.kind # "open"
    BY <1>6, <1>7, <2>2
  <2> QED
    BY <2>1, <2>2
<1>9. /\ Outlined' /\ Len(place)' = n + 1
      /\ Token(n)' = c /\ Up(n)' = a
      /\ \A k \in 0 .. n - 1 : Token(k)' = Token(k) /\ Up(k)' = Up(k)
      /\ Last(around)' = IF c.kind = "open" THEN n ELSE a
  BY <1>1, <1>2, InsideOf, OutlineNew DEF Reading, Read
<1>10. /\ Invalid' = {} /\ NoRoom' = {} /\ Of({"cut"})' = {}
  <2>1. Outline(c) /\ parser.num_tokens \in Nat /\ ~(Len(place) >= parser.num_tokens)
    BY <1>1, <1>3 DEF Read, ParserRecord
  <2> QED
    BY <1>2, <1>8, <2>1, StopSets DEF Reading
<1>11. ParserType'
  <2>1. n + 1 <= parser.num_tokens
    BY <1>1, <1>3 DEF ParserRecord
  <2> QED
    BY <1>1, <1>2, <1>3, <1>8, <2>1, ReadFrame
<1>12. n <= m - 1 /\ \A k \in 0 .. n - 1 : k \in 0 .. m - 1 /\ k # n
  BY <1>1, <1>3 DEF ParserRecord
<1>13. Tok(n)' = t /\ \A k \in 0 .. n - 1 :
                        /\ Tok(k)'.open = Tok(k).open
                        /\ Tok(k)'.type = Tok(k).type
                        /\ Tok(k)'.text = Tok(k).text /\ Tok(k)'.chars = Tok(k).chars
                        /\ Tok(k)'.size = IF k = a THEN Tok(k).size + 1 ELSE Tok(k).size
  BY <1>6, <1>8, <1>12 DEF Tok
<1>14. \A k \in 0 .. n : k = n \/ k \in 0 .. n - 1
  OBVIOUS
<1>15. Agrees'
  <2>1. \A k \in 0 .. n : Len(inside'[k]) = IF k = n THEN 0
                             ELSE IF k = a THEN Len(inside[k]) + 1 ELSE Len(inside[k])
    BY <1>1, <1>2, InsideNew DEF Reading, Read
  <2>2. ASSUME NEW k \in 0 .. n
        PROVE  /\ Tok(k)'.size = Len(inside'[k])
               /\ Tok(k)'.type = Token(k)'.type
               /\ Token(k)'.kind = "text" => /\ Tok(k)'.text = Token(k)'.text
                                             /\ Tok(k)'.chars = Token(k)'.chars
               /\ Token(k)'.kind \in {"open", "text"}
    <3>1. CASE k = n
      BY <1>4, <1>9, <1>13, <2>1, <3>1
    <3>2. CASE k # n
      <4>1. k \in 0 .. n - 1
        BY <1>14, <3>2
      <4>2. /\ Tok(k).size = Len(inside[k])
            /\ Tok(k).type = Token(k).type
            /\ Token(k).kind = "text" => /\ Tok(k).text = Token(k).text
                                         /\ Tok(k).chars = Token(k).chars
            /\ Token(k).kind \in {"open", "text"}
        BY <1>1, <4>1 DEF Reading, Agrees
      <4>3. Token(k)' = Token(k)
        BY <1>9, <4>1
      <4>4. Tok(k)'.size = Len(inside'[k])
        BY <1>13, <2>1, <3>2, <4>1, <4>2
      <4> QED
        BY <1>13, <4>1, <4>2, <4>3, <4>4
    <3> QED
      BY <3>1, <3>2
  <2>3. Len(place)' - 1 = n
    BY <1>9
  <2> QED
    BY <1>8, <1>9, <2>2, <2>3 DEF Agrees
<1>16. Path'
  <2>1. /\ \A k \in 0 .. n - 1 : Tok(k).open => Up(k) = -1 \/ Tok(Up(k)).open
        /\ \A j, k \in 0 .. n - 1 : Tok(j).open /\ j < k => Up(k) >= j
        /\ a # -1 => Tok(a).open
        /\ \A j \in 0 .. n - 1 : Tok(j).open => j <= a
    BY <1>1, <1>2 DEF Reading, Path
  <2>2. \A k \in 0 .. n - 1 : Up(k) \in -1 .. n - 1
    <3>1. \A k \in 0 .. n - 1 : Ups[k] = Up(k) /\ Ups[k] \in Int /\ -1 <= Ups[k] /\ Ups[k] < k
      BY <1>1 DEF Reading, Outlined, Forest, Ups
    <3> QED
      BY <3>1
  <2>3. ASSUME NEW k \in 0 .. n, Tok(k)'.open
        PROVE  Up(k)' = -1 \/ Tok(Up(k))'.open
    <3>1. PICK y \in -1 .. n - 1 : y = Up(k)' /\ (y = -1 \/ Tok(y).open)
      <4>1. CASE k = n
        BY <1>2, <1>9, <2>1, <4>1
      <4>2. CASE k # n
        <5>1. k \in 0 .. n - 1
          BY <1>14, <4>2
        <5> QED
          BY <1>9, <1>13, <2>1, <2>2, <2>3, <5>1
      <4> QED
        BY <4>1, <4>2
    <3>2. CASE y # -1
      <4>1. y \in 0 .. n - 1
        BY <3>2
      <4>2. Tok(y)'.open
        BY <1>13, <3>1, <3>2, <4>1
      <4>3. parser'.tok[around'[place'[k + 1]]].open
        BY <3>1, <4>2 DEF Tok, Up
      <4> QED
        BY <4>3 DEF Tok, Up
    <3> QED
      BY <3>1, <3>2
  <2>4. ASSUME NEW j \in 0 .. n, NEW k \in 0 .. n, Tok(j)'.open, j < k
        PROVE  Up(k)' >= j
    <3>1. j \in 0 .. n - 1 /\ Tok(j).open
      BY <1>13, <2>4
    <3>2. CASE k = n
      BY <1>9, <2>1, <3>1, <3>2
    <3>3. CASE k # n
      BY <1>9, <1>14, <2>1, <2>4, <3>1, <3>3
    <3> QED
      BY <3>2, <3>3
  <2>5. parser'.toksuper # -1 => Tok(parser.toksuper)'.open
    <3>1. CASE c.kind = "open"
      <4>1. parser'.tok[n].open
        BY <1>4, <1>13, <3>1 DEF Tok
      <4> QED
        BY <1>8, <3>1, <4>1 DEF Tok
    <3>2. CASE c.kind # "open" /\ a # -1
      <4>1. a \in 0 .. n - 1
        BY <1>2, <3>2
      <4>2. parser'.tok[a].open
        BY <1>13, <2>1, <3>2, <4>1 DEF Tok
      <4> QED
        BY <1>8, <3>2, <4>2 DEF Tok
    <3> QED
      BY <1>8, <3>1, <3>2
  <2>6. ASSUME NEW j \in 0 .. n, Tok(j)'.open PROVE j <= parser'.toksuper
    <3>1. CASE c.kind = "open"
      BY <1>8, <3>1
    <3>2. CASE c.kind # "open"
      <4>1. j # n
        BY <1>4, <1>13, <2>6, <3>2
      <4>2. j \in 0 .. n - 1
        BY <1>14, <4>1
      <4> QED
        BY <1>8, <1>13, <2>1, <2>6, <3>2, <4>2
    <3> QED
      BY <3>1, <3>2
  <2>7. Len(place)' - 1 = n
    BY <1>9
  <2> QED
    BY <2>3, <2>4, <2>5, <2>6, <2>7 DEF Path
<1> QED
  BY <1>8, <1>9, <1>10, <1>11, <1>15, <1>16 DEF Reading

LEMMA FailIs ==
  ASSUME NEW m, NEW p \in ParserRecord(m), NEW e \in {"INVAL", "NOMEM", "PART", "SUCCESS"},
         NEW q, q = [p EXCEPT !.r = e]
  PROVE  /\ q \in ParserRecord(m) /\ q.r = e
         /\ q.toknext = p.toknext /\ q.toksuper = p.toksuper /\ q.num_tokens = p.num_tokens
         /\ q.tok = p.tok
  BY DEF ParserRecord

\* A parser that has only failed has its type.
LEMMA FailFrame ==
  ASSUME Reading, NEW c, Read(c), NEW e \in {"INVAL", "NOMEM", "PART"}, parser' = Fail(parser, e)
  PROVE  ParserType' /\ parser'.r = e /\ parser'.num_tokens = parser.num_tokens
                     /\ parser.num_tokens \in Nat
<1>1. /\ parser' \in ParserRecord(Capacity) /\ parser'.r = e
      /\ parser'.toknext = parser.toknext /\ parser'.toksuper = parser.toksuper
      /\ parser'.num_tokens = parser.num_tokens
  <2>1. parser \in ParserRecord(Capacity) /\ parser' = [parser EXCEPT !.r = e]
    BY DEF Reading, ParserType, Fail
  <2> QED
    BY <2>1, FailIs
<1>2. /\ parser.toknext <= parser.num_tokens /\ parser.toksuper >= -1
      /\ parser.toksuper < parser.toknext /\ parser.num_tokens \in Nat
  BY DEF Reading, ParserType, ParserRecord
<1>3. ParserType'
  BY <1>1, <1>2, ReadFrame
<1> QED
  BY <1>1, <1>2, <1>3

LEMMA NoRoomStep ==
  ASSUME Reading, NEW c \in LexemeType, Read(c), c.kind \in {"open", "text"},
         parser.toknext >= parser.num_tokens
  PROVE  ParseInv'
<1>1. parser' = Fail(parser, "NOMEM")
  <2>1. parser' = jsmn_parse(parser, c)
    BY DEF Read
  <2>2. \A t : jsmn_alloc_token(parser, t) = Fail(parser, "NOMEM")
    BY DEF jsmn_alloc_token
  <2>3. Fail(parser, "NOMEM").r = "NOMEM"
    BY DEF Fail, Reading, ParserType, ParserRecord
  <2>4. CASE c.kind = "open"
    BY <2>1, <2>2, <2>3, <2>4 DEF jsmn_parse, OpenBracket
  <2>5. CASE c.kind = "text"
    BY <2>1, <2>2, <2>5 DEF jsmn_parse, Text
  <2> QED
    BY <2>4, <2>5
<1>2. ParserType' /\ parser'.r = "NOMEM" /\ parser'.num_tokens = parser.num_tokens
      /\ parser.num_tokens \in Nat
  BY <1>1, FailFrame
<1>3. parser.toknext = Len(place) /\ Len(place) = parser.num_tokens
  BY <1>2 DEF Reading, Agrees, ParserType, ParserRecord
<1>4. Outlined' /\ Len(place)' = Len(place) + 1
  BY InsideOf, OutlineNew DEF Reading, Read
<1>5. Invalid' = {} /\ NoRoom' = {Len(js')} /\ Of({"cut"})' = {}
  <2>1. Outline(c) /\ Len(place) >= parser.num_tokens
    BY <1>2, <1>3 DEF Read
  <2> QED
    BY <1>2, <2>1, StopSets DEF Reading
<1>6. Stopped'
  BY <1>2, <1>5 DEF Stopped
<1> QED
  BY <1>2, <1>3, <1>4, <1>6 DEF ParseInv

LEMMA WrongStep ==
  ASSUME Reading, NEW c \in LexemeType, Read(c), c.kind \in {"bad", "cut"}
  PROVE  ParseInv'
<1>1. Outline(c) /\ Outlined'
  BY OutlineOld DEF Reading, Read
<1>2. CASE c.kind = "bad"
  <2>1. parser' = Fail(parser, "INVAL")
    BY <1>2 DEF Read, jsmn_parse
  <2>2. ParserType' /\ parser'.r = "INVAL" /\ parser'.num_tokens = parser.num_tokens
        /\ parser.num_tokens \in Nat
    BY <2>1, FailFrame
  <2>3. Invalid' = {Len(js')} /\ NoRoom' = {} /\ Of({"cut"})' = {}
    BY <1>1, <1>2, <2>2, StopSets DEF Reading
  <2>4. Stopped'
    BY <2>2, <2>3 DEF Stopped
  <2> QED
    BY <1>1, <2>2, <2>4 DEF ParseInv
<1>3. CASE c.kind = "cut"
  <2>1. parser' = Fail(parser, "PART")
    BY <1>3 DEF Read, jsmn_parse
  <2>2. ParserType' /\ parser'.r = "PART" /\ parser'.num_tokens = parser.num_tokens
        /\ parser.num_tokens \in Nat
    BY <2>1, FailFrame
  <2>3. Invalid' = {} /\ NoRoom' = {} /\ Of({"cut"})' = {Len(js')}
    BY <1>1, <1>3, <2>2, StopSets DEF Reading
  <2>4. Stopped'
    BY <2>2, <2>3 DEF Stopped
  <2> QED
    BY <1>1, <2>2, <2>4 DEF ParseInv
<1> QED
  BY <1>2, <1>3

\* The loops over the array find the tokens that are open.
LEMMA OpenTokensAre ==
  ASSUME Reading
  PROVE  /\ Innermost(OpenTokens(parser)) = parser.toksuper
         /\ OpenTokens(parser) = {} <=> parser.toksuper = -1
         /\ parser.toksuper # -1 =>
               Innermost(OpenTokens(parser) \ {parser.toksuper}) = Up(parser.toksuper)
<1> DEFINE a == parser.toksuper
           S == OpenTokens(parser)
<1>1. PICK n \in Nat : n = Len(place) /\ n = parser.toknext
  BY DEF Reading, Agrees, Outlined
<1>2. a \in Int /\ a >= -1 /\ a < n
  BY <1>1 DEF Reading, ParserType, ParserRecord
<1>3. S = {i \in 0 .. n - 1 : Tok(i).open}
  BY <1>1 DEF OpenTokens, Tok
<1>4. /\ \A k \in 0 .. n - 1 : Tok(k).open => Up(k) = -1 \/ Tok(Up(k)).open
      /\ \A j, k \in 0 .. n - 1 : Tok(j).open /\ j < k => Up(k) >= j
      /\ a # -1 => Tok(a).open
      /\ \A j \in 0 .. n - 1 : Tok(j).open => j <= a
  BY <1>1 DEF Reading, Path
<1> HIDE DEF S, a
<1>5. S \in SUBSET Int
  BY <1>3
<1>6. CASE a = -1
  <2>1. S = {}
    BY <1>3, <1>4, <1>6
  <2>2. Innermost(S) = a
    BY <1>2, <1>5, <1>6, <2>1, InnermostIs
  <2> QED
    BY <1>6, <2>1, <2>2 DEF a, S
<1>7. CASE a # -1
  <2>1. a \in 0 .. n - 1 /\ a \in S
    BY <1>2, <1>3, <1>4, <1>7
  <2>2. \A y \in S : y <= a
    BY <1>3, <1>4
  <2>3. Innermost(S) = a
    BY <1>2, <1>5, <2>1, <2>2, InnermostIs
  <2>4. Up(a) \in Int /\ -1 <= Up(a) /\ Up(a) < a
    BY <1>1, <2>1 DEF Reading, Outlined, Forest, Ups
  <2>5. \A y \in S \ {a} : y <= Up(a)
    BY <1>3, <1>4, <2>1, <2>2
  <2>6. (Up(a) = -1 /\ S \ {a} = {}) \/ Up(a) \in S \ {a}
    <3>1. CASE Up(a) = -1
      BY <1>3, <2>5, <3>1
    <3>2. CASE Up(a) # -1
      <4>1. Up(a) \in 0 .. n - 1 /\ Up(a) # a
        BY <2>1, <2>4, <3>2
      <4>2. Tok(Up(a)).open
        BY <1>4, <1>7, <2>1, <3>2
      <4> QED
        BY <1>3, <4>1, <4>2
    <3> QED
      BY <3>1, <3>2
  <2>7. S \ {a} \in SUBSET Int
    BY <1>5
  <2>8. Innermost(S \ {a}) = Up(a)
    BY <2>4, <2>5, <2>6, <2>7, InnermostIs
  <2> QED
    BY <1>7, <2>1, <2>3, <2>8 DEF a, S
<1> QED
  BY <1>6, <1>7

LEMMA CloseStep ==
  ASSUME Reading, NEW c \in LexemeType, Read(c), c.kind = "close", parser.r = "PARSING"
  PROVE  ParseInv'
<1>1. PICK n \in Nat : n = Len(place) /\ n = parser.toknext
  BY DEF Reading, Agrees, Outlined
<1>2. PICK a \in Int : a = Last(around) /\ a = parser.toksuper /\ a >= -1 /\ a < n
  BY <1>1 DEF Reading, Agrees, ParserType, ParserRecord
<1>3. PICK m \in Nat : m = Capacity /\ parser \in ParserRecord(m) /\ parser.num_tokens <= m
  BY CapacityType DEF Reading, ParserType
<1>4. /\ Outlined' /\ place' = place /\ inside' = inside
      /\ Last(around)' = IF a # -1 THEN Up(a) ELSE a
  BY <1>2, OutlineOld DEF Reading, Read
<1>5. \A k \in 0 .. n - 1 : Token(k)' = Token(k) /\ Up(k)' = Up(k)
  BY <1>1, OutlineKeeps DEF Reading, Read
<1>6. parser' = IF a = -1 \/ parser.tok[a].type # c.type THEN Fail(parser, "INVAL")
                ELSE [parser EXCEPT !.tok[a].open = FALSE,
                                    !.toksuper = Innermost(OpenTokens(parser) \ {a})]
  BY <1>2, OpenTokensAre DEF Read, jsmn_parse, CloseBracket
<1>7. a # -1 => a \in 0 .. n - 1 /\ parser.tok[a].type = Token(a).type
  BY <1>1, <1>2 DEF Reading, Agrees, Tok
<1>8. CASE a = -1 \/ Token(a).type # c.type
  <2>1. parser' = Fail(parser, "INVAL")
    BY <1>6, <1>7, <1>8
  <2>2. ParserType' /\ parser'.r = "INVAL" /\ parser'.num_tokens = parser.num_tokens
        /\ parser.num_tokens \in Nat
    BY <2>1, FailFrame
  <2>3. Invalid' = {Len(js')} /\ NoRoom' = {} /\ Of({"cut"})' = {}
    BY <1>2, <1>8, <2>2, StopSets DEF Reading, Read
  <2>4. Stopped'
    BY <2>2, <2>3 DEF Stopped
  <2> QED
    BY <1>4, <2>2, <2>4 DEF ParseInv
<1>9. CASE a # -1 /\ Token(a).type = c.type
  <2>1. PICK u \in Int : u = Up(a) /\ -1 <= u /\ u < a
    BY <1>1, <1>7, <1>9 DEF Reading, Outlined, Forest, Ups
  <2>2. Innermost(OpenTokens(parser) \ {a}) = u
    BY <1>2, <1>9, <2>1, OpenTokensAre
  <2>3. parser' = [parser EXCEPT !.tok[a].open = FALSE, !.toksuper = u]
    BY <1>6, <1>7, <1>9, <2>2
  <2>4. a \in 0 .. m - 1 /\ parser.tok[a] \in TokenType
    BY <1>1, <1>3, <1>7, <1>9 DEF ParserRecord, Reading, ParserType
  <2>5. PICK z : z = [parser.tok[a] EXCEPT !.open = FALSE]
    OBVIOUS
  <2>6. /\ z \in TokenType /\ z.open = FALSE /\ z.type = parser.tok[a].type
        /\ z.text = parser.tok[a].text /\ z.chars = parser.tok[a].chars
        /\ z.size = parser.tok[a].size
    BY <2>4, <2>5 DEF TokenType
  <2>7. parser' = [parser EXCEPT !.tok = [parser.tok EXCEPT ![a] = z], !.toksuper = u]
    BY <2>3, <2>5
  <2>8. /\ parser' \in ParserRecord(m) /\ parser'.r = "PARSING"
        /\ parser'.toknext = n /\ parser'.num_tokens = parser.num_tokens
        /\ parser'.toksuper = u /\ parser'.tok = [parser.tok EXCEPT ![a] = z]
    <3>1. [parser.tok EXCEPT ![a] = z] \in [0 .. m - 1 -> TokenType]
      BY <1>3, <2>6 DEF ParserRecord
    <3> QED
      BY <1>1, <1>3, <2>1, <2>7, <3>1 DEF ParserRecord
  <2>9. /\ Tok(a)' = z
        /\ \A k \in 0 .. n - 1 : k # a => Tok(k)' = Tok(k)
    <3>1. \A k \in 0 .. n - 1 : k \in 0 .. m - 1
      BY <1>1, <1>3 DEF Reading, ParserType, ParserRecord
    <3>2. DOMAIN parser.tok = 0 .. m - 1
      BY <1>3 DEF ParserRecord
    <3> QED
      BY <2>4, <2>8, <3>1, <3>2 DEF Tok
  <2>10. \A k \in 0 .. n - 1 : /\ Tok(k)'.open <=> (k # a /\ Tok(k).open)
                               /\ Tok(k)'.type = Tok(k).type
                               /\ Tok(k)'.text = Tok(k).text /\ Tok(k)'.chars = Tok(k).chars
                               /\ Tok(k)'.size = Tok(k).size
    BY <2>6, <2>9 DEF Tok
  <2>11. ParserType'
    BY <1>1, <1>2, <1>3, <2>1, <2>8, ReadFrame DEF Reading, ParserType
  <2>12. Invalid' = {} /\ NoRoom' = {} /\ Of({"cut"})' = {}
    <3>1. parser.num_tokens \in Nat
      BY <1>3 DEF ParserRecord
    <3> QED
      BY <1>2, <1>9, <2>8, <3>1, StopSets DEF Reading, Read
  <2>13. Agrees'
    <3>1. Last(around)' = u
      BY <1>4, <1>9, <2>1
    <3>2. ASSUME NEW k \in 0 .. n - 1
          PROVE  /\ Tok(k)'.size = Len(inside'[k])
                 /\ Tok(k)'.type = Token(k)'.type
                 /\ Token(k)'.kind = "text" => /\ Tok(k)'.text = Token(k)'.text
                                               /\ Tok(k)'.chars = Token(k)'.chars
                 /\ Token(k)'.kind \in {"open", "text"}
      <4>1. /\ Tok(k).size = Len(inside[k])
            /\ Tok(k).type = Token(k).type
            /\ Token(k).kind = "text" => /\ Tok(k).text = Token(k).text
                                         /\ Tok(k).chars = Token(k).chars
            /\ Token(k).kind \in {"open", "text"}
        BY <1>1 DEF Reading, Agrees
      <4>2. Token(k)' = Token(k) /\ inside' = inside
        BY <1>1, <1>4, <1>5
      <4> QED
        BY <2>10, <4>1, <4>2
    <3> QED
      BY <1>1, <1>4, <2>8, <3>1, <3>2 DEF Agrees
  <2>14. Path'
    <3>1. /\ \A k \in 0 .. n - 1 : Tok(k).open => Up(k) = -1 \/ Tok(Up(k)).open
          /\ \A j, k \in 0 .. n - 1 : Tok(j).open /\ j < k => Up(k) >= j
          /\ Tok(a).open
          /\ \A j \in 0 .. n - 1 : Tok(j).open => j <= a
      BY <1>1, <1>2, <1>9 DEF Reading, Path
    <3>2. ASSUME NEW k \in 0 .. n - 1, Tok(k)'.open
          PROVE  Up(k)' = -1 \/ Tok(Up(k))'.open
      <4>1. k # a /\ Tok(k).open /\ k <= a
        BY <2>10, <3>1, <3>2
      <4>2. PICK y \in Int : y = Up(k) /\ -1 <= y /\ y < k
        BY <1>1 DEF Reading, Outlined, Forest, Ups
      <4>3. CASE y # -1
        <5>1. y \in 0 .. n - 1 /\ y # a
          BY <1>2, <4>1, <4>2, <4>3
        <5>2. Tok(y)'.open
          BY <2>10, <3>1, <4>1, <4>2, <4>3, <5>1
        <5>3. y = Up(k)'
          BY <1>5, <4>2
        <5>4. parser'.tok[around'[place'[k + 1]]].open
          BY <5>2, <5>3 DEF Tok, Up
        <5> QED
          BY <5>4 DEF Tok, Up
      <4> QED
        BY <1>5, <4>2, <4>3
    <3>3. ASSUME NEW j \in 0 .. n - 1, NEW k \in 0 .. n - 1, Tok(j)'.open, j < k
          PROVE  Up(k)' >= j
      BY <1>5, <2>10, <3>1, <3>3
    <3>4. parser'.toksuper # -1 => Tok(parser.toksuper)'.open
      <4>1. CASE u # -1
        <5>1. u \in 0 .. n - 1 /\ u # a
          BY <1>2, <2>1, <4>1
        <5>2. Tok(u).open
          BY <1>7, <1>9, <2>1, <3>1, <4>1
        <5>3. parser'.tok[u].open
          BY <2>10, <5>1, <5>2 DEF Tok
        <5> QED
          BY <2>8, <5>3 DEF Tok
      <4> QED
        BY <2>8, <4>1
    <3>5. ASSUME NEW j \in 0 .. n - 1, Tok(j)'.open PROVE j <= parser'.toksuper
      <4>1. Tok(j).open /\ j < a
        BY <2>10, <3>1, <3>5, <1>2
      <4> QED
        BY <1>7, <1>9, <2>1, <2>8, <3>1, <4>1
    <3> QED
      BY <1>1, <1>4, <3>2, <3>3, <3>4, <3>5 DEF Path
  <2>15. Stopped'
    BY <2>8, <2>12 DEF Stopped
  <2> QED
    BY <1>4, <2>8, <2>11, <2>13, <2>14, <2>15 DEF ParseInv
<1> QED
  BY <1>8, <1>9

LEMMA ReadStep ==
  ASSUME ParseInv, NEW c \in Lexeme, Read(c)
  PROVE  ParseInv'
<1>1. c \in LexemeType /\ parser.r = "PARSING" /\ Reading
  BY ParseAssumption, ReadingIs DEF Read
<1>2. CASE c.kind \in {"open", "text"} /\ parser.toknext < parser.num_tokens
  <2>1. Reading' /\ parser'.r = "PARSING"
    BY <1>1, <1>2, TokenStep
  <2> QED
    BY <2>1 DEF Reading, ParseInv, Stopped
<1>3. CASE c.kind \in {"open", "text"} /\ ~(parser.toknext < parser.num_tokens)
  <2>1. parser.toknext >= parser.num_tokens
    BY <1>1, <1>3 DEF Reading, ParserType, ParserRecord
  <2> QED
    BY <1>1, <1>3, <2>1, NoRoomStep
<1>4. CASE c.kind \in {"bad", "cut"}
  BY <1>1, <1>4, WrongStep
<1>5. CASE c.kind = "close"
  BY <1>1, <1>5, CloseStep
<1> QED
  BY <1>1, <1>2, <1>3, <1>4, <1>5, LexemeKinds

LEMMA EndStep ==
  ASSUME ParseInv, EndOfText
  PROVE  ParseInv'
<1>1. Reading /\ parser.r = "PARSING"
  BY ReadingIs DEF EndOfText
<1>2. PICK e \in {"SUCCESS", "PART"} : /\ e = IF OpenTokens(parser) = {} THEN "SUCCESS" ELSE "PART"
                                       /\ parser' = [parser EXCEPT !.r = e]
  BY DEF EndOfText, jsmn_parse_end
<1>3. /\ parser' \in ParserRecord(Capacity) /\ parser'.r = e
      /\ parser'.toknext = parser.toknext /\ parser'.toksuper = parser.toksuper
      /\ parser'.num_tokens = parser.num_tokens /\ parser'.tok = parser.tok
  <2>1. parser \in ParserRecord(Capacity)
    BY <1>1 DEF Reading, ParserType
  <2> QED
    BY <1>2, <2>1, FailIs
<1>4. /\ use' = use /\ nentries' = nentries
      /\ js' = js /\ place' = place /\ around' = around /\ inside' = inside
  BY DEF EndOfText, hist
<1>5. ParserType'
  <2>1. Capacity' = Capacity
    BY <1>4 DEF Capacity
  <2> QED
    BY <1>1, <1>3, <1>4, <2>1 DEF Reading, ParserType
<1>6. Outlined'
  BY <1>1, <1>4 DEF Reading, Outlined, Ups, Up, Token
<1>7. Agrees' /\ Path'
  BY <1>1, <1>3, <1>4 DEF Reading, Agrees, Path, Tok, Up, Token
<1>8. Invalid' = {} /\ NoRoom' = {} /\ Of({"cut"})' = {}
  <2>1. Of({"cut"})' = Of({"cut"})
    BY <1>4 DEF Of
  <2>2. NoRoom' = NoRoom
    BY <1>3, <1>4 DEF NoRoom
  <2>3. Invalid' = Invalid
    BY <1>4 DEF Invalid, Of, Token
  <2> QED
    BY <1>1, <2>1, <2>2, <2>3 DEF Reading
<1>9. e = "SUCCESS" <=> Last(around)' = -1
  <2>1. Last(around)' = parser.toksuper
    BY <1>1, <1>4 DEF Reading, Agrees, Last
  <2> QED
    BY <1>1, <1>2, <2>1, OpenTokensAre
<1>10. Stopped'
  <2>1. CASE e = "SUCCESS"
    BY <1>3, <1>8, <1>9, <2>1 DEF Stopped
  <2>2. CASE e = "PART"
    BY <1>3, <1>8, <1>9, <2>2 DEF Stopped
  <2> QED
    BY <2>1, <2>2
<1> QED
  BY <1>2, <1>3, <1>5, <1>6, <1>7, <1>10 DEF ParseInv

\* Nothing was read yet.
Blank ==
    /\ js = <<>> /\ place = <<>> /\ around = <<-1>> /\ inside = NoChildren
    /\ parser.r = "PARSING" /\ parser.toknext = 0 /\ parser.toksuper = -1
    /\ parser.num_tokens \in Nat /\ ParserType

LEMMA NothingRead == Blank => ParseInv
<1> SUFFICES ASSUME Blank PROVE ParseInv
  OBVIOUS
<1>0. /\ js = <<>> /\ place = <<>> /\ around = <<-1>> /\ inside = NoChildren
      /\ parser.r = "PARSING" /\ parser.toknext = 0 /\ parser.toksuper = -1
      /\ parser.num_tokens \in Nat /\ ParserType
  BY DEF Blank
<1> USE <1>0
<1>1. Len(js) = 0 /\ Len(place) = 0 /\ Len(around) = 1 /\ around[1] = -1 /\ Last(around) = -1
  BY DEF Last
<1>2. js \in Seq(LexemeType) /\ place \in Seq(Nat) /\ around \in Seq(Int)
  <2>1. -1 \in Int
    OBVIOUS
  <2> QED
    BY <2>1
<1>3. Forest(0, Ups, inside)
  <2>1. Ups \in [0 .. 0 - 1 -> Int]
    BY <1>1 DEF Ups
  <2>2. inside[-1] = <<>> /\ inside \in [-1 .. 0 - 1 -> Seq(Nat)]
    <3>1. -1 .. 0 - 1 = {-1}
      OBVIOUS
    <3>2. <<>> \in Seq(Nat)
      OBVIOUS
    <3> QED
      BY <3>1, <3>2 DEF NoChildren
  <2>3. \A o \in -1 .. 0 - 1 : Len(inside[o]) = 0
    BY <2>2
  <2>4. 0 .. 0 - 1 = {}
    OBVIOUS
  <2> QED
    BY <2>1, <2>2, <2>3, <2>4 DEF Forest
<1>4. Outlined
  BY <1>1, <1>2, <1>3 DEF Outlined
<1>5. Agrees /\ Path
  BY <1>1 DEF Agrees, Path
<1>6. Invalid = {} /\ Of({"cut"}) = {} /\ NoRoom = {}
  <2>1. \A k \in Nat : k + 1 .. 0 = {}
    OBVIOUS
  <2> QED
    BY <1>1, <2>1 DEF Invalid, Of, NoRoom
<1>7. Stopped
  BY <1>6 DEF Stopped
<1> QED
  BY <1>4, <1>5, <1>7 DEF ParseInv

LEMMA NothingReadPrimed == Blank' => ParseInv'
  BY NothingRead, PTL

LEMMA InitIs ==
  ASSUME NEW m, NEW n \in Nat, NEW t \in [0 .. m - 1 -> TokenType], NEW p, p = jsmn_init(n, t)
  PROVE  /\ p \in ParserRecord(m) /\ p.r = "PARSING" /\ p.toknext = 0 /\ p.toksuper = -1
         /\ p.num_tokens = n /\ p.tok = t
  BY DEF jsmn_init, ParserRecord

LEMMA ParseInvInit == PInit => ParseInv
<1> SUFFICES ASSUME PInit PROVE ParseInv
  OBVIOUS
<1>1. /\ use \in {"message", "nodes", "header"} /\ nentries \in Nat
      /\ use = "nodes" => nentries \in Nentries
  BY ParseAssumption DEF PInit
<1>2. PICK m \in Nat : m = Capacity
  BY <1>1, CapacityType
<1>3. NewTokens(m) \in [0 .. m - 1 -> TokenType]
  <2>1. Unset \in TokenType
    <3>1. <<"unset">> \in TokenText
      BY DEF TokenText
    <3> QED
      BY <3>1, NoCharsType DEF Unset, jsmn_fill_token, TokenType
  <2> QED
    BY <2>1 DEF NewTokens
<1>4. parser = jsmn_init(m, NewTokens(m))
  BY <1>2 DEF PInit
<1>5. /\ parser \in ParserRecord(m) /\ parser.r = "PARSING"
      /\ parser.toknext = 0 /\ parser.toksuper = -1 /\ parser.num_tokens = m
  BY <1>3, <1>4, InitIs
<1>6. ParserType
  BY <1>1, <1>2, <1>5 DEF ParserType
<1> QED
  BY <1>2, <1>5, <1>6, NothingRead DEF PInit, Blank

LEMMA NextStep ==
  ASSUME ParseInv, NextMessage
  PROVE  ParseInv'
<1>1. /\ use = "message" /\ use' = use /\ nentries' = nentries
      /\ parser' = jsmn_init(parser.toknext, parser.tok) /\ NewText
  BY DEF NextMessage
<1>2. /\ parser.toknext \in Nat /\ parser.tok \in [0 .. Capacity - 1 -> TokenType]
      /\ parser.num_tokens \in Nat
      /\ parser.toknext <= parser.num_tokens /\ parser.num_tokens <= Capacity
      /\ Capacity \in Nat
  BY CapacityType DEF ParseInv, ParserType, ParserRecord
<1>3. /\ parser' \in ParserRecord(Capacity) /\ parser'.r = "PARSING"
      /\ parser'.toknext = 0 /\ parser'.toksuper = -1 /\ parser'.num_tokens = parser.toknext
  <2>1. PICK m \in Nat : m = Capacity
    BY <1>2
  <2>2. PICK n \in Nat : n = parser.toknext
    BY <1>2
  <2>3. PICK t \in [0 .. m - 1 -> TokenType] : t = parser.tok
    BY <1>2, <2>1
  <2>4. PICK p : p = jsmn_init(n, t)
    OBVIOUS
  <2>5. /\ p \in ParserRecord(m) /\ p.r = "PARSING" /\ p.toknext = 0 /\ p.toksuper = -1
        /\ p.num_tokens = n
    BY <2>4 DEF jsmn_init, ParserRecord
  <2>6. parser' = p
    BY <1>1, <2>2, <2>3, <2>4
  <2> QED
    BY <2>1, <2>2, <2>5, <2>6
<1>4. Capacity' = Capacity
  BY <1>1 DEF Capacity
<1>5. ParserType'
  <2>1. parser.toknext <= Capacity
    BY <1>2
  <2>2. use \in {"message", "nodes", "header"} /\ nentries \in Nat
    BY DEF ParseInv, ParserType
  <2> QED
    BY <1>1, <1>2, <1>3, <1>4, <2>1, <2>2 DEF ParserType
<1> QED
  BY <1>1, <1>2, <1>3, <1>5, NothingReadPrimed DEF NewText, Blank

LEMMA ParseInvStep == ParseInv /\ [PNext]_pvars => ParseInv'
<1> SUFFICES ASSUME ParseInv, [PNext]_pvars PROVE ParseInv'
  OBVIOUS
<1>1. CASE \E c \in Lexeme : Read(c)
  BY <1>1, ReadStep
<1>2. CASE EndOfText
  BY <1>2, EndStep
<1>3. CASE NextMessage
  BY <1>3, NextStep
<1>4. CASE UNCHANGED pvars
  <2>1. /\ use' = use /\ nentries' = nentries /\ parser' = parser
        /\ js' = js /\ place' = place /\ around' = around /\ inside' = inside
    BY <1>4 DEF pvars, hist
  <2>2. ParserType' /\ Outlined'
    BY <2>1 DEF ParseInv, ParserType, Outlined, Ups, Up, Token, Capacity
  <2>3. parser'.r \in {"PARSING", "SUCCESS"} => Agrees' /\ Path'
    BY <2>1 DEF ParseInv, Agrees, Path, Tok, Up, Token
  <2>4. Stopped'
    <3>1. /\ Invalid' = Invalid /\ NoRoom' = NoRoom /\ Of({"cut"})' = Of({"cut"})
          /\ Last(around)' = Last(around)
      BY <2>1 DEF Invalid, NoRoom, Of, Token, Last
    <3> QED
      BY <2>1, <3>1 DEF ParseInv, Stopped
  <2> QED
    BY <2>1, <2>2, <2>3, <2>4 DEF ParseInv
<1> QED
  BY <1>1, <1>2, <1>3, <1>4 DEF PNext

LEMMA ParseInvHolds == PSpec => []ParseInv
  BY ParseInvInit, ParseInvStep, PTL DEF PSpec

-----------------------------------------------------------------------------
\* The counters of jsmn_parser stay within the array and the number of tokens
\* it was given, from message to message of a connection.
THEOREM ParserTypeCorrect == PSpec => []PTypeOK
<1>1. ParseInv => PTypeOK
  <2> SUFFICES ASSUME ParseInv PROVE PTypeOK
    OBVIOUS
  <2>1. PICK m \in Nat : m = Capacity /\ parser \in ParserRecord(m) /\ parser.num_tokens <= m
    BY CapacityType DEF ParseInv, ParserType
  <2>2. Cardinality(DOMAIN parser.tok) = m
    <3>1. DOMAIN parser.tok = 0 .. m - 1
      BY <2>1 DEF ParserRecord
    <3>2. Cardinality(0 .. m - 1) = m
      BY <2>1, FS_Interval
    <3> QED
      BY <3>1, <3>2
  <2>3. parser.num_tokens \in 0 .. Cardinality(DOMAIN parser.tok)
    BY <2>1, <2>2 DEF ParserRecord
  <2> QED
    BY <2>1, <2>3 DEF PTypeOK, ParseInv, ParserType, ParserRecord
<1> QED
  BY <1>1, ParseInvHolds, PTL

\* Without links to parents, and in an array still full of the tokens of earlier
\* messages, jsmn_parse knows the bracket it is in, and every token counts what
\* is directly inside it: for texts of any length and depth.
THEOREM NestingHolds == PSpec => []Nesting
<1>1. ParseInv => Nesting
  BY DEF ParseInv, Agrees, Nesting
<1> QED
  BY <1>1, ParseInvHolds, PTL

LEMMA MinOne == ASSUME NEW x \in Int PROVE Min({x}) = x
  BY DEF Min

\* jsmn_parse accepts exactly the texts whose brackets match and whose tokens
\* fit the array, and reports the first thing that is wrong.
THEOREM VerdictHolds == PSpec => []Verdict
<1>1. ParseInv => Verdict
  <2> SUFFICES ASSUME ParseInv PROVE Verdict
    OBVIOUS
  <2>1. Len(js) \in Int /\ Min({Len(js)}) = Len(js)
    <3>1. Len(js) \in Int
      BY DEF ParseInv, Outlined
    <3> QED
      BY <3>1, MinOne
  <2>2. CASE parser.r = "PARSING"
    BY <2>2 DEF ParseInv, Stopped, Verdict
  <2>3. CASE parser.r = "SUCCESS"
    BY <2>3 DEF ParseInv, Stopped, Verdict
  <2>4. CASE parser.r = "INVAL"
    <3>1. Invalid = {Len(js)} /\ Invalid \cup NoRoom \cup Of({"cut"}) = {Len(js)}
      BY <2>4 DEF ParseInv, Stopped
    <3> QED
      BY <2>1, <2>4, <3>1 DEF Verdict
  <2>5. CASE parser.r = "NOMEM"
    <3>1. Invalid = {} /\ NoRoom = {Len(js)} /\ Invalid \cup NoRoom \cup Of({"cut"}) = {Len(js)}
      BY <2>5 DEF ParseInv, Stopped
    <3> QED
      BY <2>1, <2>5, <3>1 DEF Verdict
  <2>6. CASE parser.r = "PART"
    <3>1. /\ Invalid = {} /\ NoRoom = {}
          /\ Of({"cut"}) = {Len(js)} \/ (Of({"cut"}) = {} /\ Last(around) # -1)
      BY <2>6 DEF ParseInv, Stopped
    <3>2. CASE Of({"cut"}) = {Len(js)}
      <4>1. Invalid \cup NoRoom \cup Of({"cut"}) = {Len(js)}
        BY <3>1, <3>2
      <4> QED
        BY <2>1, <2>6, <3>1, <4>1 DEF Verdict
    <3>3. CASE Of({"cut"}) = {} /\ Last(around) # -1
      <4>1. Invalid \cup NoRoom \cup Of({"cut"}) = {}
        BY <3>1, <3>3
      <4> QED
        BY <2>6, <3>3, <4>1 DEF Verdict
    <3> QED
      BY <3>1, <3>2, <3>3
  <2> QED
    BY <2>2, <2>3, <2>4, <2>5, <2>6 DEF ParseInv, ParserType, ParserRecord
<1> QED
  BY <1>1, ParseInvHolds, PTL

-----------------------------------------------------------------------------
(***************************************************************************)
(* Walking the forest.  The first token behind b and all inside it is e,   *)
(* or the end of the text.                                                 *)
(***************************************************************************)
Behind(n, up, b, e) ==
    /\ b \in 0 .. n - 1 /\ e \in b + 1 .. n
    /\ \A j \in b + 1 .. e - 1 : b <= up[j]
    /\ e # n => up[e] < b

LEMMA Least ==
  ASSUME NEW S \in SUBSET Nat, S # {}
  PROVE  \E m \in S : \A y \in S : m <= y
<1>1. PICK m \in S : \A y \in S : ~(<<y, m>> \in OpToRel(<, Nat))
  BY WFMin, NatLessThanWellFounded, Zenon
<1>2. \A y \in S : ~(y < m)
  BY <1>1 DEF OpToRel
<1> QED
  BY <1>2

LEMMA ForestType ==
  ASSUME NEW n, NEW up, NEW in, Forest(n, up, in)
  PROVE  /\ n \in Nat
         /\ \A k \in 0 .. n - 1 : up[k] \in Int /\ -1 <= up[k] /\ up[k] < k
         /\ \A o \in -1 .. n - 1 :
               /\ in[o] \in Seq(Nat) /\ Len(in[o]) \in Nat
               /\ \A q \in 1 .. Len(in[o]) :
                     in[o][q] \in 0 .. n - 1 /\ up[in[o][q]] = o /\ o < in[o][q]
  BY DEF Forest

LEMMA Between ==
  ASSUME NEW n, NEW up, NEW in, Forest(n, up, in),
         NEW j \in 0 .. n - 1, NEW k \in 0 .. n - 1, up[k] < j, j < k
  PROVE  up[k] <= up[j]
  BY DEF Forest

LEMMA BehindExists ==
  ASSUME NEW n, NEW up, NEW in, Forest(n, up, in), NEW b \in 0 .. n - 1
  PROVE  \E e \in b + 1 .. n : Behind(n, up, b, e)
<1> DEFINE S == {e \in b + 1 .. n : e # n => up[e] < b}
<1>1. n \in Nat /\ \A k \in 0 .. n - 1 : up[k] \in Int
  BY ForestType
<1>2. n \in S /\ S \in SUBSET Nat
  BY <1>1
<1>3. PICK e \in S : \A y \in S : e <= y
  BY <1>2, Least
<1>4. ASSUME NEW j \in b + 1 .. e - 1 PROVE b <= up[j]
  <2>1. j \in b + 1 .. n /\ j # n /\ j \in 0 .. n - 1 /\ ~(e <= j)
    BY <1>1, <1>3
  <2>2. j \notin S
    BY <1>3, <2>1
  <2> QED
    BY <1>1, <2>1, <2>2
<1> QED
  BY <1>3, <1>4 DEF Behind

LEMMA BehindUnique ==
  ASSUME NEW n \in Nat, NEW up, NEW b, NEW e, NEW f, \A k \in 0 .. n - 1 : up[k] \in Int,
         Behind(n, up, b, e), Behind(n, up, b, f)
  PROVE  e = f
<1>1. /\ b \in 0 .. n - 1 /\ e \in b + 1 .. n /\ f \in b + 1 .. n
      /\ \A j \in b + 1 .. e - 1 : b <= up[j]
      /\ \A j \in b + 1 .. f - 1 : b <= up[j]
      /\ e # n => up[e] < b
      /\ f # n => up[f] < b
  BY DEF Behind
<1>2. ~(e < f)
  BY <1>1
<1>3. ~(f < e)
  BY <1>1
<1> QED
  BY <1>1, <1>2, <1>3

\* The next token beside b is the first behind it.
LEMMA NextBeside ==
  ASSUME NEW n, NEW up, NEW in, Forest(n, up, in), NEW o \in -1 .. n - 1,
         NEW q \in 1 .. Len(in[o]), NEW r \in 1 .. Len(in[o]), r = q + 1
  PROVE  Behind(n, up, in[o][q], in[o][r])
<1>1. /\ n \in Nat
      /\ \A k \in 0 .. n - 1 : up[k] \in Int /\ -1 <= up[k] /\ up[k] < k
      /\ Len(in[o]) \in Nat
  BY ForestType
<1>2. PICK b \in 0 .. n - 1 : b = in[o][q] /\ up[b] = o
  BY DEF Forest
<1>3. PICK c \in 0 .. n - 1 : c = in[o][r] /\ up[c] = o
  BY DEF Forest
<1>4. b < c
  BY <1>1, <1>2, <1>3 DEF Forest
<1>5. ASSUME NEW j \in b + 1 .. c - 1 PROVE b <= up[j]
  <2>1. j \in 0 .. n - 1 /\ b < j /\ j < c
    BY <1>1
  <2>2. o <= up[j]
    <3>1. up[c] < j
      <4>1. up[b] \in Int /\ up[b] < b
        BY <1>1
      <4> QED
        BY <1>2, <1>3, <2>1, <4>1
    <3> QED
      BY <1>3, <2>1, <3>1, Between
  <2>3. up[j] # o
    <3> SUFFICES ASSUME up[j] = o PROVE FALSE
      OBVIOUS
    <3>1. PICK k \in 1 .. Len(in[o]) : in[o][k] = j
      BY <2>1 DEF Forest
    <3>2. \A y, z \in 1 .. Len(in[o]) : y < z => in[o][y] < in[o][z]
      BY DEF Forest
    <3>3. ~(k <= q)
      <4>1. k # q
        BY <1>2, <2>1, <3>1
      <4>2. k < q => in[o][k] < in[o][q]
        BY <3>1, <3>2
      <4> QED
        BY <1>1, <1>2, <2>1, <3>1, <4>1, <4>2
    <3>4. ~(k >= r)
      <4>1. k # r
        BY <1>3, <2>1, <3>1, <3>2
      <4>2. r < k => in[o][r] < in[o][k]
        BY <1>3, <3>1, <3>2
      <4> QED
        BY <1>1, <1>3, <2>1, <3>1, <4>1, <4>2
    <3> QED
      BY <1>1, <3>3, <3>4
  <2>4. ~(up[j] < b)
    <3> SUFFICES ASSUME up[j] < b PROVE FALSE
      OBVIOUS
    <3>1. up[j] <= up[b]
      BY <2>1 DEF Forest
    <3> QED
      BY <1>1, <1>2, <2>1, <2>2, <2>3, <3>1
  <2> QED
    BY <1>1, <2>1, <2>4
<1>6. up[c] < b
  BY <1>1, <1>2, <1>3
<1> QED
  BY <1>1, <1>2, <1>3, <1>4, <1>5, <1>6 DEF Behind

\* What is behind the last token inside o is behind o.
LEMMA LastInside ==
  ASSUME NEW n, NEW up, NEW in, Forest(n, up, in), NEW o \in 0 .. n - 1,
         NEW e, Behind(n, up, o, e), NEW q \in 1 .. Len(in[o]), q = Len(in[o])
  PROVE  Behind(n, up, in[o][q], e)
<1>1. /\ n \in Nat /\ o \in -1 .. n - 1
      /\ \A k \in 0 .. n - 1 : up[k] \in Int /\ -1 <= up[k] /\ up[k] < k
  BY ForestType
<1>0. Len(in[o]) \in Nat
  BY <1>1, ForestType
<1>2. PICK b \in 0 .. n - 1 : b = in[o][q] /\ up[b] = o
  BY <1>1 DEF Forest
<1>3. /\ e \in o + 1 .. n
      /\ \A j \in o + 1 .. e - 1 : o <= up[j]
      /\ e # n => up[e] < o
  BY DEF Behind
<1>4. b < e
  <2> SUFFICES ASSUME b >= e PROVE FALSE
    BY <1>1, <1>3
  <2>1. e \in 0 .. n - 1 /\ up[e] < o
    BY <1>1, <1>3
  <2>2. b # e
    BY <1>1, <1>2, <2>1
  <2>3. up[b] <= up[e]
    <3>1. up[b] < e /\ e < b
      BY <1>1, <1>2, <1>3, <2>1, <2>2
    <3> QED
      BY <2>1, <3>1, Between
  <2> QED
    BY <1>1, <1>2, <2>1, <2>3
<1>5. ASSUME NEW j \in b + 1 .. e - 1 PROVE b <= up[j]
  <2>1. j \in 0 .. n - 1 /\ b < j /\ o < b
    BY <1>1, <1>2, <1>3
  <2>2. o <= up[j]
    BY <1>1, <1>3, <2>1
  <2>3. up[j] # o
    <3> SUFFICES ASSUME up[j] = o PROVE FALSE
      OBVIOUS
    <3>1. PICK k \in 1 .. Len(in[o]) : in[o][k] = j
      BY <2>1 DEF Forest
    <3>2. \A y, z \in 1 .. Len(in[o]) : y < z => in[o][y] < in[o][z]
      BY <1>1 DEF Forest
    <3> QED
      <4>1. k # q
        BY <1>2, <2>1, <3>1
      <4>2. k < q
        BY <1>0, <3>1, <4>1
      <4>3. in[o][k] < in[o][q]
        BY <3>1, <3>2, <4>2
      <4> QED
        BY <1>2, <2>1, <3>1, <4>3
  <2>4. ~(up[j] < b)
    <3> SUFFICES ASSUME up[j] < b PROVE FALSE
      OBVIOUS
    <3>1. up[j] <= up[b]
      BY <2>1 DEF Forest
    <3> QED
      BY <1>1, <1>2, <2>1, <2>2, <2>3, <3>1
  <2> QED
    BY <1>1, <2>1, <2>4
<1>6. e # n => up[e] < b
  BY <1>1, <1>2, <1>3
<1> QED
  BY <1>1, <1>2, <1>3, <1>4, <1>5, <1>6 DEF Behind

\* What is directly inside o begins right behind its bracket.
LEMMA FirstInside ==
  ASSUME NEW n, NEW up, NEW in, Forest(n, up, in), NEW o \in 0 .. n - 1, Len(in[o]) # 0
  PROVE  in[o][1] = o + 1
<1>1. /\ n \in Nat /\ o \in -1 .. n - 1
      /\ \A k \in 0 .. n - 1 : up[k] \in Int /\ -1 <= up[k] /\ up[k] < k
  BY ForestType
<1>2. Len(in[o]) \in Nat /\ 1 \in 1 .. Len(in[o])
  BY <1>1, ForestType
<1>3. PICK b \in 0 .. n - 1 : b = in[o][1] /\ up[b] = o
  BY <1>1, <1>2 DEF Forest
<1>4. CASE b = o + 1
  BY <1>3, <1>4
<1>5. CASE b # o + 1
  <2>1. PICK j \in 0 .. n - 1 : j = o + 1 /\ j < b
    BY <1>1, <1>3, <1>5
  <2>2. up[b] <= up[j] /\ up[j] < j
    <3>1. up[b] < j /\ up[j] < j
      BY <1>1, <1>3, <2>1
    <3> QED
      BY <2>1, <3>1, Between
  <2>3. up[j] = o
    BY <1>1, <1>3, <2>1, <2>2
  <2>4. PICK k \in 1 .. Len(in[o]) : in[o][k] = j
    BY <2>3 DEF Forest
  <2>5. \A y, z \in 1 .. Len(in[o]) : y < z => in[o][y] < in[o][z]
    BY <1>1 DEF Forest
  <2>6. k # 1
    BY <1>3, <2>1, <2>4
  <2>7. in[o][1] < in[o][k]
    BY <1>2, <2>4, <2>5, <2>6
  <2> QED
    BY <1>3, <2>1, <2>4, <2>7
<1> QED
  BY <1>4, <1>5

LEMMA BehindLeaf ==
  ASSUME NEW n, NEW up, NEW in, Forest(n, up, in), NEW b \in 0 .. n - 1,
         \A k \in 0 .. n - 1 : up[k] # b
  PROVE  Behind(n, up, b, b + 1)
<1>1. n \in Nat /\ \A k \in 0 .. n - 1 : up[k] \in Int /\ up[k] < k
  BY ForestType
<1>2. b + 1 # n => b + 1 \in 0 .. n - 1 /\ up[b + 1] < b
  BY <1>1
<1> QED
  BY <1>1, <1>2 DEF Behind

LEMMA ChildCount ==
  ASSUME NEW n, NEW up, NEW in, Forest(n, up, in), NEW o \in -1 .. n - 1,
         NEW C, C = {k \in 0 .. n - 1 : up[k] = o}
  PROVE  IsFiniteSet(C) /\ Cardinality(C) = Len(in[o])
<1>1. in[o] \in Seq(Nat) /\ Len(in[o]) \in Nat
  BY ForestType
<1>2. in[o] \in [1 .. Len(in[o]) -> C]
  <2>1. DOMAIN in[o] = 1 .. Len(in[o]) /\ in[o] = [q \in DOMAIN in[o] |-> in[o][q]]
    BY <1>1
  <2>2. \A q \in 1 .. Len(in[o]) : in[o][q] \in C
    BY DEF Forest
  <2> QED
    BY <2>1, <2>2
<1>3. \A y, z \in 1 .. Len(in[o]) : in[o][y] = in[o][z] => y = z
  <2>1. \A y, z \in 1 .. Len(in[o]) : y < z => in[o][y] < in[o][z]
    BY DEF Forest
  <2>2. \A y \in 1 .. Len(in[o]) : in[o][y] \in Int
    BY ForestType
  <2> QED
    BY <1>1, <2>1, <2>2
<1>4. \A k \in C : \E q \in 1 .. Len(in[o]) : in[o][q] = k
  BY DEF Forest
<1>5. in[o] \in Bijection(1 .. Len(in[o]), C)
  <2>1. IsInjective(in[o])
    BY <1>2, <1>3 DEF IsInjective
  <2> QED
    BY <1>2, <1>4, <2>1 DEF Bijection, Injection, Surjection
<1>6. ExistsBijection(1 .. Len(in[o]), C)
  BY <1>5 DEF ExistsBijection
<1> QED
  BY <1>1, <1>6, FS_NatBijection, FS_CountingElements

(***************************************************************************)
(* Skipping a token and all inside it.  After k rounds from b, the tokens  *)
(* counted by `end' are those still ahead whose brackets were passed.      *)
(***************************************************************************)
Ahead(n, up, b, k) ==
    {j \in b + k .. n - 1 : b <= up[j] /\ up[j] < b + k} \cup (IF k = 0 THEN {b} ELSE {})

LEMMA AheadCount ==
  ASSUME NEW n, NEW up, NEW in, Forest(n, up, in), NEW b, NEW e, Behind(n, up, b, e),
         NEW k \in 0 .. e - b
  PROVE  /\ IsFiniteSet(Ahead(n, up, b, k)) /\ Cardinality(Ahead(n, up, b, k)) \in Nat
         /\ k = 0 => Cardinality(Ahead(n, up, b, k)) = 1
         /\ k = e - b <=> Cardinality(Ahead(n, up, b, k)) = 0
         /\ k < e - b => Cardinality(Ahead(n, up, b, k + 1)) =
                           Cardinality(Ahead(n, up, b, k)) + Len(in[b + k]) - 1
<1> DEFINE A == Ahead(n, up, b, k)
<1>1. /\ n \in Nat /\ b \in Nat /\ e \in Nat /\ b < e /\ e <= n
      /\ \A j \in 0 .. n - 1 : up[j] \in Int /\ -1 <= up[j] /\ up[j] < j
  BY ForestType DEF Behind
<1>2. /\ \A j \in b + 1 .. e - 1 : b <= up[j]
      /\ e # n => up[e] < b
  BY DEF Behind
<1>3. PICK x \in 0 .. n : x = b + k /\ k \in Nat /\ x <= e
  BY <1>1
<1>4. A \in SUBSET (0 .. n - 1)
  BY <1>1 DEF Ahead
<1>5. IsFiniteSet(A) /\ Cardinality(A) \in Nat
  <2>1. IsFiniteSet(0 .. n - 1)
    BY <1>1, FS_Interval
  <2> QED
    BY <1>4, <2>1, FS_Subset, FS_CardinalityType
<1>6. ASSUME k = 0 PROVE Cardinality(A) = 1
  <2>1. A = {b}
    BY <1>1, <1>6 DEF Ahead
  <2> QED
    BY <2>1, FS_Singleton
<1>7. ASSUME k < e - b PROVE x \in A
  <2>1. x \in 0 .. n - 1
    BY <1>1, <1>3, <1>7
  <2>2. CASE k = 0
    BY <1>1, <1>3, <2>2 DEF Ahead
  <2>3. CASE k # 0
    <3>1. x \in b + 1 .. e - 1
      BY <1>1, <1>3, <1>7, <2>3
    <3>2. b <= up[x] /\ up[x] < x
      BY <1>1, <1>2, <2>1, <3>1
    <3> QED
      BY <1>1, <1>3, <2>1, <3>2 DEF Ahead
  <2> QED
    BY <2>2, <2>3
<1>8. ASSUME k = e - b PROVE A = {}
  <2>1. x = e /\ k # 0
    BY <1>1, <1>3, <1>8
  <2>2. ASSUME NEW j \in e .. n - 1, b <= up[j], up[j] < e PROVE FALSE
    <3>1. j \in 0 .. n - 1 /\ e \in 0 .. n - 1 /\ e # n
      BY <1>1
    <3>2. j # e
      BY <1>1, <1>2, <2>2, <3>1
    <3>3. up[j] <= up[e]
      BY <1>1, <2>2, <3>1, <3>2, Between
    <3> QED
      BY <1>1, <1>2, <2>2, <3>1, <3>3
  <2> QED
    BY <1>3, <2>1, <2>2 DEF Ahead
<1>9. ASSUME k < e - b
      PROVE  Cardinality(Ahead(n, up, b, k + 1)) = Cardinality(A) + Len(in[x]) - 1
  <2> DEFINE C == {j \in 0 .. n - 1 : up[j] = x}
  <2>1. x \in 0 .. n - 1 /\ x \in -1 .. n - 1
    BY <1>1, <1>3, <1>9
  <2>2. IsFiniteSet(C) /\ Cardinality(C) = Len(in[x]) /\ Len(in[x]) \in Nat
    BY <2>1, ChildCount, ForestType
  <2>3. IsFiniteSet(A \ {x}) /\ Cardinality(A \ {x}) = Cardinality(A) - 1
    BY <1>5, <1>7, <1>9, FS_RemoveElement
  <2>4. (A \ {x}) \cap C = {}
    <3> SUFFICES ASSUME NEW j \in A, j # x, up[j] = x PROVE FALSE
      OBVIOUS
    <3>1. up[j] < x
      BY <1>3 DEF Ahead
    <3> QED
      BY <1>1, <1>4, <3>1
  <2>5. Ahead(n, up, b, k + 1) = (A \ {x}) \cup C
    <3>1. Ahead(n, up, b, k + 1) = {j \in x + 1 .. n - 1 : b <= up[j] /\ up[j] < x + 1}
      BY <1>1, <1>3 DEF Ahead
    <3>2. ASSUME NEW j \in x + 1 .. n - 1, b <= up[j], up[j] < x + 1
          PROVE  j \in (A \ {x}) \cup C
      <4>1. j \in 0 .. n - 1 /\ j # x /\ j \in x .. n - 1
        BY <1>3
      <4>2. CASE up[j] = x
        BY <4>1, <4>2
      <4>3. CASE up[j] # x
        <5>1. up[j] < x
          BY <1>1, <1>3, <3>2, <4>1, <4>3
        <5>2. j \in A
          BY <1>3, <3>2, <4>1, <5>1 DEF Ahead
        <5> QED
          BY <4>1, <5>2
      <4> QED
        BY <4>2, <4>3
    <3>3. ASSUME NEW j \in C PROVE j \in x + 1 .. n - 1 /\ b <= up[j] /\ up[j] < x + 1
      BY <1>1, <1>3
    <3>4. ASSUME NEW j \in A, j # x PROVE j \in x + 1 .. n - 1 /\ b <= up[j] /\ up[j] < x + 1
      <4>1. j \in x .. n - 1 /\ b <= up[j] /\ up[j] < x
        BY <1>1, <1>3, <3>4 DEF Ahead
      <4>2. j \in 0 .. n - 1 /\ up[j] \in Int
        BY <1>1, <1>4
      <4> QED
        BY <1>3, <3>4, <4>1, <4>2
    <3> HIDE DEF A, C
    <3> QED
      BY <3>1, <3>2, <3>3, <3>4 DEF C
  <2> HIDE DEF A, C
  <2>6. Cardinality((A \ {x}) \cup C) = Cardinality(A \ {x}) + Cardinality(C) - Cardinality((A \ {x}) \cap C)
    BY <2>2, <2>3, FS_Union
  <2>7. Cardinality((A \ {x}) \cap C) = 0
    BY <2>4, FS_EmptySet
  <2>8. PICK y \in Nat, z \in Nat : y = Cardinality(A) /\ z = Len(in[x])
    BY <1>5, <2>2
  <2>9. Cardinality(Ahead(n, up, b, k + 1)) = (y - 1) + (z - 0)
    BY <2>2, <2>3, <2>5, <2>6, <2>7, <2>8, Zenon
  <2> QED
    BY <2>8, <2>9
<1>10. k # e - b => Cardinality(A) # 0
  <2>1. k # e - b => k < e - b
    BY <1>1
  <2>2. k # e - b => A # {}
    BY <1>7, <2>1
  <2> QED
    BY <1>5, <2>2, FS_EmptySet
<1> HIDE DEF A
<1>11. k = e - b <=> Cardinality(A) = 0
  BY <1>8, <1>10, FS_EmptySet
<1>12. Len(in[b + k]) = Len(in[x])
  BY <1>3
<1> QED
  BY <1>5, <1>6, <1>9, <1>11, <1>12 DEF A

\* Two functions that agree at first and agree on if they agreed are the same.
LEMMA SameRounds ==
  ASSUME NEW m \in Nat, NEW f, NEW g,
         DOMAIN f = 0 .. m, f = [k \in DOMAIN f |-> f[k]],
         DOMAIN g = 0 .. m, g = [k \in DOMAIN g |-> g[k]],
         f[0] = g[0], \A k \in 1 .. m : f[k - 1] = g[k - 1] => f[k] = g[k]
  PROVE  f = g
<1> DEFINE U == {k \in 0 .. m : f[k] # g[k]}
<1>1. CASE U = {}
  <2>1. \A k \in 0 .. m : f[k] = g[k]
    BY <1>1
  <2> QED
    BY <2>1
<1>2. CASE U # {}
  <2>1. U \in SUBSET Nat
    OBVIOUS
  <2>2. PICK k \in U : \A y \in U : k <= y
    BY <1>2, <2>1, Least
  <2>3. k \in 0 .. m /\ f[k] # g[k]
    OBVIOUS
  <2>4. k # 0
    BY <2>3
  <2>5. k - 1 \in 0 .. m /\ k \in 1 .. m /\ ~(k <= k - 1)
    BY <2>3, <2>4
  <2>6. f[k - 1] = g[k - 1]
    BY <2>2, <2>5
  <2> QED
    BY <2>3, <2>5, <2>6
<1> QED
  BY <1>1, <1>2

Sized(tok, n, in) ==
    \A k \in 0 .. n - 1 : tok[k].size = Len(in[k])

IsSkip(f, tok, m, b, ntok) ==
    f = [k \in 0 .. m |-> IF k = 0 THEN [i |-> b, end |-> 1, ntok |-> ntok]
                          ELSE SkipRound(tok, f[k - 1])]

LEMMA SkipIs ==
  ASSUME NEW m \in Nat, NEW tok, NEW b, NEW ntok, m = Cardinality(DOMAIN tok),
         NEW f, IsSkip(f, tok, m, b, ntok)
  PROVE  Skip(tok, b, ntok) = f[m]
<1>1. PICK g : g = CHOOSE h : IsSkip(h, tok, m, b, ntok)
  OBVIOUS
<1>2. IsSkip(g, tok, m, b, ntok)
  BY <1>1
<1>3. Skip(tok, b, ntok) = g[m]
  BY <1>1 DEF Skip, IsSkip
<1>4. f[0] = g[0] /\ \A k \in 1 .. m : f[k - 1] = g[k - 1] => f[k] = g[k]
  BY <1>2 DEF IsSkip
<1>5. /\ DOMAIN f = 0 .. m /\ f = [k \in DOMAIN f |-> f[k]]
      /\ DOMAIN g = 0 .. m /\ g = [k \in DOMAIN g |-> g[k]]
  BY <1>2 DEF IsSkip
<1>6. f = g
  BY <1>4, <1>5, SameRounds
<1> QED
  BY <1>3, <1>6

LEMMA SkipFinds ==
  ASSUME NEW n, NEW up, NEW in, Forest(n, up, in), NEW b, NEW e, Behind(n, up, b, e),
         NEW tok, Sized(tok, n, in), NEW m \in Nat, m = Cardinality(DOMAIN tok), n <= m,
         NEW ntok \in Int
  PROVE  Skip(tok, b, ntok).i = e /\ Skip(tok, b, ntok).ntok = ntok + (e - b - 1)
<1> DEFINE C(k) == Cardinality(Ahead(n, up, b, k))
           s(k) == [i |-> b + k, end |-> C(k), ntok |-> ntok + (C(k) + k - 1)]
           f == [k \in 0 .. m |-> s(IF k <= e - b THEN k ELSE e - b)]
<1>1. n \in Nat /\ b \in Nat /\ e \in Nat /\ b < e /\ e <= n
  BY ForestType DEF Behind
<1>2. \A k \in 0 .. e - b : /\ C(k) \in Nat
                            /\ k = 0 => C(k) = 1
                            /\ k = e - b <=> C(k) = 0
                            /\ k < e - b => C(k + 1) = C(k) + Len(in[b + k]) - 1
  BY AheadCount
<1> HIDE DEF C
<1>3. f[0] = [i |-> b, end |-> 1, ntok |-> ntok]
  <2>1. 0 \in 0 .. m /\ 0 <= e - b /\ 0 \in 0 .. e - b
    BY <1>1
  <2>2. f[0] = s(0)
    BY <2>1
  <2>3. C(0) = 1
    BY <1>2, <2>1
  <2>4. b + 0 = b /\ ntok + (1 + 0 - 1) = ntok
    BY <1>1
  <2> QED
    BY <2>2, <2>3, <2>4
<1>4. ASSUME NEW k \in 1 .. m PROVE f[k] = SkipRound(tok, f[k - 1])
  <2>1. k \in 0 .. m /\ k - 1 \in 0 .. m
    OBVIOUS
  <2>2. CASE k <= e - b
    <3>1. PICK j \in 0 .. e - b : j = k - 1 /\ j < e - b /\ j <= e - b /\ k = j + 1
      BY <1>1, <2>2
    <3>2. f[k] = s(k) /\ f[k - 1] = s(j)
      BY <2>1, <2>2, <3>1
    <3>3. C(j) \in Nat /\ C(j) # 0 /\ C(k) = C(j) + Len(in[b + j]) - 1
      BY <1>2, <3>1
    <3>4. b + j \in 0 .. n - 1 /\ tok[b + j].size = Len(in[b + j]) /\ Len(in[b + j]) \in Nat
      BY <1>1, <3>1, ForestType DEF Sized
    <3>5. s(j).i = b + j /\ s(j).end = C(j) /\ s(j).ntok = ntok + (C(j) + j - 1)
      OBVIOUS
    <3>6. SkipRound(tok, s(j)) = [i |-> (b + j) + 1, end |-> C(j) + Len(in[b + j]) - 1,
                                  ntok |-> (ntok + (C(j) + j - 1)) + Len(in[b + j])]
      BY <3>3, <3>4, <3>5 DEF SkipRound
    <3>7. /\ (b + j) + 1 = b + k
          /\ (ntok + (C(j) + j - 1)) + Len(in[b + j]) = ntok + (C(k) + k - 1)
      <4>1. \A y, z \in Int :
               (ntok + (y + j - 1)) + z = ntok + ((y + z - 1) + k - 1)
        BY <3>1
      <4>2. (b + j) + 1 = b + k
        BY <1>1, <3>1
      <4>3. C(j) \in Int /\ Len(in[b + j]) \in Int
        BY <3>3, <3>4
      <4> QED
        BY <3>3, <4>1, <4>2, <4>3
    <3> QED
      BY <3>2, <3>3, <3>6, <3>7
  <2>3. CASE ~(k <= e - b)
    <3>1. f[k] = s(e - b)
      BY <2>1, <2>3
    <3>2. f[k - 1] = s(e - b)
      <4>1. CASE k - 1 <= e - b
        <5>1. k - 1 = e - b
          BY <1>1, <2>3, <4>1
        <5> QED
          BY <2>1, <5>1
      <4>2. CASE ~(k - 1 <= e - b)
        BY <2>1, <4>2
      <4> QED
        BY <4>1, <4>2
    <3>3. s(e - b).end = 0
      <4>1. e - b \in 0 .. e - b
        BY <1>1
      <4>2. C(e - b) = 0
        BY <1>2, <4>1
      <4> QED
        BY <4>2
    <3> HIDE DEF s, f
    <3> QED
      BY <3>1, <3>2, <3>3 DEF SkipRound
  <2> QED
    BY <2>2, <2>3
<1>5. IsSkip(f, tok, m, b, ntok)
  <2>1. f = [k \in 0 .. m |-> f[k]]
    OBVIOUS
  <2>2. \A k \in 0 .. m : f[k] = IF k = 0 THEN [i |-> b, end |-> 1, ntok |-> ntok]
                                 ELSE SkipRound(tok, f[k - 1])
    <3> HIDE DEF f
    <3>1. \A k \in 0 .. m : k # 0 => k \in 1 .. m
      OBVIOUS
    <3> QED
      BY <1>3, <1>4, <3>1
  <2> HIDE DEF f
  <2> QED
    BY <2>1, <2>2 DEF IsSkip
<1>6. Skip(tok, b, ntok) = f[m]
  <2> HIDE DEF f
  <2> QED
    BY <1>5, SkipIs
<1>7. f[m] = s(e - b)
  <2>1. m \in 0 .. m /\ (m <= e - b => m = e - b)
    BY <1>1
  <2> QED
    BY <2>1
<1>8. C(e - b) = 0
  <2>1. e - b \in 0 .. e - b
    BY <1>1
  <2> QED
    BY <1>2, <2>1
<1>9. s(e - b).i = b + (e - b) /\ s(e - b).ntok = ntok + (0 + (e - b) - 1)
  BY <1>8
<1>10. b + (e - b) = e /\ ntok + (0 + (e - b) - 1) = ntok + (e - b - 1)
  BY <1>1
<1> HIDE DEF s, f
<1> QED
  BY <1>6, <1>7, <1>9, <1>10

-----------------------------------------------------------------------------
(***************************************************************************)
(* jsmn_get_value.  The array holds the tokens of a text: each counts what *)
(* is directly inside it, and only brackets have anything inside.          *)
(***************************************************************************)
Tokenized(tok, n, up, in) ==
    /\ Forest(n, up, in)
    /\ Sized(tok, n, in)
    /\ Cardinality(DOMAIN tok) \in Nat /\ n <= Cardinality(DOMAIN tok)
    /\ \A k \in 0 .. n - 1 : tok[k].type \notin Container => \A j \in 0 .. n - 1 : up[j] # k

\* The q-th token inside o, or what is behind o.
Pos(in, o, e, q) == IF q <= Len(in[o]) THEN in[o][q] ELSE e

LEMMA SkipOver ==
  ASSUME NEW tok, NEW n, NEW up, NEW in, Tokenized(tok, n, up, in),
         NEW b, NEW e, Behind(n, up, b, e), NEW ntok \in Int
  PROVE  Skip(tok, b, ntok).i = e /\ Skip(tok, b, ntok).ntok = ntok + (e - b - 1)
<1>1. PICK m \in Nat : m = Cardinality(DOMAIN tok) /\ n <= m
  BY DEF Tokenized
<1>2. Forest(n, up, in) /\ Sized(tok, n, in)
  BY DEF Tokenized
<1> QED
  BY <1>1, <1>2, SkipFinds

LEMMA Odd == \A i \in Nat : i % 2 = 1 <=> \E h \in Nat : i = 2 * h + 1
<1>1. \A i \in Nat : i % 2 = 1 => i \div 2 \in Nat /\ i = 2 * (i \div 2) + 1
  OBVIOUS
<1>2. \A h \in Nat : (2 * h + 1) % 2 = 1
  OBVIOUS
<1> QED
  BY <1>1, <1>2

LEMMA PosNext ==
  ASSUME NEW n, NEW up, NEW in, Forest(n, up, in), NEW o \in 0 .. n - 1, NEW e, Behind(n, up, o, e)
  PROVE  /\ Len(in[o]) \in Nat /\ Len(in[o]) <= n
         /\ Pos(in, o, e, 1) = o + 1
         /\ \A q \in 1 .. Len(in[o]) : /\ Pos(in, o, e, q) = in[o][q] /\ in[o][q] \in 0 .. n - 1
                                       /\ o < in[o][q]
                                       /\ Behind(n, up, Pos(in, o, e, q), Pos(in, o, e, q + 1))
         /\ \A q \in 1 .. Len(in[o]) + 1 : Pos(in, o, e, q) \in 0 .. n
<1>1. /\ n \in Nat /\ o \in -1 .. n - 1
      /\ \A k \in 0 .. n - 1 : up[k] \in Int /\ -1 <= up[k] /\ up[k] < k
  BY ForestType
<1>2. Len(in[o]) \in Nat /\ \A q \in 1 .. Len(in[o]) : in[o][q] \in 0 .. n - 1 /\ o < in[o][q]
  BY <1>1, ForestType
<1>3. Len(in[o]) <= n
  <2> DEFINE C == {k \in 0 .. n - 1 : up[k] = o}
  <2>1. Cardinality(C) = Len(in[o])
    BY <1>1, ChildCount
  <2>2. IsFiniteSet(0 .. n - 1) /\ Cardinality(0 .. n - 1) = n
    <3>1. n - 1 \in Int /\ 0 \in Int /\ 0 <= n - 1 /\ n - 1 - 0 + 1 = n
      BY <1>1
    <3> QED
      BY <3>1, FS_Interval
  <2>3. C \in SUBSET (0 .. n - 1)
    OBVIOUS
  <2>4. Cardinality(C) <= Cardinality(0 .. n - 1)
    BY <2>2, <2>3, FS_Subset
  <2> QED
    BY <2>1, <2>2, <2>4
<1>4. Pos(in, o, e, 1) = o + 1
  <2>1. CASE Len(in[o]) # 0
    <3>1. 1 <= Len(in[o])
      BY <1>2, <2>1
    <3> QED
      BY <2>1, <3>1, FirstInside DEF Pos
  <2>2. CASE Len(in[o]) = 0
    <3>1. \A k \in 0 .. n - 1 : up[k] # o
      <4>1. \A k \in 0 .. n - 1 : \E q \in 1 .. Len(in[up[k]]) : in[up[k]][q] = k
        BY DEF Forest
      <4> QED
        BY <2>2, <4>1
    <3>2. Behind(n, up, o, o + 1)
      BY <3>1, BehindLeaf
    <3>3. e = o + 1
      BY <1>1, <3>2, BehindUnique
    <3> QED
      BY <2>2, <3>3 DEF Pos
  <2> QED
    BY <2>1, <2>2
<1>5. ASSUME NEW q \in 1 .. Len(in[o])
      PROVE  Behind(n, up, Pos(in, o, e, q), Pos(in, o, e, q + 1))
  <2>1. Pos(in, o, e, q) = in[o][q]
    BY <1>2 DEF Pos
  <2>2. CASE q = Len(in[o])
    <3>1. Pos(in, o, e, q + 1) = e
      BY <1>2, <2>2 DEF Pos
    <3> QED
      BY <2>1, <2>2, <3>1, LastInside
  <2>3. CASE q # Len(in[o])
    <3>1. PICK r \in 1 .. Len(in[o]) : r = q + 1
      BY <1>2, <2>3
    <3>2. Pos(in, o, e, q + 1) = in[o][r]
      BY <1>2, <3>1 DEF Pos
    <3> QED
      BY <1>1, <2>1, <3>1, <3>2, NextBeside
  <2> QED
    BY <2>2, <2>3
<1>6. \A q \in 1 .. Len(in[o]) : Pos(in, o, e, q) = in[o][q]
  BY <1>2 DEF Pos
<1>7. e \in 0 .. n
  BY <1>1 DEF Behind
<1>8. \A q \in 1 .. Len(in[o]) + 1 : Pos(in, o, e, q) \in 0 .. n
  BY <1>1, <1>2, <1>7 DEF Pos
<1> QED
  BY <1>2, <1>3, <1>4, <1>5, <1>6, <1>8

\* The loop goes on behind the field whose name is at 2h + 1, ...
GoesOn(tok, in, o, key, h) ==
    /\ 2 * h + 2 <= Len(in[o])
    /\ tok[in[o][2 * h + 1]].type = "STRING"
    /\ ~IsPrefix(key, tok[in[o][2 * h + 1]].text)

\* ... where it is with what is left of o counted to the limit.
FieldAt(in, o, e, h) ==
    [i |-> Pos(in, o, e, 2 * h + 1), ntok |-> Pos(in, o, e, 2 * h + 1) + (Len(in[o]) - 2 * h)]

LEMMA FieldAtIs ==
  ASSUME NEW tok, NEW n, NEW up, NEW in, Tokenized(tok, n, up, in),
         NEW o \in 0 .. n - 1, NEW e, Behind(n, up, o, e), NEW key,
         NEW h \in Nat, 2 * h <= Len(in[o]), NEW s, s = FieldAt(in, o, e, h)
  PROVE  /\ IsField(tok, s) <=> /\ 2 * h + 2 <= Len(in[o])
                                /\ tok[in[o][2 * h + 1]].type = "STRING"
         /\ 2 * h + 2 <= Len(in[o]) => s.i = in[o][2 * h + 1]
         /\ IsField(tok, s) => \E x \in Nat : s.i = x /\ in[o][2 * h + 2] = x + 1
         /\ IsKey(tok, s, key) <=> /\ 2 * h + 2 <= Len(in[o])
                                   /\ tok[in[o][2 * h + 1]].type = "STRING"
                                   /\ IsPrefix(key, tok[in[o][2 * h + 1]].text)
         /\ GoesOn(tok, in, o, key, h) => FieldRound(tok, s, key) = FieldAt(in, o, e, h + 1)
         /\ ~GoesOn(tok, in, o, key, h) => FieldRound(tok, s, key) = s
<1> DEFINE L == Len(in[o])
<1>1. /\ Forest(n, up, in) /\ n \in Nat
      /\ \A k \in 0 .. n - 1 : up[k] \in Int
  BY ForestType DEF Tokenized
<1>2. /\ L \in Nat
      /\ \A q \in 1 .. L : /\ Pos(in, o, e, q) = in[o][q] /\ in[o][q] \in 0 .. n - 1
                           /\ Behind(n, up, Pos(in, o, e, q), Pos(in, o, e, q + 1))
      /\ \A q \in 1 .. L + 1 : Pos(in, o, e, q) \in 0 .. n
  BY <1>1, PosNext
<1>3. PICK p \in 1 .. L + 1 : p = 2 * h + 1
  BY <1>2
<1>4. PICK x \in 0 .. n : x = Pos(in, o, e, p)
  BY <1>2, <1>3
<1>5. s.i = x /\ s.ntok = x + (L - 2 * h)
  BY <1>3, <1>4 DEF FieldAt
<1> HIDE DEF L
<1>6. s.i + 1 < s.ntok <=> 2 * h + 2 <= L
  BY <1>2, <1>4, <1>5
<1>7. 2 * h + 2 <= L => x = in[o][p] /\ p \in 1 .. L
  BY <1>2, <1>3, <1>4
<1>8. IsField(tok, s) <=> 2 * h + 2 <= L /\ tok[in[o][p]].type = "STRING"
  BY <1>5, <1>6, <1>7 DEF IsField
<1>9. IsKey(tok, s, key) <=> /\ 2 * h + 2 <= L /\ tok[in[o][p]].type = "STRING"
                             /\ IsPrefix(key, tok[in[o][p]].text)
  BY <1>5, <1>7, <1>8 DEF IsKey
<1>10. ASSUME IsField(tok, s)
       PROVE  s.i + 1 = in[o][p + 1] /\ p + 1 \in 1 .. L
  <2>1. p \in 1 .. L /\ x = in[o][p] /\ tok[x].type = "STRING" /\ x \in 0 .. n - 1
        /\ p + 1 \in 1 .. L
    <3>1. 2 * h + 2 <= L /\ tok[in[o][p]].type = "STRING"
      BY <1>8, <1>10
    <3>2. x = in[o][p] /\ p \in 1 .. L
      BY <1>7, <3>1
    <3>3. p + 1 \in 1 .. L
      BY <1>2, <1>3, <3>1
    <3>4. in[o][p] \in 0 .. n - 1
      BY <1>2, <3>2
    <3> QED
      BY <3>1, <3>2, <3>3, <3>4
  <2>2. \A j \in 0 .. n - 1 : up[j] # x
    BY <2>1 DEF Tokenized, Container
  <2>3. Behind(n, up, x, x + 1)
    BY <1>1, <2>1, <2>2, BehindLeaf
  <2>4. Behind(n, up, x, Pos(in, o, e, p + 1))
    BY <1>2, <1>4, <2>1
  <2>5. x + 1 = Pos(in, o, e, p + 1)
    BY <1>1, <2>3, <2>4, BehindUnique
  <2> QED
    BY <1>2, <1>5, <2>1, <2>5
<1>11. ASSUME GoesOn(tok, in, o, key, h) PROVE FieldRound(tok, s, key) = FieldAt(in, o, e, h + 1)
  <2>1. IsField(tok, s) /\ ~IsKey(tok, s, key)
    BY <1>3, <1>8, <1>9, <1>11 DEF GoesOn, L
  <2>2. PICK v \in 0 .. n - 1 : v = in[o][p + 1] /\ v = x + 1 /\ p + 1 \in 1 .. L /\ v = s.i + 1
    BY <1>2, <1>5, <1>10, <2>1
  <2>3. PICK w \in 0 .. n : w = Pos(in, o, e, p + 2) /\ Behind(n, up, v, w)
    <3>1. PICK q \in 1 .. L : q = p + 1 /\ q + 1 = p + 2 /\ q + 1 \in 1 .. L + 1
      BY <1>2, <2>2
    <3>2. Behind(n, up, Pos(in, o, e, q), Pos(in, o, e, q + 1)) /\ Pos(in, o, e, q) = v
      BY <1>2, <2>2, <3>1
    <3> QED
      BY <1>2, <3>1, <3>2
  <2>4. FieldAt(in, o, e, h + 1) = [i |-> w, ntok |-> w + (L - 2 * (h + 1))]
    <3>1. 2 * (h + 1) + 1 = p + 2
      BY <1>3
    <3> QED
      BY <2>3, <3>1 DEF FieldAt, L
  <2>5. s.ntok + (w - v - 1) = w + (L - 2 * (h + 1)) /\ s.ntok \in Int
    <3>1. n \in Nat /\ L \in Nat /\ x \in Int /\ w \in Int /\ v = x + 1
      BY <1>1, <1>2, <2>2, <2>3
    <3>2. s.ntok = x + (L - 2 * h)
      BY <1>5
    <3> QED
      BY <3>1, <3>2
  <2>6. CASE tok[v].type \in Container
    <3>1. Skip(tok, v, s.ntok).i = w /\ Skip(tok, v, s.ntok).ntok = s.ntok + (w - v - 1)
      <4>1. PICK nt \in Int : nt = s.ntok
        BY <2>5
      <4>2. Skip(tok, v, nt).i = w /\ Skip(tok, v, nt).ntok = nt + (w - v - 1)
        <5>1. Behind(n, up, v, w)
          BY <2>3
        <5>2. Skip(tok, v, nt).i = w
          BY <5>1, SkipOver
        <5>3. Skip(tok, v, nt).ntok = nt + (w - v - 1)
          BY <5>1, SkipOver
        <5> QED
          BY <5>2, <5>3
      <4> QED
        BY <4>1, <4>2
    <3>2. FieldRound(tok, s, key) = [i |-> w, ntok |-> s.ntok + (w - v - 1)]
      BY <2>1, <2>2, <2>6, <3>1 DEF FieldRound
    <3> QED
      BY <2>4, <2>5, <3>2
  <2>7. CASE tok[v].type \notin Container
    <3>1. \A j \in 0 .. n - 1 : up[j] # v
      BY <2>2, <2>7 DEF Tokenized
    <3>2. Behind(n, up, v, v + 1)
      BY <1>1, <3>1, BehindLeaf
    <3>3. w = v + 1
      BY <1>1, <2>3, <3>2, BehindUnique
    <3>4. s.i + 2 = w /\ s.ntok = w + (L - 2 * (h + 1))
      <4>1. x \in Int /\ L \in Nat /\ v = x + 1 /\ w = v + 1 /\ s.i = x /\ s.ntok = x + (L - 2 * h)
        BY <1>1, <1>2, <1>5, <2>2, <3>3
      <4> QED
        BY <4>1
    <3>5. FieldRound(tok, s, key) = [i |-> s.i + 2, ntok |-> s.ntok]
      BY <2>1, <2>2, <2>7 DEF FieldRound
    <3> QED
      BY <2>4, <3>4, <3>5
  <2> QED
    BY <2>6, <2>7
<1>12. ASSUME ~GoesOn(tok, in, o, key, h) PROVE FieldRound(tok, s, key) = s
  <2>1. ~IsField(tok, s) \/ IsKey(tok, s, key)
    BY <1>3, <1>8, <1>9, <1>12 DEF GoesOn, L
  <2> QED
    BY <2>1 DEF FieldRound
<1>13. p + 1 = 2 * h + 2
  BY <1>3
<1>14. IsField(tok, s) => \E y \in Nat : s.i = y /\ in[o][2 * h + 2] = y + 1
  <2>1. x \in Nat
    BY <1>1
  <2> QED
    BY <1>5, <1>10, <1>13, <2>1
<1> QED
  BY <1>3, <1>5, <1>7, <1>8, <1>9, <1>11, <1>12, <1>14 DEF L

LEMMA FieldValue ==
  ASSUME NEW tok, NEW n, NEW up, NEW in, Tokenized(tok, n, up, in),
         NEW o \in 0 .. n - 1, NEW e, Behind(n, up, o, e),
         NEW h \in Nat, 2 * h <= Len(in[o]), NEW s, s = FieldAt(in, o, e, h), IsField(tok, s)
  PROVE  \E x \in Nat : s.i = x /\ in[o][2 * h + 2] = x + 1
<1>1. PICK key : key = <<>>
  OBVIOUS
<1>2. /\ ~GoesOn(tok, in, o, key, h) => FieldRound(tok, s, key) = s
      /\ \E x \in Nat : s.i = x /\ in[o][2 * h + 2] = x + 1
  BY FieldAtIs
<1> QED
  BY <1>2

IsGet(f, tok, m, o, key) ==
    f = [k \in 0 .. m |-> IF k = 0 THEN [i |-> o + 1, ntok |-> o + tok[o].size + 1]
                          ELSE FieldRound(tok, f[k - 1], key)]

LEMMA GetIs ==
  ASSUME NEW m \in Nat, NEW tok, NEW o, NEW key, m = Cardinality(DOMAIN tok),
         NEW f, IsGet(f, tok, m, o, key)
  PROVE  jsmn_get_value(tok, o, key) = IF IsKey(tok, f[m], key) THEN f[m].i + 1 - o ELSE -1
<1>1. PICK g : g = CHOOSE h : IsGet(h, tok, m, o, key)
  OBVIOUS
<1>2. IsGet(g, tok, m, o, key)
  BY <1>1
<1>3. jsmn_get_value(tok, o, key) = IF IsKey(tok, g[m], key) THEN g[m].i + 1 - o ELSE -1
  BY <1>1 DEF jsmn_get_value, IsGet
<1>4. f[0] = g[0] /\ \A k \in 1 .. m : f[k - 1] = g[k - 1] => f[k] = g[k]
  BY <1>2 DEF IsGet
<1>5. /\ DOMAIN f = 0 .. m /\ f = [k \in DOMAIN f |-> f[k]]
      /\ DOMAIN g = 0 .. m /\ g = [k \in DOMAIN g |-> g[k]]
  BY <1>2 DEF IsGet
<1>6. f = g
  BY <1>4, <1>5, SameRounds
<1> QED
  BY <1>3, <1>6

\* The loop has stopped at the name 2h + 1.
StopsAt(tok, in, o, key, h) ==
    /\ h \in Nat /\ 2 * h <= Len(in[o])
    /\ \A j \in 0 .. h - 1 : GoesOn(tok, in, o, key, j)
    /\ ~GoesOn(tok, in, o, key, h)

IsHit(tok, in, o, key, h) ==
    /\ 2 * h + 2 <= Len(in[o])
    /\ tok[in[o][2 * h + 1]].type = "STRING"
    /\ IsPrefix(key, tok[in[o][2 * h + 1]].text)

LEMMA StopExists ==
  ASSUME NEW tok, NEW in, NEW o, NEW key, Len(in[o]) \in Nat
  PROVE  \E h \in Nat : StopsAt(tok, in, o, key, h)
<1> DEFINE S == {h \in Nat : ~GoesOn(tok, in, o, key, h)}
<1>1. Len(in[o]) \in S
  <2>1. ~(2 * Len(in[o]) + 2 <= Len(in[o]))
    OBVIOUS
  <2> QED
    BY <2>1 DEF GoesOn
<1>2. PICK h \in S : \A j \in S : h <= j
  <2>1. S \in SUBSET Nat /\ S # {}
    BY <1>1
  <2> QED
    BY <2>1, Least
<1>3. \A j \in 0 .. h - 1 : GoesOn(tok, in, o, key, j)
  <2>1. ASSUME NEW j \in 0 .. h - 1, ~GoesOn(tok, in, o, key, j) PROVE FALSE
    <3>1. j \in Nat /\ ~(h <= j)
      OBVIOUS
    <3> QED
      BY <1>2, <2>1, <3>1
  <2> QED
    BY <2>1
<1>4. 2 * h <= Len(in[o])
  <2>1. CASE h = 0
    BY <2>1
  <2>2. CASE h # 0
    <3>1. PICK j \in 0 .. h - 1 : h = j + 1
      BY <2>2
    <3>2. 2 * j + 2 <= Len(in[o])
      BY <1>3 DEF GoesOn
    <3> QED
      BY <3>1, <3>2
  <2> QED
    BY <2>1, <2>2
<1> QED
  BY <1>2, <1>3, <1>4 DEF StopsAt

LEMMA GetStops ==
  ASSUME NEW tok, NEW n, NEW up, NEW in, Tokenized(tok, n, up, in),
         NEW o \in 0 .. n - 1, NEW e, Behind(n, up, o, e), NEW key,
         NEW stop, StopsAt(tok, in, o, key, stop)
  PROVE  jsmn_get_value(tok, o, key) =
           IF IsHit(tok, in, o, key, stop) THEN in[o][2 * stop + 2] - o ELSE -1
<1>1. PICK m \in Nat : m = Cardinality(DOMAIN tok) /\ n <= m
  BY DEF Tokenized
<1>2. /\ Forest(n, up, in) /\ n \in Nat
      /\ Len(in[o]) \in Nat /\ Len(in[o]) <= n /\ Pos(in, o, e, 1) = o + 1
      /\ \A q \in 1 .. Len(in[o]) : in[o][q] \in 0 .. n - 1
      /\ tok[o].size = Len(in[o])
  <2>1. Forest(n, up, in) /\ Sized(tok, n, in)
    BY DEF Tokenized
  <2>2. n \in Nat
    BY <2>1, ForestType
  <2>3. /\ Len(in[o]) \in Nat /\ Len(in[o]) <= n /\ Pos(in, o, e, 1) = o + 1
        /\ \A q \in 1 .. Len(in[o]) : in[o][q] \in 0 .. n - 1
    BY <2>1, PosNext
  <2> QED
    BY <2>1, <2>2, <2>3 DEF Sized
<1>3. stop \in Nat /\ 2 * stop <= Len(in[o]) /\ stop <= m
  BY <1>1, <1>2 DEF StopsAt
<1> DEFINE s(k) == FieldAt(in, o, e, IF k <= stop THEN k ELSE stop)
           g == [k \in 0 .. m |-> s(k)]
<1>4. g[0] = [i |-> o + 1, ntok |-> o + tok[o].size + 1]
  <2>1. 0 \in 0 .. m /\ 0 <= stop /\ 2 * 0 + 1 = 1 /\ 2 * 0 = 0
    BY <1>1, <1>3
  <2>3. \A x, L \in Nat : x + 1 + (L - 0) = x + L + 1
    OBVIOUS
  <2>2. g[0] = FieldAt(in, o, e, 0)
    BY <2>1
  <2>4. FieldAt(in, o, e, 0) = [i |-> o + 1, ntok |-> o + 1 + (Len(in[o]) - 0)]
    BY <1>2, <2>1, Zenon DEF FieldAt
  <2>5. o + 1 + (Len(in[o]) - 0) = o + tok[o].size + 1
    <3>1. o \in Nat
      BY <1>2
    <3> QED
      BY <1>2, <2>3, <3>1
  <2> HIDE DEF g
  <2> QED
    BY <2>2, <2>4, <2>5, Zenon
<1>5. ASSUME NEW k \in 1 .. m PROVE g[k] = FieldRound(tok, g[k - 1], key)
  <2>1. k \in 0 .. m /\ k - 1 \in 0 .. m
    OBVIOUS
  <2>2. CASE k <= stop
    <3>1. PICK h \in Nat : h = k - 1 /\ h \in 0 .. stop - 1 /\ h <= stop /\ k = h + 1 /\ 2 * h <= Len(in[o])
      BY <1>2, <1>3, <2>2
    <3>2. GoesOn(tok, in, o, key, h)
      BY <3>1 DEF StopsAt
    <3>3. PICK t : t = FieldAt(in, o, e, h)
      OBVIOUS
    <3>4. FieldRound(tok, t, key) = FieldAt(in, o, e, h + 1)
      BY <3>1, <3>2, <3>3, FieldAtIs
    <3>5. g[k - 1] = t /\ g[k] = FieldAt(in, o, e, h + 1)
      BY <2>1, <2>2, <3>1, <3>3
    <3> HIDE DEF g
    <3> QED
      BY <3>4, <3>5
  <2>3. CASE ~(k <= stop)
    <3>1. PICK t : t = FieldAt(in, o, e, stop)
      OBVIOUS
    <3>2. g[k] = t
      BY <2>1, <2>3, <3>1
    <3>3. g[k - 1] = t
      <4>1. k - 1 <= stop => k - 1 = stop
        BY <1>3, <2>3
      <4> QED
        BY <2>1, <3>1, <4>1
    <3>4. ~GoesOn(tok, in, o, key, stop)
      BY DEF StopsAt
    <3>5. FieldRound(tok, t, key) = t
      BY <1>3, <3>1, <3>4, FieldAtIs
    <3> HIDE DEF g
    <3> QED
      BY <3>2, <3>3, <3>5
  <2> QED
    BY <2>2, <2>3
<1>6. IsGet(g, tok, m, o, key)
  <2>1. g = [k \in 0 .. m |-> g[k]]
    OBVIOUS
  <2> HIDE DEF g
  <2>2. \A k \in 0 .. m : k # 0 => k \in 1 .. m
    OBVIOUS
  <2>3. \A k \in 0 .. m : g[k] = IF k = 0 THEN [i |-> o + 1, ntok |-> o + tok[o].size + 1]
                                 ELSE FieldRound(tok, g[k - 1], key)
    BY <1>4, <1>5, <2>2
  <2> QED
    BY <2>1, <2>3 DEF IsGet
<1>7. PICK t : t = FieldAt(in, o, e, stop)
  OBVIOUS
<1>8. g[m] = t
  <2>1. m \in 0 .. m /\ (m <= stop => m = stop)
    BY <1>3
  <2> QED
    BY <1>7, <2>1
<1> HIDE DEF g
<1>9. jsmn_get_value(tok, o, key) = IF IsKey(tok, t, key) THEN t.i + 1 - o ELSE -1
  BY <1>1, <1>6, <1>8, GetIs
<1>10. IsKey(tok, t, key) <=> IsHit(tok, in, o, key, stop)
  BY <1>3, <1>7, FieldAtIs DEF IsHit
<1>11. IsKey(tok, t, key) => t.i + 1 = in[o][2 * stop + 2]
  <2>1. IsField(tok, t) => \E x \in Nat : t.i = x /\ in[o][2 * stop + 2] = x + 1
    BY <1>3, <1>7, FieldValue
  <2> QED
    BY <2>1 DEF IsKey
<1>12. IsKey(tok, t, key) => t.i \in Int
  <2>1. IsKey(tok, t, key) => 2 * stop + 2 <= Len(in[o]) /\ t.i = in[o][2 * stop + 1]
    BY <1>3, <1>7, FieldAtIs
  <2>2. 2 * stop + 2 <= Len(in[o]) => 2 * stop + 1 \in 1 .. Len(in[o])
    BY <1>2, <1>3
  <2> QED
    BY <1>2, <2>1, <2>2
<1>13. IsKey(tok, t, key) => t.i + 1 - o = in[o][2 * stop + 2] - o
  <2>1. \A x \in Int : \A y : x + 1 = y => x + 1 - o = y - o
    BY <1>2
  <2> QED
    BY <1>11, <1>12, <2>1
<1> QED
  BY <1>9, <1>10, <1>13

\* The fields whose names begin with the key.
Hits(tok, in, o, key) ==
    {i \in 1 .. Len(in[o]) - 1 :
        /\ i % 2 = 1 /\ \A j \in 1 .. i : j % 2 = 1 => tok[in[o][j]].type = "STRING"
        /\ IsPrefix(key, tok[in[o][i]].text)}

LEMMA MinIs ==
  ASSUME NEW S \in SUBSET Nat, NEW x \in S, \A y \in S : x <= y
  PROVE  Min(S) = x
<1>1. PICK m : m = Min(S)
  OBVIOUS
<1>2. m \in S /\ \A y \in S : m <= y
  BY <1>1 DEF Min
<1>3. m \in Nat /\ m <= x /\ x <= m
  BY <1>2
<1> QED
  BY <1>1, <1>3

LEMMA StopIsHit ==
  ASSUME NEW tok, NEW in, NEW o, NEW key, Len(in[o]) \in Nat,
         NEW stop, StopsAt(tok, in, o, key, stop)
  PROVE  /\ IsHit(tok, in, o, key, stop) =>
              /\ 2 * stop + 1 \in Hits(tok, in, o, key)
              /\ \A i \in Hits(tok, in, o, key) : 2 * stop + 1 <= i
         /\ ~IsHit(tok, in, o, key, stop) => Hits(tok, in, o, key) = {}
<1>1. stop \in Nat /\ \A j \in 0 .. stop - 1 : GoesOn(tok, in, o, key, j)
  BY DEF StopsAt
<1>2. ASSUME NEW i \in Hits(tok, in, o, key)
      PROVE  \E h \in Nat : /\ i = 2 * h + 1 /\ 2 * h + 2 <= Len(in[o])
                            /\ IsHit(tok, in, o, key, h)
                            /\ \A j \in 0 .. h : tok[in[o][2 * j + 1]].type = "STRING"
  <2>1. i \in 1 .. Len(in[o]) - 1 /\ i \in Nat /\ i % 2 = 1 /\ i + 1 <= Len(in[o])
    BY DEF Hits
  <2>2. PICK h \in Nat : i = 2 * h + 1
    BY <2>1, Odd
  <2>3. IsPrefix(key, tok[in[o][2 * h + 1]].text)
    BY <2>2 DEF Hits
  <2>4. ASSUME NEW j \in 0 .. h PROVE tok[in[o][2 * j + 1]].type = "STRING"
    <3>1. PICK q \in 1 .. i : q = 2 * j + 1 /\ q \in Nat
      BY <2>2
    <3>2. q % 2 = 1
      BY <3>1, Odd
    <3> QED
      BY <3>1, <3>2 DEF Hits
  <2>5. 2 * h + 2 <= Len(in[o]) /\ h \in 0 .. h
    BY <2>1, <2>2
  <2> QED
    BY <2>2, <2>3, <2>4, <2>5 DEF IsHit
<1>3. \A h \in Nat : h < stop => ~IsHit(tok, in, o, key, h)
  <2>1. \A h \in Nat : h < stop => h \in 0 .. stop - 1
    BY <1>1
  <2> QED
    BY <1>1, <2>1 DEF IsHit, GoesOn
<1>4. ASSUME IsHit(tok, in, o, key, stop)
      PROVE  2 * stop + 1 \in Hits(tok, in, o, key)
  <2>1. PICK i \in 1 .. Len(in[o]) - 1 : i = 2 * stop + 1 /\ i \in Nat
    BY <1>1, <1>4 DEF IsHit
  <2>2. i % 2 = 1
    BY <1>1, <2>1, Odd
  <2>3. ASSUME NEW j \in 1 .. i, j % 2 = 1 PROVE tok[in[o][j]].type = "STRING"
    <3>1. PICK h \in Nat : j = 2 * h + 1
      BY <2>3, Odd
    <3>2. h <= stop
      BY <1>1, <2>1, <3>1
    <3>3. CASE h = stop
      BY <1>4, <3>1, <3>3 DEF IsHit
    <3>4. CASE h # stop
      <4>1. h \in 0 .. stop - 1
        BY <1>1, <3>2, <3>4
      <4> QED
        BY <1>1, <3>1, <4>1 DEF GoesOn
    <3> QED
      BY <3>3, <3>4
  <2>4. IsPrefix(key, tok[in[o][i]].text)
    BY <1>4, <2>1 DEF IsHit
  <2>5. i \in Hits(tok, in, o, key)
    BY <2>2, <2>3, <2>4 DEF Hits
  <2> QED
    BY <2>1, <2>5
<1>5. ASSUME NEW i \in Hits(tok, in, o, key) PROVE 2 * stop + 1 <= i
  <2>1. PICK h \in Nat : i = 2 * h + 1 /\ IsHit(tok, in, o, key, h)
    BY <1>2
  <2>2. ~(h < stop)
    BY <1>3, <2>1
  <2> QED
    BY <1>1, <2>1, <2>2
<1>6. ASSUME ~IsHit(tok, in, o, key, stop), NEW i \in Hits(tok, in, o, key) PROVE FALSE
  <2>1. PICK h \in Nat : /\ 2 * h + 2 <= Len(in[o]) /\ IsHit(tok, in, o, key, h)
                         /\ \A j \in 0 .. h : tok[in[o][2 * j + 1]].type = "STRING"
    BY <1>2
  <2>2. ~(h < stop)
    BY <1>3, <2>1
  <2>3. stop \in 0 .. h /\ 2 * stop + 2 <= Len(in[o])
    BY <1>1, <2>1, <2>2
  <2>4. tok[in[o][2 * stop + 1]].type = "STRING"
    BY <2>1, <2>3
  <2>5. ~GoesOn(tok, in, o, key, stop)
    BY DEF StopsAt
  <2> QED
    BY <1>6, <2>3, <2>4, <2>5 DEF GoesOn, IsHit
<1>7. ~IsHit(tok, in, o, key, stop) => Hits(tok, in, o, key) = {}
  BY <1>6
<1> QED
  BY <1>4, <1>5, <1>7

\* jsmn_get_value returns what is behind the first of these names.
LEMMA GetFinds ==
  ASSUME NEW tok, NEW n, NEW up, NEW in, Tokenized(tok, n, up, in), NEW o \in 0 .. n - 1, NEW key
  PROVE  jsmn_get_value(tok, o, key) =
           IF Hits(tok, in, o, key) = {} THEN -1 ELSE in[o][Min(Hits(tok, in, o, key)) + 1] - o
<1>1. Forest(n, up, in) /\ n \in Nat
  BY ForestType DEF Tokenized
<1>2. PICK e : Behind(n, up, o, e)
  BY <1>1, BehindExists
<1>3. Len(in[o]) \in Nat
  BY <1>1, <1>2, PosNext
<1>4. PICK stop : StopsAt(tok, in, o, key, stop)
  BY <1>3, StopExists
<1>5. stop \in Nat
  BY <1>4 DEF StopsAt
<1>6. jsmn_get_value(tok, o, key) =
        IF IsHit(tok, in, o, key, stop) THEN in[o][2 * stop + 2] - o ELSE -1
  BY <1>2, <1>4, GetStops
<1>7. CASE IsHit(tok, in, o, key, stop)
  <2>1. PICK S : S = Hits(tok, in, o, key)
    OBVIOUS
  <2>2. S \in SUBSET Nat
    BY <1>3, <2>1 DEF Hits
  <2>3. PICK x \in S : x = 2 * stop + 1 /\ \A i \in S : x <= i
    BY <1>3, <1>4, <1>7, <2>1, StopIsHit
  <2>4. Min(S) = x
    BY <2>2, <2>3, MinIs
  <2>5. x + 1 = 2 * stop + 2
    BY <1>5, <2>3
  <2>6. S # {}
    BY <2>3
  <2> QED
    BY <1>6, <1>7, <2>1, <2>4, <2>5, <2>6
<1>8. CASE ~IsHit(tok, in, o, key, stop)
  BY <1>3, <1>4, <1>6, <1>8, StopIsHit
<1> QED
  BY <1>7, <1>8

-----------------------------------------------------------------------------
(***************************************************************************)
(* What is found in the tokens of a complete text.                         *)
(***************************************************************************)
Accepted == ParseInv /\ parser.r = "SUCCESS"

LEMMA TokensOfText == Accepted => Tokenized(parser.tok, Len(place), Ups, inside)
<1> SUFFICES ASSUME Accepted PROVE Tokenized(parser.tok, Len(place), Ups, inside)
  OBVIOUS
<1>1. ParserType /\ Outlined /\ Agrees
  BY DEF Accepted, ParseInv
<1>2. PICK m \in Nat : m = Capacity /\ parser \in ParserRecord(m) /\ parser.num_tokens <= m
  BY <1>1, CapacityType DEF ParserType
<1>3. Cardinality(DOMAIN parser.tok) = m
  <2>1. DOMAIN parser.tok = 0 .. m - 1
    BY <1>2 DEF ParserRecord
  <2>2. Cardinality(0 .. m - 1) = m
    BY <1>2, FS_Interval
  <2> QED
    BY <2>1, <2>2
<1>4. Len(place) \in Nat /\ Len(place) <= m
  BY <1>1, <1>2 DEF ParserType, ParserRecord, Agrees
<1>5. Sized(parser.tok, Len(place), inside)
  BY <1>1 DEF Agrees, Sized, Tok
<1>6. ASSUME NEW k \in 0 .. Len(place) - 1, NEW j \in 0 .. Len(place) - 1, Ups[j] = k
      PROVE  parser.tok[k].type \in Container
  <2>1. PICK i \in 1 .. Len(place) : i = j + 1
    BY <1>4
  <2>2. PICK b \in 1 .. Len(around) : b = place[i]
    <3>1. Len(js) \in Nat /\ Len(around) = Len(js) + 1
      BY <1>1 DEF Outlined
    <3>2. place[i] \in 1 .. Len(js)
      BY <1>1 DEF Outlined
    <3>3. place[i] \in 1 .. Len(around)
      BY <3>1, <3>2
    <3> QED
      BY <3>3
  <2>3. around[b] = k
    BY <1>6, <2>1, <2>2 DEF Ups, Up
  <2>4. Token(k).kind = "open" /\ Token(k) \in LexemeType
    <3>1. k # -1
      BY <1>4
    <3>2. PICK l \in 1 .. Len(place) : l = k + 1
      BY <1>4
    <3>3. place[l] \in 1 .. Len(js)
      BY <1>1 DEF Outlined
    <3>4. Token(around[b]).kind = "open"
      BY <1>1, <2>3, <3>1 DEF Outlined
    <3>5. PICK x \in 1 .. Len(js) : x = place[l]
      BY <3>3
    <3>6. js[x] \in LexemeType
      BY <1>1 DEF Outlined
    <3> QED
      BY <2>3, <3>2, <3>4, <3>5, <3>6 DEF Token
  <2>5. Token(k).type \in Container
    <3>1. PICK c \in LexemeType : c = Token(k)
      BY <2>4
    <3> QED
      BY <2>4, <3>1, LexemeKinds DEF Container
  <2> QED
    BY <1>1, <2>5 DEF Agrees, Tok
<1>7. \A k \in 0 .. Len(place) - 1 : parser.tok[k].type \notin Container =>
         \A j \in 0 .. Len(place) - 1 : Ups[j] # k
  BY <1>6
<1>8. Forest(Len(place), Ups, inside)
  BY <1>1 DEF Outlined
<1> QED
  BY <1>2, <1>3, <1>4, <1>5, <1>7, <1>8 DEF Tokenized

LEMMA FieldIs ==
  ASSUME Accepted, NEW o \in 0 .. Len(place) - 1, NEW key
  PROVE  /\ Field(o, key) = -1 \/ (Field(o, key) \in 0 .. Len(place) - 1 /\ o < Field(o, key))
         /\ jsmn_get_value(parser.tok, o, key) =
              IF Field(o, key) = -1 THEN -1 ELSE Field(o, key) - o
<1>1. PICK H : H = Hits(parser.tok, inside, o, key)
  OBVIOUS
<1>2. Field(o, key) = IF H = {} THEN -1 ELSE inside[o][Min(H) + 1]
  <2>1. {i \in Names(o) : IsPrefix(key, Tok(inside[o][i]).text)} = H
    BY <1>1 DEF Names, Hits, Tok
  <2> QED
    BY <2>1 DEF Field, Value
<1>3. jsmn_get_value(parser.tok, o, key) = IF H = {} THEN -1 ELSE inside[o][Min(H) + 1] - o
  BY <1>1, TokensOfText, GetFinds
<1>4. Len(place) \in Nat /\ Forest(Len(place), Ups, inside)
  BY TokensOfText, ForestType DEF Tokenized
<1>5. PICK e : Behind(Len(place), Ups, o, e)
  BY <1>4, BehindExists
<1>6. /\ Len(inside[o]) \in Nat
      /\ \A q \in 1 .. Len(inside[o]) : inside[o][q] \in 0 .. Len(place) - 1 /\ o < inside[o][q]
  BY <1>4, <1>5, PosNext
<1>7. CASE H = {}
  BY <1>2, <1>3, <1>7
<1>8. CASE H # {}
  <2>1. H \in SUBSET Nat /\ \A i \in H : i \in 1 .. Len(inside[o]) - 1
    BY <1>1, <1>6 DEF Hits
  <2>2. PICK i \in H : \A y \in H : i <= y
    BY <1>8, <2>1, Least
  <2>3. Min(H) = i
    BY <2>1, <2>2, MinIs
  <2>4. PICK q \in 1 .. Len(inside[o]) : q = i + 1
    BY <1>6, <2>1
  <2>5. PICK v \in 0 .. Len(place) - 1 : v = inside[o][q] /\ o < v
    BY <1>6
  <2>6. Field(o, key) = v /\ jsmn_get_value(parser.tok, o, key) = v - o
    BY <1>2, <1>3, <1>8, <2>3, <2>4, <2>5
  <2>7. v # -1
    BY <1>4
  <2> QED
    BY <2>5, <2>6, <2>7
<1> QED
  BY <1>7, <1>8

\* jsmn_get_value finds the value of the first field whose name begins with the
\* key, behind values of any depth, and nothing outside the object.
THEOREM ValueFoundHolds == PSpec => []ValueFound
<1>1. ParseInv => ValueFound
  <2> SUFFICES ASSUME ParseInv, Complete,
                      NEW o \in 0 .. parser.toknext - 1,
                      NEW key \in NodeKeys \cup HeaderKeys \cup {<<"method">>},
                      NEW i, i = jsmn_get_value(parser.tok, o, key)
               PROVE  Field(o, key) = IF i = -1 THEN -1 ELSE o + i
    BY DEF ValueFound
  <2>1. Accepted /\ parser.toknext = Len(place)
    BY DEF Accepted, Complete, ParseInv, Agrees
  <2>2. Len(place) \in Nat
    BY <2>1, TokensOfText, ForestType DEF Tokenized
  <2>3. /\ Field(o, key) = -1 \/ (Field(o, key) \in 0 .. Len(place) - 1 /\ o < Field(o, key))
        /\ i = IF Field(o, key) = -1 THEN -1 ELSE Field(o, key) - o
    BY <2>1, FieldIs
  <2>4. CASE Field(o, key) = -1
    BY <2>3, <2>4
  <2>5. CASE Field(o, key) # -1
    <3>1. PICK v \in 0 .. Len(place) - 1 : v = Field(o, key) /\ o < v /\ i = v - o
      BY <2>3, <2>5
    <3>2. v - o # -1 /\ o + (v - o) = v
      BY <2>1, <2>2, <3>1
    <3> QED
      BY <3>1, <3>2
  <2> QED
    BY <2>4, <2>5
<1> QED
  BY <1>1, ParseInvHolds, PTL

\* A text that begins with a digit has a number.
LEMMA NumIs ==
  ASSUME Accepted, NEW k \in 0 .. Len(place) - 1
  PROVE  Num(k) < 0 <=> ~BeginsWithDigit(Tok(k))
<1>1. Outlined /\ Agrees
  BY DEF Accepted, ParseInv
<1>2. PICK l \in 1 .. Len(place) : l = k + 1
  BY <1>1 DEF Outlined
<1>3. PICK x \in 1 .. Len(js) : x = place[l]
  BY <1>1 DEF Outlined
<1>4. PICK c \in LexemeType : c = Token(k)
  BY <1>1, <1>2, <1>3 DEF Outlined, Token
<1>5. c.kind \in {"open", "text"} /\ Tok(k).type = c.type
  BY <1>1, <1>4 DEF Agrees
<1>6. ASSUME BeginsWithDigit(Tok(k)) PROVE Tok(k).chars.num \in Nat
  <2>1. c.kind = "text"
    BY <1>5, <1>6, LexemeKinds DEF BeginsWithDigit
  <2>2. c.chars \in CharsType
    BY <2>1, LexemeKinds
  <2>3. Tok(k).chars = c.chars
    BY <1>1, <1>4, <2>1 DEF Agrees
  <2> QED
    BY <2>2, <2>3 DEF CharsType
<1> QED
  BY <1>6 DEF Num

\* parse_header takes status and size from the fields of these names, and a
\* missing size for an empty body, whatever else the header holds and whatever
\* follows the digits of the size, if its text fits the buffer.
THEOREM HeaderParsedHolds == PSpec => []HeaderParsed
<1>1. ParseInv => HeaderParsed
  <2> SUFFICES ASSUME ParseInv, Complete, Tok(0).type = "OBJECT", Plain(0, HeaderKeys),
                      NEW status, status = Exact(0, <<"status">>),
                      NEW size, size = Exact(0, <<"size">>), ~Long(size, SizeBuffer)
               PROVE  parse_header(parser.tok) =
                        IF status = -1 \/ (size # -1 /\ Num(size) < 0) THEN NoHeader(-1)
                        ELSE [rc |-> 0, size |-> IF size = -1 THEN 0 ELSE Num(size),
                              okay |-> IsPrefix(<<"okay">>, Tok(status).text)]
    BY DEF HeaderParsed
  <2>1. Accepted /\ parser.toknext = Len(place) /\ parser.toknext > 0
    BY DEF Accepted, Complete, ParseInv, Agrees
  <2>2. Len(place) \in Nat
    BY <2>1, TokensOfText, ForestType DEF Tokenized
  <2>3. 0 \in 0 .. Len(place) - 1
    BY <2>1, <2>2
  <2>4. Field(0, <<"status">>) = status /\ Field(0, <<"size">>) = size
    BY DEF Plain, HeaderKeys
  <2>5. \A key : /\ Field(0, key) \in -1 .. Len(place) - 1
                 /\ jsmn_get_value(parser.tok, 0, key) = Field(0, key)
    <3>1. ASSUME NEW key
          PROVE  /\ Field(0, key) \in -1 .. Len(place) - 1
                 /\ jsmn_get_value(parser.tok, 0, key) = Field(0, key)
      <4>1. PICK f : f = Field(0, key)
        OBVIOUS
      <4>2. /\ f = -1 \/ f \in 0 .. Len(place) - 1
            /\ jsmn_get_value(parser.tok, 0, key) = IF f = -1 THEN -1 ELSE f - 0
        BY <2>1, <2>3, <4>1, FieldIs
      <4>3. f \in -1 .. Len(place) - 1 /\ (f # -1 => f - 0 = f)
        BY <2>2, <4>2
      <4> QED
        BY <4>1, <4>2, <4>3
    <3> QED
      BY <3>1
  <2>6. /\ jsmn_get_value(parser.tok, 0, <<"status">>) = status
        /\ jsmn_get_value(parser.tok, 0, <<"size">>) = size
        /\ size \in -1 .. Len(place) - 1
    BY <2>4, <2>5
  <2>7. PICK tok : tok = parser.tok
    OBVIOUS
  <2>8. tok[0].type = "OBJECT" /\ \A k : Tok(k) = tok[k]
    BY <2>7 DEF Tok
  <2>9. PICK good, long : good = BeginsWithDigit(tok[size])
                          /\ long = (tok[size].chars.len >= SizeBuffer)
    OBVIOUS
  <2>10. parse_header(tok) = IF status = -1 THEN NoHeader(-1)
                             ELSE IF size # -1 /\ ~good THEN NoHeader(-1)
                             ELSE IF size # -1 /\ long THEN NoHeader(Overrun)
                             ELSE [rc |-> 0, size |-> IF size = -1 THEN 0 ELSE tok[size].chars.num,
                                   okay |-> IsPrefix(<<"okay">>, Tok(status).text)]
    BY <2>6, <2>7, <2>8, <2>9, Zenon DEF parse_header
  <2>11. CASE size = -1
    BY <2>7, <2>10, <2>11
  <2>12. CASE size # -1
    <3>1. PICK k \in 0 .. Len(place) - 1 : k = size
      BY <2>2, <2>6, <2>12
    <3>2. ~long
      BY <2>8, <2>9, <2>12 DEF Long
    <3>3. good <=> ~(Num(size) < 0)
      BY <2>1, <2>8, <2>9, <3>1, NumIs
    <3>4. good => tok[size].chars.num = Num(size)
      BY <2>8, <2>9 DEF Num
    <3> QED
      BY <2>7, <2>10, <2>12, <3>2, <3>3, <3>4
  <2> QED
    BY <2>11, <2>12
<1> QED
  BY <1>1, ParseInvHolds, PTL

\* Two fields of different names are two fields.
LEMMA NamesApart ==
  ASSUME Accepted, NEW o \in 0 .. Len(place) - 1, Len(inside[o]) < 6,
         Exact(o, <<"ip">>) # -1, Exact(o, <<"port">>) # -1, Exact(o, <<"ip", "v">>) # -1
  PROVE  FALSE
<1>1. Len(inside[o]) \in Nat
  <2>1. Len(place) \in Nat /\ Forest(Len(place), Ups, inside)
    BY TokensOfText, ForestType DEF Tokenized
  <2>2. PICK e : Behind(Len(place), Ups, o, e)
    BY <2>1, BehindExists
  <2> QED
    BY <2>1, <2>2, PosNext
<1>2. \A key : Exact(o, key) # -1 =>
         \E h \in Nat : 2 * h + 2 <= Len(inside[o]) /\ Tok(inside[o][2 * h + 1]).text = key
  <2>1. ASSUME NEW key, Exact(o, key) # -1
        PROVE  \E h \in Nat : 2 * h + 2 <= Len(inside[o]) /\ Tok(inside[o][2 * h + 1]).text = key
    <3>1. PICK i \in Names(o) : Tok(inside[o][i]).text = key
      BY <2>1 DEF Exact, Value
    <3>2. i \in 1 .. Len(inside[o]) - 1 /\ i % 2 = 1 /\ i \in Nat
      BY DEF Names
    <3>3. PICK h \in Nat : i = 2 * h + 1
      BY <3>2, Odd
    <3>4. 2 * h + 2 <= Len(inside[o])
      BY <1>1, <3>2, <3>3
    <3> QED
      BY <3>1, <3>3, <3>4
  <2> QED
    BY <2>1
<1>3. PICK a \in Nat : 2 * a + 2 <= Len(inside[o]) /\ Tok(inside[o][2 * a + 1]).text = <<"ip">>
  BY <1>2
<1>4. PICK b \in Nat : 2 * b + 2 <= Len(inside[o]) /\ Tok(inside[o][2 * b + 1]).text = <<"port">>
  BY <1>2
<1>5. PICK c \in Nat : 2 * c + 2 <= Len(inside[o]) /\ Tok(inside[o][2 * c + 1]).text = <<"ip", "v">>
  BY <1>2
<1>6. <<"ip">> # <<"port">> /\ <<"ip">> # <<"ip", "v">> /\ <<"port">> # <<"ip", "v">>
  <2>1. "ip" # "port"
    OBVIOUS
  <2>2. Len(<<"ip">>) = 1 /\ Len(<<"port">>) = 1 /\ Len(<<"ip", "v">>) = 2
    OBVIOUS
  <2>3. <<"ip">>[1] = "ip" /\ <<"port">>[1] = "port"
    OBVIOUS
  <2> QED
    BY <2>1, <2>2, <2>3
<1>7. a # b /\ a # c /\ b # c
  BY <1>3, <1>4, <1>5, <1>6
<1>8. a \in {0, 1} /\ b \in {0, 1} /\ c \in {0, 1}
  <2>1. \A y \in Nat : y < 6 => \A h \in Nat : 2 * h + 2 <= y => h \in {0, 1}
    OBVIOUS
  <2>2. \A h \in Nat : 2 * h + 2 <= Len(inside[o]) => h \in {0, 1}
    BY <1>1, <2>1
  <2> QED
    BY <1>3, <1>4, <1>5, <2>2
<1> QED
  BY <1>7, <1>8

\* The conditions on the address, by the texts and by the numbers.
LEMMA SameAddress ==
  ASSUME NEW f, NEW text
  PROVE  <<f, text>> \in {<<4, <<"v4">>>>, <<6, <<"v6">>>>} <=> f \in {4, 6} /\ inet_pton(f, text)
  BY DEF inet_pton

LEMMA PortLimits == PORT_MIN = 0 /\ PORT_MAX \in Int
  BY DEF PORT_MIN, PORT_MAX

\* What becomes of the three fields of a node, and what they should be.
NodeOf(ip, port, ipv) ==
    IF ~(/\ ip.type = "STRING" /\ BeginsWithDigit(port)
         /\ ipv.type = "PRIMITIVE" /\ ipv.chars.first \in {4, 6}) THEN Node(-1)
    ELSE IF ip.chars.len >= INET6_ADDRSTRLEN THEN Node(Overrun)
    ELSE IF ~inet_pton(ipv.chars.first, ip.text) THEN Node(-1)
    ELSE IF port.chars.len >= INET6_ADDRSTRLEN THEN Node(Overrun)
    ELSE IF port.chars.more \/ port.chars.num \notin PORT_MIN .. PORT_MAX THEN Node(-1)
    ELSE NewNode(ip, port)

IsNode(ip, port, ipv) ==
    /\ ip.type = "STRING"
    /\ BeginsWithDigit(port) /\ port.chars.num \in PORT_MIN .. PORT_MAX /\ ~port.chars.more
    /\ ipv.type = "PRIMITIVE"
    /\ ipv.chars.first \in {4, 6} /\ inet_pton(ipv.chars.first, ip.text)

LongNode(ip, port) ==
    ip.chars.len >= INET6_ADDRSTRLEN \/ port.chars.len >= INET6_ADDRSTRLEN

LEMMA NodeIs ==
  ASSUME NEW tok, NEW o, NEW fi, NEW fp, NEW fv,
         fi = jsmn_get_value(tok, o, <<"ip">>), fp = jsmn_get_value(tok, o, <<"port">>),
         fv = jsmn_get_value(tok, o, <<"ip", "v">>), fi # -1, fp # -1, fv # -1,
         NEW a, NEW b, NEW c, a = tok[o + fi], b = tok[o + fp], c = tok[o + fv]
  PROVE  parse_node(tok, o) = NodeOf(a, b, c)
  BY DEF parse_node, NodeOf

LEMMA Outcomes ==
  /\ Node(-1).rc = -1 /\ Node(Overrun).rc = Overrun
  /\ \A a, b : NewNode(a, b).rc = 0
  /\ \A a, b : NewNode(a, b).new = <<Entry(a, b)>>
  /\ Overrun # 0 /\ Overrun # -1
  BY DEF Node, NewNode, Overrun

LEMMA NodeOutcome ==
  ASSUME NEW a, NEW b, NEW c, NEW r, r = NodeOf(a, b, c)
  PROVE  /\ r.rc \in {0, -1, Overrun}
         /\ r.rc = 0 => r = NewNode(a, b) /\ IsNode(a, b, c) /\ ~LongNode(a, b)
         /\ r.rc = -1 => ~IsNode(a, b, c)
         /\ r.rc = Overrun => LongNode(a, b)
<1>1. PICK first, longip, conv, longport, fail :
         /\ first = (/\ a.type = "STRING" /\ BeginsWithDigit(b)
                     /\ c.type = "PRIMITIVE" /\ c.chars.first \in {4, 6})
         /\ longip = (a.chars.len >= INET6_ADDRSTRLEN)
         /\ conv = inet_pton(c.chars.first, a.text)
         /\ longport = (b.chars.len >= INET6_ADDRSTRLEN)
         /\ fail = (b.chars.more \/ b.chars.num \notin PORT_MIN .. PORT_MAX)
  OBVIOUS
<1>2. r = IF ~first THEN Node(-1) ELSE IF longip THEN Node(Overrun) ELSE IF ~conv THEN Node(-1)
          ELSE IF longport THEN Node(Overrun) ELSE IF fail THEN Node(-1) ELSE NewNode(a, b)
  BY <1>1, Zenon DEF NodeOf
<1>3. IsNode(a, b, c) <=> first /\ conv /\ ~fail
  BY <1>1, Zenon DEF IsNode
<1>4. LongNode(a, b) <=> longip \/ longport
  BY <1>1, Zenon DEF LongNode
<1> QED
  BY <1>2, <1>3, <1>4, Outcomes

\* An element is taken for the address it stands for; it is refused if it stands
\* for none, and runs over the buffer only with a long text.
LEMMA AddressIs ==
  ASSUME Accepted, NEW o \in 0 .. Len(place) - 1,
         Tok(o).type = "OBJECT" => Plain(o, NodeKeys),
         NEW r, r = Element(parser.tok, o)
  PROVE  /\ r.rc \in {0, -1, Overrun}
         /\ r.rc = 0 => Address(o) = r.new /\ ~TooLong(o)
         /\ r.rc = -1 => Address(o) = <<>>
         /\ r.rc = Overrun => TooLong(o)
<1>1. PICK tok : tok = parser.tok /\ \A k : Tok(k) = tok[k]
  BY DEF Tok
<1>2. CASE Tok(o).type # "OBJECT"
  <2>1. r = Node(-1) /\ Address(o) = <<>>
    BY <1>1, <1>2 DEF Address, Element
  <2> QED
    BY <2>1, Outcomes
<1>3. CASE Tok(o).type = "OBJECT"
  <2>1. PICK ip, port, ipv : ip = Exact(o, <<"ip">>) /\ port = Exact(o, <<"port">>)
                             /\ ipv = Exact(o, <<"ip", "v">>)
    OBVIOUS
  <2>2. ip = Field(o, <<"ip">>) /\ port = Field(o, <<"port">>) /\ ipv = Field(o, <<"ip", "v">>)
    BY <1>3, <2>1 DEF Plain, NodeKeys
  <2>3. Len(place) \in Nat /\ tok[o].size = Len(inside[o]) /\ Len(inside[o]) \in Nat
    <3>1. Len(place) \in Nat /\ Forest(Len(place), Ups, inside) /\ Sized(tok, Len(place), inside)
      BY <1>1, TokensOfText, ForestType DEF Tokenized
    <3>2. PICK e : Behind(Len(place), Ups, o, e)
      BY <3>1, BehindExists
    <3> QED
      BY <3>1, <3>2, PosNext DEF Sized
  <2>4. ASSUME NEW key, NEW f, f = Field(o, key)
        PROVE  /\ jsmn_get_value(tok, o, key) = -1 <=> f = -1
               /\ f # -1 => /\ f \in 0 .. Len(place) - 1
                            /\ o + jsmn_get_value(tok, o, key) = f
    <3>1. /\ f = -1 \/ (f \in 0 .. Len(place) - 1 /\ o < f)
          /\ jsmn_get_value(tok, o, key) = IF f = -1 THEN -1 ELSE f - o
      BY <1>1, <2>4, FieldIs
    <3>2. CASE f = -1
      BY <3>1, <3>2
    <3>3. CASE f # -1
      <4>1. f \in 0 .. Len(place) - 1 /\ o < f /\ jsmn_get_value(tok, o, key) = f - o
        BY <3>1, <3>3
      <4>2. f - o # -1 /\ o + (f - o) = f
        BY <2>3, <4>1
      <4> QED
        BY <3>3, <4>1, <4>2
    <3> QED
      BY <3>2, <3>3
  <2>5. CASE ip = -1 \/ port = -1 \/ ipv = -1
    <3>1. Address(o) = <<>>
      BY <2>1, <2>5 DEF Address
    <3>2. parse_node(tok, o) = Node(-1)
      BY <2>2, <2>4, <2>5 DEF parse_node
    <3>3. r = Node(-1)
      BY <1>1, <3>2 DEF Element
    <3> QED
      BY <3>1, <3>3, Outcomes
  <2>6. CASE ip # -1 /\ port # -1 /\ ipv # -1
    <3>1. ~(tok[o].size < 6)
      BY <2>1, <2>3, <2>6, NamesApart
    <3>2. PICK fi, fp, fv : /\ fi = jsmn_get_value(tok, o, <<"ip">>)
                            /\ fp = jsmn_get_value(tok, o, <<"port">>)
                            /\ fv = jsmn_get_value(tok, o, <<"ip", "v">>)
      OBVIOUS
    <3>3. /\ fi # -1 /\ fp # -1 /\ fv # -1
          /\ o + fi = ip /\ o + fp = port /\ o + fv = ipv
          /\ ip \in 0 .. Len(place) - 1 /\ port \in 0 .. Len(place) - 1
          /\ ipv \in 0 .. Len(place) - 1
      BY <2>2, <2>4, <2>6, <3>2
    <3>4. PICK a, b, c : a = Tok(ip) /\ b = Tok(port) /\ c = Tok(ipv)
      OBVIOUS
    <3>5. r = NodeOf(a, b, c)
      <4>1. a = tok[o + fi] /\ b = tok[o + fp] /\ c = tok[o + fv]
        BY <1>1, <3>3, <3>4
      <4>2. parse_node(tok, o) = NodeOf(a, b, c)
        BY <3>2, <3>3, <4>1, NodeIs
      <4> QED
        BY <1>1, <1>3, <3>1, <4>2 DEF Element
    <3>6. TooLong(o) <=> LongNode(a, b)
      BY <2>1, <2>6, <3>4 DEF TooLong, LongNode, Long
    <3>7. Num(port) \in 0 .. PORT_MAX <=>
            BeginsWithDigit(b) /\ b.chars.num \in PORT_MIN .. PORT_MAX
      <4>1. CASE BeginsWithDigit(b)
        <5>1. Num(port) = b.chars.num
          BY <3>4, <4>1 DEF Num
        <5> QED
          BY <4>1, <5>1, PortLimits
      <4>2. CASE ~BeginsWithDigit(b)
        <5>1. Num(port) = -1
          BY <3>4, <4>2 DEF Num
        <5>2. ~(-1 \in 0 .. PORT_MAX)
          BY PortLimits
        <5> QED
          BY <4>2, <5>1, <5>2
      <4> QED
        BY <4>1, <4>2
    <3>8. <<c.chars.first, a.text>> \in {<<4, <<"v4">>>>, <<6, <<"v6">>>>} <=>
            c.chars.first \in {4, 6} /\ inet_pton(c.chars.first, a.text)
      BY SameAddress
    <3>9. Address(o) = IF IsNode(a, b, c) THEN <<[ip |-> a.text, port |-> Num(port) % 65536]>>
                       ELSE <<>>
      <4>1. PICK fine : fine = (/\ a.type = "STRING"
                                /\ Num(port) \in 0 .. PORT_MAX /\ ~b.chars.more
                                /\ c.type = "PRIMITIVE"
                                /\ <<c.chars.first, a.text>> \in {<<4, <<"v4">>>>, <<6, <<"v6">>>>})
        OBVIOUS
      <4>2. Address(o) = IF fine THEN <<[ip |-> a.text, port |-> Num(port) % 65536]>> ELSE <<>>
        BY <1>3, <2>1, <2>6, <3>4, <4>1 DEF Address
      <4>3. fine <=> IsNode(a, b, c)
        BY <3>7, <3>8, <4>1 DEF IsNode
      <4> QED
        BY <4>2, <4>3
    <3>10. IsNode(a, b, c) => Num(port) = b.chars.num
      BY <3>4 DEF IsNode, Num
    <3>11. r.rc = 0 => Address(o) = r.new
      <4>1. ASSUME r.rc = 0 PROVE IsNode(a, b, c) /\ r.new = <<Entry(a, b)>>
        BY <3>5, <4>1, NodeOutcome, Outcomes
      <4> QED
        BY <3>9, <3>10, <4>1 DEF Entry
    <3> QED
      BY <3>5, <3>6, <3>9, <3>11, NodeOutcome
  <2> QED
    BY <2>5, <2>6
<1> QED
  BY <1>2, <1>3

-----------------------------------------------------------------------------
(***************************************************************************)
(* parse_node_list: the rounds over the elements of the list.              *)
(***************************************************************************)
\* An element at which the loop ends, the entries made of the first h elements,
\* and the loop when it has made them.
Refused(tok, i) == Element(tok, i).rc # 0

Entries(tok, in, h) == [q \in 1 .. h |-> Element(tok, in[0][q]).new[1]]

ElementAt(tok, in, e, h) ==
    [i |-> Pos(in, 0, e, h + 1), ntok |-> Pos(in, 0, e, h + 1) + (Len(in[0]) - h),
     head |-> Entries(tok, in, h)]

LEMMA NodeOne ==
  ASSUME NEW tok, NEW o, ~Refused(tok, o)
  PROVE  Element(tok, o).new = <<Element(tok, o).new[1]>>
<1>1. PICK a, b : Element(tok, o) = NewNode(a, b)
  <2>1. Element(tok, o) # Node(-1) /\ Element(tok, o) # Node(Overrun)
    BY Outcomes DEF Refused
  <2>2. Element(tok, o) = parse_node(tok, o)
    BY <2>1 DEF Element
  <2> QED
    BY <2>1, <2>2 DEF parse_node
<1>2. PICK x : Element(tok, o).new = <<x>>
  <2>1. NewNode(a, b).new = <<Entry(a, b)>>
    BY Outcomes
  <2>2. PICK y : y = Entry(a, b)
    OBVIOUS
  <2>3. Element(tok, o).new = <<y>>
    BY <1>1, <2>1, <2>2
  <2> QED
    BY <2>3
<1>3. <<x>>[1] = x
  OBVIOUS
<1> QED
  BY <1>2, <1>3

LEMMA EntriesGrow ==
  ASSUME NEW tok, NEW in, NEW h \in Nat, ~Refused(tok, in[0][h + 1])
  PROVE  Entries(tok, in, h) \o Element(tok, in[0][h + 1]).new = Entries(tok, in, h + 1)
<1>1. PICK E : E = [q \in 1 .. h + 1 |-> Element(tok, in[0][q]).new[1]]
  OBVIOUS
<1>2. PICK S : S = {E[q] : q \in 1 .. h + 1}
  OBVIOUS
<1>3. \A q \in 1 .. h + 1 : E[q] \in S
  BY <1>2
<1>4. PICK s : s = Entries(tok, in, h) /\ s = [q \in 1 .. h |-> E[q]]
  <2>1. \A q \in 1 .. h : q \in 1 .. h + 1
    OBVIOUS
  <2>2. \A q \in 1 .. h : E[q] = Element(tok, in[0][q]).new[1]
    BY <1>1, <2>1
  <2>3. Entries(tok, in, h) = [q \in 1 .. h |-> E[q]]
    BY <2>2 DEF Entries
  <2> QED
    BY <2>3
<1>5. PICK t : t = Entries(tok, in, h + 1) /\ t = [q \in 1 .. h + 1 |-> E[q]]
  BY <1>1 DEF Entries
<1>6. PICK x \in S : x = E[h + 1]
  BY <1>3
<1>7. Element(tok, in[0][h + 1]).new = <<x>>
  <2>1. h + 1 \in 1 .. h + 1
    OBVIOUS
  <2> QED
    BY <1>1, <1>6, <2>1, NodeOne
<1>8. s \in Seq(S) /\ Len(s) = h /\ t \in Seq(S) /\ Len(t) = h + 1
  BY <1>3, <1>4, <1>5
<1>9. s \o <<x>> = t
  <2>1. s \o <<x>> \in Seq(S) /\ Len(s \o <<x>>) = h + 1
    BY <1>8
  <2>2. ASSUME NEW q \in 1 .. h + 1 PROVE (s \o <<x>>)[q] = t[q]
    <3>1. CASE q = h + 1
      BY <1>5, <1>6, <1>8, <3>1
    <3>2. CASE q # h + 1
      <4>1. q \in 1 .. h
        BY <3>2
      <4> QED
        BY <1>4, <1>5, <1>8, <4>1
    <3> QED
      BY <3>1, <3>2
  <2> QED
    BY <1>8, <2>1, <2>2
<1> QED
  BY <1>4, <1>5, <1>7, <1>9

LEMMA ElementAtIs ==
  ASSUME NEW tok, NEW n, NEW up, NEW in, Tokenized(tok, n, up, in), 0 \in 0 .. n - 1,
         NEW e, Behind(n, up, 0, e), NEW h \in Nat, h <= Len(in[0]),
         NEW s, s = ElementAt(tok, in, e, h)
  PROVE  /\ s.i >= s.ntok <=> h = Len(in[0])
         /\ h # Len(in[0]) => s.i = in[0][h + 1]
         /\ h = Len(in[0]) \/ Refused(tok, in[0][h + 1]) => ElementRound(tok, s) = s
         /\ h # Len(in[0]) /\ ~Refused(tok, in[0][h + 1]) =>
              ElementRound(tok, s) = ElementAt(tok, in, e, h + 1)
<1> DEFINE L == Len(in[0])
<1>1. Forest(n, up, in) /\ n \in Nat
  BY ForestType DEF Tokenized
<1>2. /\ L \in Nat
      /\ \A q \in 1 .. L : /\ Pos(in, 0, e, q) = in[0][q]
                           /\ Behind(n, up, Pos(in, 0, e, q), Pos(in, 0, e, q + 1))
      /\ \A q \in 1 .. L + 1 : Pos(in, 0, e, q) \in 0 .. n
  BY <1>1, PosNext
<1>3. PICK p \in 1 .. L + 1 : p = h + 1
  BY <1>2
<1>4. PICK x \in 0 .. n : x = Pos(in, 0, e, p)
  BY <1>2
<1>5. s.i = x /\ s.ntok = x + (L - h) /\ s.head = Entries(tok, in, h)
  BY <1>3, <1>4 DEF ElementAt
<1> HIDE DEF L
<1>6. h <= L /\ x \in Int /\ L \in Nat
  BY <1>1, <1>2 DEF L
<1>7. s.i >= s.ntok <=> h = L
  BY <1>5, <1>6
<1>8. h # L => p \in 1 .. L /\ x = in[0][p]
  BY <1>2, <1>3, <1>4, <1>6
<1>9. ASSUME h = L \/ Refused(tok, in[0][p]) PROVE ElementRound(tok, s) = s
  <2>1. s.i >= s.ntok \/ Refused(tok, s.i)
    BY <1>5, <1>7, <1>8, <1>9
  <2> QED
    BY <2>1 DEF ElementRound, Refused
<1>10. ASSUME h # L, ~Refused(tok, in[0][p])
       PROVE  ElementRound(tok, s) = ElementAt(tok, in, e, p)
  <2>1. ~(s.i >= s.ntok) /\ ~Refused(tok, s.i) /\ p \in 1 .. L /\ s.i = in[0][p] /\ s.i = x
    BY <1>5, <1>7, <1>8, <1>10
  <2>2. PICK w \in 0 .. n : w = Pos(in, 0, e, p + 1) /\ Behind(n, up, x, w)
    <3>1. p + 1 \in 1 .. L + 1
      BY <1>6, <2>1
    <3> QED
      BY <1>2, <1>4, <2>1, <3>1
  <2>3. PICK nt \in Int : nt = s.ntok /\ nt = x + (L - h)
    BY <1>5, <1>6
  <2>4. Skip(tok, x, nt).i = w /\ Skip(tok, x, nt).ntok = nt + (w - x - 1)
    <3>1. Behind(n, up, x, w)
      BY <2>2
    <3>2. Skip(tok, x, nt).i = w
      BY <3>1, SkipOver
    <3>3. Skip(tok, x, nt).ntok = nt + (w - x - 1)
      BY <3>1, SkipOver
    <3> QED
      BY <3>2, <3>3
  <2>5. ElementRound(tok, s) = [i |-> w, ntok |-> nt + (w - x - 1),
                                head |-> s.head \o Element(tok, x).new]
    BY <2>1, <2>3, <2>4 DEF ElementRound, Refused
  <2>6. s.head \o Element(tok, x).new = Entries(tok, in, p)
    <3>1. ~Refused(tok, x)
      BY <2>1
    <3> QED
      BY <1>3, <1>5, <2>1, <3>1, EntriesGrow
  <2>7. nt + (w - x - 1) = w + (L - p)
    <3>1. w \in Int
      BY <1>1
    <3> QED
      BY <1>3, <1>6, <2>3, <3>1
  <2>8. ElementAt(tok, in, e, p) = [i |-> w, ntok |-> w + (L - p), head |-> Entries(tok, in, p)]
    BY <2>2 DEF ElementAt, L
  <2> QED
    BY <2>5, <2>6, <2>7, <2>8
<1> QED
  BY <1>3, <1>5, <1>7, <1>8, <1>9, <1>10 DEF L

IsNodes(f, tok, m) ==
    f = [k \in 0 .. m |-> IF k = 0 THEN [i |-> 1, ntok |-> tok[0].size + 1, head |-> <<>>]
                          ELSE ElementRound(tok, f[k - 1])]

LEMMA NodesAre ==
  ASSUME NEW m \in Nat, NEW tok, m = Cardinality(DOMAIN tok), NEW f, IsNodes(f, tok, m),
         tok[0].type = "ARRAY"
  PROVE  parse_node_list(tok) = [rc |-> IF f[m].i >= f[m].ntok THEN 0 ELSE Element(tok, f[m].i).rc, head |-> f[m].head]
<1>1. PICK g : g = CHOOSE h : IsNodes(h, tok, m)
  OBVIOUS
<1>2. IsNodes(g, tok, m)
  BY <1>1
<1>3. parse_node_list(tok) = [rc |-> IF g[m].i >= g[m].ntok THEN 0 ELSE Element(tok, g[m].i).rc, head |-> g[m].head]
  BY <1>1 DEF parse_node_list, IsNodes
<1>4. f[0] = g[0] /\ \A k \in 1 .. m : f[k - 1] = g[k - 1] => f[k] = g[k]
  BY <1>2 DEF IsNodes
<1>5. /\ DOMAIN f = 0 .. m /\ f = [k \in DOMAIN f |-> f[k]]
      /\ DOMAIN g = 0 .. m /\ g = [k \in DOMAIN g |-> g[k]]
  BY <1>2 DEF IsNodes
<1>6. f = g
  BY <1>4, <1>5, SameRounds
<1> QED
  BY <1>3, <1>6

\* The first h elements are nodes, and what follows is not one.
NodesUpTo(tok, in, h) ==
    /\ h \in Nat /\ h <= Len(in[0])
    /\ \A j \in 0 .. h - 1 : ~Refused(tok, in[0][j + 1])
    /\ h = Len(in[0]) \/ Refused(tok, in[0][h + 1])

LEMMA NodesExist ==
  ASSUME NEW tok, NEW in, Len(in[0]) \in Nat
  PROVE  \E h \in Nat : NodesUpTo(tok, in, h)
<1> DEFINE S == {h \in Nat : h = Len(in[0]) \/ Refused(tok, in[0][h + 1])}
<1>1. S \in SUBSET Nat /\ Len(in[0]) \in S
  OBVIOUS
<1>2. PICK h \in S : \A j \in S : h <= j
  BY <1>1, Least
<1>3. h \in Nat /\ h <= Len(in[0])
  BY <1>1, <1>2
<1>4. ASSUME NEW j \in 0 .. h - 1, Refused(tok, in[0][j + 1]) PROVE FALSE
  <2>1. j \in S /\ ~(h <= j)
    BY <1>3, <1>4
  <2> QED
    BY <1>2, <2>1
<1> QED
  BY <1>2, <1>3, <1>4 DEF NodesUpTo

LEMMA NodesStop ==
  ASSUME NEW tok, NEW n, NEW up, NEW in, Tokenized(tok, n, up, in), 0 \in 0 .. n - 1,
         tok[0].type = "ARRAY", NEW stop, NodesUpTo(tok, in, stop)
  PROVE  parse_node_list(tok) =
           [rc |-> IF stop = Len(in[0]) THEN 0 ELSE Element(tok, in[0][stop + 1]).rc,
            head |-> Entries(tok, in, stop)]
<1>1. PICK m \in Nat : m = Cardinality(DOMAIN tok) /\ n <= m
  BY DEF Tokenized
<1>2. /\ Forest(n, up, in) /\ n \in Nat
  BY ForestType DEF Tokenized
<1>3. PICK e : Behind(n, up, 0, e)
  BY <1>2, BehindExists
<1>4. /\ Len(in[0]) \in Nat /\ Len(in[0]) <= n /\ Pos(in, 0, e, 1) = 0 + 1
      /\ tok[0].size = Len(in[0])
  BY <1>2, <1>3, PosNext DEF Tokenized, Sized
<1>5. /\ stop \in Nat /\ stop <= Len(in[0]) /\ stop <= m
      /\ \A j \in 0 .. stop - 1 : ~Refused(tok, in[0][j + 1])
      /\ stop = Len(in[0]) \/ Refused(tok, in[0][stop + 1])
  BY <1>1, <1>2, <1>4 DEF NodesUpTo
<1> DEFINE s(k) == ElementAt(tok, in, e, IF k <= stop THEN k ELSE stop)
           g == [k \in 0 .. m |-> s(k)]
<1>6. g[0] = [i |-> 1, ntok |-> tok[0].size + 1, head |-> <<>>]
  <2>1. 0 \in 0 .. m /\ 0 <= stop
    BY <1>1, <1>5
  <2>2. g[0] = ElementAt(tok, in, e, 0)
    BY <2>1
  <2>3. 0 + 1 = 1 /\ 1 + (Len(in[0]) - 0) = Len(in[0]) + 1
    BY <1>4
  <2>4. Entries(tok, in, 0) = <<>>
    BY DEF Entries
  <2>5. ElementAt(tok, in, e, 0) = [i |-> 1, ntok |-> 1 + (Len(in[0]) - 0), head |-> <<>>]
    BY <1>4, <2>3, <2>4, Zenon DEF ElementAt
  <2> HIDE DEF g
  <2> QED
    BY <1>4, <2>2, <2>3, <2>5
<1>7. ASSUME NEW k \in 1 .. m PROVE g[k] = ElementRound(tok, g[k - 1])
  <2>1. k \in 0 .. m /\ k - 1 \in 0 .. m
    OBVIOUS
  <2>2. CASE k <= stop
    <3>1. PICK h \in Nat : /\ h = k - 1 /\ h \in 0 .. stop - 1 /\ h <= stop /\ k = h + 1
                           /\ h <= Len(in[0]) /\ h # Len(in[0])
      BY <1>4, <1>5, <2>2
    <3>2. ~Refused(tok, in[0][h + 1])
      BY <1>5, <3>1
    <3>3. PICK t : t = ElementAt(tok, in, e, h)
      OBVIOUS
    <3>4. ElementRound(tok, t) = ElementAt(tok, in, e, h + 1)
      BY <1>3, <3>1, <3>2, <3>3, ElementAtIs
    <3>5. g[k - 1] = t /\ g[k] = ElementAt(tok, in, e, h + 1)
      BY <2>1, <2>2, <3>1, <3>3
    <3> HIDE DEF g
    <3> QED
      BY <3>4, <3>5
  <2>3. CASE ~(k <= stop)
    <3>1. PICK t : t = ElementAt(tok, in, e, stop)
      OBVIOUS
    <3>2. g[k] = t
      BY <2>1, <2>3, <3>1
    <3>3. g[k - 1] = t
      <4>1. k - 1 <= stop => k - 1 = stop
        BY <1>5, <2>3
      <4> QED
        BY <2>1, <3>1, <4>1
    <3>4. ElementRound(tok, t) = t
      BY <1>3, <1>5, <3>1, ElementAtIs
    <3> HIDE DEF g
    <3> QED
      BY <3>2, <3>3, <3>4
  <2> QED
    BY <2>2, <2>3
<1>8. IsNodes(g, tok, m)
  <2>1. g = [k \in 0 .. m |-> g[k]]
    OBVIOUS
  <2> HIDE DEF g
  <2>2. \A k \in 0 .. m : k # 0 => k \in 1 .. m
    OBVIOUS
  <2>3. \A k \in 0 .. m : g[k] = IF k = 0 THEN [i |-> 1, ntok |-> tok[0].size + 1, head |-> <<>>]
                                 ELSE ElementRound(tok, g[k - 1])
    BY <1>6, <1>7, <2>2
  <2> QED
    BY <2>1, <2>3 DEF IsNodes
<1>9. PICK t : t = ElementAt(tok, in, e, stop)
  OBVIOUS
<1>10. g[m] = t
  <2>1. m \in 0 .. m /\ (m <= stop => m = stop)
    BY <1>5
  <2> QED
    BY <1>9, <2>1
<1> HIDE DEF g
<1>11. parse_node_list(tok) = [rc |-> IF t.i >= t.ntok THEN 0 ELSE Element(tok, t.i).rc,
                                 head |-> t.head]
  BY <1>1, <1>8, <1>10, NodesAre
<1>12. /\ t.i >= t.ntok <=> stop = Len(in[0])
       /\ stop # Len(in[0]) => t.i = in[0][stop + 1]
  BY <1>3, <1>5, <1>9, ElementAtIs
<1>13. t.head = Entries(tok, in, stop)
  BY <1>9 DEF ElementAt
<1> QED
  BY <1>11, <1>12, <1>13

\* The list made of a complete text.
LEMMA ListIs ==
  ASSUME Accepted, Complete, Tok(0).type = "ARRAY"
  PROVE  /\ 0 \in 0 .. Len(place) - 1 /\ Len(inside[0]) \in Nat
         /\ \A q \in 1 .. Len(inside[0]) : inside[0][q] \in 0 .. Len(place) - 1
         /\ \E stop : /\ NodesUpTo(parser.tok, inside, stop)
                      /\ parse_node_list(parser.tok) =
                           [rc |-> IF stop = Len(inside[0]) THEN 0
                                   ELSE Element(parser.tok, inside[0][stop + 1]).rc,
                            head |-> Entries(parser.tok, inside, stop)]
<1>1. Len(place) \in Nat /\ Forest(Len(place), Ups, inside)
  BY TokensOfText, ForestType DEF Tokenized
<1>2. 0 \in 0 .. Len(place) - 1
  <2>1. parser.toknext = Len(place) /\ parser.toknext > 0
    BY DEF Accepted, ParseInv, Agrees, Complete
  <2> QED
    BY <1>1, <2>1
<1>3. PICK e : Behind(Len(place), Ups, 0, e)
  BY <1>1, <1>2, BehindExists
<1>4. /\ Len(inside[0]) \in Nat
      /\ \A q \in 1 .. Len(inside[0]) : inside[0][q] \in 0 .. Len(place) - 1
  BY <1>1, <1>2, <1>3, PosNext
<1>5. PICK stop : NodesUpTo(parser.tok, inside, stop)
  BY <1>4, NodesExist
<1>6. parser.tok[0].type = "ARRAY"
  BY DEF Tok
<1>7. parse_node_list(parser.tok) = [rc |-> IF stop = Len(inside[0]) THEN 0
                                             ELSE Element(parser.tok, inside[0][stop + 1]).rc,
                                     head |-> Entries(parser.tok, inside, stop)]
  BY <1>2, <1>5, <1>6, TokensOfText, NodesStop
<1> QED
  BY <1>2, <1>4, <1>5, <1>7

LEMMA EntriesAre ==
  ASSUME NEW tok, NEW in, NEW h \in Nat
  PROVE  /\ Len(Entries(tok, in, h)) = h
         /\ \A q \in 1 .. h : Entries(tok, in, h)[q] = Element(tok, in[0][q]).new[1]
<1>1. PICK S : S = {Element(tok, in[0][q]).new[1] : q \in 1 .. h}
  OBVIOUS
<1>2. PICK s : s = Entries(tok, in, h)
  OBVIOUS
<1>3. s \in [1 .. h -> S]
  BY <1>1, <1>2 DEF Entries
<1>4. Len(s) = h
  BY <1>3
<1> QED
  BY <1>2, <1>4 DEF Entries

\* parse_node_list yields the addresses of the list, whatever else their objects
\* hold, up to the first that is not one, and overruns its buffer only for a text
\* of 46 characters or more: for lists, objects and texts of any length.
THEOREM NodesParsedHolds == PSpec => []NodesParsed
<1>1. ParseInv => NodesParsed
  <2> SUFFICES ASSUME ParseInv, Complete, Tok(0).type = "ARRAY",
                      NEW in, in = inside[0],
                      NEW list, list = parse_node_list(parser.tok),
                      \A i \in 1 .. Len(in) : Tok(in[i]).type = "OBJECT" => Plain(in[i], NodeKeys)
               PROVE  Yields(list, in)
    BY DEF NodesParsed
  <2>1. Accepted
    BY DEF Accepted, Complete
  <2>2. PICK tok : tok = parser.tok
    OBVIOUS
  <2>3. PICK stop : /\ NodesUpTo(tok, inside, stop)
                    /\ list = [rc |-> IF stop = Len(in) THEN 0 ELSE Element(tok, in[stop + 1]).rc,
                               head |-> Entries(tok, inside, stop)]
    BY <2>1, <2>2, ListIs
  <2>4. Len(in) \in Nat /\ \A q \in 1 .. Len(in) : in[q] \in 0 .. Len(place) - 1
    BY <2>1, ListIs
  <2>5. /\ stop \in Nat /\ stop <= Len(in)
        /\ \A j \in 0 .. stop - 1 : ~Refused(tok, in[j + 1])
        /\ stop = Len(in) \/ Refused(tok, in[stop + 1])
    BY <2>3 DEF NodesUpTo
  <2>6. ASSUME NEW i \in 1 .. Len(in), NEW r, r = Element(tok, in[i])
        PROVE  /\ r.rc \in {0, -1, Overrun}
               /\ r.rc = 0 => Address(in[i]) = r.new /\ ~TooLong(in[i])
               /\ r.rc = -1 => Address(in[i]) = <<>>
               /\ r.rc = Overrun => TooLong(in[i])
    <3>1. PICK o \in 0 .. Len(place) - 1 : o = in[i]
      BY <2>4
    <3>2. Tok(o).type = "OBJECT" => Plain(o, NodeKeys)
      BY <3>1
    <3>3. r = Element(parser.tok, o)
      BY <2>2, <2>6, <3>1
    <3> QED
      BY <2>1, <3>1, <3>2, <3>3, AddressIs
  <2>7. Len(list.head) = stop /\ \A q \in 1 .. stop : list.head[q] = Element(tok, in[q]).new[1]
    BY <2>3, <2>5, EntriesAre
  <2>8. ASSUME NEW i \in 1 .. stop PROVE Address(in[i]) = <<list.head[i]>> /\ ~TooLong(in[i])
    <3>1. PICK j \in 0 .. stop - 1 : i = j + 1
      BY <2>5
    <3>2. ~Refused(tok, in[i]) /\ i \in 1 .. Len(in)
      BY <2>4, <2>5, <3>1
    <3>3. PICK r : r = Element(tok, in[i])
      OBVIOUS
    <3>4. r.rc = 0 /\ r.new = <<r.new[1]>>
      BY <3>2, <3>3, NodeOne DEF Refused
    <3>5. Address(in[i]) = r.new /\ ~TooLong(in[i])
      BY <2>6, <3>2, <3>3, <3>4
    <3> QED
      BY <2>7, <3>3, <3>4, <3>5
  <2>9. list.rc = IF stop = Len(in) THEN 0 ELSE Element(tok, in[stop + 1]).rc
    BY <2>3
  <2>10. CASE stop = Len(in)
    <3>1. list.rc = 0 /\ list.rc # -1 /\ list.rc # Overrun
      BY <2>9, <2>10, Outcomes
    <3> QED
      BY <2>5, <2>7, <2>8, <2>10, <3>1 DEF Yields
  <2>11. CASE stop # Len(in)
    <3>1. stop + 1 \in 1 .. Len(in) /\ stop < Len(in)
      BY <2>4, <2>5, <2>11
    <3>2. PICK r : r = Element(tok, in[stop + 1])
      OBVIOUS
    <3>3. list.rc = r.rc /\ r.rc # 0
      BY <2>5, <2>9, <2>11, <3>2 DEF Refused
    <3>4. /\ r.rc \in {0, -1, Overrun}
          /\ r.rc = -1 => Address(in[stop + 1]) = <<>>
          /\ r.rc = Overrun => TooLong(in[stop + 1])
      BY <2>6, <3>1, <3>2
    <3> QED
      BY <2>5, <2>7, <2>8, <3>1, <3>3, <3>4 DEF Yields
  <2> QED
    BY <2>10, <2>11
<1> QED
  BY <1>1, ParseInvHolds, PTL

-----------------------------------------------------------------------------
(***************************************************************************)
(* The room for a list.                                                    *)
(***************************************************************************)
\* Steps of at most ten.
LEMMA TenEach ==
  ASSUME NEW L \in Nat, NEW f, \A q \in 1 .. L + 1 : f[q] \in Int,
         f[1] = 1, \A q \in 1 .. L : f[q + 1] - f[q] <= 10
  PROVE  f[L + 1] <= 1 + 10 * L
<1> DEFINE S == {h \in Nat : h <= L /\ ~(f[h + 1] <= 1 + 10 * h)}
<1>1. CASE S = {}
  <2>1. \A h \in Nat : h \notin S
    BY <1>1, Zenon
  <2>2. L \notin S /\ L <= L
    <3> HIDE DEF S
    <3> QED
      BY <2>1
  <2> QED
    BY <2>2
<1>2. CASE S # {}
  <2>1. S \in SUBSET Nat
    OBVIOUS
  <2>2. PICK h \in S : \A j \in S : h <= j
    BY <1>2, <2>1, Least
  <2>3. h # 0
    BY <2>2
  <2>4. PICK j \in Nat : h = j + 1 /\ j <= L /\ j \notin S /\ h \in 1 .. L
    <3>1. PICK j \in Nat : h = j + 1 /\ ~(h <= j)
      BY <2>3
    <3>2. h <= L
      BY <2>2
    <3>3. j <= L /\ h \in 1 .. L
      BY <3>1, <3>2
    <3>4. j \notin S
      BY <2>2, <3>1
    <3> QED
      BY <3>1, <3>3, <3>4
  <2>5. f[h] <= 1 + 10 * j
    BY <2>4
  <2>6. f[h + 1] - f[h] <= 10 /\ f[h] \in Int /\ f[h + 1] \in Int
    BY <2>4
  <2>7. f[h + 1] <= 1 + 10 * h
    BY <2>4, <2>5, <2>6
  <2> QED
    BY <2>2, <2>7
<1> QED
  BY <1>1, <1>2

\* As many tokens as the list of nentries entries of ten tokens has.
LEMMA RoomIs ==
  ASSUME ParserType, use = "nodes"
  PROVE  nentries \in Nat /\ parser.num_tokens = 1 + 10 * nentries
<1>1. Capacity = MaxTok(nentries)
  BY DEF Capacity
<1> QED
  BY <1>1 DEF ParserType, MaxTok

\* No element of the list takes more than ten tokens.
Small(in) ==
    \A i \in 1 .. Len(in) : (IF i < Len(in) THEN in[i + 1] ELSE Len(place)) - in[i] <= 10

\* The first token is the only one outside all others.
OneTop == Len(inside[-1]) = 1 /\ inside[-1][1] = 0

\* A list that fits is not refused for want of room.
LEMMA ListFits ==
  ASSUME ParseInv, use = "nodes", parser.r = "NOMEM", OneTop,
         NEW in, in = inside[0], Len(in) <= nentries
  PROVE  ~Small(in)
<1> SUFFICES ASSUME Small(in) PROVE FALSE
  OBVIOUS
<1>1. PICK n : n = Len(place)
  OBVIOUS
<1>2. Forest(n, Ups, inside)
  BY <1>1 DEF ParseInv, Outlined
<1>3. n \in Nat /\ nentries \in Nat /\ n = 2 + 10 * nentries
  <2>1. n = parser.num_tokens + 1
    BY <1>1 DEF ParseInv
  <2>2. nentries \in Nat /\ parser.num_tokens = 1 + 10 * nentries
    BY RoomIs DEF ParseInv
  <2> QED
    BY <2>1, <2>2
<1>4. 0 \in 0 .. n - 1
  BY <1>3
<1>5. Behind(n, Ups, 0, n)
  <2>1. ASSUME NEW j \in 0 + 1 .. n - 1 PROVE 0 <= Ups[j]
    <3>1. j \in 0 .. n - 1 /\ j # 0
      BY <1>3
    <3>2. Ups[j] \in Int /\ -1 <= Ups[j]
      BY <1>2, <3>1, ForestType
    <3>3. PICK q \in 1 .. Len(inside[Ups[j]]) : inside[Ups[j]][q] = j
      BY <1>2, <3>1 DEF Forest
    <3>4. Ups[j] # -1
      <4>1. ASSUME Ups[j] = -1 PROVE FALSE
        <5>1. q \in 1 .. 1 /\ inside[-1][q] = j
          BY <3>3, <4>1 DEF OneTop
        <5>2. q = 1
          BY <5>1
        <5> QED
          BY <3>1, <5>1, <5>2 DEF OneTop
      <4> QED
        BY <4>1
    <3> QED
      BY <3>2, <3>4
  <2>2. n \in 0 + 1 .. n
    BY <1>3
  <2> QED
    BY <1>4, <2>1, <2>2 DEF Behind
<1>6. /\ Len(in) \in Nat /\ Pos(inside, 0, n, 1) = 0 + 1
      /\ \A q \in 1 .. Len(in) : Pos(inside, 0, n, q) = in[q]
      /\ \A q \in 1 .. Len(in) + 1 : Pos(inside, 0, n, q) \in 0 .. n
  BY <1>2, <1>4, <1>5, PosNext
<1>7. PICK L \in Nat : L = Len(in)
  BY <1>6
<1>8. PICK f : f = [q \in 1 .. L + 1 |-> Pos(inside, 0, n, q)]
  OBVIOUS
<1>9. \A q \in 1 .. L + 1 : f[q] = Pos(inside, 0, n, q) /\ f[q] \in Int
  BY <1>6, <1>7, <1>8
<1>10. f[1] = 1
  <2>1. 1 \in 1 .. L + 1
    OBVIOUS
  <2> QED
    BY <1>6, <1>9, <2>1
<1>11. ASSUME NEW q \in 1 .. L PROVE f[q + 1] - f[q] <= 10
  <2>1. q \in 1 .. L + 1 /\ q + 1 \in 1 .. L + 1
    OBVIOUS
  <2>2. f[q] = in[q]
    BY <1>6, <1>7, <1>9, <2>1
  <2>3. f[q + 1] = IF q < L THEN in[q + 1] ELSE n
    <3>1. f[q + 1] = IF q + 1 <= L THEN in[q + 1] ELSE n
      BY <1>7, <1>9, <2>1 DEF Pos
    <3>2. q + 1 <= L <=> q < L
      OBVIOUS
    <3> QED
      BY <3>1, <3>2
  <2> QED
    BY <1>1, <1>7, <2>2, <2>3 DEF Small
<1>12. f[L + 1] <= 1 + 10 * L
  BY <1>9, <1>10, <1>11, TenEach
<1>13. f[L + 1] = n
  <2>1. L + 1 \in 1 .. L + 1 /\ ~(L + 1 <= L)
    OBVIOUS
  <2> QED
    BY <1>7, <1>9, <2>1 DEF Pos
<1> QED
  BY <1>3, <1>7, <1>12, <1>13

\* A list is refused for want of room only if it has more than nentries entries
\* or one of more than ten tokens: for every nentries.
THEOREM RoomForEntriesHolds == PSpec => []RoomForEntries
<1>1. ParseInv => RoomForEntries
  <2> SUFFICES ASSUME ParseInv, use = "nodes" PROVE RoomForEntries
    BY DEF RoomForEntries
  <2>1. ASSUME parser.r = "NOMEM", OneTop, NEW in, in = inside[0]
        PROVE  \/ Len(in) > nentries
               \/ \E i \in 1 .. Len(in) :
                     (IF i < Len(in) THEN in[i + 1] ELSE Len(place)) - in[i] > 10
    <3>1. nentries \in Nat
      BY RoomIs DEF ParseInv
    <3>2. Forest(Len(place), Ups, inside)
      BY DEF ParseInv, Outlined
    <3>3. 0 \in -1 .. Len(place) - 1 /\ Len(place) \in Nat
      <4>1. Len(place) = parser.num_tokens + 1
        BY <2>1 DEF ParseInv
      <4>2. parser.num_tokens = 1 + 10 * nentries
        BY RoomIs DEF ParseInv
      <4> QED
        BY <3>1, <4>1, <4>2
    <3>4. /\ Len(in) \in Nat
          /\ \A q \in 1 .. Len(in) : in[q] \in Int
      BY <2>1, <3>2, <3>3, ForestType
    <3>5. ASSUME NEW i \in 1 .. Len(in)
          PROVE  (IF i < Len(in) THEN in[i + 1] ELSE Len(place)) - in[i] \in Int
      <4>1. i < Len(in) => i + 1 \in 1 .. Len(in)
        BY <3>4
      <4> QED
        BY <3>3, <3>4, <4>1
    <3>6. CASE Len(in) <= nentries
      <4>1. PICK i \in 1 .. Len(in) :
               ~((IF i < Len(in) THEN in[i + 1] ELSE Len(place)) - in[i] <= 10)
        BY <2>1, <3>6, ListFits DEF Small
      <4>2. \A d \in Int : ~(d <= 10) => d > 10
        OBVIOUS
      <4> QED
        BY <3>5, <4>1, <4>2
    <3>7. CASE ~(Len(in) <= nentries)
      BY <3>1, <3>4, <3>7
    <3> QED
      BY <3>6, <3>7
  <2>2. inside[-1] = <<0>> => OneTop
    BY DEF OneTop
  <2> QED
    BY <2>1, <2>2 DEF RoomForEntries
<1> QED
  BY <1>1, ParseInvHolds, PTL
=============================================================================
