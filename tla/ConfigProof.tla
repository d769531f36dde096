---------------------------- MODULE ConfigProof ----------------------------
(***************************************************************************)
(* Proofs about a daemon's settings, for every file, every command line    *)
(* and every width of an int.                                              *)
(***************************************************************************)
EXTENDS Config, WellFoundedInduction, TLAPS

-----------------------------------------------------------------------------
(***************************************************************************)
(* The least and the greatest number of a set.                             *)
(***************************************************************************)
LEMMA Least ==
  ASSUME NEW S \in SUBSET Nat, S # {}
  PROVE  \E m \in S : \A y \in S : m <= y
<1>1. PICK m \in S : \A y \in S : ~(<<y, m>> \in OpToRel(<, Nat))
  BY WFMin, NatLessThanWellFounded, Zenon
<1>2. \A y \in S : ~(y < m)
  BY <1>1 DEF OpToRel
<1> QED
  BY <1>2

\* A set of numbers up to n has a greatest one, and Max picks it.
LEMMA Greatest ==
  ASSUME NEW n \in Nat, NEW S \in SUBSET (0 .. n), S # {}
  PROVE  /\ Max(S) \in S
         /\ \A y \in S : Max(S) >= y
<1> DEFINE T == {n - x : x \in S}
<1>0. \A x \in S : n - x \in Nat
  OBVIOUS
<1>a. PICK x \in S : TRUE
  OBVIOUS
<1>1. T \in SUBSET Nat /\ T # {}
  <2>1. n - x \in T
    OBVIOUS
  <2> QED
    BY <1>0, <2>1
<1>2. PICK m \in T : \A y \in T : m <= y
  BY <1>1, Least
<1>3. PICK g \in S : m = n - g
  OBVIOUS
<1>4. \A y \in S : g >= y
  <2> SUFFICES ASSUME NEW y \in S PROVE g >= y
    OBVIOUS
  <2>1. n - y \in T
    OBVIOUS
  <2> HIDE DEF T
  <2>2. n - g <= n - y
    BY <1>2, <1>3, <2>1
  <2> QED
    BY <2>2
<1> QED
  BY <1>4 DEF Max

-----------------------------------------------------------------------------
(***************************************************************************)
(* The conversion to an int.                                               *)
(***************************************************************************)
LEMMA Halves ==
  /\ INT \div 2 \in Nat /\ INT = 2 * (INT \div 2) /\ INT \div 2 > 1 /\ INT \in Nat
BY ConfigAssumption

\* A number between 0 and the modulus is its own remainder.
LEMMA Remainder ==
  ASSUME NEW m \in Nat, m > 0, NEW n \in 0 .. m - 1
  PROVE  n % m = n
OBVIOUS

LEMMA Int32Facts ==
  /\ \A n \in Int : Int32(n) \in Int
  /\ Int32(0) = 0
  /\ Int32(INT \div 2 - 1) = INT \div 2 - 1
<1>1. \A n \in Int : Int32(n) \in Int
  BY Halves DEF Int32
<1>2. Int32(0) = 0
  <2>1. (0 + INT \div 2) % INT = INT \div 2
    BY Halves, Remainder
  <2> QED
    BY <2>1, Halves DEF Int32
<1>3. Int32(INT \div 2 - 1) = INT \div 2 - 1
  <2>1. INT \div 2 - 1 + INT \div 2 = INT - 1
    BY Halves
  <2>2. (INT - 1) % INT = INT - 1
    BY Halves, Remainder
  <2> QED
    BY <2>1, <2>2, Halves DEF Int32
<1> QED
  BY <1>1, <1>2, <1>3

\* Division with remainder, and that the remainder is determined.
LEMMA Division ==
  ASSUME NEW a \in Int, NEW b \in Nat, b > 0
  PROVE  a = b * (a \div b) + (a % b) /\ a % b \in 0 .. b - 1 /\ a \div b \in Int
OBVIOUS

LEMMA OneRemainder ==
  ASSUME NEW p \in Nat, p > 0, NEW q \in Int, NEW t \in Int,
         NEW r \in 0 .. p - 1, NEW s \in 0 .. p - 1, p * q + r = p * t + s
  PROVE  r = s
<1>1. p * (q - t) = s - r
  OBVIOUS
<1>2. CASE q - t >= 1
  <2>1. p * (q - t) >= p
    BY <1>2
  <2> QED
    BY <1>1, <2>1
<1>3. CASE q - t <= -1
  <2>1. p * (q - t) <= -p
    BY <1>3
  <2> QED
    BY <1>1, <2>1
<1>4. CASE q = t
  BY <1>1, <1>4
<1> QED
  BY <1>2, <1>3, <1>4

\* Multiples of p do not change the remainder.
LEMMA SameRemainder ==
  ASSUME NEW p \in Nat, p > 0, NEW n \in Int, NEW m \in Int
  PROVE  (n + p * m) % p = n % p
<1>1. n = p * (n \div p) + (n % p) /\ n % p \in 0 .. p - 1 /\ n \div p \in Int
  BY Division
<1> DEFINE z == n + p * m
<1>2. z \in Int
  OBVIOUS
<1>3. z = p * (z \div p) + (z % p) /\ z % p \in 0 .. p - 1 /\ z \div p \in Int
  BY <1>2, Division
<1> HIDE DEF z
<1>4. PICK d \in Int : d = n \div p
  BY <1>1
<1>5. PICK e \in Int : e = z \div p
  BY <1>3
<1>6. PICK r \in 0 .. p - 1 : r = n % p
  BY <1>1
<1>7. PICK s \in 0 .. p - 1 : s = z % p
  BY <1>3
<1>8. n = p * d + r /\ z = p * e + s
  BY <1>1, <1>3, <1>4, <1>5, <1>6, <1>7
<1>9. z = n + p * m
  BY DEF z
<1>10. p * (d + m) = p * d + p * m
  OBVIOUS
<1>11. p * (d + m) + r = p * e + s
  <2>1. PICK u \in Int : u = p * d
    OBVIOUS
  <2>2. PICK v \in Int : v = p * m
    OBVIOUS
  <2>3. PICK w \in Int : w = p * e
    OBVIOUS
  <2> QED
    BY <1>8, <1>9, <1>10, <2>1, <2>2, <2>3
<1>12. r = s
  BY <1>11, OneRemainder
<1> QED
  BY <1>6, <1>7, <1>12 DEF z

\* An int keeps the lower bits of a number: it is the same in_port_t.
LEMMA SamePort ==
  ASSUME NEW n \in Int
  PROVE  Int32(n) % PORT = n % PORT
<1> DEFINE h == INT \div 2
          z == n + h
          k == INT \div PORT
<1>1. h \in Int /\ z \in Int /\ INT \in Nat /\ INT > 0 /\ PORT \in Nat /\ PORT > 0
  BY Halves, ConfigAssumption
<1>2. z = INT * (z \div INT) + (z % INT) /\ z \div INT \in Int /\ z % INT \in Int
  BY <1>1, Division
<1>3. INT = PORT * k /\ k \in Int
  <2>1. INT = PORT * k + (INT % PORT) /\ k \in Int
    BY <1>1, Division
  <2>2. INT % PORT = 0
    BY ConfigAssumption
  <2>3. PORT * k \in Int
    BY <1>1, <2>1
  <2> QED
    BY <2>1, <2>2, <2>3
<1>4. Int32(n) = (z % INT) - h
  BY DEF Int32
<1>5. z = n + h
  OBVIOUS
<1> HIDE DEF h, z, k
<1>6. PICK q \in Int : q = z \div INT
  BY <1>2
<1>7. PICK r \in Int : r = z % INT
  BY <1>2
<1>8. n + h = INT * q + r /\ Int32(n) = r - h
  BY <1>2, <1>4, <1>5, <1>6, <1>7
<1>9. INT * q = PORT * (k * q)
  BY <1>1, <1>3
<1>10. PORT * (0 - (k * q)) = 0 - (PORT * (k * q))
  BY <1>1, <1>3
<1>11. PICK u \in Int : u = PORT * (k * q)
  BY <1>1, <1>3
<1>12. Int32(n) = n + PORT * (0 - (k * q))
  <2>1. n + h = u + r
    BY <1>8, <1>9, <1>11
  <2>2. Int32(n) = n - u
    BY <1>1, <1>8, <2>1
  <2>3. PORT * (0 - (k * q)) = 0 - u
    BY <1>10, <1>11
  <2> QED
    BY <2>2, <2>3
<1>13. PICK m \in Int : m = 0 - (k * q)
  BY <1>3
<1>14. (n + PORT * m) % PORT = n % PORT
  BY <1>1, SameRemainder
<1> QED
  BY <1>12, <1>13, <1>14

-----------------------------------------------------------------------------
(***************************************************************************)
(* Types, and what one line or one option does to the settings.            *)
(***************************************************************************)
OptionType == [name : STRING, text : Text]

Setting == Numeric \cup {"directory-address"}

GTypeOK ==
    /\ daemon \in {"Tracker", "Router"}
    /\ stage \in {"file", "options", "serving", "exited"}
    /\ settings \in [Setting -> Text]
    /\ lines \in Seq(LineType)
    /\ given \in Seq(OptionType)
    /\ error \in Nat

\* The setting that a text for o is stored as.
Stored(o, text) == IF o = "max-threads" THEN Plain(Int32(text.num)) ELSE text

LEMMA LineFacts ==
  ASSUME NEW l \in LineType
  PROVE  /\ l.kind \in {"comment", "open", "section", "pair", "text"}
         /\ l.indent \in BOOLEAN
         /\ l.kind \in {"pair", "text"} => l.text \in Text
BY DEF LineType

LEMMA TextFacts ==
  /\ Word \in Text
  /\ \A n \in Int : Plain(n) \in Text
  /\ \A x \in Text : x.num \in Int /\ x.rest \in BOOLEAN
BY DEF Text, Word, Plain

LEMMA StoredType ==
  ASSUME NEW o, NEW x \in Text
  PROVE  Stored(o, x) \in Text
BY TextFacts, Int32Facts DEF Stored

LEMMA SetFacts ==
  ASSUME GTypeOK, NEW o \in Setting, NEW x \in Text
  PROVE  /\ Set(o, x) \in [Setting -> Text]
         /\ \A p \in Setting : Set(o, x)[p] = IF p = o THEN Stored(o, x) ELSE settings[p]
<1>1. Set(o, x) = [settings EXCEPT ![o] = Stored(o, x)]
  BY DEF Set, Stored
<1> QED
  BY <1>1, StoredType DEF GTypeOK

LEMMA KnownSettings ==
  ASSUME GTypeOK
  PROVE  Known \subseteq Setting /\ "" \notin Known
BY DEF Known, Setting, Numeric

\* ini_handler changes one setting, in the daemon's section, and not to 0.
LEMMA HandlerFacts ==
  ASSUME GTypeOK, NEW name, NEW x \in Text, ini_handler(name, x)
  PROVE  /\ settings' \in [Setting -> Text]
         /\ \A o \in Setting :
               settings'[o] = IF /\ section = daemon /\ o \in Known /\ name = o
                                 /\ o \in Numeric => Int32(x.num) # 0
                              THEN Stored(o, x) ELSE settings[o]
<1>1. CASE section # daemon \/ name \notin Known \/ (name \in Numeric /\ Int32(x.num) = 0)
  BY <1>1 DEF ini_handler, GTypeOK
<1>2. CASE ~(section # daemon \/ name \notin Known \/ (name \in Numeric /\ Int32(x.num) = 0))
  <2>1. settings' = Set(name, x) /\ name \in Setting
    BY <1>2, KnownSettings DEF ini_handler
  <2> QED
    BY <1>2, <2>1, SetFacts
<1> QED
  BY <1>1, <1>2

\* What a line gives a value to, and the value.
Given(l) == IF Continuation(l) THEN prev_name ELSE IF l.kind = "pair" THEN l.name ELSE ""

Value(l) == IF Continuation(l) /\ l.kind # "text" THEN Word ELSE l.text

LEMMA LineStep ==
  ASSUME GTypeOK, NEW l \in Line, ini_parse_file(l)
  PROVE  /\ settings' \in [Setting -> Text]
         /\ \A o \in Setting :
               settings'[o] = IF /\ section = daemon /\ o \in Known /\ Given(l) = o
                                 /\ o \in Numeric => Int32(Value(l).num) # 0
                              THEN Stored(o, Value(l)) ELSE settings[o]
         /\ section' = IF l.kind = "section" /\ ~Continuation(l) THEN l.name ELSE section
         /\ prev_name' = IF Continuation(l) THEN prev_name
                         ELSE IF l.kind = "pair" THEN l.name
                         ELSE IF l.kind = "section" THEN "" ELSE prev_name
         /\ error' = IF l.kind \in {"open", "text"} /\ ~Continuation(l) /\ error = 0
                     THEN Len(lines) + 1 ELSE error
         /\ stage = "file" /\ lines' = Append(lines, l) /\ l \in LineType
         /\ UNCHANGED <<daemon, stage, given>>
<1>1. /\ l \in LineType /\ stage = "file" /\ lines' = Append(lines, l)
      /\ UNCHANGED <<daemon, stage, given>>
      /\ SectionLine(l) \/ PairLine(l) \/ BadLine(l) \/ ContinuedLine(l) \/ CommentLine(l)
  BY ConfigAssumption DEF ini_parse_file
<1>2. \A o \in Setting : o \in Known => o # ""
  BY KnownSettings
<1>a. settings \in [Setting -> Text]
  BY DEF GTypeOK
<1>3. CASE SectionLine(l)
  BY <1>1, <1>2, <1>3, <1>a DEF SectionLine, Given
<1>4. CASE PairLine(l)
  <2>1. Value(l) = l.text /\ l.text \in Text /\ Given(l) = l.name
    BY <1>1, <1>4, LineFacts DEF PairLine, Value, Given
  <2>2. ini_handler(l.name, l.text)
    BY <1>4 DEF PairLine
  <2> QED
    BY <1>1, <1>4, <2>1, <2>2, HandlerFacts DEF PairLine
<1>5. CASE BadLine(l)
  BY <1>1, <1>2, <1>5, <1>a DEF BadLine, FirstError, Given
<1>6. CASE ContinuedLine(l)
  <2>1. Value(l) \in Text /\ Given(l) = prev_name
    BY <1>1, <1>6, LineFacts, TextFacts DEF ContinuedLine, Value, Given
  <2>2. ini_handler(prev_name, Value(l))
    BY <1>6 DEF ContinuedLine, Value
  <2> QED
    BY <1>1, <1>6, <2>1, <2>2, HandlerFacts DEF ContinuedLine
<1>7. CASE CommentLine(l)
  BY <1>1, <1>2, <1>7, <1>a DEF CommentLine, Given, Continuation
<1> QED
  BY <1>1, <1>3, <1>4, <1>5, <1>6, <1>7

LEMMA OptionStep ==
  ASSUME GTypeOK, NEW x \in Option, parse_opts(x)
  PROVE  /\ settings' \in [Setting -> Text] /\ x \in OptionType /\ x.text \in Text
         /\ \A o \in Setting :
               settings'[o] = IF o \in Known /\ o = x.name THEN Stored(o, x.text) ELSE settings[o]
         /\ stage' = IF x.name \in Known /\ Refused(x) THEN "exited" ELSE "options"
         /\ stage = "options" /\ given' = Append(given, x)
         /\ UNCHANGED <<daemon, registered, lines, error>>
<1>1. x \in OptionType /\ x.text \in Text
  BY ConfigAssumption DEF OptionType
<1>2. CASE x.name \in Known
  <2>1. x.name \in Setting /\ settings' = Set(x.name, x.text)
    BY <1>2, KnownSettings DEF parse_opts
  <2> QED
    BY <1>1, <1>2, <2>1, SetFacts, SMTT(20) DEF parse_opts
<1>3. CASE x.name \notin Known
  BY <1>1, <1>3 DEF parse_opts, GTypeOK
<1> QED
  BY <1>2, <1>3

LEMMA GTypeInit == GInit => GTypeOK
<1> SUFFICES ASSUME GInit PROVE GTypeOK
  OBVIOUS
<1>1. Plain(INT \div 2 - 1) \in Text /\ Plain(1) \in Text /\ Word \in Text
  BY TextFacts, Halves
<1>2. Defaults \in [Setting -> Text]
  BY <1>1 DEF Defaults, Setting
<1>3. <<>> \in Seq(LineType) /\ <<>> \in Seq(OptionType)
  OBVIOUS
<1> QED
  BY <1>2, <1>3 DEF GInit, GTypeOK

LEMMA GTypeStep == GTypeOK /\ [GNext]_gvars => GTypeOK'
<1> SUFFICES ASSUME GTypeOK, [GNext]_gvars PROVE GTypeOK'
  OBVIOUS
<1>1. ASSUME NEW l \in Line, ini_parse_file(l) PROVE GTypeOK'
  <2>0. lines' = Append(lines, l) /\ l \in LineType
    BY <1>1, LineStep
  <2>a. lines \in Seq(LineType) /\ error \in Nat
    BY DEF GTypeOK
  <2>1. lines' \in Seq(LineType)
    BY <2>0, <2>a
  <2>b. Len(lines) \in Nat
    BY <2>a
  <2>c. error' = Len(lines) + 1 \/ error' = error
    BY <1>1, LineStep
  <2>2. error' \in Nat
    BY <2>a, <2>b, <2>c
  <2> QED
    BY <1>1, <2>1, <2>2, LineStep DEF GTypeOK
<1>2. ASSUME NEW x \in Option, parse_opts(x) PROVE GTypeOK'
  <2>0. given' = Append(given, x) /\ x \in OptionType
    BY <1>2, OptionStep
  <2>a. given \in Seq(OptionType)
    BY DEF GTypeOK
  <2>1. given' \in Seq(OptionType)
    BY <2>0, <2>a
  <2> QED
    BY <1>2, <2>1, OptionStep DEF GTypeOK
<1>3. CASE EndOfFile \/ Serve \/ UNCHANGED gvars
  BY <1>3 DEF EndOfFile, Serve, gvars, GTypeOK
<1> QED
  BY <1>1, <1>2, <1>3 DEF GNext

-----------------------------------------------------------------------------
(***************************************************************************)
(* Usable settings.  No step but a refused option, which ends the program, *)
(* stores a number that is 0.                                              *)
(***************************************************************************)
Sound(o) ==
    /\ settings[o].num # 0
    /\ Options(o) # {} => settings[o].num > 0 /\ IsNumber(settings[o])

UsableInv ==
    /\ stage = "file" => given = <<>>
    /\ stage # "exited" => \A o \in Known \cap Numeric : Sound(o)

\* Nothing is registered before main is done with the settings, and then
\* what the setting is as a port.
Registers ==
    /\ stage \in {"file", "options"} => registered = 0
    /\ registered # 0 => registered = Listening

LEMMA StoredNonzero ==
  ASSUME NEW o \in Numeric, NEW x \in Text, Int32(x.num) # 0
  PROVE  Stored(o, x).num # 0
BY Int32Facts, TextFacts DEF Stored, Plain

LEMMA AcceptedPositive ==
  ASSUME NEW x \in OptionType, x.text \in Text, x.name \in Numeric, ~Refused(x)
  PROVE  Stored(x.name, x.text).num > 0 /\ IsNumber(Stored(x.name, x.text))
BY TextFacts, Int32Facts DEF Refused, Stored, Plain, IsNumber

LEMMA UsableStep == GTypeOK /\ UsableInv /\ [GNext]_gvars => UsableInv'
<1> SUFFICES ASSUME GTypeOK, UsableInv, [GNext]_gvars PROVE UsableInv'
  OBVIOUS
<1>0. \A o \in Known : o \in Setting
  BY KnownSettings
<1>1. ASSUME NEW l \in Line, ini_parse_file(l) PROVE UsableInv'
  <2>1. given' = <<>> /\ stage' = stage /\ daemon' = daemon /\ stage = "file"
    BY <1>1, LineStep DEF UsableInv
  <2>2. ASSUME NEW o \in Known \cap Numeric PROVE settings'[o].num # 0
    <3>1. settings[o].num # 0
      BY <2>1 DEF UsableInv, Sound
    <3>2. CASE Given(l) = o /\ section = daemon /\ Int32(Value(l).num) # 0
      <4>1. Value(l) \in Text
        BY <1>1, <3>2, LineStep, LineFacts, TextFacts, KnownSettings DEF Given, Value
      <4>2. settings'[o] = Stored(o, Value(l))
        BY <1>0, <1>1, <3>2, LineStep
      <4> QED
        BY <3>2, <4>1, <4>2, StoredNonzero
    <3>3. CASE ~(Given(l) = o /\ section = daemon /\ Int32(Value(l).num) # 0)
      <4>1. settings'[o] = settings[o]
        BY <1>0, <1>1, <3>3, LineStep
      <4> QED
        BY <3>1, <4>1
    <3> QED
      BY <3>2, <3>3
  <2>3. \A o : Options(o)' = {}
    BY <2>1 DEF Options
  <2>4. Known' = Known
    BY <2>1 DEF Known
  <2> QED
    BY <2>1, <2>2, <2>3, <2>4 DEF UsableInv, Sound
<1>2. ASSUME NEW x \in Option, parse_opts(x) PROVE UsableInv'
  <2>1. stage = "options" /\ daemon' = daemon /\ stage' # "file" /\ given' = Append(given, x)
    BY <1>2, OptionStep
  <2>2. Known' = Known
    BY <2>1 DEF Known
  <2>3. ASSUME stage' # "exited", NEW o \in Known \cap Numeric PROVE Sound(o)'
    <3>1. CASE x.name = o
      <4>1. settings'[o] = Stored(o, x.text) /\ ~Refused(x)
        BY <1>0, <1>2, <2>3, <3>1, OptionStep
      <4>2. settings'[o].num > 0 /\ IsNumber(settings'[o]) /\ settings'[o].num \in Int
        BY <1>2, <3>1, <4>1, OptionStep, AcceptedPositive, StoredType, TextFacts
      <4> QED
        BY <4>2 DEF Sound, IsNumber
    <3>2. CASE x.name # o
      <4>1. settings'[o] = settings[o]
        BY <1>0, <1>2, <3>2, OptionStep
      <4>2. Options(o)' = Options(o)
        <5>1. given \in Seq(OptionType)
          BY DEF GTypeOK
        <5> QED
          BY <2>1, <3>2, <5>1 DEF Options
      <4>3. Sound(o)
        BY <2>1 DEF UsableInv
      <4> QED
        BY <4>1, <4>2, <4>3 DEF Sound, IsNumber
    <3> QED
      BY <3>1, <3>2
  <2> QED
    BY <2>1, <2>2, <2>3 DEF UsableInv
<1>3. CASE EndOfFile \/ Serve \/ UNCHANGED gvars
  <2>1. UNCHANGED <<settings, given, daemon>> /\ (stage' = "file" => stage = "file") /\ (stage = "exited" => stage' = "exited")
    BY <1>3 DEF EndOfFile, Serve, gvars
  <2>2. Known' = Known /\ \A o : Options(o)' = Options(o)
    BY <2>1 DEF Known, Options
  <2> QED
    BY <2>1, <2>2 DEF UsableInv, Sound, IsNumber
<1> QED
  BY <1>1, <1>2, <1>3 DEF GNext

LEMMA UsableInit == GInit => UsableInv
<1> SUFFICES ASSUME GInit PROVE UsableInv
  OBVIOUS
<1>0. given = <<>>
  BY DEF GInit
<1>1. \A o : Options(o) = {}
  <2>1. Len(given) = 0
    BY <1>0
  <2>2. 1 .. Len(given) = {}
    BY <2>1
  <2> QED
    BY <2>2 DEF Options
<1>2. \A o \in Numeric : Defaults[o].num # 0
  BY Halves DEF Defaults, Plain, Numeric
<1> QED
  BY <1>1, <1>2 DEF GInit, UsableInv, Sound

LEMMA RegistersStep == GTypeOK /\ Registers /\ [GNext]_gvars => Registers'
<1> SUFFICES ASSUME GTypeOK, Registers, [GNext]_gvars PROVE Registers'
  OBVIOUS
<1>1. CASE (\E l \in Line : ini_parse_file(l)) \/ (\E x \in Option : parse_opts(x)) \/ EndOfFile
  <2>1. stage \in {"file", "options"} /\ registered' = registered
    BY <1>1 DEF ini_parse_file, parse_opts, EndOfFile
  <2> QED
    BY <2>1 DEF Registers
<1>2. CASE Serve
  <2>1. /\ stage = "options" /\ stage' \in {"serving", "exited"} /\ settings' = settings
        /\ registered' \in {registered, 0, Int32(settings["listen-port"].num) % PORT}
    BY <1>2 DEF Serve, router_init
  <2>2. settings["listen-port"].num \in Int
    BY TextFacts DEF GTypeOK, Setting, Numeric
  <2>3. Int32(settings["listen-port"].num) % PORT = Listening
    BY <2>2, SamePort DEF Listening
  <2>4. registered' # 0 => registered' = Listening
    BY <2>1, <2>3 DEF Registers
  <2> QED
    BY <2>1, <2>4 DEF Registers, Listening
<1>3. CASE UNCHANGED gvars
  BY <1>3 DEF gvars, Registers, Listening
<1> QED
  BY <1>1, <1>2, <1>3 DEF GNext

(***************************************************************************)
(* Whatever psnetrc and the command line say, a daemon does not serve with *)
(* max-threads 0, an option given is a positive number, and a router tells *)
(* the tracker of no port it does not listen on, for every width of an int *)
(* and every number of ports that divides it.                              *)
(***************************************************************************)
THEOREM UsableHolds == GSpec => []Usable
<1>1. GTypeOK /\ UsableInv /\ Registers => Usable
  <2> SUFFICES ASSUME GTypeOK, UsableInv, Registers, stage = "serving"
               PROVE  /\ settings["max-threads"].num # 0
                      /\ \A o \in Known \cap Numeric :
                            Options(o) # {} => settings[o].num > 0 /\ IsNumber(settings[o])
                      /\ registered # 0 => registered = Listening
    BY DEF Usable
  <2>1. "max-threads" \in Known \cap Numeric
    BY DEF Known, Numeric
  <2> QED
    BY <2>1 DEF UsableInv, Sound, Registers
<1>2. GInit => Registers
  BY DEF GInit, Registers
<1> QED
  BY <1>1, <1>2, UsableInit, GTypeInit, GTypeStep, UsableStep, RegistersStep, PTL DEF GSpec

-----------------------------------------------------------------------------
(***************************************************************************)
(* The reported error.                                                     *)
(***************************************************************************)
\* The lines of a file q that ini_parse_file may object to, and must.
Bad(q) == {i \in 1 .. Len(q) : q[i].kind \in {"open", "text"}}

Certain(q) == {i \in Bad(q) : ~q[i].indent}

ErrorInv ==
    /\ error # 0 => error \in Bad(lines)
    /\ \A c \in Certain(lines) : error \in 1 .. c

LEMMA BadAppend ==
  ASSUME NEW q \in Seq(LineType), NEW l \in LineType
  PROVE  /\ Len(q) \in Nat /\ Len(Append(q, l)) = Len(q) + 1
         /\ Append(q, l)[Len(q) + 1] = l
         /\ \A i \in 1 .. Len(q) : Append(q, l)[i] = q[i]
OBVIOUS

LEMMA ErrorStep == GTypeOK /\ ErrorInv /\ [GNext]_gvars => ErrorInv'
<1> SUFFICES ASSUME GTypeOK, ErrorInv, [GNext]_gvars PROVE ErrorInv'
  OBVIOUS
<1>1. ASSUME NEW l \in Line, ini_parse_file(l) PROVE ErrorInv'
  <2> DEFINE n == Len(lines)
  <2>1. lines \in Seq(LineType) /\ error \in Nat
    BY DEF GTypeOK
  <2>2. l \in LineType /\ lines' = Append(lines, l)
    BY <1>1, LineStep
  <2>3. /\ n \in Nat /\ Len(lines') = n + 1 /\ lines'[n + 1] = l
        /\ \A i \in 1 .. n : lines'[i] = lines[i]
    BY <2>1, <2>2, BadAppend
  <2>4. error' = IF l.kind \in {"open", "text"} /\ ~Continuation(l) /\ error = 0
                 THEN n + 1 ELSE error
    BY <1>1, LineStep
  <2>5. Bad(lines') = Bad(lines) \cup {i \in {n + 1} : l.kind \in {"open", "text"}}
    BY <2>3 DEF Bad
  <2>6. Bad(lines) \subseteq 1 .. n
    BY DEF Bad
  <2>7. \A i \in Bad(lines) : i \in Certain(lines) <=> i \in Certain(lines')
    BY <2>3, <2>5, <2>6 DEF Certain
  <2>8. n + 1 \in Certain(lines') => l.kind \in {"open", "text"} /\ ~Continuation(l)
    <3> SUFFICES ASSUME n + 1 \in Certain(lines')
                 PROVE  l.kind \in {"open", "text"} /\ ~Continuation(l)
      OBVIOUS
    <3>1. n + 1 \in Bad(lines') /\ ~lines'[n + 1].indent
      BY DEF Certain
    <3>2. n + 1 \notin 1 .. n
      BY <2>3
    <3> QED
      BY <2>3, <2>5, <2>6, <3>1, <3>2 DEF Continuation
  <2>9. error = 0 => Certain(lines) = {}
    BY DEF ErrorInv
  <2> HIDE DEF n
  <2>10. error' # 0 => error' \in Bad(lines')
    BY <2>4, <2>5 DEF ErrorInv
  <2>11. ASSUME NEW c \in Certain(lines') PROVE error' \in 1 .. c
    <3>1. c \in Bad(lines) \/ c = n + 1
      BY <2>5 DEF Certain
    <3>2. CASE c \in Bad(lines)
      <4>1. c \in Certain(lines) /\ error # 0
        BY <2>7, <2>9, <3>2
      <4>2. error' = error
        BY <2>4, <4>1
      <4> QED
        BY <4>1, <4>2 DEF ErrorInv
    <3>3. CASE c = n + 1
      <4>1. CASE error = 0
        <5>1. error' = n + 1
          BY <2>4, <2>8, <3>3, <4>1
        <5> QED
          BY <2>3, <3>3, <5>1
      <4>2. CASE error # 0
        <5>1. error' = error /\ error \in 1 .. n
          BY <2>4, <2>6, <4>2 DEF ErrorInv
        <5> QED
          BY <2>3, <3>3, <5>1
      <4> QED
        BY <4>1, <4>2
    <3> QED
      BY <3>1, <3>2, <3>3
  <2> QED
    BY <2>10, <2>11 DEF ErrorInv
<1>2. ASSUME NEW x \in Option, parse_opts(x) PROVE ErrorInv'
  BY <1>2, OptionStep DEF ErrorInv
<1>3. CASE EndOfFile \/ Serve \/ UNCHANGED gvars
  BY <1>3 DEF EndOfFile, Serve, gvars, ErrorInv
<1> QED
  BY <1>1, <1>2, <1>3 DEF GNext

(***************************************************************************)
(* For every psnetrc: the line ini_parse_file reports is bad, and no line  *)
(* that is bad whatever comes before it stands above it.                   *)
(***************************************************************************)
THEOREM ErrorIsFirstHolds == GSpec => []ErrorIsFirst
<1>1. GInit => ErrorInv
  <2> SUFFICES ASSUME GInit PROVE ErrorInv
    OBVIOUS
  <2>0. lines = <<>> /\ error = 0
    BY DEF GInit
  <2>1. Len(lines) = 0
    BY <2>0
  <2>2. 1 .. Len(lines) = {}
    BY <2>1
  <2> QED
    BY <2>0, <2>2 DEF ErrorInv, Bad, Certain
<1>2. GTypeOK /\ ErrorInv => ErrorIsFirst
  <2> SUFFICES ASSUME GTypeOK, ErrorInv PROVE ErrorIsFirst
    OBVIOUS
  <2>1. ASSUME Certain(lines) # {} PROVE error \in 1 .. Min(Certain(lines))
    <3>1. Certain(lines) \in SUBSET Nat
      BY DEF Certain, Bad
    <3>2. \E m \in Certain(lines) : \A y \in Certain(lines) : m <= y
      BY <2>1, <3>1, Least
    <3>3. Min(Certain(lines)) \in Certain(lines)
      BY <3>2 DEF Min
    <3> QED
      BY <3>3 DEF ErrorInv
  <2> QED
    BY <2>1 DEF ErrorIsFirst, ErrorInv, Bad, Certain
<1> QED
  BY <1>1, <1>2, GTypeInit, GTypeStep, ErrorStep, PTL DEF GSpec

-----------------------------------------------------------------------------
(***************************************************************************)
(* The last value counts.  LastOf, Tidy, NameOf and Setters are restated   *)
(* for any sequence q of lines, so that they can be compared before and    *)
(* after a line is read.                                                   *)
(***************************************************************************)
Before(q, kind, i) == {0} \cup {j \in 1 .. i - 1 : q[j].kind = kind}

LastIn(q, kind, i) == Max(Before(q, kind, i))

TidyIn(q) == \A i \in 1 .. Len(q) : q[i].indent => q[i].kind = "text"

NameIn(q, i) ==
    LET p == LastIn(q, "pair", i)
    IN  CASE q[i].kind = "pair" -> q[i].name
          [] q[i].kind = "text" /\ q[i].indent /\ p > LastIn(q, "section", i) -> q[p].name
          [] OTHER -> ""

\* Line i of q, in the section of d, sets o.
Sets(q, d, o, i) ==
    /\ NameIn(q, i) = o
    /\ LET s == LastIn(q, "section", i) IN s # 0 /\ q[s].name = d
    /\ o \in Numeric => Int32(q[i].text.num) # 0

SettersIn(q, d, o) == {i \in 1 .. Len(q) : Sets(q, d, o, i)}

LEMMA SameDefinitions ==
  /\ Tidy = TidyIn(lines)
  /\ \A o : Setters(o) = SettersIn(lines, daemon, o)
  /\ \A o : Setters(o)' = SettersIn(lines', daemon', o)
BY DEF Tidy, TidyIn, Setters, SettersIn, Sets, NameOf, NameIn, LastOf, LastIn, Before

LEMMA LastFacts ==
  ASSUME NEW q, NEW kind, NEW i \in Nat, i > 0
  PROVE  /\ LastIn(q, kind, i) \in 0 .. i - 1
         /\ LastIn(q, kind, i) # 0 => q[LastIn(q, kind, i)].kind = kind
<1>1. Before(q, kind, i) \in SUBSET (0 .. i - 1) /\ Before(q, kind, i) # {} /\ i - 1 \in Nat
  BY DEF Before
<1>2. Max(Before(q, kind, i)) \in Before(q, kind, i)
  BY <1>1, Greatest
<1> QED
  BY <1>1, <1>2 DEF LastIn, Before

\* A greatest member is the maximum.
LEMMA MaxIs ==
  ASSUME NEW n \in Nat, NEW S \in SUBSET (0 .. n), NEW m \in S, \A y \in S : m >= y
  PROVE  Max(S) = m
<1>1. Max(S) \in S /\ Max(S) >= m
  BY Greatest
<1>2. S \subseteq Int
  OBVIOUS
<1>3. Max(S) \in Int /\ m \in Int
  BY <1>1, <1>2
<1>4. m >= Max(S)
  BY <1>1
<1> QED
  BY <1>1, <1>3, <1>4

\* What stands before a line does not change when lines follow it.
LEMMA LastAppend ==
  ASSUME NEW q \in Seq(LineType), NEW l \in LineType, NEW kind
  PROVE  /\ \A i \in 1 .. Len(q) + 1 : LastIn(Append(q, l), kind, i) = LastIn(q, kind, i)
         /\ LastIn(Append(q, l), kind, Len(q) + 2) =
               IF l.kind = kind THEN Len(q) + 1 ELSE LastIn(q, kind, Len(q) + 1)
<1> DEFINE n == Len(q)
<1>0. n \in Nat
  BY BadAppend
<1>1. \A i \in 1 .. n + 1 : Before(Append(q, l), kind, i) = Before(q, kind, i)
  BY BadAppend DEF Before
<1>2. Before(Append(q, l), kind, n + 2) =
         Before(q, kind, n + 1) \cup {i \in {n + 1} : l.kind = kind}
  BY BadAppend DEF Before
<1>3. Before(q, kind, n + 1) \subseteq 0 .. n
  BY <1>0 DEF Before
<1> HIDE DEF n
<1>4. CASE l.kind = kind
  <2> DEFINE B == Before(Append(q, l), kind, n + 2)
  <2>1. B \in SUBSET (0 .. n + 1) /\ n + 1 \in B /\ n + 1 \in Nat /\ \A y \in B : n + 1 >= y
    BY <1>0, <1>2, <1>3, <1>4
  <2> HIDE DEF B
  <2>2. Max(B) = n + 1
    BY <2>1, MaxIs
  <2> QED
    BY <1>1, <1>4, <2>2 DEF LastIn, B, n
<1>5. CASE l.kind # kind
  <2>1. Before(Append(q, l), kind, n + 2) = Before(q, kind, n + 1)
    BY <1>2, <1>5
  <2> QED
    BY <1>1, <1>5, <2>1 DEF LastIn, n
<1> QED
  BY <1>4, <1>5

\* A line goes on setting what it set.
LEMMA SettersAppend ==
  ASSUME NEW q \in Seq(LineType), NEW l \in LineType, NEW d, NEW o
  PROVE  /\ SettersIn(Append(q, l), d, o) =
              SettersIn(q, d, o) \cup {i \in {Len(q) + 1} : Sets(Append(q, l), d, o, i)}
         /\ SettersIn(q, d, o) \subseteq 1 .. Len(q)
<1> DEFINE n == Len(q)
           r == Append(q, l)
<1>1. n \in Nat /\ Len(r) = n + 1 /\ \A i \in 1 .. n : r[i] = q[i]
  BY BadAppend
<1>2. \A kind, i : i \in 1 .. n + 1 => LastIn(r, kind, i) = LastIn(q, kind, i)
  BY LastAppend
<1>3. \A kind, i : i \in 1 .. n => LastIn(q, kind, i) \in 0 .. i - 1
  BY <1>1, LastFacts
<1> HIDE DEF n, r
<1>4. ASSUME NEW i \in 1 .. n PROVE Sets(r, d, o, i) <=> Sets(q, d, o, i)
  <2>1. i \in 1 .. n + 1 /\ r[i] = q[i]
    BY <1>1
  <2>2. LastIn(r, "pair", i) = LastIn(q, "pair", i) /\ LastIn(r, "section", i) = LastIn(q, "section", i)
    BY <1>2, <2>1
  <2>3. LastIn(q, "pair", i) \in 0 .. i - 1 /\ LastIn(q, "section", i) \in 0 .. i - 1
    BY <1>3
  <2>4. LastIn(q, "section", i) # 0 => LastIn(q, "section", i) \in 1 .. n
    BY <1>1, <2>3
  <2>5. LastIn(q, "pair", i) > LastIn(q, "section", i) => LastIn(q, "pair", i) \in 1 .. n
    BY <1>1, <2>3
  <2>6. NameIn(r, i) = NameIn(q, i)
    BY <1>1, <2>1, <2>2, <2>5 DEF NameIn
  <2> QED
    BY <1>1, <2>1, <2>2, <2>4, <2>6 DEF Sets
<1>5. SettersIn(r, d, o) = SettersIn(q, d, o) \cup {i \in {n + 1} : Sets(r, d, o, i)}
  <2>1. SettersIn(r, d, o) = {i \in 1 .. n + 1 : Sets(r, d, o, i)}
    BY <1>1 DEF SettersIn
  <2>2. SettersIn(q, d, o) = {i \in 1 .. n : Sets(q, d, o, i)}
    BY DEF SettersIn, n
  <2>3. 1 .. n + 1 = (1 .. n) \cup {n + 1}
    BY <1>1
  <2> QED
    BY <1>4, <2>1, <2>2, <2>3
<1> QED
  BY <1>5 DEF SettersIn, n, r

\* The text that decides a setting, and that it does.
Decides(o) ==
    IF Options(o) # {} THEN given[Max(Options(o))].text
    ELSE IF Setters(o) # {} THEN lines[Max(Setters(o))].text
    ELSE Defaults[o]

LastInv ==
    Tidy =>
        /\ LET s == LastIn(lines, "section", Len(lines) + 1)
               p == LastIn(lines, "pair", Len(lines) + 1)
           IN  /\ section = IF s = 0 THEN "" ELSE lines[s].name
               /\ prev_name = IF p > s THEN lines[p].name ELSE ""
        /\ \A o \in Known : settings[o] = Stored(o, Decides(o))

LEMMA DefaultStored ==
  ASSUME NEW o \in Setting
  PROVE  Stored(o, Defaults[o]) = Defaults[o]
<1>1. CASE o = "max-threads"
  <2>1. Defaults[o] = Plain(INT \div 2 - 1)
    BY <1>1 DEF Defaults, Numeric
  <2>2. Plain(INT \div 2 - 1).num = INT \div 2 - 1
    BY DEF Plain
  <2> QED
    BY <1>1, <2>1, <2>2, Int32Facts DEF Stored
<1>2. CASE o # "max-threads"
  BY <1>2 DEF Stored
<1> QED
  BY <1>1, <1>2

\* Where the file stands after one more line of a tidy file.
LEMMA PlaceStep ==
  ASSUME GTypeOK, LastInv, NEW l \in Line, ini_parse_file(l), Tidy'
  PROVE  /\ Tidy
         /\ LET s == LastIn(lines', "section", Len(lines') + 1)
                p == LastIn(lines', "pair", Len(lines') + 1)
            IN  /\ section' = IF s = 0 THEN "" ELSE lines'[s].name
                /\ prev_name' = IF p > s THEN lines'[p].name ELSE ""
         /\ \A o \in Known :
               /\ section = daemon /\ Given(l) = o
               /\ o \in Numeric => Int32(Value(l).num) # 0
               <=> Sets(lines', daemon, o, Len(lines) + 1)
         /\ Value(l) = l.text
<1> DEFINE n == Len(lines)
           S == LastIn(lines, "section", n + 1)
           P == LastIn(lines, "pair", n + 1)
<1>1. lines \in Seq(LineType) /\ l \in LineType /\ lines' = Append(lines, l)
  BY LineStep DEF GTypeOK
<1>2. /\ n \in Nat /\ Len(lines') = n + 1 /\ lines'[n + 1] = l
      /\ \A i \in 1 .. n : lines'[i] = lines[i]
  BY <1>1, BadAppend
<1>3. Tidy /\ (l.indent => l.kind = "text")
  BY <1>2 DEF Tidy
<1>4. /\ section = IF S = 0 THEN "" ELSE lines[S].name
      /\ prev_name = IF P > S THEN lines[P].name ELSE ""
  BY <1>3 DEF LastInv
<1>5. S \in 0 .. n /\ P \in 0 .. n
  <2>1. n + 1 \in Nat /\ n + 1 > 0 /\ n + 1 - 1 = n
    BY <1>2
  <2> QED
    BY <2>1, LastFacts
<1>6. /\ LastIn(lines', "section", n + 2) = IF l.kind = "section" THEN n + 1 ELSE S
      /\ LastIn(lines', "pair", n + 2) = IF l.kind = "pair" THEN n + 1 ELSE P
      /\ LastIn(lines', "section", n + 1) = S
      /\ LastIn(lines', "pair", n + 1) = P
  BY <1>1, <1>2, LastAppend
<1>7. l.kind \in {"comment", "open", "section", "pair", "text"}
  BY <1>1, LineFacts
<1>8. Continuation(l) <=> l.indent /\ l.kind = "text" /\ prev_name # ""
  BY <1>3 DEF Continuation
<1>9. Len(lines') + 1 = n + 2
  BY <1>2
<1>10. /\ section' = IF l.kind = "section" THEN l.name ELSE section
       /\ prev_name' = IF l.kind = "pair" THEN l.name
                       ELSE IF l.kind = "section" THEN "" ELSE prev_name
  BY <1>8, LineStep
<1>11. S # 0 => lines'[S] = lines[S]
  BY <1>2, <1>5
<1>12. P > S => lines'[P] = lines[P]
  BY <1>2, <1>5
<1> HIDE DEF n, S, P
<1>13. LET s == LastIn(lines', "section", n + 2)
           p == LastIn(lines', "pair", n + 2)
       IN  /\ section' = IF s = 0 THEN "" ELSE lines'[s].name
           /\ prev_name' = IF p > s THEN lines'[p].name ELSE ""
  <2>1. CASE l.kind = "section"
    <3>1. n + 1 # 0 /\ ~(P > n + 1)
      BY <1>2, <1>5
    <3> QED
      BY <1>2, <1>6, <1>10, <2>1, <3>1
  <2>2. CASE l.kind = "pair"
    <3>1. n + 1 > S
      BY <1>2, <1>5
    <3> QED
      BY <1>2, <1>4, <1>6, <1>10, <1>11, <2>2, <3>1
  <2>3. CASE l.kind \notin {"section", "pair"}
    BY <1>4, <1>6, <1>10, <1>11, <1>12, <2>3
  <2> QED
    BY <2>1, <2>2, <2>3
<1>14. Value(l) = l.text
  BY <1>8 DEF Value
<1>15. Given(l) = NameIn(lines', n + 1)
  <2>1. NameIn(lines', n + 1) = CASE l.kind = "pair" -> l.name
                                  [] l.kind = "text" /\ l.indent /\ P > S -> lines'[P].name
                                  [] OTHER -> ""
    BY <1>2, <1>6 DEF NameIn
  <2>2. CASE l.kind = "pair"
    BY <1>8, <2>1, <2>2 DEF Given
  <2>3. CASE l.kind = "text" /\ l.indent
    BY <1>4, <1>8, <1>12, <2>1, <2>3 DEF Given
  <2>4. CASE ~(l.kind = "pair" \/ (l.kind = "text" /\ l.indent))
    BY <1>8, <2>1, <2>4 DEF Given
  <2> QED
    BY <2>2, <2>3, <2>4
<1>16. section = daemon <=> S # 0 /\ lines'[S].name = daemon
  <2>1. daemon # ""
    BY DEF GTypeOK
  <2> QED
    BY <1>4, <1>11, <2>1
<1>17. ASSUME NEW o \in Known
       PROVE  /\ section = daemon /\ Given(l) = o
              /\ o \in Numeric => Int32(Value(l).num) # 0
              <=> Sets(lines', daemon, o, n + 1)
  BY <1>2, <1>6, <1>14, <1>15, <1>16 DEF Sets
<1> QED
  BY <1>3, <1>9, <1>13, <1>14, <1>17 DEF n

LEMMA LastStep == GTypeOK /\ UsableInv /\ LastInv /\ [GNext]_gvars => LastInv'
<1> SUFFICES ASSUME GTypeOK, UsableInv, LastInv, [GNext]_gvars PROVE LastInv'
  OBVIOUS
<1>0. \A o \in Known : o \in Setting
  BY KnownSettings
<1>1. ASSUME NEW l \in Line, ini_parse_file(l), Tidy' PROVE LastInv'
  <2> DEFINE n == Len(lines)
  <2>1. given = <<>> /\ given' = given /\ daemon' = daemon /\ lines' = Append(lines, l)
    BY <1>1, LineStep DEF UsableInv
  <2>2. Known' = Known
    BY <2>1 DEF Known
  <2>3. \A o : Options(o) = {} /\ Options(o)' = {}
    <3>1. Len(given) = 0 /\ Len(given') = 0
      BY <2>1
    <3>2. 1 .. Len(given) = {} /\ 1 .. Len(given') = {}
      BY <3>1
    <3> QED
      BY <3>2 DEF Options
  <2>4. lines \in Seq(LineType) /\ l \in LineType
    BY <1>1, LineStep DEF GTypeOK
  <2>5. /\ n \in Nat /\ Len(lines') = n + 1 /\ lines'[n + 1] = l
        /\ \A i \in 1 .. n : lines'[i] = lines[i]
    BY <2>1, <2>4, BadAppend
  <2>6. ASSUME NEW o \in Known PROVE settings'[o] = Stored(o, Decides(o)')
    <3>1. Setters(o) = SettersIn(lines, daemon, o) /\ Setters(o)' = SettersIn(lines', daemon, o)
      BY <2>1, SameDefinitions
    <3>2. /\ Setters(o)' = Setters(o) \cup {i \in {n + 1} : Sets(lines', daemon, o, i)}
          /\ Setters(o) \subseteq 1 .. n
      BY <2>1, <2>4, <3>1, SettersAppend
    <3>3. settings[o] = Stored(o, IF Setters(o) # {} THEN lines[Max(Setters(o))].text ELSE Defaults[o])
      BY <1>1, <2>3, PlaceStep DEF LastInv, Decides
    <3>4. Decides(o)' = IF Setters(o)' # {} THEN lines'[Max(Setters(o)')].text ELSE Defaults[o]
      BY <2>3 DEF Decides
    <3>5. settings'[o] = IF Sets(lines', daemon, o, n + 1) THEN Stored(o, l.text) ELSE settings[o]
      BY <1>0, <1>1, LineStep, PlaceStep
    <3> HIDE DEF n
    <3>6. CASE Sets(lines', daemon, o, n + 1)
      <4> DEFINE T == Setters(o)'
      <4>1. T \in SUBSET (0 .. n + 1) /\ n + 1 \in T /\ n + 1 \in Nat /\ \A y \in T : n + 1 >= y
        BY <2>5, <3>2, <3>6
      <4> HIDE DEF T
      <4>2. Max(T) = n + 1 /\ T # {}
        BY <4>1, MaxIs
      <4>3. Decides(o)' = l.text
        BY <2>5, <3>4, <4>2 DEF T
      <4> QED
        BY <3>5, <3>6, <4>3
    <3>7. CASE ~Sets(lines', daemon, o, n + 1)
      <4>1. Setters(o)' = Setters(o)
        BY <3>2, <3>7
      <4>2. CASE Setters(o) # {}
        <5>1. Setters(o) \in SUBSET (0 .. n)
          BY <2>5, <3>2
        <5>2. Max(Setters(o)) \in Setters(o)
          BY <2>5, <4>2, <5>1, Greatest
        <5>3. lines'[Max(Setters(o))] = lines[Max(Setters(o))]
          BY <2>5, <3>2, <5>2
        <5> QED
          BY <3>3, <3>4, <3>5, <3>7, <4>1, <4>2, <5>3
      <4>3. CASE Setters(o) = {}
        BY <3>3, <3>4, <3>5, <3>7, <4>1, <4>3
      <4> QED
        BY <4>2, <4>3
    <3> QED
      BY <3>6, <3>7
  <2> QED
    BY <1>1, <2>2, <2>6, PlaceStep DEF LastInv
<1>2. ASSUME NEW x \in Option, parse_opts(x) PROVE LastInv'
  <2> DEFINE n == Len(given)
  <2>1. /\ UNCHANGED <<daemon, lines, section, prev_name>>
        /\ given' = Append(given, x) /\ x \in OptionType /\ given \in Seq(OptionType)
    BY <1>2, OptionStep DEF parse_opts, GTypeOK
  <2>2. Known' = Known /\ Tidy' = Tidy
    BY <2>1 DEF Known, Tidy
  <2>3. \A o : Setters(o)' = Setters(o)
    BY <2>1, SameDefinitions
  <2>4. /\ n \in Nat /\ Len(given') = n + 1 /\ given'[n + 1] = x
        /\ \A i \in 1 .. n : given'[i] = given[i]
    BY <2>1
  <2>5. ASSUME Tidy, NEW o \in Known PROVE settings'[o] = Stored(o, Decides(o)')
    <3>1. settings[o] = Stored(o, Decides(o))
      BY <2>5 DEF LastInv
    <3>2. settings'[o] = IF o = x.name THEN Stored(o, x.text) ELSE settings[o]
      BY <1>0, <1>2, OptionStep
    <3>3. /\ Options(o)' = Options(o) \cup {i \in {n + 1} : x.name = o}
          /\ Options(o) \subseteq 1 .. n
      BY <2>4 DEF Options
    <3> HIDE DEF n
    <3>4. CASE x.name = o
      <4> DEFINE T == Options(o)'
      <4>1. T \in SUBSET (0 .. n + 1) /\ n + 1 \in T /\ n + 1 \in Nat /\ \A y \in T : n + 1 >= y
        BY <2>4, <3>3, <3>4
      <4> HIDE DEF T
      <4>2. Max(T) = n + 1 /\ T # {}
        BY <4>1, MaxIs
      <4>3. Decides(o)' = x.text
        BY <2>4, <4>2 DEF Decides, T
      <4> QED
        BY <3>2, <3>4, <4>3
    <3>5. CASE x.name # o
      <4>1. Options(o)' = Options(o)
        BY <3>3, <3>5
      <4>2. Options(o) # {} => given'[Max(Options(o))] = given[Max(Options(o))]
        <5>1. Options(o) \in SUBSET (0 .. n)
          BY <2>4, <3>3
        <5>2. Options(o) # {} => Max(Options(o)) \in Options(o)
          BY <2>4, <5>1, Greatest
        <5> QED
          BY <2>4, <3>3, <5>2
      <4>3. Decides(o)' = Decides(o)
        BY <2>1, <2>3, <4>1, <4>2 DEF Decides
      <4> QED
        BY <3>1, <3>2, <3>5, <4>3
    <3> QED
      BY <3>4, <3>5
  <2> QED
    BY <2>1, <2>2, <2>5 DEF LastInv
<1>3. CASE EndOfFile \/ Serve \/ UNCHANGED gvars
  <2>1. UNCHANGED <<daemon, settings, section, prev_name, lines, given>>
    BY <1>3 DEF EndOfFile, Serve, gvars
  <2>2. Known' = Known /\ Tidy' = Tidy /\ \A o : Options(o)' = Options(o)
    BY <2>1 DEF Known, Tidy, Options
  <2>3. \A o : Setters(o)' = Setters(o)
    BY <2>1, SameDefinitions
  <2>4. \A o : Decides(o)' = Decides(o)
    BY <2>1, <2>2, <2>3 DEF Decides
  <2> QED
    BY <2>1, <2>2, <2>4 DEF LastInv
<1>4. ~Tidy' => LastInv'
  BY DEF LastInv
<1> QED
  BY <1>1, <1>2, <1>3, <1>4 DEF GNext

LEMMA LastInit == GInit => LastInv
<1> SUFFICES ASSUME GInit PROVE LastInv
  OBVIOUS
<1>1. GTypeOK /\ lines = <<>> /\ given = <<>> /\ section = "" /\ prev_name = "" /\ settings = Defaults
  BY GTypeInit DEF GInit
<1>2. Len(lines) = 0 /\ Len(given) = 0
  BY <1>1
<1>3. 1 .. Len(lines) = {} /\ 1 .. Len(given) = {}
  BY <1>2
<1>4. \A o : Decides(o) = Defaults[o]
  BY <1>3 DEF Decides, Options, Setters
<1>5. LastIn(lines, "section", 1) \in 0 .. 0 /\ LastIn(lines, "pair", 1) \in 0 .. 0
  <2>1. 1 \in Nat /\ 1 > 0 /\ 1 - 1 = 0
    OBVIOUS
  <2> QED
    BY <2>1, LastFacts
<1>6. /\ LastIn(lines, "section", Len(lines) + 1) = 0
      /\ LastIn(lines, "pair", Len(lines) + 1) = 0
  BY <1>2, <1>5
<1>7. \A o \in Known : settings[o] = Stored(o, Defaults[o])
  BY <1>1, KnownSettings, DefaultStored
<1>8. ~(0 > 0)
  OBVIOUS
<1>9. \A o \in Known : settings[o] = Stored(o, Decides(o))
  BY <1>4, <1>7
<1> QED
  BY <1>1, <1>6, <1>8, <1>9 DEF LastInv

(***************************************************************************)
(* For every tidy psnetrc and every command line: a setting is the last    *)
(* option given, or else the last usable value in the daemon's section,    *)
(* or else the default.                                                    *)
(***************************************************************************)
THEOREM LastOneCountsHolds == GSpec => []LastOneCounts
<1>1. LastInv => LastOneCounts
  BY DEF LastInv, LastOneCounts, Decides, Stored
<1> QED
  BY <1>1, UsableInit, LastInit, GTypeInit, GTypeStep, UsableStep, LastStep, PTL DEF GSpec
=============================================================================
