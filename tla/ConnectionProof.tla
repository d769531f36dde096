--------------------------- MODULE ConnectionProof ---------------------------
(***************************************************************************)
(* Proofs about Connection, for every size of the buffer and of the token  *)
(* array.                                                                  *)
(***************************************************************************)
EXTENDS Connection, TLAPS

\* The k bytes up to byte i of the message are the first k of the delimiter.
Suffix(i, k) ==
    /\ i >= k
    /\ k >= 1 => buf[i - k + 1] = CR
    /\ k >= 2 => buf[i - k + 2] = LF
    /\ k >= 3 => buf[i - k + 3] = CR
    /\ k >= 4 => buf[i - k + 4] = LF

\* delim.pos never claims more than was read ...
Sound == Suffix(Len(buf), pos)

\* ... and what was read of a delimiter that no carriage return precedes is
\* counted, perhaps as the continuation of an earlier line end.
Noticed ==
    \A k \in 1 .. 4 :
        Suffix(Len(buf), k) /\ (Len(buf) > k => buf[Len(buf) - k] # CR)
          => pos = k \/ pos = k + 2

Stage ==
    /\ pc = "read" => pos < 4 /\ Len(buf) < MSG_MAX
    /\ pc = "dispatch" => pos = 4 \/ Len(buf) = MSG_MAX

CInv == CTypeOK /\ Sound /\ Noticed /\ Stage /\ StopsAtDelimiter

-----------------------------------------------------------------------------
\* What one byte does to the message and to the match.
LEMMA ByteRead ==
    ASSUME CTypeOK, Stage, NEW c \in Byte, RecvByte(c)
    PROVE  /\ buf' \in Seq(Byte) /\ Len(buf) \in Nat /\ Len(buf') = Len(buf) + 1
           /\ \A i \in 1 .. Len(buf) : buf'[i] = buf[i]
           /\ buf'[Len(buf) + 1] = c
           /\ pos \in 0 .. 3
           /\ pos = 0 => pos' = IF c = CR THEN 1 ELSE 0
           /\ pos = 1 => pos' = IF c = LF THEN 2 ELSE 0
           /\ pos = 2 => pos' = IF c = CR THEN 3 ELSE 0
           /\ pos = 3 => pos' = IF c = LF THEN 4 ELSE 0
<1>1. /\ buf' \in Seq(Byte) /\ Len(buf) \in Nat /\ Len(buf') = Len(buf) + 1
      /\ \A i \in 1 .. Len(buf) : buf'[i] = buf[i]
      /\ buf'[Len(buf) + 1] = c
  BY DEF CTypeOK, RecvByte
<1>2. pos \in 0 .. 3
  BY DEF CTypeOK, Stage, RecvByte
<1>3. delim[1] = CR /\ delim[2] = LF /\ delim[3] = CR /\ delim[4] = LF
  BY DEF delim
<1>4. /\ pos = 0 => pos' = IF c = CR THEN 1 ELSE 0
      /\ pos = 1 => pos' = IF c = LF THEN 2 ELSE 0
      /\ pos = 2 => pos' = IF c = CR THEN 3 ELSE 0
      /\ pos = 3 => pos' = IF c = LF THEN 4 ELSE 0
  BY <1>2, <1>3 DEF RecvByte, Match
<1> QED
  BY <1>1, <1>2, <1>4

LEMMA InitInv == CInit => CInv
<1> SUFFICES ASSUME CInit PROVE CInv
  OBVIOUS
<1>1. Len(buf) = 0 /\ pos = 0 /\ pc = "read"
  BY DEF CInit
<1>2. CTypeOK
  BY <1>1, ConnectionAssumption DEF CInit, CTypeOK
<1>3. Sound /\ Noticed /\ Stage /\ StopsAtDelimiter
  BY <1>1, ConnectionAssumption DEF Sound, Noticed, Stage, StopsAtDelimiter, Suffix
<1> QED
  BY <1>2, <1>3 DEF CInv

LEMMA ByteInv ==
    ASSUME CInv, NEW c \in Byte, RecvByte(c)
    PROVE  CInv'
<1> DEFINE n == Len(buf)
<1>1. /\ buf' \in Seq(Byte) /\ n \in Nat /\ Len(buf') = n + 1
      /\ \A i \in 1 .. n : buf'[i] = buf[i]
      /\ buf'[n + 1] = c
  BY ByteRead DEF CInv
<1>2. /\ pos \in 0 .. 3
      /\ pos = 0 => pos' = IF c = CR THEN 1 ELSE 0
      /\ pos = 1 => pos' = IF c = LF THEN 2 ELSE 0
      /\ pos = 2 => pos' = IF c = CR THEN 3 ELSE 0
      /\ pos = 3 => pos' = IF c = LF THEN 4 ELSE 0
  BY ByteRead DEF CInv
<1>3. pc = "read" /\ n < MSG_MAX /\ ntok' = ntok
  BY DEF CInv, Stage, RecvByte
<1>4. pc' = IF pos' = 4 \/ n + 1 = MSG_MAX THEN "dispatch" ELSE "read"
  BY <1>1 DEF RecvByte, delim
<1>5. CR # LF
  BY DEF CR, LF
<1> HIDE DEF n
<1>6. CTypeOK'
  BY <1>1, <1>2, <1>3, <1>4, ConnectionAssumption DEF CInv, CTypeOK
<1>7. Stage'
  BY <1>1, <1>2, <1>3, <1>4, ConnectionAssumption DEF Stage
<1>8. Sound'
  <2>1. Suffix(n, pos)
    BY DEF CInv, Sound, n
  <2>2. CASE pos' = 0
    BY <1>1, <2>2 DEF Sound, Suffix
  <2>3. CASE pos = 0 /\ pos' = 1
    BY <1>1, <1>2, <2>3 DEF Sound, Suffix
  <2>4. CASE pos = 1 /\ pos' = 2
    BY <1>1, <1>2, <2>1, <2>4 DEF Sound, Suffix
  <2>5. CASE pos = 2 /\ pos' = 3
    BY <1>1, <1>2, <2>1, <2>5 DEF Sound, Suffix
  <2>6. CASE pos = 3 /\ pos' = 4
    BY <1>1, <1>2, <2>1, <2>6 DEF Sound, Suffix
  <2> QED
    BY <1>2, <2>2, <2>3, <2>4, <2>5, <2>6
<1>9. Noticed'
  <2> SUFFICES ASSUME NEW k \in 1 .. 4, Suffix(Len(buf), k)',
                      n + 1 > k => buf'[n + 1 - k] # CR
               PROVE  pos' = k \/ pos' = k + 2
    BY <1>1 DEF Noticed
  <2>1. k = 1 => pos' = k \/ pos' = k + 2
    BY <1>1, <1>2, <1>5 DEF CInv, Sound, Suffix, n
  <2>2. k > 1 => Suffix(n, k - 1) /\ (n > k - 1 => buf[n - (k - 1)] # CR)
    <3>1. CASE k = 2
      BY <1>1, <3>1 DEF Suffix
    <3>2. CASE k = 3
      BY <1>1, <3>2 DEF Suffix
    <3>3. CASE k = 4
      BY <1>1, <3>3 DEF Suffix
    <3> QED
      BY <3>1, <3>2, <3>3
  <2>3. k > 1 => pos = k - 1 \/ pos = k - 1 + 2
    BY <2>2, <1>1 DEF CInv, Noticed, n
  <2>4. k > 1 => c = IF k = 3 THEN CR ELSE LF
    BY <1>1 DEF Suffix
  <2> QED
    BY <2>1, <2>3, <2>4, <1>2
<1>10. StopsAtDelimiter'
  <2> SUFFICES ASSUME NEW i \in 4 .. n + 1, DelimAt(i)', i > 4 => buf'[i - 4] # CR
               PROVE  i = n + 1 /\ pc' # "read"
    BY <1>1 DEF StopsAtDelimiter
  <2>1. CASE i <= n
    <3>1. DelimAt(i) /\ (i > 4 => buf[i - 4] # CR)
      BY <1>1, <2>1 DEF DelimAt
    <3> QED
      BY <1>1, <1>3, <2>1, <3>1 DEF CInv, StopsAtDelimiter, n
  <2>2. CASE i = n + 1
    <3>1. Suffix(Len(buf), 4)'
      BY <1>1, <2>2 DEF DelimAt, Suffix
    <3>2. pos' = 4 \/ pos' = 6
      BY <1>1, <1>9, <2>2, <3>1 DEF Noticed
    <3> QED
      BY <1>2, <1>4, <2>2, <3>2
  <2> QED
    BY <1>1, <2>1, <2>2
<1> QED
  BY <1>6, <1>7, <1>8, <1>9, <1>10 DEF CInv

LEMMA StepInv == CInv /\ [CNext]_cvars => CInv'
<1> SUFFICES ASSUME CInv, [CNext]_cvars PROVE CInv'
  OBVIOUS
<1>1. CASE \E c \in Byte : RecvByte(c)
  BY <1>1, ByteInv
<1>2. CASE RecvNothing \/ NoMethod \/ Refused
  <2>1. UNCHANGED <<buf, pos, ntok>> /\ pc' \in {"refuse", "closed"}
    BY <1>2 DEF RecvNothing, NoMethod, Refused
  <2> QED
    BY <2>1 DEF CInv, CTypeOK, Sound, Noticed, Stage, StopsAtDelimiter, Suffix, DelimAt
<1>3. CASE Answered
  <2>1. buf' = <<>> /\ pos' = 0 /\ pc' = "read" /\ ntok' = ntok
    BY <1>3 DEF Answered
  <2>2. CTypeOK'
    BY <2>1, ConnectionAssumption DEF CInv, CTypeOK
  <2>3. Sound' /\ Noticed' /\ Stage' /\ StopsAtDelimiter'
    BY <2>1, ConnectionAssumption DEF Sound, Noticed, Stage, StopsAtDelimiter, Suffix
  <2> QED
    BY <2>2, <2>3 DEF CInv
<1>4. ASSUME NEW t \in Request, Serve(t) \/ Unknown(t) PROVE CInv'
  <2>1. /\ UNCHANGED <<buf, pos>> /\ pc' \in {"answer", "refuse"} /\ ntok' = t
        /\ t \in 0 .. JSMN_NTOK
    BY <1>4 DEF Serve, Unknown, parse_message, Request
  <2> QED
    BY <2>1, ConnectionAssumption
       DEF CInv, CTypeOK, Sound, Noticed, Stage, StopsAtDelimiter, Suffix, DelimAt
<1>5. CASE UNCHANGED cvars
  BY <1>5 DEF cvars, CInv, CTypeOK, Sound, Noticed, Stage, StopsAtDelimiter, Suffix, DelimAt
<1> QED
  BY <1>1, <1>2, <1>3, <1>4, <1>5 DEF CNext

LEMMA InvEnds == CInv => EndsInDelimiter
BY DEF CInv, CTypeOK, Sound, Stage, EndsInDelimiter, Suffix, DelimAt

(***************************************************************************)
(* handle_connection: no message outgrows its buffer and no parse_message  *)
(* is promised more tokens than the array has.                             *)
(***************************************************************************)
THEOREM ConnectionTypeCorrect == CSpec => []CTypeOK
<1>1. CInv => CTypeOK
  BY DEF CInv
<1> QED
  BY <1>1, InitInv, StepInv, PTL DEF CSpec

(***************************************************************************)
(* tcp_read_msg: a text is complete exactly at its first double CRLF, as   *)
(* long as no carriage return precedes that, or when the buffer is full.   *)
(***************************************************************************)
THEOREM MessageBoundaries == CSpec => [](EndsInDelimiter /\ StopsAtDelimiter)
<1>1. CInv => StopsAtDelimiter
  BY DEF CInv
<1> QED
  BY <1>1, InvEnds, InitInv, StepInv, PTL DEF CSpec
=============================================================================
