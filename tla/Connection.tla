----------------------------- MODULE Connection -----------------------------
(***************************************************************************)
(* One TCP connection of a daemon: handle_connection's loop of reading a   *)
(* message with tcp_read_msg, finding its method with parse_message and    *)
(* going on to the next one.  psnet_request reads a response header with   *)
(* the same tcp_read_msg.                                                  *)
(*                                                                         *)
(* A byte is a carriage return, a line feed or anything else.  What a text *)
(* holds is the client's choice: the number of JSON tokens it takes and    *)
(* whether it is a request the daemon knows.  The answer goes out with a   *)
(* blocking send: SO_RCVTIMEO does not bound it, so a client that leaves   *)
(* its answers unread may keep the handler there for good.                 *)
(*                                                                         *)
(* A definition named Mut... is the next one with a plausible mistake.     *)
(***************************************************************************)
EXTENDS Integers, Sequences

CONSTANTS
    MSG_MAX,    \* size of mi->msg
    JSMN_NTOK   \* size of the token array

ASSUME ConnectionAssumption == MSG_MAX \in Nat \ {0} /\ JSMN_NTOK \in Nat

CR == "\r"
LF == "\n"
Byte == {CR, LF, "x"}

\* A carriage return is missing.
MutDelimNoCR == <<CR, LF, LF>>

delim == <<CR, LF, CR, LF>>

VARIABLES
    pc,      \* "read", "dispatch", "answer", "refuse" or "closed"
    buf,     \* bytes of the current message: mi->msg up to i
    pos,     \* delim.pos, the bytes of the delimiter matched so far
    ntok     \* capacity that the next parse_message is given

cvars == <<pc, buf, pos, ntok>>

CInit ==
    /\ pc = "read"
    /\ buf = <<>>
    /\ pos = 0
    /\ ntok = JSMN_NTOK

-----------------------------------------------------------------------------
(***************************************************************************)
(* tcp_read_msg: one recv per step.                                        *)
(***************************************************************************)
Match(p, c) == IF c = delim[p + 1] THEN p + 1 ELSE 0

RecvByte(c) ==
    /\ pc = "read"
    /\ buf' = Append(buf, c)
    /\ pos' = Match(pos, c)
    /\ pc' = IF pos' = Len(delim) \/ Len(buf') = MSG_MAX THEN "dispatch" ELSE "read"
    /\ UNCHANGED ntok

\* The handler waits on after a timeout.
MutTimeoutWaits == pc = "read" /\ UNCHANGED cvars

\* recv reports the end of the stream, an error, or 30 seconds of silence
\* (SO_RCVTIMEO): the handler leaves its loop and closes the socket.
RecvNothing ==
    /\ pc = "read"
    /\ pc' = "closed"
    /\ UNCHANGED <<buf, pos, ntok>>

-----------------------------------------------------------------------------
(***************************************************************************)
(* parse_message and the dispatch on the method.                           *)
(***************************************************************************)
\* One more than the tokens used is stored back.
MutParseCountsOneMore(t) == t <= ntok /\ ntok' = t + 1

\* jsmn_parse finds the t tokens of the text and stores their number where
\* the capacity was.
parse_message(t) == t <= ntok /\ ntok' = t

\* A known method: its handler starts to answer.
Serve(t) ==
    /\ pc = "dispatch"
    /\ parse_message(t)
    /\ pc' = "answer"
    /\ UNCHANGED <<buf, pos>>

\* An unknown method: an error is sent before the connection is closed ...
Unknown(t) ==
    /\ pc = "dispatch"
    /\ parse_message(t)
    /\ pc' = "refuse"
    /\ UNCHANGED <<buf, pos>>

\* ... as for a text that is no object with a method or needs more tokens
\* than there are.
NoMethod ==
    /\ pc = "dispatch"
    /\ pc' = "refuse"
    /\ UNCHANGED <<buf, pos, ntok>>

(***************************************************************************)
(* tcp_send_bytes returns: all of the answer is sent, or send failed.      *)
(***************************************************************************)
\* The loop goes on with tcp_read_msg ...
Answered ==
    /\ pc = "answer"
    /\ pc' = "read"
    /\ buf' = <<>>
    /\ pos' = 0
    /\ UNCHANGED ntok

\* ... or the handler leaves it and closes the socket.
Refused ==
    /\ pc = "refuse"
    /\ pc' = "closed"
    /\ UNCHANGED <<buf, pos, ntok>>

-----------------------------------------------------------------------------
\* Something other than line ends.
HasText == \E i \in 1 .. Len(buf) : buf[i] = "x"

\* The tokens of a text in which a method is found.  An object with a method
\* takes three.  For a text without any token parse_message looks at what the
\* array holds: nothing that was ever set, or the previous request.  A text
\* that fills the buffer is not terminated, and goes on behind it.
Request == {t \in 0 .. JSMN_NTOK :
              Len(buf) = MSG_MAX \/ IF HasText THEN t >= 3 ELSE t = 0}

CNext ==
    \/ \E c \in Byte : RecvByte(c)
    \/ RecvNothing
    \/ \E t \in Request : Serve(t) \/ Unknown(t)
    \/ NoMethod
    \/ Answered \/ Refused

CSpec == CInit /\ [][CNext]_cvars

\* The kernel ends a recv within the timeout, and a text that was read is
\* parsed.  Nothing makes a send return.
Fairness == WF_cvars(RecvNothing) /\ WF_cvars(pc = "dispatch" /\ CNext)

CFairSpec == CSpec /\ Fairness

-----------------------------------------------------------------------------
(***************************************************************************)
(* Type invariant: the message fits in mi->msg, the match in delim, and    *)
(* parse_message is never promised more tokens than the array has.         *)
(***************************************************************************)
CTypeOK ==
    /\ pc \in {"read", "dispatch", "answer", "refuse", "closed"}
    /\ buf \in Seq(Byte) /\ Len(buf) <= MSG_MAX
    /\ pos \in 0 .. 4
    /\ ntok \in 0 .. JSMN_NTOK

\* A double CRLF ends at byte i of the message.
DelimAt(i) ==
    /\ i >= 4
    /\ buf[i - 3] = CR /\ buf[i - 2] = LF /\ buf[i - 1] = CR /\ buf[i] = LF

(***************************************************************************)
(* tcp_read_msg returns a text that ends in the double CRLF, or one that   *)
(* fills the buffer.                                                       *)
(***************************************************************************)
EndsInDelimiter == pc = "dispatch" => DelimAt(Len(buf)) \/ Len(buf) = MSG_MAX

(***************************************************************************)
(* tcp_read_msg does not read past the end of a message: a double CRLF     *)
(* that no carriage return precedes is the last thing it reads, though the *)
(* automaton starts over on a mismatch without looking at the byte again.  *)
(***************************************************************************)
StopsAtDelimiter ==
    \A i \in 4 .. Len(buf) :
        DelimAt(i) /\ (i > 4 => buf[i - 4] # CR) => i = Len(buf) /\ pc # "read"

(***************************************************************************)
(* A client that falls silent, in the middle of a message or between two,  *)
(* does not keep its handler, and with it a slot of the thread pool: once  *)
(* it stops sending the connection is closed, if it takes the answers to   *)
(* what it has sent, so that no send blocks for ever.                      *)
(***************************************************************************)
TakesAnswers == []<>(pc \notin {"answer", "refuse"})

SilenceCloses ==
    <>[][\A c \in Byte : ~RecvByte(c)]_cvars /\ TakesAnswers => <>(pc = "closed")
=============================================================================
