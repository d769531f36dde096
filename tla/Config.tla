------------------------------- MODULE Config -------------------------------
(***************************************************************************)
(* How a daemon comes to its settings: ini_parse_file (common/ini.c) reads *)
(* /etc/psnetrc line by line and calls the daemon's ini_handler, then      *)
(* parse_opts reads the command line, then main starts the threads.        *)
(*                                                                         *)
(* A text is known by the number it begins with, 0 if it begins with none, *)
(* and by whether anything follows the number.  A line of the file is a    *)
(* comment (or blank), a section header, a header without its bracket, a   *)
(* name with a value, or text that is none of these, and it may be         *)
(* indented.  Lines longer than the buffer are left out.                   *)
(*                                                                         *)
(* A definition named Mut... is the next one with a plausible mistake.     *)
(***************************************************************************)
EXTENDS Integers, Sequences, FiniteSets, FiniteSetsExt

CONSTANTS
    Line,    \* lines of the file
    Option,  \* options on the command line, with their arguments
    INT,     \* number of values of an int
    PORT     \* number of values of an in_port_t

Text == [num : Int, rest : BOOLEAN]

LineType ==
    [kind : {"comment", "open"}, indent : BOOLEAN]
    \cup [kind : {"section"}, name : STRING, indent : BOOLEAN]
    \cup [kind : {"pair"}, name : STRING, text : Text, indent : BOOLEAN]
    \cup [kind : {"text"}, text : Text, indent : BOOLEAN]

ASSUME ConfigAssumption ==
    /\ INT \in Nat /\ INT % 2 = 0 /\ INT > 2
    /\ PORT \in Nat /\ PORT > 1 /\ INT % PORT = 0
    /\ Line \subseteq LineType
    /\ Option \subseteq [name : STRING, text : Text]

VARIABLES
    daemon,     \* "Tracker" or "Router"
    stage,      \* "file", "options", "serving" or "exited"
    settings,   \* option name -> text
    section,    \* section of the line to come
    prev_name,  \* name an indented line belongs to, or ""
    error,      \* number of the first bad line, or 0
    registered, \* port the router's threads give to the tracker, 0 without them
    lines,      \* history: the lines read
    given       \* history: the options read

gvars == <<daemon, stage, settings, section, prev_name, error, registered, lines, given>>

\* The conversion of a long to an int.
Int32(n) == ((n + INT \div 2) % INT) - INT \div 2

IsNumber(text) == ~text.rest

Word == [num |-> 0, rest |-> TRUE]

Plain(n) == [num |-> n, rest |-> FALSE]

Numeric == {"max-threads", "listen-port", "directory-port"}

\* The options a daemon knows.
Known == IF daemon = "Tracker" THEN {"max-threads", "listen-port"}
         ELSE Numeric \cup {"directory-address"}

Defaults ==
    [o \in Numeric \cup {"directory-address"} |->
        CASE o = "max-threads" -> Plain(INT \div 2 - 1)
          [] o = "directory-address" -> Word
          [] OTHER -> Plain(1)]

\* max_threads is an int, the others keep the text.
Set(o, text) == [settings EXCEPT ![o] = IF o = "max-threads" THEN Plain(Int32(text.num)) ELSE text]

-----------------------------------------------------------------------------
(***************************************************************************)
(* The file.                                                               *)
(***************************************************************************)
\* ini_handler: in the daemon's own section, numbers must not be 0.
ini_handler(name, text) ==
    settings' = IF \/ section # daemon \/ name \notin Known
                   \/ name \in Numeric /\ Int32(text.num) = 0
                THEN settings ELSE Set(name, text)

\* Every bad line is reported.
MutLastError == error' = Len(lines) + 1

\* The first bad line is reported.
FirstError == error' = IF error = 0 THEN Len(lines) + 1 ELSE error

Continuation(l) == l.indent /\ l.kind # "comment" /\ prev_name # ""

\* A section header does not end the previous field.
MutSectionKeepsName(l) ==
    /\ l.kind = "section" /\ ~Continuation(l)
    /\ section' = l.name
    /\ UNCHANGED <<settings, prev_name, error>>

SectionLine(l) ==
    /\ l.kind = "section" /\ ~Continuation(l)
    /\ section' = l.name /\ prev_name' = ""
    /\ UNCHANGED <<settings, error>>

PairLine(l) ==
    /\ l.kind = "pair" /\ ~Continuation(l)
    /\ ini_handler(l.name, l.text)
    /\ prev_name' = l.name
    /\ UNCHANGED <<section, error>>

BadLine(l) ==
    /\ l.kind \in {"open", "text"} /\ ~Continuation(l)
    /\ FirstError
    /\ UNCHANGED <<settings, section, prev_name>>

\* All of an indented line is one more value of the previous name.
ContinuedLine(l) ==
    /\ Continuation(l)
    /\ ini_handler(prev_name, IF l.kind = "text" THEN l.text ELSE Word)
    /\ UNCHANGED <<section, prev_name, error>>

CommentLine(l) ==
    /\ l.kind = "comment"
    /\ UNCHANGED <<settings, section, prev_name, error>>

ini_parse_file(l) ==
    /\ stage = "file"
    /\ SectionLine(l) \/ PairLine(l) \/ BadLine(l) \/ ContinuedLine(l) \/ CommentLine(l)
    /\ lines' = Append(lines, l)
    /\ UNCHANGED <<daemon, stage, registered, given>>

\* The end of the file, or there is none: main goes on either way.
EndOfFile ==
    /\ stage = "file"
    /\ stage' = "options"
    /\ UNCHANGED <<daemon, settings, section, prev_name, error, registered, lines, given>>

-----------------------------------------------------------------------------
(***************************************************************************)
(* The command line.                                                       *)
(***************************************************************************)
\* The argument is not a positive integer.
Refused(o) ==
    /\ o.name \in Numeric
    /\ \/ (IF o.name = "max-threads" THEN Int32(o.text.num) ELSE o.text.num) < 1
       \/ ~IsNumber(o.text)

\* One round of the loop: an unknown option is skipped, a refused argument
\* ends the program.
parse_opts(o) ==
    /\ stage = "options"
    /\ settings' = IF o.name \in Known THEN Set(o.name, o.text) ELSE settings
    /\ stage' = IF o.name \in Known /\ Refused(o) THEN "exited" ELSE "options"
    /\ given' = Append(given, o)
    /\ UNCHANGED <<daemon, section, prev_name, error, registered, lines>>

-----------------------------------------------------------------------------
(***************************************************************************)
(* main, once the settings are read.                                       *)
(***************************************************************************)
\* The port getaddrinfo makes of the setting: a port of the kernel's choice
\* if it is 0.
Listening == settings["listen-port"].num % PORT

\* The port is registered as it stands in the settings.
MutRouterInit == registered' \in {0, settings["listen-port"].num}

\* router_init: the threads that talk to the tracker are started with atoi's
\* int as an in_port_t, unless that is 0 or psnet_new fails.
router_init == registered' \in {0, Int32(settings["listen-port"].num) % PORT}

\* main ignores what router_init returns.  It serves, unless getaddrinfo
\* refuses the text or no socket can be bound.
Serve ==
    /\ stage = "options"
    /\ IF daemon = "Router" THEN router_init ELSE UNCHANGED registered
    /\ \/ IsNumber(settings["listen-port"]) /\ stage' = "serving"
       \/ stage' = "exited"
    /\ UNCHANGED <<daemon, settings, section, prev_name, error, lines, given>>

GInit ==
    /\ daemon \in {"Tracker", "Router"}
    /\ stage = "file"
    /\ settings = Defaults
    /\ section = "" /\ prev_name = "" /\ error = 0 /\ registered = 0
    /\ lines = <<>> /\ given = <<>>

GNext ==
    \/ \E l \in Line : ini_parse_file(l)
    \/ EndOfFile
    \/ \E o \in Option : parse_opts(o)
    \/ Serve

GSpec == GInit /\ [][GNext]_gvars

-----------------------------------------------------------------------------
(***************************************************************************)
(* ini_parse reports the "line number of first error on parse error"       *)
(* (include/ini.h): a line that is neither header nor pair and that        *)
(* continues nothing, and none that is not indented comes before it.       *)
(***************************************************************************)
ErrorIsFirst ==
    LET bad == {i \in 1 .. Len(lines) : lines[i].kind \in {"open", "text"}}
        certain == {i \in bad : ~lines[i].indent}
    IN  /\ error # 0 => error \in bad
        /\ certain # {} => error \in 1 .. Min(certain)

\* The last position of a line of this kind before i, or 0.
LastOf(kind, i) == Max({0} \cup {j \in 1 .. i - 1 : lines[j].kind = kind})

\* Only values that go on are indented.
Tidy == \A i \in 1 .. Len(lines) : lines[i].indent => lines[i].kind = "text"

\* The name line i gives a value to, in a tidy file.
NameOf(i) ==
    LET p == LastOf("pair", i)
    IN  CASE lines[i].kind = "pair" -> lines[i].name
          [] lines[i].kind = "text" /\ lines[i].indent /\ p > LastOf("section", i) -> lines[p].name
          [] OTHER -> ""

\* The lines that set o: in the daemon's section, and not 0 if a number.
Setters(o) ==
    {i \in 1 .. Len(lines) :
        /\ NameOf(i) = o
        /\ LET s == LastOf("section", i) IN s # 0 /\ lines[s].name = daemon
        /\ o \in Numeric => Int32(lines[i].text.num) # 0}

Options(o) == {i \in 1 .. Len(given) : given[i].name = o}

(***************************************************************************)
(* doc/psnetrc: "Any option which can be specified on the command line may *)
(* be given in this file", in the daemon's own section.  Whatever the      *)
(* order of sections, fields, continued values and options, a setting is   *)
(* the last one given on the command line, or else the last usable one in  *)
(* that section, or else the default.                                      *)
(***************************************************************************)
LastOneCounts ==
    Tidy => \A o \in Known :
        LET text == IF Options(o) # {} THEN given[Max(Options(o))].text
                    ELSE IF Setters(o) # {} THEN lines[Max(Setters(o))].text
                    ELSE Defaults[o]
        IN  settings[o] = IF o = "max-threads" THEN Plain(Int32(text.num)) ELSE text

(***************************************************************************)
(* What a daemon serves with: max-threads is never 0, a number given on    *)
(* the command line is positive, and the two conversions of listen-port,   *)
(* router_init's and getaddrinfo's, agree: the tracker is told of no port  *)
(* that the router does not listen on.  A number such as 65536 is port 0   *)
(* to both, and the router then serves without being registered.           *)
(***************************************************************************)
Usable ==
    stage = "serving" =>
        /\ settings["max-threads"].num # 0
        /\ \A o \in Known \cap Numeric :
              Options(o) # {} => settings[o].num > 0 /\ IsNumber(settings[o])
        /\ registered # 0 => registered = Listening
=============================================================================
