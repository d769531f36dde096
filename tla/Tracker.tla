------------------------------- MODULE Tracker -------------------------------
(***************************************************************************)
(* The tracker daemon (tracker/service.c) and the client table it shares   *)
(* with the router (common/client.c), on top of the delta list and its     *)
(* hash table.                                                             *)
(*                                                                         *)
(* Handlers of connect and disconnect datagrams, handlers of list and      *)
(* discover requests and the clock thread meet at client_table's lock:     *)
(* delta_foreach holds it from the first callback to the last, so one      *)
(* request at a time is walking the table (req), between any of the other  *)
(* calls.  An element of the table is a pair of an address and a port.     *)
(*                                                                         *)
(* A definition named Mut... is the next one with a plausible mistake.     *)
(***************************************************************************)
EXTENDS HashTable, Integers

CONSTANTS
    Host,     \* source addresses
    RawPort,  \* numbers sent in a "port" field
    Num,      \* numbers sent in a "num" field
    INT       \* number of values of an int

PORT_MIN == 0
PORT_MAX == 665535  \* as include/types.h has it

VARIABLE req  \* the list or discover request that is walking the table

tvars == <<kvars, req>>

\* A number outside the range is refused; the others become an in_port_t.
PortValid(p) == p \in PORT_MIN .. PORT_MAX

make_client(h, p) == <<h, p % 65536>>

\* strtol's long in an int.
Int32(n) == ((n + INT \div 2) % INT) - INT \div 2

ASSUME TrackerAssumption ==
    /\ RawPort \subseteq Int /\ Num \subseteq Int
    /\ INT \in Nat /\ INT > 0
    /\ Data = {make_client(h, p) : h \in Host, p \in {x \in RawPort : PortValid(x)}}

NoReq == [status |-> "none"]

-----------------------------------------------------------------------------
(***************************************************************************)
(* UDP: handle_message.                                                    *)
(***************************************************************************)
add_client(h, p) == PortValid(p) /\ KUpdate(make_client(h, p))

process_connect(h, p) == add_client(h, p) /\ UNCHANGED req

\* Changes nothing if the address is not in the table.
remove_client(h, p) == PortValid(p) /\ KRemove(make_client(h, p))

process_disconnect(h, p) == remove_client(h, p) /\ UNCHANGED req

(***************************************************************************)
(* TCP: handle_connection.                                                 *)
(***************************************************************************)
\* The request that clients_to_json works on: at most n entries, not ign.
Walk(n, ign) ==
    /\ KForeachStart
    /\ req' = [status |-> "walking", n |-> n, ignore |-> ign, list |-> <<>>]

\* An error is sent instead.
Refuse == Idle /\ UNCHANGED tvars

\* clients_to_json up to the walk.
clients_to_json(ign, n) == IF Int32(n) < 0 THEN Refuse ELSE Walk(Int32(n), ign)

process_list(n) == clients_to_json(NULL, n)

process_discover(h, p, n) ==
    IF PortValid(Int32(p)) THEN clients_to_json(make_client(h, Int32(p)), n) ELSE Refuse

\* Off by one: the walk ends an entry early.
MutStopEarly ==
    /\ req.status = "walking"
    /\ Len(req.list) + 1 >= req.n
    /\ KForeachBreak
    /\ req' = NoReq

\* make_list, the callback: ends the walk once n entries are listed ...
MakeListStop ==
    /\ req.status = "walking"
    /\ Len(req.list) >= req.n
    /\ KForeachBreak
    /\ req' = NoReq

\* Off by one: an entry beyond the limit is listed.
MutAddBeyondLimit ==
    /\ req.status = "walking"
    /\ Len(req.list) <= req.n
    /\ KForeachCall
    /\ req' = IF it \in Live /\ data[it] # req.ignore
              THEN [req EXCEPT !.list = Append(@, data[it])] ELSE req

\* ... and otherwise lists the element, unless it is the one to ignore.
MakeListAdd ==
    /\ req.status = "walking"
    /\ Len(req.list) < req.n
    /\ KForeachCall
    /\ req' = IF it \in Live /\ data[it] # req.ignore
              THEN [req EXCEPT !.list = Append(@, data[it])] ELSE req

\* The end of the table.  The response is sent, and freed.
Respond ==
    /\ KForeachEnd
    /\ req' = NoReq

-----------------------------------------------------------------------------
TInit == KInit /\ req = NoReq

TNext ==
    \/ \E h \in Host, p \in RawPort :
          \/ process_connect(h, p) \/ process_disconnect(h, p)
          \/ \E n \in Num : process_discover(h, p, n)
    \/ \E n \in Num : process_list(n)
    \/ MakeListStop \/ MakeListAdd \/ Respond
    \/ (KTick \/ KExpire) /\ UNCHANGED req

TSpec == TInit /\ [][TNext]_tvars

(***************************************************************************)
(* However corrupt the list is, a response to list or discover names at    *)
(* most `num' addresses, each once, and never the requester's own          *)
(* (clients_to_json excludes "the client given by the supplied sockaddr    *)
(* structure").                                                            *)
(***************************************************************************)
ResponseSound ==
    req.status = "walking" =>
        /\ Len(req.list) <= req.n
        /\ Injective(req.list)
        /\ \A i \in 1 .. Len(req.list) : req.list[i] # req.ignore

(***************************************************************************)
(* As long as the list is intact, a response is the prefix of the refresh  *)
(* order that fits `num': it names the registered addresses that have not  *)
(* been heard of for longest, and all of them if `num' allows.             *)
(***************************************************************************)
ResponseComplete ==
    [][inForce /\ req.status = "walking" /\ req' = NoReq =>
         LET q == Without(queue, req.ignore)
         IN  req.list = SubSeq(q, 1, IF Len(q) < req.n THEN Len(q) ELSE req.n)]_tvars
=============================================================================
