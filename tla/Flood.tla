-------------------------------- MODULE Flood --------------------------------
(***************************************************************************)
(* Broadcasting over a network of routers (router/service.c, router.c,     *)
(* msgcache.c).  A router that receives a broadcast increments its hop     *)
(* count, drops it if its message cache knows the id, and otherwise sends  *)
(* it to the routers and clients it knows.  Datagrams are lost, duplicated *)
(* and reordered, several handler threads of a router work at once, and    *)
(* cache entries expire: only the hop limit then stops a message from      *)
(* circulating for ever.                                                   *)
(*                                                                         *)
(* Two values the code reads uninitialized are nondeterministic here.  The *)
(* list a tracker request yields: psnet_request jumps to its clean-up      *)
(* after connect() and returns an uninitialized result, from which its     *)
(* caller parses an uninitialized pointer.  And the length mi->len of a    *)
(* broadcast that came in over TCP, which handle_connection never sets.    *)
(*                                                                         *)
(* A definition named Mut... is the next one with a plausible mistake.     *)
(***************************************************************************)
EXTENDS Integers, FiniteSets

CONSTANTS
    Router,    \* the routers of the network
    Client,    \* processes that send and receive broadcasts
    Id,        \* the "id" fields in use
    Slot,      \* handler threads of a router
    IP,        \* IP addresses, other than NoIP
    V4,        \* the IPv4 addresses among them; the rest are IPv6
    ip,        \* the IP address of every router and client
    NoIP,      \* bytes that are nobody's address
    MAX_HOPS,
    StartHops, \* hop counts clients send; the protocol asks for 0
    MaxCasts, MaxDups, MaxChanges
               \* bounds on broadcasts, duplicated datagrams, and changes to
               \* the routers' lists of routers and clients

ASSUME FloodAssumption ==
    /\ V4 \subseteq IP /\ NoIP \notin IP
    /\ ip \in [Router \cup Client -> IP]
    /\ MAX_HOPS \in 2 .. 10
    /\ StartHops \subseteq Int
    /\ {MaxCasts, MaxDups, MaxChanges} \subseteq Nat
    /\ Router \cap Client = {}
    /\ Slot \cap {"free", "update"} = {} /\ IsFiniteSet(Slot)

VARIABLES
    routers,   \* router -> the contents of its list `routers'
    clients,   \* router -> the contents of its client table
    cache,     \* router -> the contents of its msg_cache
    lock,      \* router -> holder of routers_lock: a slot, "update" or "free"
    job,       \* router -> slot -> what that handler thread is doing
    net,       \* datagrams in flight
    casts, dups, changes,  \* how much of each bound is used up
    surplus    \* history: router -> id -> how many more times the router has
               \* flooded the id than its cache has let it expire

fvars == <<routers, clients, cache, lock, job, net, casts, dups, changes, surplus>>

NoJob == [pc |-> "none"]

(***************************************************************************)
(* A copy of a broadcast.  hops is what the code reads of its "hops"       *)
(* field: the field's first character, as a distance from '0' (a claimed   *)
(* 10 is a 1, which is sent on as 20; the bracket of an empty array is     *)
(* past 9, the quote of an empty string is below 0).  age is a history     *)
(* variable: how many routers have sent the copy on.                       *)
(***************************************************************************)
Datagram(src, to, id, hops, age) ==
    [src |-> src, to |-> to, id |-> id, hops |-> hops, age |-> age]

\* The handler's copy of m, counted as the c-th hop.
Job(m, c, f, ok) ==
    [pc |-> "cache", id |-> m.id, hops |-> c, age |-> m.age + 1, from |-> f, ok |-> ok]

\* ip_addr_equals (include/ipv6.h): for IPv4 it says whether a and b differ.
ip_addr_equals(a, b) ==
    /\ a \in V4 <=> b \in V4
    /\ IF a \in V4 THEN a # b ELSE a = b

\* The sender's address as udp_server_main stores it: recvfrom is given room
\* for a sockaddr_in, so half of an IPv6 address is what malloc left there.
SeenAs(a) == IF a \in V4 THEN {a} ELSE (IP \ V4) \cup {NoIP}

-----------------------------------------------------------------------------
(***************************************************************************)
(* Clients and the network.                                                *)
(***************************************************************************)
\* A client sends a new broadcast to a router, over UDP ...
Broadcast(c, n, id, h) ==
    /\ casts < MaxCasts
    /\ casts' = casts + 1
    /\ net' = net \cup {Datagram(c, n, id, h, 0)}
    /\ UNCHANGED <<routers, clients, cache, lock, job, dups, changes, surplus>>

\* The hop count stays as it is (and so does age, to keep the states finite).
MutHopsKept(n, s, m, f, ok) ==
    job' = IF m.hops < 0 \/ m.hops >= MAX_HOPS - 1 THEN job
           ELSE [job EXCEPT ![n][s] = [Job(m, m.hops, f, ok) EXCEPT !.age = m.age]]

\* Off by one: v >= '0' + MAX_HOPS.
MutHopsOffByOne(n, s, m, f, ok) ==
    job' = IF m.hops < 0 \/ m.hops >= MAX_HOPS THEN job
           ELSE [job EXCEPT ![n][s] = Job(m, m.hops + 1, f, ok)]

\* The test v < '0' is missing.
MutHopsBelowZero(n, s, m, f, ok) ==
    job' = IF m.hops >= MAX_HOPS - 1 THEN job
           ELSE [job EXCEPT ![n][s] = Job(m, m.hops + 1, f, ok)]

\* process_broadcast up to the hop count, in the handler thread s of router
\* n: it returns at a first character that is no digit or at the limit, and
\* otherwise increments that character.
process_broadcast(n, s, m, f, ok) ==
    job' = IF m.hops < 0 \/ m.hops >= MAX_HOPS - 1 THEN job
           ELSE [job EXCEPT ![n][s] = Job(m, m.hops + 1, f, ok)]

\* ... or over TCP, where mi->len is whatever malloc left there: the copies
\* are intact (ok) or nothing a receiver can parse.
BroadcastTCP(c, n, s, id, h) ==
    /\ casts < MaxCasts
    /\ job[n][s] = NoJob
    /\ casts' = casts + 1
    /\ \E ok \in BOOLEAN : process_broadcast(n, s, Datagram(c, n, id, h, 0), ip[c], ok)
    /\ UNCHANGED <<routers, clients, cache, lock, net, dups, changes, surplus>>

\* udp_server_main and handle_message; the network may deliver m again.
Receive(n, s, m) ==
    /\ m \in net
    /\ m.to = n
    /\ job[n][s] = NoJob
    /\ \E f \in SeenAs(ip[m.src]) : process_broadcast(n, s, m, f, TRUE)
    /\ \/ net' = net \ {m} /\ UNCHANGED dups
       \/ dups < MaxDups /\ dups' = dups + 1 /\ UNCHANGED net
    /\ UNCHANGED <<routers, clients, cache, lock, casts, changes, surplus>>

\* The datagram is lost, refused at the thread limit, or reaches a client.
Lose(m) ==
    /\ m \in net
    /\ net' = net \ {m}
    /\ UNCHANGED <<routers, clients, cache, lock, job, casts, dups, changes, surplus>>

-----------------------------------------------------------------------------
(***************************************************************************)
(* The rest of process_broadcast, in the handler thread s of router n.     *)
(***************************************************************************)
\* A known id is refreshed and taken for a new one.
MutCacheAlwaysNew(n, s) ==
    LET j == job[n][s]
    IN  /\ j.pc = "cache"
        /\ cache' = [cache EXCEPT ![n] = @ \cup {j.id}]
        /\ job' = [job EXCEPT ![n][s].pc = "flood"]
        /\ UNCHANGED <<routers, clients, lock, net, casts, dups, changes, surplus>>

\* delta_update under the cache's own lock: one step tests and inserts.
cache_msg(n, s) ==
    LET j == job[n][s]
    IN  /\ j.pc = "cache"
        /\ \/ /\ j.id \in cache[n]
              /\ job' = [job EXCEPT ![n][s] = NoJob]
              /\ UNCHANGED cache
           \/ /\ j.id \notin cache[n]
              /\ cache' = [cache EXCEPT ![n] = @ \cup {j.id}]
              /\ job' = [job EXCEPT ![n][s].pc = "flood"]
        /\ UNCHANGED <<routers, clients, lock, net, casts, dups, changes, surplus>>

\* flood_message: takes routers_lock and sends to the routers ...
FloodRouters(n, s) ==
    LET j == job[n][s]
    IN  /\ j.pc = "flood"
        /\ lock[n] = "free"
        /\ lock' = [lock EXCEPT ![n] = s]
        /\ net' = net \cup {Datagram(n, r, j.id, j.hops, j.age) :
                    r \in {x \in routers[n] : j.ok /\ ~ip_addr_equals(ip[x], j.from)}}
        /\ job' = [job EXCEPT ![n][s].pc = "clients"]
        /\ surplus' = [surplus EXCEPT ![n][j.id] = @ + 1]
        /\ UNCHANGED <<routers, clients, cache, casts, dups, changes>>

\* ... then to every client, and releases the lock.
FloodClients(n, s) ==
    LET j == job[n][s]
    IN  /\ j.pc = "clients"
        /\ lock' = [lock EXCEPT ![n] = "free"]
        /\ net' = net \cup {Datagram(n, c, j.id, j.hops, j.age) : c \in {x \in clients[n] : j.ok}}
        /\ job' = [job EXCEPT ![n][s] = NoJob]
        /\ UNCHANGED <<routers, clients, cache, casts, dups, changes, surplus>>

-----------------------------------------------------------------------------
(***************************************************************************)
(* The other threads of a router: the clocks of its two delta lists, the   *)
(* handlers of connect messages and router_update_thread, which holds      *)
(* routers_lock for as long as its request takes.                          *)
(***************************************************************************)
\* A cached id expires.
Expire(n, id) ==
    /\ id \in cache[n]
    /\ cache' = [cache EXCEPT ![n] = @ \ {id}]
    /\ surplus' = [surplus EXCEPT ![n][id] = @ - 1]
    /\ UNCHANGED <<routers, clients, lock, job, net, casts, dups, changes>>

\* A client connects, or its entry expires.
SetClients(n) ==
    /\ changes < MaxChanges
    /\ changes' = changes + 1
    /\ \E c \in Client :
         clients' = [clients EXCEPT ![n] = IF c \in @ THEN @ \ {c} ELSE @ \cup {c}]
    /\ UNCHANGED <<routers, cache, lock, job, net, casts, dups, surplus>>

\* The lists a request that does not fail may yield.
psnet_request_discover == SUBSET Router

UpdateStart(n) ==
    /\ lock[n] = "free"
    /\ lock' = [lock EXCEPT ![n] = "update"]
    /\ UNCHANGED <<routers, clients, cache, job, net, casts, dups, changes, surplus>>

\* The retry path forgets the mutex.
MutUpdateKeepsLock(n) ==
    /\ lock[n] = "update"
    /\ UNCHANGED fvars

\* The request fails: the old list stays until the next attempt.
UpdateFails(n) ==
    /\ lock[n] = "update"
    /\ lock' = [lock EXCEPT ![n] = "free"]
    /\ UNCHANGED <<routers, clients, cache, job, net, casts, dups, changes, surplus>>

\* set_routers: the whole list is replaced.
UpdateEnd(n) ==
    /\ lock[n] = "update"
    /\ lock' = [lock EXCEPT ![n] = "free"]
    /\ changes < MaxChanges
    /\ changes' = changes + 1
    /\ \E R \in psnet_request_discover : routers' = [routers EXCEPT ![n] = R]
    /\ UNCHANGED <<clients, cache, job, net, casts, dups, surplus>>

-----------------------------------------------------------------------------
FInit ==
    /\ routers = [n \in Router |-> {}]
    /\ clients = [n \in Router |-> {}]
    /\ cache = [n \in Router |-> {}]
    /\ lock = [n \in Router |-> "free"]
    /\ job = [n \in Router |-> [s \in Slot |-> NoJob]]
    /\ net = {}
    /\ casts = 0 /\ dups = 0 /\ changes = 0
    /\ surplus = [n \in Router |-> [id \in Id |-> 0]]

HandlerNext(n, s) == cache_msg(n, s) \/ FloodRouters(n, s) \/ FloodClients(n, s)

FNext ==
    \/ \E c \in Client, n \in Router, id \in Id, h \in StartHops :
          Broadcast(c, n, id, h) \/ \E s \in Slot : BroadcastTCP(c, n, s, id, h)
    \/ \E m \in net : Lose(m) \/ \E n \in Router, s \in Slot : Receive(n, s, m)
    \/ \E n \in Router, s \in Slot : HandlerNext(n, s)
    \/ \E n \in Router, id \in Id : Expire(n, id)
    \/ \E n \in Router : SetClients(n) \/ UpdateStart(n) \/ UpdateFails(n) \/ UpdateEnd(n)

FSpec == FInit /\ [][FNext]_fvars

(***************************************************************************)
(* Fairness.  A datagram does not stay in flight for ever, a thread that   *)
(* can run does, connect() returns, and a thread that waits for            *)
(* routers_lock gets it although router_update_thread takes it again and   *)
(* again.                                                                  *)
(***************************************************************************)
Fairness ==
    /\ WF_fvars(\E m \in net : Lose(m) \/ \E n \in Router, s \in Slot : Receive(n, s, m))
    /\ \A n \in Router :
         /\ WF_fvars(UpdateFails(n) \/ UpdateEnd(n))
         /\ \A s \in Slot : /\ WF_fvars(cache_msg(n, s))
                            /\ SF_fvars(FloodRouters(n, s))
                            /\ WF_fvars(FloodClients(n, s))

FFairSpec == FSpec /\ Fairness

-----------------------------------------------------------------------------
JobType ==
    {NoJob} \cup [pc : {"cache", "flood", "clients"}, id : Id, hops : 0 .. 9, age : Nat,
                  from : IP \cup {NoIP}, ok : BOOLEAN]

(***************************************************************************)
(* Type invariant.                                                         *)
(***************************************************************************)
FTypeOK ==
    /\ routers \in [Router -> SUBSET Router]
    /\ clients \in [Router -> SUBSET Client]
    /\ cache \in [Router -> SUBSET Id]
    /\ lock \in [Router -> Slot \cup {"free", "update"}]
    /\ job \in [Router -> [Slot -> JobType]]
    /\ net \subseteq [src : Router \cup Client, to : Router \cup Client, id : Id,
                      hops : Int, age : Nat]
    /\ casts \in 0 .. MaxCasts
    /\ dups \in 0 .. MaxDups
    /\ changes \in 0 .. MaxChanges
    /\ surplus \in [Router -> [Id -> Int]]

(***************************************************************************)
(* Whatever a sender put into the hop count, no copy passes more than      *)
(* MAX_HOPS - 1 routers: process_broadcast counts every router a copy      *)
(* passes in a digit that stays within the limit.                          *)
(***************************************************************************)
Counted(m) == m.hops \in 1 .. MAX_HOPS - 1 /\ m.age <= m.hops

HopLimit ==
    /\ \A m \in net : IF m.src \in Router THEN Counted(m) ELSE m.age = 0
    /\ \A n \in Router, s \in Slot : job[n][s] # NoJob => Counted(job[n][s])

(***************************************************************************)
(* However many copies of a broadcast reach a router at once, it floods an *)
(* id once, and once more only after its cache has let the id expire; and  *)
(* an id that was cached but not yet flooded has one handler that will.    *)
(***************************************************************************)
FloodOnce ==
    \A n \in Router, id \in Id :
        surplus[n][id] + Cardinality({s \in Slot : job[n][s].pc = "flood" /\ job[n][s].id = id})
          = IF id \in cache[n] THEN 1 ELSE 0

(***************************************************************************)
(* A broadcast dies out: the hop limit stops it even if every cache        *)
(* forgets the id while copies of it are under way.                        *)
(***************************************************************************)
Quiescence == <>[](net = {} /\ \A n \in Router, s \in Slot : job[n][s] = NoJob)

(***************************************************************************)
(* No handler thread is stuck behind router_update_thread's request: each  *)
(* one that starts on a broadcast finishes and gives its slot back.        *)
(***************************************************************************)
HandlersFinish ==
    \A n \in Router, s \in Slot : job[n][s] # NoJob ~> job[n][s] = NoJob

(***************************************************************************)
(* router/service.c: process_broadcast "forwards the message to all known  *)
(* routers and clients", the sender excepted.                              *)
(***************************************************************************)
ForwardsToAll ==
    [][\A n \in Router, s \in Slot :
          FloodRouters(n, s) /\ job[n][s].ok =>
             \A r \in routers[n] : ip[r] # job[n][s].from =>
                Datagram(n, r, job[n][s].id, job[n][s].hops, job[n][s].age) \in net']_fvars
=============================================================================
