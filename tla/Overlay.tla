------------------------------- MODULE Overlay -------------------------------
(***************************************************************************)
(* Routers and their tracker: the virtual connections of                   *)
(* doc/psnet_protocol.  router_keepalive_thread (router/router.c) sends a  *)
(* connect datagram every DIR_KEEPALIVE_INTERVAL seconds, and the tracker  *)
(* forgets a router it has not heard of for `interval' ticks of a second.  *)
(* Routers crash and start again, the tracker loses its table, and         *)
(* datagrams are lost, duplicated and overtake each other.                 *)
(*                                                                         *)
(* Time goes by in seconds.  Within one second every thread that is due    *)
(* gets to run, in any order: the clock of the tracker ticks once, a       *)
(* keep-alive thread whose sleep is over sends.                            *)
(*                                                                         *)
(* A definition named Mut... is the next one with a plausible mistake.     *)
(***************************************************************************)
EXTENDS Tracker

CONSTANTS
    DIR_KEEPALIVE_INTERVAL,
    MaxDelay  \* seconds a datagram is under way at most

ASSUME OverlayAssumption ==
    /\ MaxDelay \in Nat
    /\ DIR_KEEPALIVE_INTERVAL \in 1 .. interval - 1  \* 9, of 10
    /\ Host \X {1} = Data /\ 1 \in RawPort

VARIABLES
    mode,     \* router -> "down", "up", or "mute": router_init has failed
    timer,    \* router -> seconds its keep-alive thread still sleeps
    net,      \* connect datagrams under way, with the seconds they have been
    ticked,   \* the tracker's clock has ticked in this second
    silent,   \* history: router -> seconds without a keep-alive thread
    missing,  \* history: router -> seconds out of the tracker's table
    sure      \* history: router -> since the tracker last heard of it, it has
              \* not stopped, nothing it sent was lost, and the tracker has run

ovars == <<tvars, mode, timer, net, ticked, silent, missing, sure>>

\* Each counter stops one above the largest value a property asks for.
SilentMax == interval + MaxDelay + 1
MissingMax == MaxDelay + 1

\* The router's entry in the client table.
Entry(h) == make_client(h, 1)

Missing(h) == ht[Entry(h)] = NULL

-----------------------------------------------------------------------------
(***************************************************************************)
(* A router.                                                               *)
(***************************************************************************)
\* The thread sleeps as long as the tracker remembers.
MutSleepsLonger(h) ==
    /\ mode[h] = "up"
    /\ timer[h] = 0
    /\ timer' = [timer EXCEPT ![h] = DIR_KEEPALIVE_INTERVAL + 1]
    /\ net' = net \cup {<<h, 0>>}
    /\ UNCHANGED <<tvars, mode, ticked, silent, missing, sure>>

\* The thread only sleeps.
MutSleepsOnly(h) ==
    /\ mode[h] = "up"
    /\ timer[h] = 0
    /\ timer' = [timer EXCEPT ![h] = DIR_KEEPALIVE_INTERVAL]
    /\ UNCHANGED <<tvars, mode, net, ticked, silent, missing, sure>>

\* One round of the loop: psnet_send_connect, then sleep.
router_keepalive_thread(h) ==
    /\ mode[h] = "up"
    /\ timer[h] = 0
    /\ timer' = [timer EXCEPT ![h] = DIR_KEEPALIVE_INTERVAL]
    /\ net' = net \cup {<<h, 0>>}
    /\ UNCHANGED <<tvars, mode, ticked, silent, missing, sure>>

\* The process stops; what it sent is still under way.
RouterStops(h) ==
    /\ mode[h] # "down"
    /\ mode' = [mode EXCEPT ![h] = "down"]
    /\ timer' = [timer EXCEPT ![h] = 0]
    /\ sure' = [sure EXCEPT ![h] = FALSE]
    /\ UNCHANGED <<tvars, net, ticked, silent, missing>>

\* main and router_init, not in the second in which the process stopped.
\* If psnet_new cannot resolve the tracker's name no thread is started, and
\* main does not look at the result.
RouterStarts(h) ==
    /\ mode[h] = "down"
    /\ silent[h] > 0
    /\ \/ mode' = [mode EXCEPT ![h] = "up"] /\ silent' = [silent EXCEPT ![h] = 0]
       \/ mode' = [mode EXCEPT ![h] = "mute"] /\ UNCHANGED silent
    /\ UNCHANGED <<tvars, timer, net, ticked, missing, sure>>

-----------------------------------------------------------------------------
(***************************************************************************)
(* The network and the tracker.                                            *)
(***************************************************************************)
\* handle_message for the datagram m, which may be delivered once more.
Deliver(m) ==
    LET h == m[1]
    IN  /\ m \in net
        /\ process_connect(h, 1)
        /\ net' \in {net, net \ {m}}
        /\ sure' = [sure EXCEPT ![h] = mode[h] = "up"]
        /\ missing' = [missing EXCEPT ![h] = 0]
        /\ UNCHANGED <<mode, timer, ticked, silent>>

\* The datagram is lost, never sent, or refused at the thread limit.  What is
\* lost while the table's lock is held may as well be lost after that.
Lose(m) ==
    /\ Idle
    /\ m \in net
    /\ net' = net \ {m}
    /\ sure' = [sure EXCEPT ![m[1]] = FALSE]
    /\ UNCHANGED <<tvars, mode, timer, ticked, silent, missing>>

\* clock_thread, once in a second, and the expiry that a tick brings.
ClockTick ==
    /\ ~ticked
    /\ HTickEmpty \/ HTickStart
    /\ ticked' = TRUE
    /\ UNCHANGED <<chains, req, mode, timer, net, silent, missing, sure>>

ClockExpire ==
    /\ KExpire \/ (HTickEnd /\ UNCHANGED chains)
    /\ UNCHANGED <<req, mode, timer, net, ticked, silent, missing, sure>>

\* The tracker is started again: its table is as at the beginning, and its
\* clock ticks for the first time a second later.
TrackerStarts ==
    /\ dl' = EmptyList
    /\ ht' = [d \in Data |-> NULL]
    /\ data' = [a \in Addr |-> NULL]
    /\ op' = "idle" /\ it' = NULL /\ fault' = FALSE
    /\ queue' = <<>> /\ ttl' = [d \in Data |-> 0]
    /\ visited' = <<>> /\ UNCHANGED inForce
    /\ table' = NoBuckets /\ ht_next' = NoLinks
    /\ req' = NoReq
    /\ ticked' = TRUE
    /\ sure' = [h \in Host |-> FALSE]
    /\ UNCHANGED <<mode, timer, net, silent, missing>>

-----------------------------------------------------------------------------
Up(n, max) == IF n < max THEN n + 1 ELSE max

\* A second is over: everything due in it has happened.
Second ==
    /\ Idle
    /\ ticked
    /\ \A h \in Host : mode[h] = "up" => timer[h] > 0
    /\ \A m \in net : m[2] < MaxDelay
    /\ ticked' = FALSE
    /\ timer' = [h \in Host |-> IF timer[h] > 0 THEN timer[h] - 1 ELSE 0]
    /\ net' = {<<m[1], m[2] + 1>> : m \in net}
    /\ silent' = [h \in Host |-> IF mode[h] = "up" THEN 0 ELSE Up(silent[h], SilentMax)]
    /\ missing' = [h \in Host |-> IF Missing(h) THEN Up(missing[h], MissingMax) ELSE 0]
    /\ UNCHANGED <<tvars, mode, sure>>

OInit ==
    /\ TInit
    /\ mode = [h \in Host |-> "down"]
    /\ timer = [h \in Host |-> 0]
    /\ net = {}
    /\ ticked = FALSE
    /\ silent = [h \in Host |-> SilentMax]
    /\ missing = [h \in Host |-> MissingMax]
    /\ sure = [h \in Host |-> FALSE]

ONext ==
    \/ \E h \in Host : router_keepalive_thread(h) \/ RouterStops(h) \/ RouterStarts(h)
    \/ \E m \in net : Deliver(m) \/ Lose(m)
    \/ ClockTick \/ ClockExpire \/ TrackerStarts
    \/ Second

OSpec == OInit /\ [][ONext]_ovars

(***************************************************************************)
(* Fairness: threads that are due run, time goes by, no datagram is under  *)
(* way for ever, and of those a router sends again and again one gets      *)
(* through in the end.                                                     *)
(***************************************************************************)
Last(m) == Lose(m) \/ (net' = net \ {m} /\ Deliver(m))

OFairness ==
    /\ WF_ovars(\E m \in net : Last(m))
    /\ WF_ovars(Second) /\ WF_ovars(ClockTick) /\ WF_ovars(ClockExpire)
    /\ \A h \in Host : /\ WF_ovars(router_keepalive_thread(h))
                       /\ SF_ovars(\E m \in net : m[1] = h /\ Deliver(m))

-----------------------------------------------------------------------------
(***************************************************************************)
(* The tracker does not advertise ghosts: however late, often and in which *)
(* order its datagrams arrive, a router whose keep-alive thread ended more *)
(* than the expiry interval and a datagram's delay ago is not listed.      *)
(***************************************************************************)
NoGhosts ==
    inForce /\ Idle => \A h \in Host : silent[h] = SilentMax => Missing(h)

(***************************************************************************)
(* A keep-alive interval one second below the expiry interval is enough,   *)
(* but only just: as long as nothing is lost, a router that runs drops out *)
(* of the table, if at all, for no longer than a datagram's delay.         *)
(***************************************************************************)
StaysListed ==
    inForce => \A h \in Host : sure[h] => missing[h] <= MaxDelay

(***************************************************************************)
(* A router that keeps running is listed again and again, whatever was     *)
(* lost before and however often the tracker starts afresh.                *)
(***************************************************************************)
GetsListed ==
    []inForce => \A h \in Host : <>[](mode[h] = "up") => []<>~Missing(h)
=============================================================================
