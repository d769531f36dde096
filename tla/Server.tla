------------------------------- MODULE Server -------------------------------
(***************************************************************************)
(* The thread pool of common/server.c, shared by both daemons: a TCP and a *)
(* UDP acceptor start one handler thread per connection or datagram, and   *)
(* num_threads, under num_threads_lock, limits how many run at once.       *)
(*                                                                         *)
(* main() initializes the counter and the mutex before any thread exists.  *)
(* udp_server_init() initializes both again, from the UDP thread and       *)
(* without the lock, while the TCP acceptor may already be serving: these  *)
(* are the steps Reset and Reinit.  An access to num_threads is split in   *)
(* the loads and stores of the machine, because Reset races with them.     *)
(*                                                                         *)
(* A definition named Mut... is the next one with a plausible mistake.     *)
(***************************************************************************)
EXTENDS Integers, FiniteSets

CONSTANTS
    Handler,     \* identities for handler threads; free ones are used again
    max_threads  \* settings.max_threads

ASSUME ServerAssumption ==
    /\ IsFiniteSet(Handler)
    /\ Handler \cap {"tcp", "udp"} = {}
    /\ max_threads \in Nat

VARIABLES
    pc,           \* where every thread is
    num_threads,
    locked,       \* num_threads_lock is held
    reg,          \* the value of num_threads a thread has loaded, or 0
    up,           \* the process has not called exit()
    leaked,       \* history: slots of handlers pthread_create did not start
    lost,         \* history: slots in use when udp_server_init reset the count
    clean         \* history: udp_server_init did so outside critical sections

hist  == <<leaked, lost, clean>>
svars == <<pc, num_threads, locked, reg, up, hist>>

Acceptor == {"tcp", "udp"}
Thread == Acceptor \cup Handler

AcceptorPC == {"bind", "reset", "reinit", "recv", "lock", "check", "load",
               "store", "unlock", "refuse", "create", "none"}
HandlerPC == {"none", "work", "exit", "dload", "dstore", "dunlock"}

\* Threads between pthread_mutex_lock and pthread_mutex_unlock.
Critical == {t \in Thread : pc[t] \in {"check", "load", "store", "unlock",
                                       "refuse", "dload", "dstore", "dunlock"}}

\* Threads that hold one of the slots num_threads counts.
Counted == {t \in Thread : pc[t] \in {"unlock", "create", "work", "exit",
                                      "dload", "dstore"}}

\* Clients being serviced.
Serving == {h \in Handler : pc[h] = "work"}

Goto(t, l) == pc' = [pc EXCEPT ![t] = l]

-----------------------------------------------------------------------------
(***************************************************************************)
(* Start-up.                                                               *)
(***************************************************************************)
\* tcp_server_init goes on to initialize the counter, too.
MutBindResets(t) ==
    /\ pc[t] = "bind"
    /\ Goto(t, "reset")
    /\ UNCHANGED <<num_threads, locked, reg, up, hist>>

\* tcp_server_init, udp_server_init: a socket is bound ...
Bind(t) ==
    /\ pc[t] = "bind"
    /\ Goto(t, IF t = "udp" THEN "reset" ELSE "recv")
    /\ UNCHANGED <<num_threads, locked, reg, up, hist>>

\* ... or the whole process exits.
BindFails(t) ==
    /\ pc[t] = "bind"
    /\ up' = FALSE
    /\ UNCHANGED <<pc, num_threads, locked, reg, hist>>

\* The end of udp_server_init: num_threads = 0, not under the lock.
Reset ==
    /\ pc["udp"] = "reset"
    /\ num_threads' = 0
    /\ lost' = num_threads
    /\ clean' = (clean /\ Critical = {})
    /\ Goto("udp", "reinit")
    /\ UNCHANGED <<locked, reg, up, leaked>>

\* pthread_mutex_init on the mutex in use leaves it unlocked.
Reinit ==
    /\ pc["udp"] = "reinit"
    /\ locked' = FALSE
    /\ clean' = (clean /\ ~locked)
    /\ Goto("udp", "recv")
    /\ UNCHANGED <<num_threads, reg, up, leaked, lost>>

-----------------------------------------------------------------------------
(***************************************************************************)
(* The loops of tcp_server_main and udp_server_main.                       *)
(***************************************************************************)
\* accept() or recvfrom() delivers a client (its failure changes nothing).
Receive(t) ==
    /\ pc[t] = "recv"
    /\ Goto(t, "lock")
    /\ UNCHANGED <<num_threads, locked, reg, up, hist>>

\* The acceptor does not wait for the mutex.
MutLockIgnoresHolder(t) ==
    /\ pc[t] = "lock"
    /\ locked' = TRUE
    /\ Goto(t, "check")
    /\ UNCHANGED <<num_threads, reg, up, hist>>

Lock(t) ==
    /\ pc[t] = "lock"
    /\ ~locked
    /\ locked' = TRUE
    /\ Goto(t, "check")
    /\ UNCHANGED <<num_threads, reg, up, hist>>

\* Off by one: num_threads > max_threads.
MutCheckOffByOne(t) ==
    /\ pc[t] = "check"
    /\ Goto(t, IF num_threads > max_threads THEN "refuse" ELSE "load")
    /\ UNCHANGED <<num_threads, locked, reg, up, hist>>

Check(t) ==
    /\ pc[t] = "check"
    /\ Goto(t, IF num_threads >= max_threads THEN "refuse" ELSE "load")
    /\ UNCHANGED <<num_threads, locked, reg, up, hist>>

\* The early exit forgets the mutex.
MutRefuseKeepsLock(t) ==
    /\ pc[t] = "refuse"
    /\ Goto(t, "recv")
    /\ UNCHANGED <<num_threads, locked, reg, up, hist>>

\* The client is dropped: the connection closed, the datagram discarded.
Refuse(t) ==
    /\ pc[t] = "refuse"
    /\ locked' = FALSE
    /\ Goto(t, "recv")
    /\ UNCHANGED <<num_threads, reg, up, hist>>

\* num_threads++
Load(t) ==
    /\ pc[t] = "load"
    /\ reg' = [reg EXCEPT ![t] = num_threads]
    /\ Goto(t, "store")
    /\ UNCHANGED <<num_threads, locked, up, hist>>

Store(t) ==
    /\ pc[t] = "store"
    /\ num_threads' = reg[t] + 1
    /\ reg' = [reg EXCEPT ![t] = 0]
    /\ Goto(t, "unlock")
    /\ UNCHANGED <<locked, up, hist>>

Unlock(t) ==
    /\ pc[t] = "unlock"
    /\ locked' = FALSE
    /\ Goto(t, "create")
    /\ UNCHANGED <<num_threads, reg, up, hist>>

\* pthread_create starts the handler on a free thread h ...
Create(t, h) ==
    /\ pc[t] = "create"
    /\ pc[h] = "none"
    /\ pc' = [pc EXCEPT ![t] = "recv", ![h] = "work"]
    /\ UNCHANGED <<num_threads, locked, reg, up, hist>>

\* ... or fails: the error is printed, and num_threads stays as it is.
CreateFails(t) ==
    /\ pc[t] = "create"
    /\ leaked' = leaked + 1
    /\ Goto(t, "recv")
    /\ UNCHANGED <<num_threads, locked, reg, up, lost, clean>>

-----------------------------------------------------------------------------
(***************************************************************************)
(* handle_connection and handle_message, up to the clean-up that gives the *)
(* slot back.  The requests themselves are the subject of other modules.   *)
(***************************************************************************)
Finish(h) ==
    /\ pc[h] = "work"
    /\ Goto(h, "exit")
    /\ UNCHANGED <<num_threads, locked, reg, up, hist>>

HandlerLock(h) ==
    /\ pc[h] = "exit"
    /\ ~locked
    /\ locked' = TRUE
    /\ Goto(h, "dload")
    /\ UNCHANGED <<num_threads, reg, up, hist>>

\* num_threads--
HandlerLoad(h) ==
    /\ pc[h] = "dload"
    /\ reg' = [reg EXCEPT ![h] = num_threads]
    /\ Goto(h, "dstore")
    /\ UNCHANGED <<num_threads, locked, up, hist>>

HandlerStore(h) ==
    /\ pc[h] = "dstore"
    /\ num_threads' = reg[h] - 1
    /\ reg' = [reg EXCEPT ![h] = 0]
    /\ Goto(h, "dunlock")
    /\ UNCHANGED <<locked, up, hist>>

HandlerUnlock(h) ==
    /\ pc[h] = "dunlock"
    /\ locked' = FALSE
    /\ Goto(h, "none")
    /\ UNCHANGED <<num_threads, reg, up, hist>>

-----------------------------------------------------------------------------
\* main() after its own initialization; it goes on without a UDP thread when
\* pthread_create cannot start one.
SInit ==
    /\ pc \in {[t \in Thread |-> IF t = "tcp" THEN "bind"
                                 ELSE IF t = "udp" THEN u ELSE "none"]
                 : u \in {"bind", "none"}}
    /\ num_threads = 0
    /\ locked = FALSE
    /\ reg = [t \in Thread |-> 0]
    /\ up = TRUE
    /\ leaked = 0
    /\ lost = 0
    /\ clean = TRUE

AcceptorStep(t) ==
    \/ Bind(t) \/ BindFails(t) \/ Receive(t) \/ Lock(t) \/ Check(t) \/ Refuse(t)
    \/ Load(t) \/ Store(t) \/ Unlock(t) \/ CreateFails(t)
    \/ \E h \in Handler : Create(t, h)

HandlerStep(h) ==
    \/ Finish(h) \/ HandlerLock(h) \/ HandlerLoad(h) \/ HandlerStore(h)
    \/ HandlerUnlock(h)

SNext ==
    /\ up
    /\ \/ Reset \/ Reinit
       \/ \E t \in Acceptor : AcceptorStep(t)
       \/ \E h \in Handler : HandlerStep(h)

SSpec == SInit /\ [][SNext]_svars

(***************************************************************************)
(* Type invariant.                                                         *)
(***************************************************************************)
STypeOK ==
    /\ pc \in [Thread -> AcceptorPC \cup HandlerPC]
    /\ \A h \in Handler : pc[h] \in HandlerPC
    /\ \A t \in Acceptor : pc[t] \in AcceptorPC
    /\ pc["tcp"] \notin {"reset", "reinit"}
    /\ num_threads \in Int
    /\ locked \in BOOLEAN
    /\ reg \in [Thread -> Int]
    /\ up \in BOOLEAN
    /\ leaked \in Nat
    /\ lost \in Int
    /\ clean \in BOOLEAN

(***************************************************************************)
(* If udp_server_init meets no thread in a critical section, the mutex it  *)
(* initializes a second time still excludes: at most one thread is between *)
(* lock and unlock, and then the mutex is held.                            *)
(***************************************************************************)
Exclusion ==
    clean => \A s, t \in Critical : s = t /\ locked

(***************************************************************************)
(* ... and num_threads is exact up to the slots the reset forgot: each     *)
(* slot is counted once and given back once, and neither what              *)
(* pthread_create failed to start nor what the reset forgot ever returns.  *)
(***************************************************************************)
Accounting ==
    clean => num_threads = Cardinality(Counted) + leaked - lost

(***************************************************************************)
(* ... and the clients serviced at once exceed max_threads by no more than *)
(* the reset forgot, which is at most max_threads again.                   *)
(***************************************************************************)
ThreadLimit ==
    clean => /\ Cardinality(Serving) + leaked <= max_threads + lost
             /\ lost \in 0 .. max_threads

\* The rest of the inductive invariant: the slots in use obey the limit, a
\* loaded value is current inside the critical section, and an acceptor
\* about to increment has room to do so.
SlotInv ==
    clean => /\ num_threads <= max_threads
             /\ lost \in 0 .. max_threads
             /\ pc["udp"] \in {"bind", "reset", "none"} => lost = 0
             /\ \A t \in Thread :
                   /\ pc[t] \in {"store", "dstore"} => reg[t] = num_threads
                   /\ pc[t] \in {"load", "store"} => num_threads < max_threads

(***************************************************************************)
(* doc/pstrackd: --max-threads is "The maximum number of clients to        *)
(* service concurrently".                                                  *)
(***************************************************************************)
MaxThreadsServed == Cardinality(Serving) <= max_threads
=============================================================================
