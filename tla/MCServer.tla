------------------------------ MODULE MCServer ------------------------------
(***************************************************************************)
(* Model checking of the thread pool.                                      *)
(***************************************************************************)
EXTENDS Server, TLC

(***************************************************************************)
(* Bound.  From the moment udp_server_init breaks into a critical section  *)
(* nothing is promised, and the passing runs stop there.                   *)
(***************************************************************************)
MCNext == clean /\ SNext

MCSpec == SInit /\ [][MCNext]_svars

Symmetry == Permutations(Handler)

(***************************************************************************)
(* Fairness.  A thread that can run does; pthread_mutex_lock is assumed    *)
(* not to starve a thread for ever.  Nothing is assumed of start-up, of    *)
(* clients, or of how long a handler works: a connection may stay open.    *)
(***************************************************************************)
Fairness ==
    /\ \A t \in Acceptor :
         /\ SF_svars(clean /\ Lock(t))
         /\ WF_svars(clean /\ (\/ Check(t) \/ Refuse(t) \/ Load(t) \/ Store(t)
                              \/ Unlock(t) \/ CreateFails(t)
                              \/ \E h \in Handler : Create(t, h)))
    /\ \A h \in Handler :
         /\ SF_svars(clean /\ HandlerLock(h))
         /\ WF_svars(clean /\ (HandlerLoad(h) \/ HandlerStore(h) \/ HandlerUnlock(h)))

MCFairSpec == MCSpec /\ Fairness

(***************************************************************************)
(* A handler that has finished its work always gives its slot back, and a  *)
(* client that was accepted is always either refused or handed over:       *)
(* nobody waits for ever at num_threads_lock.                              *)
(***************************************************************************)
SlotsReturn ==
    []clean => /\ \A h \in Handler : pc[h] = "exit" ~> pc[h] = "none" \/ ~up
               /\ \A t \in Acceptor : pc[t] = "lock" ~> pc[t] = "recv" \/ ~up
=============================================================================
