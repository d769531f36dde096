---------------------------- MODULE FloodProof ----------------------------
(***************************************************************************)
(* Proofs about broadcasting, for every network of routers and clients,    *)
(* any finite number of handler threads and every bound on the faults.     *)
(***************************************************************************)
EXTENDS Flood, FiniteSetTheorems, TLAPS

JobRecord ==
    [pc : {"cache", "flood", "clients"}, id : Id, hops : 0 .. 9, age : Nat,
     from : IP \cup {NoIP}, ok : BOOLEAN]

Message == [src : Router \cup Client, to : Router \cup Client, id : Id,
            hops : Int, age : Nat]

\* What a step that starts, moves or ends the handler s of router n does.
JobSet(n, s, j) == job' = [job EXCEPT ![n] = [job[n] EXCEPT ![s] = j]]

-----------------------------------------------------------------------------
(***************************************************************************)
(* A handler at work carries a broadcast.                                  *)
(***************************************************************************)
LEMMA AtWork ==
  ASSUME FTypeOK, NEW n \in Router, NEW s \in Slot, job[n][s].pc # "none"
  PROVE  job[n][s] \in JobRecord
BY DEF FTypeOK, JobType, JobRecord, NoJob

(***************************************************************************)
(* process_broadcast leaves the jobs alone, or gives the handler one that  *)
(* has counted this router and is within the limit.                        *)
(***************************************************************************)
LEMMA Started ==
  ASSUME FTypeOK, NEW n \in Router, NEW s \in Slot, NEW m \in Message,
         NEW f \in IP \cup {NoIP}, NEW ok \in BOOLEAN,
         process_broadcast(n, s, m, f, ok)
  PROVE  \/ job' = job
         \/ \E j \in JobRecord : /\ j.pc = "cache" /\ j.id = m.id
                                 /\ m.hops >= 0 /\ j.hops = m.hops + 1 /\ j.age = m.age + 1
                                 /\ j.hops \in 1 .. MAX_HOPS - 1
                                 /\ JobSet(n, s, j)
<1>1. CASE m.hops < 0 \/ m.hops >= MAX_HOPS - 1
  BY <1>1 DEF process_broadcast
<1>2. CASE ~(m.hops < 0 \/ m.hops >= MAX_HOPS - 1)
  <2> DEFINE j == Job(m, m.hops + 1, f, ok)
  <2>0. m.hops \in Int /\ m.age \in Nat /\ m.id \in Id
    BY DEF Message
  <2>1. /\ m.hops >= 0 /\ m.hops + 1 \in 1 .. MAX_HOPS - 1 /\ m.hops + 1 \in 0 .. 9
        /\ m.age + 1 \in Nat
    BY <1>2, <2>0, FloodAssumption
  <2>2. /\ j \in JobRecord /\ j.pc = "cache" /\ j.id = m.id
        /\ j.hops = m.hops + 1 /\ j.age = m.age + 1
    BY <2>0, <2>1 DEF JobRecord, Job
  <2>3. JobSet(n, s, j)
    BY <1>2 DEF process_broadcast, JobSet
  <2> QED
    BY <2>1, <2>2, <2>3
<1> QED
  BY <1>1, <1>2

(***************************************************************************)
(* The steps of FNext, by what they do to the jobs.                        *)
(***************************************************************************)
LEMMA TypeOfJobs ==
  ASSUME FTypeOK, NEW n \in Router, NEW s \in Slot, NEW j \in JobRecord \cup {NoJob},
         JobSet(n, s, j)
  PROVE  /\ job' \in [Router -> [Slot -> JobType]]
         /\ \A m \in Router, t \in Slot : job'[m][t] = IF m = n /\ t = s THEN j ELSE job[m][t]
BY DEF FTypeOK, JobType, JobRecord, JobSet

LEMMA MovedOn ==
  ASSUME FTypeOK, NEW n \in Router, NEW s \in Slot, job[n][s].pc # "none",
         NEW l \in {"cache", "flood", "clients"},
         job' = [job EXCEPT ![n][s].pc = l]
  PROVE  \E j \in JobRecord : /\ j.pc = l /\ j.id = job[n][s].id
                              /\ j.hops = job[n][s].hops /\ j.age = job[n][s].age
                              /\ JobSet(n, s, j)
<1> DEFINE j == [job[n][s] EXCEPT !.pc = l]
<1>1. job[n][s] \in JobRecord
  BY AtWork
<1>2. /\ j \in JobRecord /\ j.pc = l /\ j.id = job[n][s].id
      /\ j.hops = job[n][s].hops /\ j.age = job[n][s].age
  BY <1>1 DEF JobRecord
<1>3. JobSet(n, s, j)
  BY DEF JobSet, FTypeOK
<1> QED
  BY <1>2, <1>3

(***************************************************************************)
(* What the steps that take a message do to the jobs: it is one on the net *)
(* or a client's own, which no router has sent on.                         *)
(***************************************************************************)
LEMMA Arrival ==
  ASSUME FTypeOK, NEW n \in Router, NEW s \in Slot,
         \/ \E c \in Client, id \in Id, h \in StartHops : BroadcastTCP(c, n, s, id, h)
         \/ \E m \in net : Receive(n, s, m)
  PROVE  /\ job[n][s] = NoJob
         /\ \/ job' = job
            \/ \E j \in JobRecord, m \in Message :
                  /\ m \in net \/ (m.src \notin Router /\ m.age = 0)
                  /\ j.pc = "cache" /\ j.hops \in 1 .. MAX_HOPS - 1
                  /\ m.hops >= 0 /\ j.hops = m.hops + 1 /\ j.age = m.age + 1
                  /\ JobSet(n, s, j)
<1>1. ASSUME NEW c \in Client, NEW id \in Id, NEW h \in StartHops, BroadcastTCP(c, n, s, id, h)
      PROVE  /\ job[n][s] = NoJob
             /\ \E m \in Message, ok \in BOOLEAN, f \in IP \cup {NoIP} :
                   /\ m.src \notin Router /\ m.age = 0
                   /\ process_broadcast(n, s, m, f, ok)
  <2> DEFINE m == Datagram(c, n, id, h, 0)
  <2>1. m \in Message /\ m.src \notin Router /\ m.age = 0
    BY FloodAssumption DEF Datagram, Message
  <2>2. ip[c] \in IP
    BY FloodAssumption
  <2> QED
    BY <1>1, <2>1, <2>2 DEF BroadcastTCP
<1>2. ASSUME NEW m \in net, Receive(n, s, m)
      PROVE  /\ job[n][s] = NoJob
             /\ m \in Message
             /\ \E ok \in BOOLEAN, f \in IP \cup {NoIP} : process_broadcast(n, s, m, f, ok)
  <2>1. m \in Message /\ ip[m.src] \in IP
    BY FloodAssumption DEF FTypeOK, Message
  <2>2. SeenAs(ip[m.src]) \subseteq IP \cup {NoIP}
    BY <2>1, FloodAssumption DEF SeenAs
  <2> QED
    BY <1>2, <2>1, <2>2 DEF Receive
<1>3. /\ job[n][s] = NoJob
      /\ \E m \in Message, ok \in BOOLEAN, f \in IP \cup {NoIP} :
            /\ m \in net \/ (m.src \notin Router /\ m.age = 0)
            /\ process_broadcast(n, s, m, f, ok)
  BY <1>1, <1>2
<1>4. PICK m \in Message, ok \in BOOLEAN, f \in IP \cup {NoIP} :
            /\ m \in net \/ (m.src \notin Router /\ m.age = 0)
            /\ process_broadcast(n, s, m, f, ok)
  BY <1>3
<1>5. \/ job' = job
      \/ \E j \in JobRecord : /\ j.pc = "cache" /\ j.id = m.id
                              /\ m.hops >= 0 /\ j.hops = m.hops + 1 /\ j.age = m.age + 1
                              /\ j.hops \in 1 .. MAX_HOPS - 1
                              /\ JobSet(n, s, j)
  BY <1>4, Started
<1> QED
  BY <1>3, <1>4, <1>5

(***************************************************************************)
(* cache_msg ends the handler of a known id, and the handler of a new one  *)
(* goes on to flood it.                                                    *)
(***************************************************************************)
LEMMA CacheTest ==
  ASSUME FTypeOK, NEW n \in Router, NEW s \in Slot, cache_msg(n, s)
  PROVE  /\ job[n][s] \in JobRecord /\ job[n][s].pc = "cache"
         /\ \/ cache' = cache /\ JobSet(n, s, NoJob)
            \/ /\ job[n][s].id \notin cache[n]
               /\ cache' = [cache EXCEPT ![n] = @ \cup {job[n][s].id}]
               /\ \E j \in JobRecord : /\ j.pc = "flood" /\ j.id = job[n][s].id
                                       /\ j.hops = job[n][s].hops /\ j.age = job[n][s].age
                                       /\ JobSet(n, s, j)
<1>1. job[n][s].pc = "cache" /\ job[n][s].pc # "none"
  BY DEF cache_msg
<1>2. job[n][s] \in JobRecord
  BY <1>1, AtWork
<1>3. CASE job[n][s].id \in cache[n]
  <2>1. cache' = cache /\ job' = [job EXCEPT ![n][s] = NoJob]
    BY <1>3 DEF cache_msg
  <2>2. JobSet(n, s, NoJob)
    BY <2>1 DEF JobSet
  <2> QED
    BY <1>1, <1>2, <2>1, <2>2
<1>4. CASE job[n][s].id \notin cache[n]
  <2>1. /\ cache' = [cache EXCEPT ![n] = @ \cup {job[n][s].id}]
        /\ job' = [job EXCEPT ![n][s].pc = "flood"]
    BY <1>4 DEF cache_msg
  <2>2. \E j \in JobRecord : /\ j.pc = "flood" /\ j.id = job[n][s].id
                            /\ j.hops = job[n][s].hops /\ j.age = job[n][s].age
                            /\ JobSet(n, s, j)
    BY <1>1, <2>1, MovedOn
  <2> QED
    BY <1>1, <1>2, <1>4, <2>1, <2>2
<1> QED
  BY <1>3, <1>4

(***************************************************************************)
(* The type invariant is inductive.                                        *)
(***************************************************************************)
LEMMA TypeStep == FTypeOK /\ [FNext]_fvars => FTypeOK'
<1> SUFFICES ASSUME FTypeOK, [FNext]_fvars PROVE FTypeOK'
  OBVIOUS
<1>a. \A n \in Router, s \in Slot : job[n][s] \in JobType
  BY DEF FTypeOK
<1>b. MaxCasts \in Nat /\ MaxDups \in Nat /\ MaxChanges \in Nat
  BY FloodAssumption
<1>1. ASSUME NEW c \in Client, NEW n \in Router, NEW id \in Id, NEW h \in StartHops,
             Broadcast(c, n, id, h)
      PROVE  FTypeOK'
  <2>1. Datagram(c, n, id, h, 0) \in Message
    BY FloodAssumption DEF Datagram, Message
  <2> QED
    BY <1>1, <1>b, <2>1 DEF Broadcast, FTypeOK, Message
<1>2. ASSUME NEW n \in Router, NEW s \in Slot,
             \/ \E c \in Client, id \in Id, h \in StartHops : BroadcastTCP(c, n, s, id, h)
             \/ \E m \in net : Receive(n, s, m)
      PROVE  FTypeOK'
  <2>1. job' \in [Router -> [Slot -> JobType]]
    BY <1>2, Arrival, TypeOfJobs DEF FTypeOK
  <2>2. CASE \E c \in Client, id \in Id, h \in StartHops : BroadcastTCP(c, n, s, id, h)
    BY <1>b, <2>1, <2>2 DEF BroadcastTCP, FTypeOK
  <2>3. CASE \E m \in net : Receive(n, s, m)
    BY <1>b, <2>1, <2>3 DEF Receive, FTypeOK
  <2> QED
    BY <1>2, <2>2, <2>3
<1>3. ASSUME NEW m \in net, Lose(m) PROVE FTypeOK'
  BY <1>3 DEF Lose, FTypeOK
<1>4. ASSUME NEW n \in Router, NEW s \in Slot, HandlerNext(n, s) PROVE FTypeOK'
  <2>0. job[n][s] \in JobRecord
    BY <1>4, AtWork DEF HandlerNext, cache_msg, FloodRouters, FloodClients
  <2>1. CASE cache_msg(n, s)
    <3>1. \E j \in JobRecord \cup {NoJob} : JobSet(n, s, j)
      BY <2>1, CacheTest
    <3>2. job' \in [Router -> [Slot -> JobType]]
      BY <3>1, TypeOfJobs
    <3>3. cache' \in [Router -> SUBSET Id]
      BY <2>0, <2>1 DEF cache_msg, FTypeOK, JobRecord
    <3> QED
      BY <2>1, <3>2, <3>3 DEF cache_msg, FTypeOK
  <2>2. CASE FloodRouters(n, s)
    <3>1. job' \in [Router -> [Slot -> JobType]]
      BY <2>0, <2>2, MovedOn, TypeOfJobs DEF FloodRouters
    <3>2. \A r \in routers[n] : Datagram(n, r, job[n][s].id, job[n][s].hops, job[n][s].age) \in Message
      BY <2>0 DEF FTypeOK, Datagram, Message, JobRecord
    <3>3. net' \subseteq Message
      BY <2>2, <3>2 DEF FloodRouters, FTypeOK, Message
    <3>4. lock' \in [Router -> Slot \cup {"free", "update"}]
      BY <2>2 DEF FloodRouters, FTypeOK
    <3>5. surplus' \in [Router -> [Id -> Int]]
      BY <2>0, <2>2 DEF FloodRouters, FTypeOK, JobRecord
    <3> QED
      BY <2>2, <3>1, <3>3, <3>4, <3>5 DEF FloodRouters, FTypeOK, Message
  <2>3. CASE FloodClients(n, s)
    <3>1. job' \in [Router -> [Slot -> JobType]]
      BY <2>3, TypeOfJobs DEF FloodClients, JobSet, FTypeOK
    <3>2. \A c \in clients[n] : Datagram(n, c, job[n][s].id, job[n][s].hops, job[n][s].age) \in Message
      BY <2>0 DEF FTypeOK, Datagram, Message, JobRecord
    <3>3. net' \subseteq Message
      BY <2>3, <3>2 DEF FloodClients, FTypeOK, Message
    <3> QED
      BY <2>3, <3>1, <3>3 DEF FloodClients, FTypeOK, Message
  <2> QED
    BY <1>4, <2>1, <2>2, <2>3 DEF HandlerNext
<1>5. ASSUME NEW n \in Router, NEW id \in Id, Expire(n, id) PROVE FTypeOK'
  BY <1>5 DEF Expire, FTypeOK
<1>6. ASSUME NEW n \in Router, SetClients(n) PROVE FTypeOK'
  BY <1>6, <1>b DEF SetClients, FTypeOK
<1>7. ASSUME NEW n \in Router, UpdateStart(n) \/ UpdateFails(n) PROVE FTypeOK'
  BY <1>7 DEF UpdateStart, UpdateFails, FTypeOK
<1>8. ASSUME NEW n \in Router, UpdateEnd(n) PROVE FTypeOK'
  BY <1>8, <1>b DEF UpdateEnd, psnet_request_discover, FTypeOK
<1>9. CASE UNCHANGED fvars
  BY <1>9 DEF fvars, FTypeOK
<1> QED
  BY <1>1, <1>2, <1>3, <1>4, <1>5, <1>6, <1>7, <1>8, <1>9 DEF FNext

LEMMA TypeInit == FInit => FTypeOK
BY FloodAssumption DEF FInit, FTypeOK, JobType

(***************************************************************************)
(* Whatever arrives, is lost, duplicated or forgotten, the lists, caches,  *)
(* jobs and datagrams of the routers keep their types.                     *)
(***************************************************************************)
THEOREM FloodTypeCorrect == FSpec => []FTypeOK
BY TypeInit, TypeStep, PTL DEF FSpec

-----------------------------------------------------------------------------
(***************************************************************************)
(* The hop limit.                                                          *)
(***************************************************************************)
\* A job that counted its hops.
JobCounted(j) == j # NoJob => Counted(j)

LEMMA CountedJobs ==
  ASSUME FTypeOK, HopLimit, NEW n \in Router, NEW s \in Slot,
         NEW j \in JobRecord \cup {NoJob}, JobSet(n, s, j), JobCounted(j)
  PROVE  \A m \in Router, t \in Slot : job'[m][t] # NoJob => Counted(job'[m][t])
BY TypeOfJobs DEF HopLimit, JobCounted

LEMMA HopStep == FTypeOK /\ HopLimit /\ [FNext]_fvars => HopLimit'
<1> SUFFICES ASSUME FTypeOK, HopLimit, [FNext]_fvars PROVE HopLimit'
  OBVIOUS
<1>0. ASSUME \A m \in net' : m \in net \/ (IF m.src \in Router THEN Counted(m) ELSE m.age = 0),
             \A n \in Router, s \in Slot : job'[n][s] # NoJob => Counted(job'[n][s])
      PROVE  HopLimit'
  BY <1>0 DEF HopLimit, Counted
<1>j. \A n \in Router, s \in Slot : job[n][s] # NoJob => Counted(job[n][s])
  BY DEF HopLimit
<1>1. ASSUME NEW c \in Client, NEW n \in Router, NEW id \in Id, NEW h \in StartHops,
             Broadcast(c, n, id, h)
      PROVE  HopLimit'
  <2>1. Datagram(c, n, id, h, 0).src \notin Router /\ Datagram(c, n, id, h, 0).age = 0
    BY FloodAssumption DEF Datagram
  <2> QED
    BY <1>0, <1>1, <1>j, <2>1 DEF Broadcast
<1>2. ASSUME NEW n \in Router, NEW s \in Slot,
             \/ \E c \in Client, id \in Id, h \in StartHops : BroadcastTCP(c, n, s, id, h)
             \/ \E m \in net : Receive(n, s, m)
      PROVE  HopLimit'
  <2>1. net' \subseteq net
    BY <1>2 DEF BroadcastTCP, Receive
  <2>2. CASE job' = job
    BY <1>0, <1>j, <2>1, <2>2
  <2>3. ASSUME NEW j \in JobRecord, NEW m \in Message,
               m \in net \/ (m.src \notin Router /\ m.age = 0),
               j.hops \in 1 .. MAX_HOPS - 1, m.hops >= 0,
               j.hops = m.hops + 1, j.age = m.age + 1, JobSet(n, s, j)
        PROVE  HopLimit'
    <3>1. m.age = 0 \/ m.age <= m.hops
      BY <2>3 DEF HopLimit, Counted
    <3>2. m.hops \in Int /\ m.age \in Nat
      BY DEF Message
    <3>3. j.age <= j.hops
      BY <2>3, <3>1, <3>2
    <3>4. JobCounted(j)
      BY <2>3, <3>3 DEF JobCounted, Counted
    <3>5. \A k \in Router, t \in Slot : job'[k][t] # NoJob => Counted(job'[k][t])
      BY <2>3, <3>4, CountedJobs
    <3> QED
      BY <1>0, <2>1, <3>5
  <2> QED
    BY <1>2, <2>2, <2>3, Arrival
<1>3. ASSUME NEW m \in net, Lose(m) PROVE HopLimit'
  BY <1>0, <1>3, <1>j DEF Lose
<1>4. ASSUME NEW n \in Router, NEW s \in Slot, HandlerNext(n, s) PROVE HopLimit'
  <2>1. job[n][s] \in JobRecord /\ job[n][s].pc # "none"
    BY <1>4, AtWork DEF HandlerNext, cache_msg, FloodRouters, FloodClients
  <2>2. Counted(job[n][s])
    BY <1>j, <2>1 DEF NoJob
  <2>3. CASE cache_msg(n, s)
    <3>1. \E j \in JobRecord \cup {NoJob} : JobCounted(j) /\ JobSet(n, s, j)
      BY <2>2, <2>3, CacheTest DEF JobCounted, Counted
    <3>2. net' = net
      BY <2>3 DEF cache_msg
    <3>3. \A m \in Router, t \in Slot : job'[m][t] # NoJob => Counted(job'[m][t])
      BY <3>1, CountedJobs
    <3> QED
      BY <1>0, <3>2, <3>3
  <2>4. CASE FloodRouters(n, s)
    <3>1. \E j \in JobRecord : JobCounted(j) /\ JobSet(n, s, j)
      BY <2>1, <2>2, <2>4, MovedOn DEF JobCounted, Counted, FloodRouters
    <3>2. \A m \in net' : \/ m \in net
                          \/ m.src = n /\ m.hops = job[n][s].hops /\ m.age = job[n][s].age
      BY <2>4 DEF FloodRouters, Datagram
    <3>3. \A m \in net' : m \in net \/ (m.src \in Router /\ Counted(m))
      BY <2>2, <3>2 DEF Counted
    <3>4. \A m \in Router, t \in Slot : job'[m][t] # NoJob => Counted(job'[m][t])
      BY <3>1, CountedJobs
    <3> QED
      BY <1>0, <3>3, <3>4
  <2>5. CASE FloodClients(n, s)
    <3>1. JobSet(n, s, NoJob) /\ JobCounted(NoJob)
      BY <2>5 DEF JobSet, FloodClients, JobCounted
    <3>2. \A m \in net' : \/ m \in net
                          \/ m.src = n /\ m.hops = job[n][s].hops /\ m.age = job[n][s].age
      BY <2>5 DEF FloodClients, Datagram
    <3>3. \A m \in net' : m \in net \/ (m.src \in Router /\ Counted(m))
      BY <2>2, <3>2 DEF Counted
    <3>4. \A m \in Router, t \in Slot : job'[m][t] # NoJob => Counted(job'[m][t])
      BY <3>1, CountedJobs
    <3> QED
      BY <1>0, <3>3, <3>4
  <2> QED
    BY <1>4, <2>3, <2>4, <2>5 DEF HandlerNext
<1>5. ASSUME net' = net, job' = job PROVE HopLimit'
  BY <1>0, <1>5, <1>j
<1> QED
  BY <1>1, <1>2, <1>3, <1>4, <1>5
  DEF FNext, Expire, SetClients, UpdateStart, UpdateFails, UpdateEnd, fvars

(***************************************************************************)
(* process_broadcast's hop limit, for every network, every fault and       *)
(* whatever a client puts into the hop count, judged by its first          *)
(* character as the code does: no copy passes more than MAX_HOPS - 1       *)
(* routers.                                                                *)
(***************************************************************************)
THEOREM HopLimitHolds == FSpec => []HopLimit
<1>1. FInit => HopLimit
  BY DEF FInit, HopLimit
<1> QED
  BY <1>1, TypeInit, TypeStep, HopStep, PTL DEF FSpec

-----------------------------------------------------------------------------
(***************************************************************************)
(* A router floods an id once.  The handlers that hold an id they have     *)
(* cached and not flooded:                                                 *)
(***************************************************************************)
Flooding(n, id) == {s \in Slot : job[n][s].pc = "flood" /\ job[n][s].id = id}

LEMMA FiniteFlooding ==
  ASSUME NEW n, NEW id
  PROVE  IsFiniteSet(Flooding(n, id)) /\ Cardinality(Flooding(n, id)) \in Nat
BY FloodAssumption, FS_Subset, FS_CardinalityType DEF Flooding

\* A job that is not at its flood before or after a step is not counted.
LEMMA FloodingKept ==
  ASSUME FTypeOK, NEW n \in Router, NEW s \in Slot, NEW j \in JobRecord \cup {NoJob},
         JobSet(n, s, j), job[n][s].pc # "flood", j.pc # "flood"
  PROVE  \A m \in Router, id \in Id : Flooding(m, id)' = Flooding(m, id)
BY TypeOfJobs DEF Flooding

LEMMA FloodingGrows ==
  ASSUME FTypeOK, NEW n \in Router, NEW s \in Slot, NEW j \in JobRecord,
         JobSet(n, s, j), job[n][s].pc # "flood", j.pc = "flood"
  PROVE  \A m \in Router, id \in Id :
            IF m = n /\ id = j.id
            THEN Cardinality(Flooding(m, id)') = Cardinality(Flooding(m, id)) + 1
            ELSE Flooding(m, id)' = Flooding(m, id)
<1> SUFFICES ASSUME NEW m \in Router, NEW id \in Id
             PROVE  IF m = n /\ id = j.id
                    THEN Cardinality(Flooding(m, id)') = Cardinality(Flooding(m, id)) + 1
                    ELSE Flooding(m, id)' = Flooding(m, id)
  OBVIOUS
<1>1. CASE m = n /\ id = j.id
  <2>1. Flooding(m, id)' = Flooding(m, id) \cup {s} /\ s \notin Flooding(m, id)
    BY <1>1, TypeOfJobs DEF Flooding
  <2>2. IsFiniteSet(Flooding(m, id))
    BY FiniteFlooding
  <2>3. Cardinality(Flooding(m, id) \cup {s}) = Cardinality(Flooding(m, id)) + 1
    BY <2>1, <2>2, FS_AddElement
  <2> QED
    BY <1>1, <2>1, <2>3
<1>2. CASE ~(m = n /\ id = j.id)
  BY <1>2, TypeOfJobs DEF Flooding
<1> QED
  BY <1>1, <1>2

LEMMA FloodingShrinks ==
  ASSUME FTypeOK, NEW n \in Router, NEW s \in Slot, NEW j \in JobRecord,
         JobSet(n, s, j), job[n][s].pc = "flood", j.pc # "flood"
  PROVE  \A m \in Router, id \in Id :
            IF m = n /\ id = job[n][s].id
            THEN Cardinality(Flooding(m, id)') = Cardinality(Flooding(m, id)) - 1
            ELSE Flooding(m, id)' = Flooding(m, id)
<1> SUFFICES ASSUME NEW m \in Router, NEW id \in Id
             PROVE  IF m = n /\ id = job[n][s].id
                    THEN Cardinality(Flooding(m, id)') = Cardinality(Flooding(m, id)) - 1
                    ELSE Flooding(m, id)' = Flooding(m, id)
  OBVIOUS
<1>1. CASE m = n /\ id = job[n][s].id
  <2>1. Flooding(m, id)' = Flooding(m, id) \ {s} /\ s \in Flooding(m, id)
    BY <1>1, TypeOfJobs DEF Flooding
  <2>2. IsFiniteSet(Flooding(m, id))
    BY FiniteFlooding
  <2>3. Cardinality(Flooding(m, id) \ {s}) = Cardinality(Flooding(m, id)) - 1
    BY <2>1, <2>2, FS_RemoveElement
  <2> QED
    BY <1>1, <2>1, <2>3
<1>2. CASE ~(m = n /\ id = job[n][s].id)
  BY <1>2, TypeOfJobs DEF Flooding
<1> QED
  BY <1>1, <1>2

LEMMA FloodStep == FTypeOK /\ FloodOnce /\ [FNext]_fvars => FloodOnce'
<1> SUFFICES ASSUME FTypeOK, FloodOnce, [FNext]_fvars PROVE FloodOnce'
  OBVIOUS
<1>a. \A n \in Router, id \in Id :
         surplus[n][id] + Cardinality(Flooding(n, id)) = IF id \in cache[n] THEN 1 ELSE 0
  BY DEF FloodOnce, Flooding
<1>b. SUFFICES \A n \in Router, id \in Id :
         surplus'[n][id] + Cardinality(Flooding(n, id)') = IF id \in cache'[n] THEN 1 ELSE 0
  BY DEF FloodOnce, Flooding
<1>c. \A n \in Router, id \in Id :
         surplus[n][id] \in Int /\ Cardinality(Flooding(n, id)) \in Nat
  BY FiniteFlooding DEF FTypeOK
<1>1. ASSUME surplus' = surplus, cache' = cache, job' = job PROVE <1>b!1
  BY <1>1, <1>a DEF Flooding
<1>2. ASSUME NEW n \in Router, NEW s \in Slot,
             \/ \E c \in Client, id \in Id, h \in StartHops : BroadcastTCP(c, n, s, id, h)
             \/ \E m \in net : Receive(n, s, m)
      PROVE  <1>b!1
  <2>1. surplus' = surplus /\ cache' = cache
    BY <1>2 DEF BroadcastTCP, Receive
  <2>2. CASE job' = job
    BY <1>1, <2>1, <2>2
  <2>3. CASE \E j \in JobRecord : j.pc = "cache" /\ JobSet(n, s, j)
    <3>1. job[n][s].pc # "flood"
      BY <1>2, Arrival DEF NoJob
    <3>2. \A m \in Router, id \in Id : Flooding(m, id)' = Flooding(m, id)
      BY <2>3, <3>1, FloodingKept
    <3> QED
      BY <1>a, <2>1, <3>2
  <2> QED
    BY <1>2, <2>2, <2>3, Arrival
<1>3. ASSUME NEW n \in Router, NEW s \in Slot, cache_msg(n, s) PROVE <1>b!1
  <2> DEFINE i == job[n][s].id
  <2>0. i \in Id /\ job[n][s].pc # "flood" /\ surplus' = surplus
    BY <1>3, CacheTest DEF JobRecord, cache_msg
  <2>1. CASE cache' = cache /\ JobSet(n, s, NoJob)
    <3>1. \A m \in Router, id \in Id : Flooding(m, id)' = Flooding(m, id)
      BY <2>0, <2>1, FloodingKept DEF NoJob
    <3> QED
      BY <1>a, <2>0, <2>1, <3>1
  <2>2. CASE /\ i \notin cache[n] /\ cache' = [cache EXCEPT ![n] = @ \cup {i}]
             /\ \E j \in JobRecord : j.pc = "flood" /\ j.id = i /\ JobSet(n, s, j)
    <3>1. \A m \in Router, id \in Id :
             IF m = n /\ id = i
             THEN Cardinality(Flooding(m, id)') = Cardinality(Flooding(m, id)) + 1
             ELSE Flooding(m, id)' = Flooding(m, id)
      BY <2>0, <2>2, FloodingGrows
    <3>2. \A m \in Router, id \in Id :
             id \in cache'[m] <=> id \in cache[m] \/ (m = n /\ id = i)
      BY <2>2 DEF FTypeOK
    <3>3. ASSUME NEW m \in Router, NEW id \in Id
          PROVE  surplus'[m][id] + Cardinality(Flooding(m, id)')
                   = IF id \in cache'[m] THEN 1 ELSE 0
      <4>1. CASE m = n /\ id = i
        BY <1>a, <1>c, <2>0, <2>2, <3>1, <3>2, <4>1
      <4>2. CASE ~(m = n /\ id = i)
        BY <1>a, <2>0, <3>1, <3>2, <4>2
      <4> QED
        BY <4>1, <4>2
    <3> QED
      BY <3>3
  <2> QED
    BY <1>3, <2>1, <2>2, CacheTest
<1>4. ASSUME NEW n \in Router, NEW s \in Slot, FloodRouters(n, s) PROVE <1>b!1
  <2> DEFINE i == job[n][s].id
  <2>0. job[n][s].pc = "flood" /\ job[n][s].pc # "none" /\ cache' = cache
    BY <1>4 DEF FloodRouters
  <2>1. i \in Id
    BY <2>0, AtWork DEF JobRecord
  <2>2. \E j \in JobRecord : j.pc = "clients" /\ JobSet(n, s, j)
    BY <1>4, <2>0, MovedOn DEF FloodRouters
  <2>3. \A m \in Router, id \in Id :
           IF m = n /\ id = i
           THEN Cardinality(Flooding(m, id)') = Cardinality(Flooding(m, id)) - 1
           ELSE Flooding(m, id)' = Flooding(m, id)
    BY <2>0, <2>2, FloodingShrinks
  <2>4. \A m \in Router, id \in Id :
           surplus'[m][id] = IF m = n /\ id = i THEN surplus[m][id] + 1 ELSE surplus[m][id]
    BY <1>4, <2>1 DEF FloodRouters, FTypeOK
  <2>5. ASSUME NEW m \in Router, NEW id \in Id
        PROVE  surplus'[m][id] + Cardinality(Flooding(m, id)')
                 = surplus[m][id] + Cardinality(Flooding(m, id))
    <3>1. CASE m = n /\ id = i
      BY <1>c, <2>3, <2>4, <3>1
    <3>2. CASE ~(m = n /\ id = i)
      BY <2>3, <2>4, <3>2
    <3> QED
      BY <3>1, <3>2
  <2> QED
    BY <1>a, <2>0, <2>5
<1>5. ASSUME NEW n \in Router, NEW s \in Slot, FloodClients(n, s) PROVE <1>b!1
  <2>1. surplus' = surplus /\ cache' = cache /\ job[n][s].pc # "flood"
    BY <1>5 DEF FloodClients
  <2>2. JobSet(n, s, NoJob)
    BY <1>5 DEF JobSet, FloodClients
  <2>3. \A m \in Router, id \in Id : Flooding(m, id)' = Flooding(m, id)
    BY <2>1, <2>2, FloodingKept DEF NoJob
  <2> QED
    BY <1>a, <2>1, <2>3
<1>6. ASSUME NEW n \in Router, NEW i \in Id, Expire(n, i) PROVE <1>b!1
  <2>1. \A m \in Router, id \in Id : Flooding(m, id)' = Flooding(m, id)
    BY <1>6 DEF Expire, Flooding
  <2>2. /\ i \in cache[n]
        /\ \A m \in Router, id \in Id :
             id \in cache'[m] <=> id \in cache[m] /\ ~(m = n /\ id = i)
    BY <1>6 DEF Expire, FTypeOK
  <2>3. \A m \in Router, id \in Id :
           surplus'[m][id] = IF m = n /\ id = i THEN surplus[m][id] - 1 ELSE surplus[m][id]
    BY <1>6 DEF Expire, FTypeOK
  <2>4. ASSUME NEW m \in Router, NEW id \in Id
        PROVE  surplus'[m][id] + Cardinality(Flooding(m, id)')
                 = IF id \in cache'[m] THEN 1 ELSE 0
    <3>1. CASE m = n /\ id = i
      BY <1>a, <1>c, <2>1, <2>2, <2>3, <3>1
    <3>2. CASE ~(m = n /\ id = i)
      BY <1>a, <2>1, <2>2, <2>3, <3>2
    <3> QED
      BY <3>1, <3>2
  <2> QED
    BY <2>4
<1> QED
  BY <1>1, <1>2, <1>3, <1>4, <1>5, <1>6
  DEF FNext, HandlerNext, Broadcast, Lose, SetClients, UpdateStart, UpdateFails, UpdateEnd, fvars

(***************************************************************************)
(* The message cache does its work for any number of handler threads: a    *)
(* router floods an id once, and again only after its cache let it expire. *)
(***************************************************************************)
THEOREM FloodOnceHolds == FSpec => []FloodOnce
<1>1. FInit => FloodOnce
  <2> SUFFICES ASSUME FInit, NEW n \in Router, NEW id \in Id
               PROVE  surplus[n][id] + Cardinality(Flooding(n, id))
                        = IF id \in cache[n] THEN 1 ELSE 0
    BY DEF FloodOnce, Flooding
  <2>1. Flooding(n, id) = {}
    BY DEF FInit, Flooding, NoJob
  <2> QED
    BY <2>1, FS_EmptySet DEF FInit
<1> QED
  BY <1>1, TypeInit, TypeStep, FloodStep, PTL DEF FSpec
=============================================================================
