---------------------------- MODULE ServerProof ----------------------------
(***************************************************************************)
(* Proofs about the thread pool, for every max_threads and any finite set  *)
(* of handler threads.                                                     *)
(*                                                                         *)
(* Accounting is not inductive alone: that num_threads++ adds one to the   *)
(* count needs the loaded value to be current (SlotInv), which needs the   *)
(* mutex to exclude every other thread meanwhile (Exclusion).              *)
(***************************************************************************)
EXTENDS Server, FiniteSetTheorems, TLAPS

PoolInv == STypeOK /\ Exclusion /\ Accounting /\ SlotInv

CountedPC == {"unlock", "create", "work", "exit", "dload", "dstore"}

-----------------------------------------------------------------------------
(***************************************************************************)
(* Any set of threads is finite and has a cardinality.                     *)
(***************************************************************************)
LEMMA ThreadsFinite ==
  ASSUME NEW S \in SUBSET Thread
  PROVE  IsFiniteSet(S) /\ Cardinality(S) \in Nat
<1>1. IsFiniteSet({"udp"} \cup {"tcp"})
  BY FS_EmptySet, FS_AddElement, FS_Singleton
<1>2. Acceptor = {"udp"} \cup {"tcp"}
  BY DEF Acceptor
<1>3. IsFiniteSet(Thread)
  BY <1>1, <1>2, FS_Union, ServerAssumption DEF Thread
<1> QED
  BY <1>3, FS_Subset, FS_CardinalityType

(***************************************************************************)
(* The type invariant is inductive.                                        *)
(***************************************************************************)
LEMMA TypeStep == STypeOK /\ [SNext]_svars => STypeOK'
<1> SUFFICES ASSUME STypeOK, [SNext]_svars PROVE STypeOK'
  OBVIOUS
<1> USE ServerAssumption DEF STypeOK, Thread, Acceptor, AcceptorPC, HandlerPC, Goto, hist
<1>1. CASE Reset
  BY <1>1 DEF Reset
<1>2. CASE Reinit
  BY <1>2 DEF Reinit
<1>3. ASSUME NEW t \in Acceptor, AcceptorStep(t) PROVE STypeOK'
  <2>1. CASE Bind(t) \/ BindFails(t)
    BY <2>1 DEF Bind, BindFails
  <2>2. CASE Receive(t) \/ Lock(t) \/ Check(t) \/ Refuse(t)
    BY <2>2 DEF Receive, Lock, Check, Refuse
  <2>3. CASE Unlock(t)
    BY <2>3 DEF Unlock
  <2>7. CASE CreateFails(t)
    BY <2>7 DEF CreateFails
  <2>5. CASE Load(t)
    BY <2>5 DEF Load
  <2>6. CASE Store(t)
    BY <2>6 DEF Store
  <2>4. ASSUME NEW h \in Handler, Create(t, h) PROVE STypeOK'
    BY <2>4 DEF Create
  <2> QED
    BY <1>3, <2>1, <2>2, <2>3, <2>4, <2>5, <2>6, <2>7 DEF AcceptorStep
<1>4. ASSUME NEW h \in Handler, HandlerStep(h) PROVE STypeOK'
  <2>1. CASE Finish(h) \/ HandlerLock(h) \/ HandlerUnlock(h)
    BY <2>1 DEF Finish, HandlerLock, HandlerUnlock
  <2>2. CASE HandlerLoad(h)
    BY <2>2 DEF HandlerLoad
  <2>3. CASE HandlerStore(h)
    BY <2>3 DEF HandlerStore
  <2> QED
    BY <1>4, <2>1, <2>2, <2>3 DEF HandlerStep
<1>5. CASE UNCHANGED svars
  BY <1>5 DEF svars
<1> QED
  BY <1>1, <1>2, <1>3, <1>4, <1>5 DEF SNext

(***************************************************************************)
(* What a thread that moves within or outside the counted places, into     *)
(* them or out of them, does to the number of slots in use.                *)
(***************************************************************************)
LEMMA SlotKept ==
  ASSUME STypeOK, NEW t \in Thread, NEW l, pc' = [pc EXCEPT ![t] = l],
         pc[t] \in CountedPC <=> l \in CountedPC
  PROVE  Counted' = Counted
BY DEF Counted, STypeOK, CountedPC

LEMMA SlotTaken ==
  ASSUME STypeOK, NEW t \in Thread, NEW l, pc' = [pc EXCEPT ![t] = l],
         pc[t] \notin CountedPC, l \in CountedPC
  PROVE  Cardinality(Counted') = Cardinality(Counted) + 1
<1>1. Counted' = Counted \cup {t} /\ t \notin Counted
  BY DEF Counted, STypeOK, CountedPC
<1>2. IsFiniteSet(Counted)
  BY ThreadsFinite DEF Counted
<1> QED
  BY <1>1, <1>2, FS_AddElement

LEMMA SlotGiven ==
  ASSUME STypeOK, NEW t \in Thread, NEW l, pc' = [pc EXCEPT ![t] = l],
         pc[t] \in CountedPC, l \notin CountedPC
  PROVE  Cardinality(Counted') = Cardinality(Counted) - 1
<1>1. Counted' = Counted \ {t} /\ t \in Counted
  BY DEF Counted, STypeOK, CountedPC
<1>2. IsFiniteSet(Counted)
  BY ThreadsFinite DEF Counted
<1> QED
  BY <1>1, <1>2, FS_RemoveElement

LEMMA SlotHandedOver ==
  ASSUME STypeOK, NEW t \in Thread, NEW h \in Thread, t # h,
         pc[t] \in CountedPC, pc[h] \notin CountedPC, NEW l, NEW m,
         pc' = [pc EXCEPT ![t] = l, ![h] = m], l \notin CountedPC, m \in CountedPC
  PROVE  Cardinality(Counted') = Cardinality(Counted)
<1>1. Counted' = (Counted \ {t}) \cup {h} /\ t \in Counted /\ h \notin Counted
  BY DEF Counted, STypeOK, CountedPC
<1>2. IsFiniteSet(Counted) /\ Cardinality(Counted) \in Nat
  BY ThreadsFinite DEF Counted
<1>3. IsFiniteSet(Counted \ {t}) /\ Cardinality(Counted \ {t}) = Cardinality(Counted) - 1
  BY <1>1, <1>2, FS_RemoveElement
<1>4. h \notin Counted \ {t}
  BY <1>1
<1>5. Cardinality((Counted \ {t}) \cup {h}) = Cardinality(Counted \ {t}) + 1
  BY <1>3, <1>4, FS_AddElement
<1> QED
  BY <1>1, <1>2, <1>3, <1>5

-----------------------------------------------------------------------------
LEMMA PoolInit == SInit => PoolInv
<1> SUFFICES ASSUME SInit PROVE PoolInv
  OBVIOUS
<1>1. STypeOK
  <2> PICK u \in {"bind", "none"} :
        pc = [t \in Thread |-> IF t = "tcp" THEN "bind" ELSE IF t = "udp" THEN u ELSE "none"]
    BY DEF SInit
  <2>1. \A t \in Thread : pc[t] = IF t = "tcp" THEN "bind"
                                  ELSE IF t = "udp" THEN u ELSE "none"
    OBVIOUS
  <2>2. \A h \in Handler : h \in Thread /\ h # "tcp" /\ h # "udp"
    BY ServerAssumption DEF Thread
  <2>3. "tcp" \in Thread /\ "udp" \in Thread
    BY DEF Thread, Acceptor
  <2>4. pc \in [Thread -> AcceptorPC \cup HandlerPC]
    BY DEF AcceptorPC, HandlerPC
  <2>5. /\ \A h \in Handler : pc[h] \in HandlerPC
        /\ \A t \in Acceptor : pc[t] \in AcceptorPC
        /\ pc["tcp"] \notin {"reset", "reinit"}
    BY <2>1, <2>2, <2>3 DEF Acceptor, AcceptorPC, HandlerPC
  <2>6. reg \in [Thread -> Int] /\ num_threads \in Int /\ leaked \in Nat /\ lost \in Int
    BY DEF SInit
  <2>7. locked \in BOOLEAN /\ up \in BOOLEAN /\ clean \in BOOLEAN
    BY DEF SInit
  <2> QED
    BY <2>4, <2>5, <2>6, <2>7 DEF STypeOK
<1>2. Counted = {} /\ Critical = {}
  BY ServerAssumption DEF SInit, Counted, Critical, Thread, Acceptor
<1>3. Cardinality(Counted) = 0
  BY <1>2, FS_EmptySet
<1>4. SlotInv
  BY ServerAssumption DEF SInit, SlotInv, Thread, Acceptor
<1> QED
  BY <1>1, <1>2, <1>3, <1>4 DEF PoolInv, Exclusion, Accounting, SInit

(***************************************************************************)
(* Every step keeps the invariant.                                         *)
(***************************************************************************)
LEMMA PoolStep == PoolInv /\ [SNext]_svars => PoolInv'
<1> SUFFICES ASSUME PoolInv, [SNext]_svars PROVE PoolInv'
  OBVIOUS
<1>0. STypeOK /\ STypeOK' /\ Exclusion /\ Accounting /\ SlotInv
  BY TypeStep DEF PoolInv
<1>c. Cardinality(Counted) \in Nat
  BY ThreadsFinite DEF Counted
<1>d. max_threads \in Nat /\ Acceptor \subseteq Thread /\ Handler \subseteq Thread
  BY ServerAssumption DEF Thread
<1> USE DEF Goto, hist
<1>1. CASE Reset
  <2>1. Counted' = Counted
    BY <1>0, <1>1, SlotKept DEF Reset, CountedPC, Thread, Acceptor
  <2>2. Exclusion'
    BY <1>0, <1>1 DEF Reset, Exclusion, Critical, STypeOK
  <2>3. clean' => clean /\ lost = 0 /\ num_threads = Cardinality(Counted) + leaked
    BY <1>0, <1>1, <1>c DEF Reset, Accounting, SlotInv, STypeOK
  <2>4. Accounting'
    BY <1>0, <1>1, <1>c, <2>1, <2>3 DEF Reset, Accounting, STypeOK
  <2>5. clean' => num_threads' = 0 /\ lost' \in 0 .. max_threads
    BY <1>0, <1>1, <1>c, <1>d, <2>3 DEF Reset, SlotInv, STypeOK
  <2>6. clean' => \A t \in Thread : pc'[t] \notin {"load", "store", "dstore"}
    BY <1>0, <1>1 DEF Reset, Critical, STypeOK
  <2>7. pc'["udp"] = "reinit"
    BY <1>0, <1>1 DEF Reset, STypeOK, Thread, Acceptor
  <2>8. SlotInv'
    BY <1>d, <2>5, <2>6, <2>7 DEF SlotInv
  <2> QED
    BY <1>0, <2>2, <2>4, <2>8 DEF PoolInv
<1>2. CASE Reinit
  <2>1. Counted' = Counted
    BY <1>0, <1>2, SlotKept DEF Reinit, CountedPC, Thread, Acceptor
  <2>2. clean' => clean /\ Critical = {}
    BY <1>0, <1>2 DEF Reinit, Exclusion
  <2>3. Exclusion'
    BY <1>0, <1>2, <2>2 DEF Reinit, Exclusion, Critical, STypeOK
  <2>4. Accounting'
    BY <1>0, <1>2, <2>1, <2>2 DEF Reinit, Accounting
  <2>5. SlotInv'
    BY <1>0, <1>2, <2>2 DEF Reinit, SlotInv, STypeOK, Thread, Acceptor
  <2> QED
    BY <1>0, <2>3, <2>4, <2>5 DEF PoolInv
<1>3. ASSUME NEW t \in Acceptor, AcceptorStep(t) PROVE PoolInv'
  <2>t. t \in Thread
    BY <1>3, <1>d
  <2>1. CASE Bind(t) \/ BindFails(t) \/ Receive(t)
    <3>1. Counted' = Counted
      BY <1>0, <2>1, <2>t, SlotKept DEF Bind, BindFails, Receive, CountedPC, Counted
    <3>2. Exclusion'
      BY <1>0, <2>1, ZenonT(30) DEF Bind, BindFails, Receive, Exclusion, Critical, STypeOK
    <3>3. Accounting'
      BY <1>0, <2>1, <3>1 DEF Bind, BindFails, Receive, Accounting
    <3>4. SlotInv'
      <4>1. CASE Bind(t)
        BY <1>0, <4>1, <2>t DEF Bind, SlotInv, STypeOK, Thread, Acceptor
      <4>2. CASE BindFails(t)
        BY <1>0, <4>2 DEF BindFails, SlotInv
      <4>3. CASE Receive(t)
        BY <1>0, <4>3, <2>t DEF Receive, SlotInv, STypeOK, Thread, Acceptor
      <4> QED
        BY <2>1, <4>1, <4>2, <4>3
    <3> QED
      BY <1>0, <3>2, <3>3, <3>4 DEF PoolInv
  <2>2. CASE Lock(t)
    <3>1. Counted' = Counted
      BY <1>0, <2>2, <2>t, SlotKept DEF Lock, CountedPC
    <3>2. Exclusion'
      BY <1>0, <2>2 DEF Lock, Exclusion, Critical, STypeOK
    <3>3. Accounting'
      BY <1>0, <2>2, <3>1 DEF Lock, Accounting
    <3>4. SlotInv'
      BY <1>0, <2>2 DEF Lock, SlotInv, STypeOK
    <3> QED
      BY <1>0, <3>2, <3>3, <3>4 DEF PoolInv
  <2>3. CASE Check(t) \/ Load(t)
    <3>1. Counted' = Counted
      BY <1>0, <2>3, <2>t, SlotKept DEF Check, Load, CountedPC
    <3>2. Exclusion'
      BY <1>0, <2>3 DEF Check, Load, Exclusion, Critical, STypeOK
    <3>3. Accounting'
      BY <1>0, <2>3, <3>1 DEF Check, Load, Accounting
    <3>4. SlotInv'
      <4>1. CASE Check(t)
        BY <1>0, <1>d, <4>1, <2>t DEF Check, SlotInv, STypeOK, Thread, Acceptor
      <4>2. CASE Load(t)
        BY <1>0, <1>d, <4>2, <2>t DEF Load, SlotInv, STypeOK, Thread, Acceptor
      <4> QED
        BY <2>3, <4>1, <4>2
    <3> QED
      BY <1>0, <3>2, <3>3, <3>4 DEF PoolInv
  <2>4. CASE Refuse(t) \/ Unlock(t)
    <3>1. Counted' = Counted
      BY <1>0, <2>4, <2>t, SlotKept DEF Refuse, Unlock, CountedPC
    <3>2. clean => Critical = {t}
      BY <1>0, <2>4, <2>t DEF Refuse, Unlock, Exclusion, Critical
    <3>3. Exclusion'
      BY <1>0, <2>4, <2>t, <3>2 DEF Refuse, Unlock, Exclusion, Critical, STypeOK
    <3>4. Accounting'
      BY <1>0, <2>4, <3>1 DEF Refuse, Unlock, Accounting
    <3>5. SlotInv'
      <4>1. CASE Refuse(t)
        BY <1>0, <4>1, <2>t DEF Refuse, SlotInv, STypeOK, Thread, Acceptor
      <4>2. CASE Unlock(t)
        BY <1>0, <4>2, <2>t DEF Unlock, SlotInv, STypeOK, Thread, Acceptor
      <4> QED
        BY <2>4, <4>1, <4>2
    <3> QED
      BY <1>0, <3>3, <3>4, <3>5 DEF PoolInv
  <2>5. CASE Store(t)
    <3>1. Cardinality(Counted') = Cardinality(Counted) + 1
      BY <1>0, <2>5, <2>t, SlotTaken DEF Store, CountedPC
    <3>2. clean => Critical = {t}
      BY <1>0, <2>5, <2>t DEF Store, Exclusion, Critical
    <3>3. clean => num_threads' = num_threads + 1 /\ num_threads < max_threads
      BY <1>0, <2>5, <2>t DEF Store, SlotInv
    <3>4. Exclusion'
      BY <1>0, <2>5 DEF Store, Exclusion, Critical, STypeOK
    <3>5. Accounting'
      BY <1>0, <1>c, <2>5, <3>1, <3>3 DEF Store, Accounting, STypeOK
    <3>6. clean => \A s \in Thread : pc'[s] \notin {"load", "store", "dstore"}
      BY <1>0, <2>5, <3>2 DEF Store, Critical, STypeOK
    <3>7. SlotInv'
      BY <1>0, <1>d, <2>5, <3>3, <3>6 DEF Store, SlotInv, STypeOK
    <3> QED
      BY <1>0, <3>4, <3>5, <3>7 DEF PoolInv
  <2>6. CASE CreateFails(t)
    <3>1. Cardinality(Counted') = Cardinality(Counted) - 1
      BY <1>0, <2>6, <2>t, SlotGiven DEF CreateFails, CountedPC
    <3>2. Exclusion'
      BY <1>0, <2>6 DEF CreateFails, Exclusion, Critical, STypeOK
    <3>3. Accounting'
      BY <1>0, <1>c, <2>6, <3>1 DEF CreateFails, Accounting, STypeOK
    <3>4. SlotInv'
      BY <1>0, <2>6 DEF CreateFails, SlotInv, STypeOK
    <3> QED
      BY <1>0, <3>2, <3>3, <3>4 DEF PoolInv
  <2>7. ASSUME NEW h \in Handler, Create(t, h) PROVE PoolInv'
    <3>1. t # h /\ h \in Thread
      BY <1>d, ServerAssumption DEF Acceptor
    <3>2. Cardinality(Counted') = Cardinality(Counted)
      BY <1>0, <2>7, <2>t, <3>1, SlotHandedOver DEF Create, CountedPC
    <3>3. Exclusion'
      BY <1>0, <2>7 DEF Create, Exclusion, Critical, STypeOK
    <3>4. Accounting'
      BY <1>0, <2>7, <3>2 DEF Create, Accounting
    <3>5. SlotInv'
      <4>1. pc'["udp"] \in {"bind", "reset", "none"} => pc["udp"] \in {"bind", "reset", "none"}
        BY <1>0, <2>7, <2>t, <3>1, ServerAssumption DEF Create, STypeOK, Thread, Acceptor
      <4>2. \A s \in Thread : pc'[s] \in {"load", "store", "dstore"} => pc'[s] = pc[s]
        BY <1>0, <2>7, <2>t, <3>1 DEF Create, STypeOK
      <4> QED
        BY <1>0, <2>7, <4>1, <4>2 DEF Create, SlotInv
    <3> QED
      BY <1>0, <3>3, <3>4, <3>5 DEF PoolInv
  <2> QED
    BY <1>3, <2>1, <2>2, <2>3, <2>4, <2>5, <2>6, <2>7 DEF AcceptorStep
<1>4. ASSUME NEW h \in Handler, HandlerStep(h) PROVE PoolInv'
  <2>h. h \in Thread /\ h # "udp"
    BY <1>d, ServerAssumption
  <2>1. CASE Finish(h)
    <3>1. Counted' = Counted
      BY <1>0, <2>1, <2>h, SlotKept DEF Finish, CountedPC
    <3>2. Exclusion'
      BY <1>0, <2>1 DEF Finish, Exclusion, Critical, STypeOK
    <3>3. Accounting'
      BY <1>0, <2>1, <3>1 DEF Finish, Accounting
    <3>4. SlotInv'
      BY <1>0, <2>1, <2>h DEF Finish, SlotInv, STypeOK
    <3> QED
      BY <1>0, <3>2, <3>3, <3>4 DEF PoolInv
  <2>2. CASE HandlerLock(h)
    <3>1. Counted' = Counted
      BY <1>0, <2>2, <2>h, SlotKept DEF HandlerLock, CountedPC
    <3>2. Exclusion'
      BY <1>0, <2>2 DEF HandlerLock, Exclusion, Critical, STypeOK
    <3>3. Accounting'
      BY <1>0, <2>2, <3>1 DEF HandlerLock, Accounting
    <3>4. SlotInv'
      BY <1>0, <2>2, <2>h DEF HandlerLock, SlotInv, STypeOK
    <3> QED
      BY <1>0, <3>2, <3>3, <3>4 DEF PoolInv
  <2>3. CASE HandlerLoad(h)
    <3>1. Counted' = Counted
      BY <1>0, <2>3, <2>h, SlotKept DEF HandlerLoad, CountedPC
    <3>2. Exclusion'
      BY <1>0, <2>3 DEF HandlerLoad, Exclusion, Critical, STypeOK
    <3>3. Accounting'
      BY <1>0, <2>3, <3>1 DEF HandlerLoad, Accounting
    <3>4. SlotInv'
      BY <1>0, <2>3, <2>h DEF HandlerLoad, SlotInv, STypeOK
    <3> QED
      BY <1>0, <3>2, <3>3, <3>4 DEF PoolInv
  <2>4. CASE HandlerStore(h)
    <3>1. Cardinality(Counted') = Cardinality(Counted) - 1
      BY <1>0, <2>4, <2>h, SlotGiven DEF HandlerStore, CountedPC
    <3>2. clean => Critical = {h}
      BY <1>0, <2>4, <2>h DEF HandlerStore, Exclusion, Critical
    <3>3. clean => num_threads' = num_threads - 1
      BY <1>0, <2>4, <2>h DEF HandlerStore, SlotInv
    <3>4. Exclusion'
      BY <1>0, <2>4 DEF HandlerStore, Exclusion, Critical, STypeOK
    <3>5. Accounting'
      BY <1>0, <1>c, <2>4, <3>1, <3>3 DEF HandlerStore, Accounting, STypeOK
    <3>6. clean => \A s \in Thread : pc'[s] \notin {"load", "store", "dstore"}
      BY <1>0, <2>4, <3>2 DEF HandlerStore, Critical, STypeOK
    <3>7. SlotInv'
      BY <1>0, <1>d, <2>4, <2>h, <3>3, <3>6 DEF HandlerStore, SlotInv, STypeOK
    <3> QED
      BY <1>0, <3>4, <3>5, <3>7 DEF PoolInv
  <2>5. CASE HandlerUnlock(h)
    <3>1. Counted' = Counted
      BY <1>0, <2>5, <2>h, SlotKept DEF HandlerUnlock, CountedPC
    <3>2. clean => Critical = {h}
      BY <1>0, <2>5, <2>h DEF HandlerUnlock, Exclusion, Critical
    <3>3. Exclusion'
      BY <1>0, <2>5, <2>h, <3>2 DEF HandlerUnlock, Exclusion, Critical, STypeOK
    <3>4. Accounting'
      BY <1>0, <2>5, <3>1 DEF HandlerUnlock, Accounting
    <3>5. SlotInv'
      BY <1>0, <2>5, <2>h DEF HandlerUnlock, SlotInv, STypeOK
    <3> QED
      BY <1>0, <3>3, <3>4, <3>5 DEF PoolInv
  <2> QED
    BY <1>4, <2>1, <2>2, <2>3, <2>4, <2>5 DEF HandlerStep
<1>5. CASE UNCHANGED svars
  <2>1. Counted' = Counted /\ Critical' = Critical
    BY <1>5 DEF svars, Counted, Critical
  <2> QED
    BY <1>0, <1>5, <2>1 DEF svars, PoolInv, Exclusion, Accounting, SlotInv
<1> QED
  BY <1>1, <1>2, <1>3, <1>4, <1>5 DEF SNext

(***************************************************************************)
(* The limit follows: a handler at work holds a slot.                      *)
(***************************************************************************)
LEMMA PoolLimit == PoolInv => ThreadLimit
<1> SUFFICES ASSUME PoolInv, clean PROVE ThreadLimit
  BY DEF ThreadLimit
<1>1. Serving \subseteq Counted /\ Counted \subseteq Thread /\ Serving \subseteq Thread
  BY DEF Serving, Counted, Thread
<1>2. /\ IsFiniteSet(Counted) /\ Cardinality(Counted) \in Nat
      /\ Cardinality(Serving) \in Nat
  BY <1>1, ThreadsFinite
<1>3. Cardinality(Serving) <= Cardinality(Counted)
  BY <1>1, <1>2, FS_Subset
<1>4. num_threads = Cardinality(Counted) + leaked - lost /\ num_threads <= max_threads
  BY DEF PoolInv, Accounting, SlotInv
<1>5. lost \in 0 .. max_threads /\ lost \in Int /\ leaked \in Nat
  BY DEF PoolInv, SlotInv, STypeOK
<1>6. Cardinality(Serving) + leaked <= max_threads + lost
  BY <1>2, <1>3, <1>4, <1>5, ServerAssumption DEF PoolInv, STypeOK
<1> QED
  BY <1>5, <1>6 DEF ThreadLimit

-----------------------------------------------------------------------------
(***************************************************************************)
(* Every variable of the pool keeps its type.                              *)
(***************************************************************************)
THEOREM PoolTypeCorrect == SSpec => []STypeOK
<1>1. SInit => STypeOK
  BY PoolInit DEF PoolInv
<1> QED
  BY <1>1, TypeStep, PTL DEF SSpec

(***************************************************************************)
(* For every max_threads and any number of threads: unless udp_server_init *)
(* breaks into a critical section, num_threads_lock excludes, num_threads  *)
(* is exact up to the slots the reset forgot, and the clients serviced at  *)
(* once exceed max_threads by at most that many.                           *)
(***************************************************************************)
THEOREM PoolCountsThreads == SSpec => [](Exclusion /\ Accounting /\ ThreadLimit)
<1>1. PoolInv => Exclusion /\ Accounting /\ ThreadLimit
  BY PoolLimit DEF PoolInv
<1> QED
  BY <1>1, PoolInit, PoolStep, PTL DEF SSpec

(***************************************************************************)
(* For every max_threads and any number of threads: the clients serviced   *)
(* at once exceed max_threads by at most the slots udp_server_init's reset *)
(* of num_threads forgot.                                                  *)
(***************************************************************************)
THEOREM ThreadLimitHolds == SSpec => []ThreadLimit
BY PoolCountsThreads, PTL
=============================================================================
