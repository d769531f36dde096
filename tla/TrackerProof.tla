---------------------------- MODULE TrackerProof ----------------------------
(***************************************************************************)
(* Proofs about the tracker's client table: the responses made from it,    *)
(* the hash table under it, and the routers that report to it.  The last   *)
(* hold for any number of routers, any delay of datagrams and any          *)
(* intervals as long as the keep-alive is the shorter one.                 *)
(***************************************************************************)
EXTENDS Overlay, DeltaListProof, FiniteSetTheorems, WellFoundedInduction

-----------------------------------------------------------------------------
\* A set of natural numbers that is not empty has a least member.
LEMMA Least ==
  ASSUME NEW S \in SUBSET Nat, S # {}
  PROVE  \E m \in S : \A y \in S : m <= y
<1>1. PICK m \in S : \A y \in S : ~(<<y, m>> \in OpToRel(<, Nat))
  BY WFMin, NatLessThanWellFounded, Zenon
<1>2. \A y \in S : ~(y < m)
  BY <1>1 DEF OpToRel
<1> QED
  BY <1>2

-----------------------------------------------------------------------------
(***************************************************************************)
(* The tracker only makes calls of the hash table's interface, and these   *)
(* only do what the delta list does.                                       *)
(***************************************************************************)
LEMMA MakeClient ==
  ASSUME NEW h \in Host, NEW p \in RawPort, PortValid(p)
  PROVE  make_client(h, p) \in Data
BY TrackerAssumption

LEMMA TableCalls == [TNext]_tvars => [KNext]_kvars
<1> SUFFICES ASSUME [TNext]_tvars PROVE [KNext]_kvars
  OBVIOUS
<1>1. ASSUME NEW h \in Host, NEW p \in RawPort,
             process_connect(h, p) \/ process_disconnect(h, p)
      PROVE  [KNext]_kvars
  <2>1. make_client(h, p) \in Data
    BY <1>1, MakeClient DEF process_connect, process_disconnect, add_client, remove_client
  <2> QED
    BY <1>1, <2>1 DEF process_connect, process_disconnect, add_client, remove_client, KNext
<1>2. ASSUME NEW n \in Num, process_list(n) \/ \E h \in Host, p \in RawPort : process_discover(h, p, n)
      PROVE  [KNext]_kvars
  BY <1>2 DEF process_list, process_discover, clients_to_json, Walk, Refuse, KNext, tvars
<1>3. CASE MakeListStop \/ MakeListAdd \/ Respond \/ ((KTick \/ KExpire) /\ UNCHANGED req)
  BY <1>3 DEF MakeListStop, MakeListAdd, Respond, KNext
<1>4. CASE UNCHANGED tvars
  BY <1>4 DEF tvars
<1> QED
  BY <1>1, <1>2, <1>3, <1>4 DEF TNext

LEMMA ListCalls == [KNext]_kvars => [HNext]_hvars
<1> SUFFICES ASSUME [KNext]_kvars PROVE [HNext]_hvars
  OBVIOUS
<1>1. CASE KNext
  BY <1>1 DEF KNext, KInsert, KUpdate, KRemove, KTick, KExpire, KForeachStart, KForeachCall,
       KForeachBreak, KForeachEnd, KClear, KClearEnd, HNext, DaemonNext
<1>2. CASE UNCHANGED kvars
  BY <1>2 DEF kvars
<1> QED
  BY <1>1, <1>2

\* What is proved of the delta list.
ListOK == HTypeOK /\ Indexed /\ WalkInv

LEMMA ListOKInit == KInit => ListOK
BY HTypeInit, QueueInit, WalkInvInit DEF KInit, ListOK

LEMMA ListOKStep == ListOK /\ [HNext]_hvars => ListOK'
<1> SUFFICES ASSUME ListOK, [HNext]_hvars PROVE ListOK'
  OBVIOUS
<1>1. HTypeOK' /\ WalkInv'
  BY HTypeStep, WalkInvStep DEF ListOK
<1>2. CASE HNext
  BY <1>1, <1>2, IndexedStep DEF ListOK
<1>3. CASE UNCHANGED hvars
  BY <1>1, <1>3 DEF ListOK, hvars, hist, vars, Indexed
<1> QED
  BY <1>2, <1>3

(***************************************************************************)
(* Whatever its clients send, process_connect, process_disconnect and the  *)
(* walks of clients_to_json take the table through calls of its interface  *)
(* only: all that is proved of the list and of its hash table holds here.  *)
(***************************************************************************)
THEOREM TrackerUsesTable == TSpec => KSpec /\ HSpec
<1>1. TInit => KInit /\ HInit
  BY DEF TInit, KInit
<1> QED
  BY <1>1, TableCalls, ListCalls, PTL DEF TSpec, KSpec, HSpec

-----------------------------------------------------------------------------
(***************************************************************************)
(* Responses.  While a request walks the table, every address it has       *)
(* listed has been called back, and none twice.                            *)
(***************************************************************************)
ReqInv ==
    req.status = "walking" =>
        /\ op = "foreach"
        /\ req.list \in Seq(Data) /\ req.n \in Nat
        /\ Len(req.list) <= req.n
        /\ Injective(req.list)
        /\ \A i \in 1 .. Len(req.list) : req.list[i] # req.ignore /\ Holds(visited, req.list[i])
        /\ req = [status |-> "walking", n |-> req.n, ignore |-> req.ignore, list |-> req.list]

\* What an int holds of a number is a number.
LEMMA IntRange == \A n \in Num : Int32(n) \in Int
<1> SUFFICES ASSUME NEW n \in Num PROVE Int32(n) \in Int
  OBVIOUS
<1>1. n \in Int /\ INT \in Int /\ INT > 0
  BY TrackerAssumption
<1>2. INT \div 2 \in Int
  BY <1>1
<1>3. (n + INT \div 2) % INT \in Int
  BY <1>1, <1>2
<1> QED
  BY <1>2, <1>3 DEF Int32

LEMMA ReqStep == ListOK /\ ReqInv /\ [TNext]_tvars => ReqInv'
<1> SUFFICES ASSUME ListOK, ReqInv, [TNext]_tvars PROVE ReqInv'
  OBVIOUS
<1>0. NoReq.status # "walking"
  BY DEF NoReq
<1>1. ASSUME req' = req, UNCHANGED <<op, visited>> PROVE ReqInv'
  BY <1>1 DEF ReqInv, Holds, Injective
<1>2. ASSUME req' = req, op # "foreach" PROVE ReqInv'
  BY <1>2 DEF ReqInv
<1>3. ASSUME NEW h \in Host, NEW p \in RawPort,
             process_connect(h, p) \/ process_disconnect(h, p)
      PROVE  ReqInv'
  <2>1. req' = req
    BY <1>3 DEF process_connect, process_disconnect
  <2>2. op = "idle"
    BY <1>3 DEF process_connect, process_disconnect, add_client, remove_client, KUpdate, KRemove,
         HUpdate, HRemove, delta_update, delta_remove, Idle
  <2> QED
    BY <1>2, <2>1, <2>2
<1>4. ASSUME NEW n \in Nat, NEW ign, Walk(n, ign) PROVE ReqInv'
  <2>1. op' = "foreach"
    BY <1>4 DEF Walk, KForeachStart, HForeachStart, ForeachStart
  <2>2. req' = [status |-> "walking", n |-> n, ignore |-> ign, list |-> <<>>]
    BY <1>4 DEF Walk
  <2>3. req'.list = <<>> /\ req'.n = n /\ req'.ignore = ign
    BY <2>2
  <2>4. Len(req'.list) = 0 /\ req'.list \in Seq(Data)
    BY <2>3
  <2>5. Injective(req'.list) /\ \A i \in 1 .. Len(req'.list) : FALSE
    BY <2>4 DEF Injective
  <2> QED
    BY <2>1, <2>2, <2>3, <2>4, <2>5 DEF ReqInv
<1>5. ASSUME NEW n \in Num, process_list(n) \/ \E h \in Host, p \in RawPort : process_discover(h, p, n)
      PROVE  ReqInv'
  <2>1. CASE Refuse
    BY <1>1, <2>1 DEF Refuse, tvars, kvars, hvars, hist, vars
  <2>2. CASE ~Refuse
    <3>1. Int32(n) >= 0 /\ \E ign : Walk(Int32(n), ign)
      BY <1>5, <2>2, IntRange DEF process_list, process_discover, clients_to_json
    <3>2. Int32(n) \in Nat
      BY <3>1, IntRange
    <3> QED
      BY <1>4, <3>1, <3>2
  <2> QED
    BY <2>1, <2>2
<1>6. CASE MakeListStop \/ Respond
  BY <1>0, <1>6 DEF MakeListStop, Respond, ReqInv
<1>7. CASE MakeListAdd
  <2>1. /\ req.status = "walking" /\ Len(req.list) < req.n /\ HForeachCall
        /\ req' = IF it \in Live /\ data[it] # req.ignore
                  THEN [req EXCEPT !.list = Append(@, data[it])] ELSE req
    BY <1>7 DEF MakeListAdd, KForeachCall
  <2>2. op = "foreach" /\ ~fault /\ it # NULL /\ op' = op
    BY <2>1 DEF HForeachCall, ForeachCall, Crash
  <2>3. /\ it \in Kept /\ data[it] \in Data
        /\ \A i \in 1 .. Len(visited) : visited[i] # data[it]
    BY <2>2, WalkedNew DEF ListOK
  <2>4. it \in Live
    BY <2>3 DEF Kept, Live
  <2>5. visited' = Append(visited, data[it]) /\ visited \in Seq(Data)
    BY <2>1, <2>4 DEF HForeachCall, HVisit, ListOK, HTypeOK
  <2>6. \A e : Holds(visited', e) <=> Holds(visited, e) \/ e = data[it]
    BY <2>3, <2>5 DEF Holds
  <2> DEFINE q == req.list
  <2>7. /\ q \in Seq(Data) /\ req.n \in Nat /\ Injective(q)
        /\ \A i \in 1 .. Len(q) : q[i] # req.ignore /\ Holds(visited, q[i])
        /\ req = [status |-> "walking", n |-> req.n, ignore |-> req.ignore, list |-> q]
    BY <2>1 DEF ReqInv
  <2>8. \A i \in 1 .. Len(q) : q[i] # data[it] /\ Holds(visited', q[i])
    BY <2>3, <2>6, <2>7 DEF Holds
  <2>9. CASE data[it] = req.ignore
    <3>1. req' = req
      BY <2>1, <2>9
    <3> QED
      BY <2>1, <2>2, <2>7, <2>8, <3>1 DEF ReqInv
  <2>10. CASE data[it] # req.ignore
    <3> DEFINE r == Append(q, data[it])
    <3>1. req' = [req EXCEPT !.list = r]
      BY <2>1, <2>4, <2>10
    <3>2. req' = [status |-> "walking", n |-> req.n, ignore |-> req.ignore, list |-> r]
      BY <2>7, <3>1, SMTT(20)
    <3>3. /\ r \in Seq(Data) /\ Len(q) \in Nat /\ Len(r) = Len(q) + 1 /\ r[Len(q) + 1] = data[it]
          /\ \A i \in 1 .. Len(q) : r[i] = q[i]
      BY <2>3, <2>7
    <3> HIDE DEF r
    <3>4. Len(r) <= req.n
      BY <2>1, <2>7, <3>3
    <3>5. Injective(r)
      BY <2>7, <2>8, <3>3 DEF Injective
    <3>6. ASSUME NEW i \in 1 .. Len(r) PROVE r[i] # req.ignore /\ Holds(visited', r[i])
      <4>1. i \in 1 .. Len(q) \/ i = Len(q) + 1
        BY <3>3
      <4> QED
        BY <2>6, <2>7, <2>8, <2>10, <3>3, <4>1
    <3>7. req'.list = r /\ req'.n = req.n /\ req'.ignore = req.ignore
      BY <3>2
    <3> QED
      BY <2>2, <2>7, <3>2, <3>3, <3>4, <3>5, <3>6, <3>7 DEF ReqInv
  <2> QED
    BY <2>9, <2>10
<1>8. CASE (KTick \/ KExpire) /\ UNCHANGED req
  <2>1. op # "foreach"
    BY <1>8 DEF KTick, KExpire, HTickEmpty, HTickStart, HTickEnd, HExpire, TickEmpty, TickStart,
         TickEnd, Expire, Idle
  <2> QED
    BY <1>2, <1>8, <2>1
<1>9. CASE UNCHANGED tvars
  BY <1>1, <1>9 DEF tvars, kvars, hvars, hist, vars
<1> QED
  BY <1>3, <1>5, <1>6, <1>7, <1>8, <1>9 DEF TNext

(***************************************************************************)
(* Whatever was registered, removed and expired before and however corrupt *)
(* the list is, the response to list or discover that clients_to_json puts *)
(* together names at most `num' addresses, each once and never the         *)
(* requester's, for every number of clients.                               *)
(***************************************************************************)
THEOREM ResponseIsSound == TSpec => []ResponseSound
<1>1. TInit => ListOK /\ ReqInv
  BY ListOKInit DEF TInit, ReqInv, NoReq
<1>2. ListOK /\ [TNext]_tvars => ListOK'
  BY TableCalls, ListCalls, ListOKStep
<1>3. ReqInv => ResponseSound
  BY DEF ReqInv, ResponseSound
<1> QED
  BY <1>1, <1>2, <1>3, ReqStep, PTL DEF TSpec

-----------------------------------------------------------------------------
(***************************************************************************)
(* Complete responses.  What Without yields, as a sequence grows.          *)
(***************************************************************************)
LEMMA WithoutAppend ==
  ASSUME NEW v \in Seq(Data), NEW e \in Data, NEW d, Injective(v), \A i \in 1 .. Len(v) : v[i] # e
  PROVE  Without(Append(v, e), d) = IF e = d THEN Without(v, d) ELSE Append(Without(v, d), e)
<1> DEFINE r == Append(v, e)
<1>1. /\ r \in Seq(Data) /\ Len(v) \in Nat /\ Len(r) = Len(v) + 1 /\ r[Len(v) + 1] = e
      /\ \A i \in 1 .. Len(v) : r[i] = v[i]
  OBVIOUS
<1> HIDE DEF r
<1>2. Injective(r)
  BY <1>1 DEF Injective
<1>3. CASE e = d
  <2>1. Without(v, d) = v
    BY <1>3, WithoutAbsent
  <2> DEFINE w == Without(r, d)
  <2>2. PICK k \in 1 .. Len(r) : k = Len(v) + 1 /\ r[k] = d
    BY <1>1, <1>3
  <2>3. /\ w \in Seq(Data) /\ Len(w) = Len(r) - 1
        /\ \A i \in 1 .. Len(r) - 1 : w[i] = IF i < k THEN r[i] ELSE r[i + 1]
    BY <1>1, <1>2, <2>2, WithoutAt
  <2> HIDE DEF w
  <2>4. Len(w) = Len(v) /\ \A i \in 1 .. Len(v) : w[i] = v[i]
    BY <1>1, <2>2, <2>3
  <2>5. w = v
    BY <2>3, <2>4
  <2> QED
    BY <1>3, <2>1, <2>5 DEF w, r
<1>4. CASE e # d /\ \A i \in 1 .. Len(v) : v[i] # d
  <2>1. \A i \in 1 .. Len(r) : r[i] # d
    BY <1>1, <1>4
  <2>2. Without(r, d) = r /\ Without(v, d) = v
    BY <1>1, <1>4, <2>1, WithoutAbsent
  <2> QED
    BY <1>4, <2>2 DEF r
<1>5. CASE e # d /\ \E i \in 1 .. Len(v) : v[i] = d
  <2>1. PICK k \in 1 .. Len(v) : v[k] = d
    BY <1>5
  <2>2. k \in 1 .. Len(r) /\ r[k] = d
    BY <1>1, <2>1
  <2> DEFINE w == Without(r, d)
             u == Without(v, d)
             a == Append(u, e)
  <2>3. /\ w \in Seq(Data) /\ Len(w) = Len(r) - 1
        /\ \A i \in 1 .. Len(r) - 1 : w[i] = IF i < k THEN r[i] ELSE r[i + 1]
    BY <1>1, <1>2, <2>2, WithoutAt
  <2>4. /\ u \in Seq(Data) /\ Len(u) = Len(v) - 1
        /\ \A i \in 1 .. Len(v) - 1 : u[i] = IF i < k THEN v[i] ELSE v[i + 1]
    BY <2>1, WithoutAt
  <2> HIDE DEF w, u
  <2>5. /\ a \in Seq(Data) /\ Len(a) = Len(u) + 1 /\ a[Len(u) + 1] = e
        /\ \A i \in 1 .. Len(u) : a[i] = u[i]
    BY <2>4
  <2> HIDE DEF a
  <2>6. Len(w) = Len(v) /\ Len(a) = Len(v)
    BY <1>1, <2>3, <2>4, <2>5
  <2>7. ASSUME NEW i \in 1 .. Len(v) PROVE w[i] = a[i]
    <3>1. CASE i = Len(v)
      <4>1. w[i] = r[i + 1] /\ r[i + 1] = e
        BY <1>1, <2>1, <2>3, <3>1
      <4> QED
        BY <1>1, <2>4, <2>5, <3>1, <4>1
    <3>2. CASE i # Len(v)
      <4>1. i \in 1 .. Len(u) /\ i \in 1 .. Len(v) - 1 /\ i \in 1 .. Len(r) - 1 /\ i + 1 \in 1 .. Len(v)
        BY <1>1, <2>4, <3>2
      <4>2. a[i] = IF i < k THEN v[i] ELSE v[i + 1]
        BY <2>4, <2>5, <4>1
      <4>3. w[i] = IF i < k THEN v[i] ELSE v[i + 1]
        BY <1>1, <2>3, <4>1
      <4> QED
        BY <4>2, <4>3
    <3> QED
      BY <3>1, <3>2
  <2>8. w = a
    BY <2>3, <2>5, <2>6, <2>7, SMTT(20)
  <2> QED
    BY <1>5, <2>8 DEF w, a, u, r
<1> QED
  BY <1>3, <1>4, <1>5

\* The beginning of a sequence, taken without d, is the beginning of the
\* whole without d.
LEMMA WithoutPrefix ==
  ASSUME NEW v \in Seq(Data), NEW q \in Seq(Data), NEW d, Injective(q),
         Len(v) <= Len(q), \A i \in 1 .. Len(v) : v[i] = q[i]
  PROVE  /\ Len(Without(v, d)) <= Len(Without(q, d))
         /\ \A i \in 1 .. Len(Without(v, d)) : Without(v, d)[i] = Without(q, d)[i]
<1>0. Len(v) \in Nat /\ Len(q) \in Nat
  OBVIOUS
<1>1. Injective(v)
  BY <1>0 DEF Injective
<1>2. CASE \A i \in 1 .. Len(q) : q[i] # d
  <2>1. \A i \in 1 .. Len(v) : v[i] # d
    BY <1>0, <1>2
  <2> QED
    BY <1>2, <2>1, WithoutAbsent
<1>3. CASE \E k \in 1 .. Len(q) : q[k] = d
  <2>1. PICK k \in 1 .. Len(q) : q[k] = d
    BY <1>3
  <2> DEFINE u == Without(q, d)
             w == Without(v, d)
  <2>2. /\ u \in Seq(Data) /\ Len(u) = Len(q) - 1
        /\ \A i \in 1 .. Len(q) - 1 : u[i] = IF i < k THEN q[i] ELSE q[i + 1]
    BY <2>1, WithoutAt
  <2>3. CASE k <= Len(v)
    <3>1. k \in 1 .. Len(v) /\ v[k] = d
      BY <1>0, <2>1, <2>3
    <3>2. /\ w \in Seq(Data) /\ Len(w) = Len(v) - 1
          /\ \A i \in 1 .. Len(v) - 1 : w[i] = IF i < k THEN v[i] ELSE v[i + 1]
      BY <1>1, <3>1, WithoutAt
    <3> HIDE DEF u, w
    <3>3. ASSUME NEW i \in 1 .. Len(w) PROVE w[i] = u[i]
      <4>1. i \in 1 .. Len(v) - 1 /\ i \in 1 .. Len(q) - 1 /\ i + 1 \in 1 .. Len(v) /\ i \in 1 .. Len(v)
        BY <1>0, <3>2
      <4> QED
        BY <2>2, <3>2, <4>1
    <3>4. Len(w) <= Len(u)
      BY <1>0, <2>2, <3>2
    <3> QED
      BY <3>3, <3>4 DEF u, w
  <2>4. CASE k > Len(v)
    <3>1. \A i \in 1 .. Len(v) : i \in 1 .. Len(q) /\ i # k
      BY <1>0, <2>1, <2>4
    <3>2. \A i \in 1 .. Len(v) : v[i] # d
      BY <2>1, <3>1 DEF Injective
    <3>3. w = v
      BY <3>2, WithoutAbsent
    <3> HIDE DEF u, w
    <3>4. Len(w) <= Len(u)
      BY <1>0, <2>1, <2>2, <2>4, <3>3
    <3>5. ASSUME NEW i \in 1 .. Len(w) PROVE w[i] = u[i]
      <4>1. i \in 1 .. Len(v) /\ i \in 1 .. Len(q) - 1 /\ i < k
        BY <1>0, <2>1, <2>4, <3>3
      <4> QED
        BY <2>2, <3>3, <4>1
    <3> QED
      BY <3>4, <3>5 DEF u, w
  <2> QED
    BY <1>0, <2>1, <2>3, <2>4
<1> QED
  BY <1>2, <1>3

\* While the promise is in force, delta_foreach has called back the beginning
\* of the refresh order and stands on the next element, and a response lists
\* all of them but the one to ignore.
Gathered ==
    inForce /\ op = "foreach" =>
        /\ Len(visited) <= Len(queue)
        /\ \A i \in 1 .. Len(visited) : visited[i] = queue[i]
        /\ it = IF Len(visited) = Len(queue) THEN NULL ELSE ht[queue[Len(visited) + 1]]
        /\ req.status = "walking" => req.list = Without(visited, req.ignore)

IntactOK == ListOK /\ Represents /\ ReqInv

LEMMA GatherCall ==
  ASSUME IntactOK, Gathered, MakeListAdd, inForce'
  PROVE  Gathered'
<1>1. /\ req.status = "walking" /\ HForeachCall
      /\ req' = IF it \in Live /\ data[it] # req.ignore
                THEN [req EXCEPT !.list = Append(@, data[it])] ELSE req
  BY DEF MakeListAdd, KForeachCall
<1>2. /\ op = "foreach" /\ ~fault /\ it # NULL /\ inForce
      /\ UNCHANGED <<queue, ttl, inForce>>
  BY <1>1 DEF HForeachCall, ForeachCall, HVisit
<1> DEFINE m == Len(visited)
           e == queue[m + 1]
<1>3. /\ queue \in Seq(Data) /\ visited \in Seq(Data) /\ m \in Nat /\ Len(queue) \in Nat
  BY DEF IntactOK, ListOK, HTypeOK
<1>4. m + 1 \in 1 .. Len(queue) /\ it = ht[e] /\ e \in Data
  BY <1>2, <1>3 DEF Gathered
<1>5. data[it] = e /\ it \in Kept /\ \A i \in 1 .. m : visited[i] # e
  <2>1. /\ it \in Kept /\ \A i \in 1 .. Len(visited) : visited[i] # data[it]
    BY <1>2, WalkedNew DEF IntactOK, ListOK
  <2>2. data[ht[e]] = e
    BY <1>2, <1>4 DEF IntactOK, ListOK, Indexed
  <2> QED
    BY <1>4, <2>1, <2>2
<1>6. it \in Live
  BY <1>5 DEF Kept, Live
<1>7. /\ it' = dl.next[it] /\ UNCHANGED <<dl, ht, data, op, fault>>
      /\ visited' = Append(visited, e)
  BY <1>1, <1>2, <1>5, <1>6 DEF HForeachCall, ForeachCall, HVisit
<1>8. /\ Len(visited') = m + 1 /\ visited'[m + 1] = e
      /\ \A i \in 1 .. m : visited'[i] = visited[i]
  BY <1>3, <1>4, <1>7
<1>9. \A i \in 1 .. m + 1 : visited'[i] = queue[i]
  BY <1>2, <1>3, <1>8 DEF Gathered
<1>10. it' = IF m + 1 = Len(queue) THEN NULL ELSE ht[queue[m + 2]]
  <2>1. \A i \in 1 .. Len(queue) :
          dl.next[NodesOf(queue)[i]] = IF i = Len(queue) THEN NULL ELSE NodesOf(queue)[i + 1]
    BY <1>2 DEF IntactOK, Represents, Chain
  <2>2. NodesOf(queue)[m + 1] = it
    BY <1>4 DEF NodesOf
  <2>3. m + 1 # Len(queue) => m + 2 \in 1 .. Len(queue) /\ NodesOf(queue)[m + 2] = ht[queue[m + 2]]
    BY <1>3, <1>4 DEF NodesOf
  <2>4. m + 1 + 1 = m + 2
    BY <1>3
  <2> QED
    BY <1>4, <1>7, <2>1, <2>2, <2>3, <2>4
<1>11. req'.list = Without(visited', req'.ignore)
  <2>1. Injective(visited)
    BY DEF IntactOK, ListOK, WalkInv
  <2>2. Without(visited', req.ignore)
          = IF e = req.ignore THEN Without(visited, req.ignore)
            ELSE Append(Without(visited, req.ignore), e)
    BY <1>3, <1>4, <1>5, <1>7, <2>1, WithoutAppend
  <2>3. req.list = Without(visited, req.ignore)
    BY <1>1, <1>2 DEF Gathered
  <2>4. req = [status |-> "walking", n |-> req.n, ignore |-> req.ignore, list |-> req.list]
    BY <1>1 DEF IntactOK, ReqInv
  <2>5. req'.ignore = req.ignore /\ req'.list = IF e = req.ignore THEN req.list ELSE Append(req.list, e)
    <3>1. CASE e = req.ignore
      BY <1>1, <1>5, <3>1
    <3>2. CASE e # req.ignore
      <4>1. req' = [req EXCEPT !.list = Append(req.list, e)]
        BY <1>1, <1>5, <1>6, <3>2
      <4> QED
        BY <2>4, <3>2, <4>1
    <3> QED
      BY <3>1, <3>2
  <2> QED
    BY <2>2, <2>3, <2>5
<1>12. m + 1 <= Len(queue) /\ m + 1 + 1 = m + 2
  BY <1>3, <1>4
<1> HIDE DEF e
<1> QED
  BY <1>2, <1>7, <1>8, <1>9, <1>10, <1>11, <1>12 DEF Gathered

LEMMA GatherStep == IntactOK /\ Gathered /\ [TNext]_tvars => Gathered'
<1> SUFFICES ASSUME IntactOK, Gathered, [TNext]_tvars, inForce', op' = "foreach"
             PROVE  Gathered'
  BY DEF Gathered
<1>1. ASSUME NEW n, NEW ign, Walk(n, ign) PROVE Gathered'
  <2>1. HForeachStart /\ req' = [status |-> "walking", n |-> n, ignore |-> ign, list |-> <<>>]
    BY <1>1 DEF Walk, KForeachStart
  <2>2. it' = dl.head /\ visited' = <<>> /\ UNCHANGED <<queue, ht>> /\ inForce
    BY <2>1 DEF HForeachStart, ForeachStart, HVisit
  <2>3. req'.list = <<>>
    BY <2>1
  <2>4. Len(visited') = 0 /\ visited' \in Seq(Data) /\ 1 .. Len(visited') = {}
    BY <2>2
  <2>5. Without(visited', req'.ignore) = visited'
    BY <2>4, WithoutAbsent
  <2>6. queue \in Seq(Data) /\ Len(queue) \in Nat
    BY DEF IntactOK, ListOK, HTypeOK
  <2>7. dl.head = IF Len(queue) = 0 THEN NULL ELSE NodesOf(queue)[1]
    BY <2>2 DEF IntactOK, Represents, Chain
  <2>8. Len(queue) # 0 => NodesOf(queue)[1] = ht[queue[1]]
    BY <2>6 DEF NodesOf
  <2>9. it' = IF Len(visited') = Len(queue') THEN NULL ELSE ht'[queue'[Len(visited') + 1]]
    BY <2>2, <2>4, <2>6, <2>7, <2>8
  <2> QED
    BY <2>2, <2>3, <2>4, <2>5, <2>6, <2>9 DEF Gathered
<1>2. ASSUME UNCHANGED tvars PROVE Gathered'
  BY <1>2 DEF tvars, kvars, hvars, hist, vars, Gathered
<1>3. ASSUME NEW h \in Host, NEW p \in RawPort,
             process_connect(h, p) \/ process_disconnect(h, p)
      PROVE  op' # "foreach"
  BY <1>3 DEF process_connect, process_disconnect, add_client, remove_client, KUpdate, KRemove,
       HUpdate, HRemove, delta_update, delta_remove, Relocate, AddNode, delta_delete, Idle, Crash
<1>4. ASSUME NEW n \in Num, process_list(n) \/ \E h \in Host, p \in RawPort : process_discover(h, p, n)
      PROVE  Gathered'
  <2>1. Refuse \/ \E ign : Walk(Int32(n), ign)
    BY <1>4 DEF process_list, process_discover, clients_to_json
  <2> QED
    BY <1>1, <1>2, <2>1 DEF Refuse
<1>5. CASE MakeListStop \/ Respond
  BY <1>5 DEF MakeListStop, Respond, KForeachBreak, KForeachEnd, HForeachBreak, HForeachEnd,
       ForeachBreak, ForeachEnd
<1>6. CASE MakeListAdd
  BY <1>6, GatherCall
<1>7. CASE (KTick \/ KExpire) /\ UNCHANGED req
  BY <1>7 DEF KTick, KExpire, HTickEmpty, HTickStart, HTickEnd, HExpire, TickEmpty, TickStart,
       TickEnd, Expire, delta_delete, Idle, Crash, vars
<1> QED
  BY <1>2, <1>3, <1>4, <1>5, <1>6, <1>7 DEF TNext

\* A step that ends a request.
LEMMA ResponseEnds ==
  ASSUME IntactOK, Gathered, [TNext]_tvars, inForce, req.status = "walking", req' = NoReq
  PROVE  LET q == Without(queue, req.ignore)
         IN  req.list = SubSeq(q, 1, IF Len(q) < req.n THEN Len(q) ELSE req.n)
<1> DEFINE q == Without(queue, req.ignore)
           w == Without(visited, req.ignore)
<1>0. op = "foreach" /\ NoReq.status # "walking" /\ ~fault
  BY DEF IntactOK, ReqInv, NoReq, Represents
<1>1. MakeListStop \/ Respond
  <2>1. req' # req
    BY <1>0
  <2>2. ASSUME NEW n, NEW ign PROVE ~Walk(n, ign)
    BY <1>0 DEF Walk, KForeachStart, HForeachStart, ForeachStart, Idle
  <2>3. ~Refuse
    BY <2>1 DEF Refuse, tvars
  <2>4. \A h \in Host, p \in RawPort, n \in Num : ~process_discover(h, p, n)
    BY <2>2, <2>3 DEF process_discover, clients_to_json
  <2>5. \A n \in Num : ~process_list(n)
    BY <2>2, <2>3 DEF process_list, clients_to_json
  <2>6. ~MakeListAdd
    <3>1. req = [status |-> "walking", n |-> req.n, ignore |-> req.ignore, list |-> req.list]
      BY DEF IntactOK, ReqInv
    <3>2. ASSUME NEW l, req' = [req EXCEPT !.list = l] PROVE FALSE
      <4>1. req'.status = "walking"
        BY <3>1, <3>2
      <4> QED
        BY <1>0, <4>1
    <3> QED
      BY <2>1, <3>2 DEF MakeListAdd
  <2> QED
    BY <2>1, <2>4, <2>5, <2>6 DEF TNext, process_connect, process_disconnect, tvars
<1>2. /\ queue \in Seq(Data) /\ visited \in Seq(Data)
      /\ Len(queue) \in Nat /\ Len(visited) \in Nat /\ Injective(queue)
  BY <1>0 DEF IntactOK, ListOK, HTypeOK, Indexed
<1>3. /\ Len(visited) <= Len(queue) /\ \A i \in 1 .. Len(visited) : visited[i] = queue[i]
      /\ it = IF Len(visited) = Len(queue) THEN NULL ELSE ht[queue[Len(visited) + 1]]
      /\ req.list = w
  BY <1>0 DEF Gathered
<1>4. Len(w) <= Len(q) /\ \A i \in 1 .. Len(w) : w[i] = q[i]
  BY <1>2, <1>3, WithoutPrefix, SMTT(20)
<1>5. /\ w \in Seq(Data) /\ q \in Seq(Data) /\ Len(w) \in Nat /\ Len(q) \in Nat
      /\ req.n \in Nat /\ Len(w) <= req.n
  BY <1>2, <1>3, WithoutType DEF IntactOK, ReqInv
<1>6. Len(w) = IF Len(q) < req.n THEN Len(q) ELSE req.n
  <2>1. CASE MakeListStop
    <3>1. Len(w) >= req.n
      BY <1>3, <2>1 DEF MakeListStop
    <3> HIDE DEF w, q
    <3> QED
      BY <1>4, <1>5, <3>1
  <2>2. CASE Respond
    <3>1. it = NULL
      BY <2>2 DEF Respond, KForeachEnd, HForeachEnd, ForeachEnd
    <3>2. Len(visited) = Len(queue)
      <4> SUFFICES ASSUME Len(visited) # Len(queue) PROVE FALSE
        OBVIOUS
      <4>1. Len(visited) + 1 \in 1 .. Len(queue) /\ ht[queue[Len(visited) + 1]] = NULL
        BY <1>2, <1>3, <3>1
      <4> QED
        BY <1>0, <1>2, <4>1 DEF IntactOK, ListOK, Indexed, Holds
    <3>3. visited = queue
      BY <1>2, <1>3, <3>2
    <3>4. w = q
      BY <3>3
    <3> HIDE DEF w, q
    <3> QED
      BY <1>5, <3>4
  <2> QED
    BY <1>1, <2>1, <2>2
<1> HIDE DEF w, q
<1>7. w = SubSeq(q, 1, Len(w))
  BY <1>4, <1>5
<1> QED
  BY <1>3, <1>6, <1>7 DEF q

(***************************************************************************)
(* For every number of clients, and as long as no node is unlinked from    *)
(* the end of a longer list: the response that clients_to_json puts        *)
(* together is the beginning of the refresh order that fits `num', without *)
(* the requester, and leaves nobody out if `num' allows.                   *)
(***************************************************************************)
THEOREM ResponseIsComplete == TSpec => ResponseComplete
<1>1. TInit => IntactOK /\ Gathered
  BY ListOKInit, QueueInit DEF TInit, KInit, HInit, Init, IntactOK, ReqInv, NoReq, Gathered
<1>2. IntactOK /\ [TNext]_tvars => IntactOK'
  <2> SUFFICES ASSUME IntactOK, [TNext]_tvars PROVE IntactOK'
    OBVIOUS
  <2>1. [HNext]_hvars
    BY TableCalls, ListCalls
  <2> QED
    BY <2>1, ListOKStep, QueueStep, ReqStep DEF IntactOK, ListOK
<1>3. IntactOK /\ Gathered /\ [TNext]_tvars =>
        [inForce /\ req.status = "walking" /\ req' = NoReq =>
           LET q == Without(queue, req.ignore)
           IN  req.list = SubSeq(q, 1, IF Len(q) < req.n THEN Len(q) ELSE req.n)]_tvars
  BY ResponseEnds
<1> QED
  BY <1>1, <1>2, <1>3, GatherStep, PTL DEF TSpec, ResponseComplete

-----------------------------------------------------------------------------
(***************************************************************************)
(* The hash table.  Every bucket's chain spells out a sequence q of        *)
(* elements: the ones in the table that hash to the bucket, each once.     *)
(***************************************************************************)
Bucket == 0 .. HT_SIZE - 1

\* The chain that starts at node first, with successors nx, is that of q,
\* whose elements are at the nodes h.
Spells(first, nx, h, q) ==
    /\ first = IF Len(q) = 0 THEN NULL ELSE h[q[1]]
    /\ \A i \in 1 .. Len(q) : nx[h[q[i]]] = IF i = Len(q) THEN NULL ELSE h[q[i + 1]]

\* q holds the elements of bucket b, each once.
Lists(h, b, q) ==
    /\ Injective(q)
    /\ \A d \in Data : Holds(q, d) <=> h[d] # NULL /\ Index(d) = b

ChainTypeOK ==
    /\ table \in [Bucket -> AddrOrNull]
    /\ ht_next \in [Addr -> AddrOrNull]

Present == {d \in Data : ht[d] # NULL}

ChainInv ==
    /\ ChainTypeOK
    /\ ~fault => IsFiniteSet(Present) /\ dl.size = Cardinality(Present)
    /\ ~fault /\ op # "clear" =>
         \A b \in Bucket : \E q \in Seq(Data) :
            Lists(ht, b, q) /\ Spells(table[b], ht_next, ht, q)

LEMMA IndexType == \A d \in Data : Index(d) \in Bucket
BY HashAssumption DEF Index, Bucket

\* Different elements have different nodes, and there is a node for each.
LEMMA NodesDiffer ==
  ASSUME HTypeOK, Indexed, ~fault, op # "clear"
  PROVE  /\ \A d \in Data : ht[d] # NULL => ht[d] \in Addr /\ data[ht[d]] = d
         /\ \A d, e \in Data : ht[d] # NULL /\ ht[d] = ht[e] => d = e
<1>1. \A d \in Data : ht[d] # NULL => ht[d] \in Addr /\ data[ht[d]] = d
  BY DEF HTypeOK, TypeOK, AddrOrNull, Indexed
<1> QED
  BY <1>1

\* No more than Cardinality(Addr) elements fit in a chain.
LEMMA ChainLength ==
  ASSUME HTypeOK, Indexed, ~fault, op # "clear", NEW b, NEW q \in Seq(Data), Lists(ht, b, q)
  PROVE  Len(q) \in Nat /\ Len(q) <= Cardinality(Addr) /\ Cardinality(Addr) \in Nat
<1> DEFINE f == [i \in 1 .. Len(q) |-> ht[q[i]]]
<1>0. Len(q) \in Nat /\ \A i \in 1 .. Len(q) : q[i] \in Data
  OBVIOUS
<1>1. \A i \in 1 .. Len(q) : ht[q[i]] # NULL
  BY <1>0 DEF Lists, Holds
<1>2. \A i \in 1 .. Len(q) : ht[q[i]] \in Addr
  BY <1>0, <1>1, NodesDiffer
<1>3. \A i, j \in 1 .. Len(q) : ht[q[i]] = ht[q[j]] => i = j
  BY <1>0, <1>1, NodesDiffer DEF Lists, Injective
<1>4. f \in Injection(1 .. Len(q), Addr)
  BY <1>2, <1>3 DEF Injection, IsInjective
<1> HIDE DEF f
<1>5. Cardinality(1 .. Len(q)) <= Cardinality(Addr)
  BY <1>4, FS_Injection, HashAssumption
<1>6. Cardinality(1 .. Len(q)) = IF 1 > Len(q) THEN 0 ELSE Len(q) - 1 + 1
  BY <1>0, FS_Interval
<1>7. Cardinality(Addr) \in Nat
  BY FS_CardinalityType, HashAssumption
<1> QED
  BY <1>0, <1>5, <1>6, <1>7

\* What a recursive definition of the rounds amounts to.
IsRounds(f, d, n) ==
    f = [i \in 0 .. n |-> IF i = 0 THEN [it |-> table[Index(d)], last |-> NULL] ELSE Step(d, f[i - 1])]

LEMMA RoundsUnique ==
  ASSUME NEW d, NEW n \in Nat, NEW f, NEW g, IsRounds(f, d, n), IsRounds(g, d, n)
  PROVE  f = g
<1> DEFINE U == {i \in 0 .. n : f[i] # g[i]}
<1>1. /\ DOMAIN f = 0 .. n /\ DOMAIN g = 0 .. n
      /\ f = [i \in DOMAIN f |-> f[i]] /\ g = [i \in DOMAIN g |-> g[i]]
  BY DEF IsRounds
<1>2. CASE U = {}
  <2>1. \A i \in 0 .. n : f[i] = g[i]
    BY <1>2
  <2> QED
    BY <1>1, <2>1
<1>3. CASE U # {}
  <2>1. U \in SUBSET Nat
    OBVIOUS
  <2>2. PICK m \in U : \A y \in U : m <= y
    BY <1>3, <2>1, Least
  <2>3. m \in 0 .. n /\ f[m] # g[m]
    OBVIOUS
  <2>4. m # 0
    BY <2>3 DEF IsRounds
  <2>5. m - 1 \in 0 .. n /\ ~(m <= m - 1)
    BY <2>3, <2>4
  <2>6. f[m - 1] = g[m - 1]
    BY <2>2, <2>5
  <2>7. f[m] = Step(d, f[m - 1]) /\ g[m] = Step(d, g[m - 1])
    BY <2>3, <2>4 DEF IsRounds
  <2> QED
    BY <2>3, <2>6, <2>7
<1> QED
  BY <1>2, <1>3

LEMMA RoundsAre ==
  ASSUME NEW d, NEW n \in Nat, NEW f, IsRounds(f, d, n)
  PROVE  Rounds(d, n) = f
<1>1. Rounds(d, n) = CHOOSE g : IsRounds(g, d, n)
  BY DEF Rounds, IsRounds
<1>2. IsRounds(CHOOSE g : IsRounds(g, d, n), d, n)
  OBVIOUS
<1> QED
  BY <1>1, <1>2, RoundsUnique

\* The cursor in front of the element i + 1 of the chain of q.
At(q, i) ==
    [it |-> IF i = Len(q) THEN NULL ELSE ht[q[i + 1]], last |-> IF i = 0 THEN NULL ELSE ht[q[i]]]

\* get_node's loop advances until it stands on d or at the end of the chain.
LEMMA Walked ==
  ASSUME HTypeOK, Indexed, ~fault, op # "clear", NEW d \in Data, NEW q \in Seq(Data),
         Lists(ht, Index(d), q), Spells(table[Index(d)], ht_next, ht, q),
         NEW K \in 0 .. Len(q), K < Len(q) => q[K + 1] = d, \A i \in 1 .. K : q[i] # d,
         NEW n \in Nat
  PROVE  Rounds(d, n) = [i \in 0 .. n |-> At(q, IF i < K THEN i ELSE K)]
<1> DEFINE f == [i \in 0 .. n |-> At(q, IF i < K THEN i ELSE K)]
<1>0. Len(q) \in Nat /\ K \in Nat /\ K <= Len(q) /\ \A i \in 1 .. Len(q) : q[i] \in Data
  OBVIOUS
<1>1. \A i \in 1 .. Len(q) : ht[q[i]] # NULL /\ data[ht[q[i]]] = q[i]
  BY <1>0, NodesDiffer DEF Lists, Holds
<1>2. /\ table[Index(d)] = IF Len(q) = 0 THEN NULL ELSE ht[q[1]]
      /\ \A i \in 1 .. Len(q) : ht_next[ht[q[i]]] = IF i = Len(q) THEN NULL ELSE ht[q[i + 1]]
  BY DEF Spells
<1>3. At(q, 0) = [it |-> table[Index(d)], last |-> NULL]
  BY <1>2 DEF At
<1>4. ASSUME NEW i \in 1 .. K PROVE Step(d, At(q, i - 1)) = At(q, i)
  <2>1. i - 1 # Len(q) /\ i - 1 + 1 = i /\ i \in 1 .. Len(q) /\ i # 0
    BY <1>0
  <2>2. At(q, i - 1).it = ht[q[i]]
    BY <2>1 DEF At
  <2>3. Step(d, At(q, i - 1)) = [it |-> ht_next[ht[q[i]]], last |-> ht[q[i]]]
    BY <1>1, <2>1, <2>2 DEF Step
  <2> QED
    BY <1>2, <2>1, <2>3 DEF At
<1>5. Step(d, At(q, K)) = At(q, K)
  <2>1. CASE K = Len(q)
    <3>1. At(q, K).it = NULL
      BY <2>1 DEF At
    <3> QED
      BY <3>1 DEF Step
  <2>2. CASE K # Len(q)
    <3>1. K + 1 \in 1 .. Len(q) /\ q[K + 1] = d
      BY <1>0, <2>2
    <3>2. At(q, K).it = ht[d] /\ data[ht[d]] = d
      BY <1>1, <2>2, <3>1 DEF At
    <3> QED
      BY <3>2 DEF Step
  <2> QED
    BY <2>1, <2>2
<1>6. ASSUME NEW i \in 0 .. n
      PROVE  f[i] = IF i = 0 THEN [it |-> table[Index(d)], last |-> NULL] ELSE Step(d, f[i - 1])
  <2>1. CASE i = 0
    <3>1. (IF i < K THEN i ELSE K) = 0
      BY <1>0, <2>1
    <3> QED
      BY <1>3, <2>1, <3>1
  <2>2. CASE i # 0
    <3>1. i - 1 \in 0 .. n
      BY <2>2
    <3>2. f[i] = At(q, IF i < K THEN i ELSE K) /\ f[i - 1] = At(q, IF i - 1 < K THEN i - 1 ELSE K)
      BY <3>1
    <3> HIDE DEF f
    <3>3. CASE i <= K
      <4>1. i \in 1 .. K /\ (IF i < K THEN i ELSE K) = i /\ i - 1 < K
        BY <1>0, <2>2, <3>3
      <4>2. f[i] = At(q, i) /\ f[i - 1] = At(q, i - 1)
        BY <3>2, <4>1
      <4> QED
        BY <1>4, <2>2, <4>1, <4>2
    <3>4. CASE ~(i <= K)
      <4>1. ~(i < K) /\ ~(i - 1 < K)
        BY <1>0, <3>4
      <4> QED
        BY <1>5, <2>2, <3>2, <4>1
    <3> QED
      BY <3>3, <3>4
  <2> QED
    BY <2>1, <2>2
<1>7. DOMAIN f = 0 .. n /\ f = [i \in DOMAIN f |-> f[i]]
  OBVIOUS
<1> HIDE DEF f
<1>8. IsRounds(f, d, n)
  BY <1>6, <1>7 DEF IsRounds
<1>9. Rounds(d, n) = f
  BY <1>8, RoundsAre
<1> QED
  BY <1>9 DEF f

\* get_node finds what the map says, and the node before it in the chain.
LEMMA GetNode ==
  ASSUME HTypeOK, Indexed, ChainInv, ~fault, op # "clear", NEW d \in Data
  PROVE  /\ get_node(d).it = ht[d]
         /\ \A i \in 0 .. Cardinality(Addr) :
               Rounds(d, Cardinality(Addr))[i].it \in Live \cup {NULL}
         /\ ht[d] # NULL =>
              \E q \in Seq(Data) : \E k \in 1 .. Len(q) :
                 /\ Lists(ht, Index(d), q) /\ Spells(table[Index(d)], ht_next, ht, q)
                 /\ q[k] = d
                 /\ get_node(d).last = IF k = 1 THEN NULL ELSE ht[q[k - 1]]
<1> DEFINE n == Cardinality(Addr)
<1>1. PICK q \in Seq(Data) : Lists(ht, Index(d), q) /\ Spells(table[Index(d)], ht_next, ht, q)
  BY IndexType DEF ChainInv
<1>2. Len(q) \in Nat /\ Len(q) <= n /\ n \in Nat /\ \A i \in 1 .. Len(q) : q[i] \in Data
  BY <1>1, ChainLength
<1>3. \A i \in 1 .. Len(q) : ht[q[i]] \in Live
  <2> SUFFICES ASSUME NEW i \in 1 .. Len(q) PROVE ht[q[i]] \in Live
    OBVIOUS
  <2>1. q[i] \in Data /\ ht[q[i]] # NULL
    BY <1>1, <1>2 DEF Lists, Holds
  <2>2. ht[q[i]] \in Addr /\ data[ht[q[i]]] = q[i]
    BY <2>1, NodesDiffer
  <2> QED
    BY <2>1, <2>2, ConstantsAssumption DEF Live
<1> DEFINE P(K) == /\ K \in 0 .. Len(q) /\ (K < Len(q) => q[K + 1] = d)
                   /\ \A i \in 1 .. K : q[i] # d
<1>4. PICK K : P(K) /\ At(q, K).it = ht[d] /\ (ht[d] # NULL => K + 1 \in 1 .. Len(q) /\ q[K + 1] = d)
  <2>1. CASE ht[d] # NULL
    <3>1. PICK k \in 1 .. Len(q) : q[k] = d
      BY <1>1, <2>1 DEF Lists, Holds
    <3>2. \A i \in 1 .. k - 1 : q[i] # d
      BY <1>1, <1>2, <3>1 DEF Lists, Injective
    <3>3. k - 1 \in 0 .. Len(q) /\ k - 1 + 1 = k /\ k - 1 # Len(q)
      BY <1>2
    <3>4. At(q, k - 1).it = ht[d]
      BY <3>1, <3>3 DEF At
    <3> QED
      BY <3>1, <3>2, <3>3, <3>4
  <2>2. CASE ht[d] = NULL
    <3>1. \A i \in 1 .. Len(q) : q[i] # d
      BY <1>1, <2>2 DEF Lists, Holds
    <3>2. At(q, Len(q)).it = ht[d]
      BY <2>2 DEF At
    <3>3. Len(q) \in 0 .. Len(q) /\ ~(Len(q) < Len(q))
      BY <1>2
    <3> QED
      BY <2>2, <3>1, <3>2, <3>3
  <2> QED
    BY <2>1, <2>2
<1>5. Rounds(d, n) = [i \in 0 .. n |-> At(q, IF i < K THEN i ELSE K)]
  BY <1>1, <1>2, <1>4, Walked
<1>6. K \in 0 .. Len(q) /\ K \in Nat /\ ~(n < K) /\ n \in 0 .. n
  BY <1>2, <1>4
<1>7. get_node(d) = At(q, K)
  BY <1>5, <1>6 DEF get_node
<1>8. ASSUME NEW j \in 0 .. Len(q) PROVE At(q, j).it \in Live \cup {NULL}
  <2>1. CASE j = Len(q)
    BY <2>1 DEF At
  <2>2. CASE j # Len(q)
    <3>1. j + 1 \in 1 .. Len(q)
      BY <1>2, <2>2
    <3> QED
      BY <1>3, <2>2, <3>1 DEF At
  <2> QED
    BY <2>1, <2>2
<1>9. ASSUME NEW i \in 0 .. n PROVE Rounds(d, n)[i].it \in Live \cup {NULL}
  <2>1. (IF i < K THEN i ELSE K) \in 0 .. Len(q)
    BY <1>2, <1>6
  <2> QED
    BY <1>5, <1>8, <2>1
<1>10. At(q, K).last = IF K + 1 = 1 THEN NULL ELSE ht[q[K + 1 - 1]]
  BY <1>6 DEF At
<1> QED
  BY <1>1, <1>4, <1>7, <1>9, <1>10

\* The chains spell out the buckets.
ChainsSpell(tb, nx, h) ==
    \A b \in Bucket : \E q \in Seq(Data) : Lists(h, b, q) /\ Spells(tb[b], nx, h, q)

\* Chaining a new node in front of its bucket.
LEMMA Chained ==
  ASSUME HTypeOK, Indexed, ChainTypeOK, ChainsSpell(table, ht_next, ht), ~fault, op # "clear",
         NEW d \in Data, ht[d] = NULL, NEW n \in Addr \ Live, ht' = [ht EXCEPT ![d] = n],
         hash_insert(n, d)
  PROVE  ChainTypeOK' /\ ChainsSpell(table', ht_next', ht')
<1>0. /\ ht \in [Data -> AddrOrNull] /\ table \in [Bucket -> AddrOrNull]
      /\ ht_next \in [Addr -> AddrOrNull] /\ Index(d) \in Bucket /\ NULL \notin Addr
  BY IndexType, ConstantsAssumption DEF HTypeOK, TypeOK, ChainTypeOK
<1>1. /\ \A e \in Data : ht'[e] = IF e = d THEN n ELSE ht[e]
      /\ \A b \in Bucket : table'[b] = IF b = Index(d) THEN n ELSE table[b]
      /\ \A a \in Addr : ht_next'[a] = IF a = n THEN table[Index(d)] ELSE ht_next[a]
  BY <1>0 DEF hash_insert
<1>2. ChainTypeOK'
  BY <1>0 DEF hash_insert, ChainTypeOK, AddrOrNull
<1>3. \A e \in Data : ht[e] # NULL => ht[e] \in Addr /\ ht[e] # n
  <2> SUFFICES ASSUME NEW e \in Data, ht[e] # NULL PROVE ht[e] \in Addr /\ ht[e] # n
    OBVIOUS
  <2>1. ht[e] \in Addr /\ data[ht[e]] = e
    BY NodesDiffer
  <2> QED
    BY <2>1, ConstantsAssumption DEF Live
<1>4. ASSUME NEW b \in Bucket
      PROVE  \E q \in Seq(Data) : Lists(ht', b, q) /\ Spells(table'[b], ht_next', ht', q)
  <2>1. PICK q \in Seq(Data) : Lists(ht, b, q) /\ Spells(table[b], ht_next, ht, q)
    BY DEF ChainsSpell
  <2>2. Len(q) \in Nat /\ \A i \in 1 .. Len(q) : q[i] \in Data
    BY <2>1
  <2>3. \A i \in 1 .. Len(q) : ht[q[i]] # NULL /\ q[i] # d /\ Index(q[i]) = b
    BY <2>1, <2>2 DEF Lists, Holds
  <2>4. \A i \in 1 .. Len(q) : /\ ht'[q[i]] = ht[q[i]]
                               /\ ht_next'[ht[q[i]]] = ht_next[ht[q[i]]]
    BY <1>1, <1>3, <2>2, <2>3
  <2>5. /\ table[b] = IF Len(q) = 0 THEN NULL ELSE ht[q[1]]
        /\ \A i \in 1 .. Len(q) : ht_next[ht[q[i]]] = IF i = Len(q) THEN NULL ELSE ht[q[i + 1]]
    BY <2>1 DEF Spells
  <2>6. Injective(q) /\ \A e \in Data : Holds(q, e) <=> ht[e] # NULL /\ Index(e) = b
    BY <2>1 DEF Lists
  <2>7. CASE b # Index(d)
    <3>1. Lists(ht', b, q)
      BY <1>1, <2>6, <2>7 DEF Lists
    <3>2. table'[b] = IF Len(q) = 0 THEN NULL ELSE ht'[q[1]]
      <4>1. Len(q) # 0 => 1 \in 1 .. Len(q)
        BY <2>2
      <4> QED
        BY <1>1, <2>4, <2>5, <2>7, <4>1
    <3>3. ASSUME NEW i \in 1 .. Len(q)
          PROVE  ht_next'[ht'[q[i]]] = IF i = Len(q) THEN NULL ELSE ht'[q[i + 1]]
      <4>1. i # Len(q) => i + 1 \in 1 .. Len(q)
        BY <2>2
      <4> QED
        BY <2>4, <2>5, <4>1
    <3> QED
      BY <3>1, <3>2, <3>3 DEF Spells
  <2>8. CASE b = Index(d)
    <3> DEFINE r == [i \in 1 .. Len(q) + 1 |-> IF i = 1 THEN d ELSE q[i - 1]]
    <3>1. \A i \in 1 .. Len(q) + 1 : r[i] \in Data
      BY <2>2
    <3>2. r \in Seq(Data) /\ Len(r) = Len(q) + 1
      BY <2>2, <3>1
    <3>3. r[1] = d /\ \A i \in 1 .. Len(q) : r[i + 1] = q[i]
      BY <2>2
    <3>4. \A i \in 1 .. Len(r) : i = 1 \/ (i - 1 \in 1 .. Len(q) /\ r[i] = q[i - 1] /\ r[i] # d)
      BY <2>2, <2>3, <3>2
    <3> HIDE DEF r
    <3>5. Injective(r)
      BY <2>2, <2>6, <3>2, <3>3, <3>4 DEF Injective
    <3>6. ASSUME NEW e \in Data PROVE Holds(r, e) <=> e = d \/ Holds(q, e)
      <4>1. Holds(r, e) => e = d \/ Holds(q, e)
        BY <3>3, <3>4 DEF Holds
      <4>2. Holds(q, e) => Holds(r, e)
        <5> SUFFICES ASSUME NEW i \in 1 .. Len(q), q[i] = e PROVE Holds(r, e)
          BY DEF Holds
        <5>1. i + 1 \in 1 .. Len(r)
          BY <2>2, <3>2
        <5> QED
          BY <3>3, <5>1 DEF Holds
      <4>3. 1 \in 1 .. Len(r)
        BY <2>2, <3>2
      <4> QED
        BY <3>3, <4>1, <4>2, <4>3 DEF Holds
    <3>7. Lists(ht', b, r)
      BY <1>0, <1>1, <2>6, <2>8, <3>5, <3>6 DEF Lists
    <3>8. table'[b] = IF Len(r) = 0 THEN NULL ELSE ht'[r[1]]
      BY <1>1, <2>2, <2>8, <3>2, <3>3
    <3>9. ASSUME NEW i \in 1 .. Len(r)
          PROVE  ht_next'[ht'[r[i]]] = IF i = Len(r) THEN NULL ELSE ht'[r[i + 1]]
      <4>1. CASE i = 1
        <5>1. ht_next'[ht'[r[i]]] = table[b]
          BY <1>1, <2>8, <3>3, <4>1
        <5>2. i = Len(r) <=> Len(q) = 0
          BY <2>2, <3>2, <4>1
        <5>3. Len(q) # 0 => 1 \in 1 .. Len(q) /\ r[i + 1] = q[1]
          BY <2>2, <3>3, <4>1
        <5> QED
          BY <2>4, <2>5, <5>1, <5>2, <5>3
      <4>2. CASE i # 1
        <5>1. i - 1 \in 1 .. Len(q) /\ r[i] = q[i - 1]
          BY <3>4, <4>2
        <5>2. i = Len(r) <=> i - 1 = Len(q)
          BY <2>2, <3>2
        <5>3. i # Len(r) => i \in 1 .. Len(q) /\ r[i + 1] = q[i] /\ i - 1 + 1 = i
          BY <2>2, <3>2, <3>3
        <5> QED
          BY <2>4, <2>5, <5>1, <5>2, <5>3
      <4> QED
        BY <4>1, <4>2
    <3> QED
      BY <3>2, <3>7, <3>8, <3>9 DEF Spells
  <2> QED
    BY <2>7, <2>8
<1> QED
  BY <1>2, <1>4 DEF ChainsSpell

\* Unchaining the node of d.
LEMMA Unchained ==
  ASSUME HTypeOK, Indexed, ChainInv, ~fault, op # "clear",
         NEW d \in Data, ht[d] # NULL, ht' = [ht EXCEPT ![d] = NULL],
         ~fault', ChainDrop(d)
  PROVE  ChainTypeOK' /\ ChainsSpell(table', ht_next', ht')
<1>0. /\ ht \in [Data -> AddrOrNull] /\ table \in [Bucket -> AddrOrNull]
      /\ ht_next \in [Addr -> AddrOrNull] /\ Index(d) \in Bucket /\ NULL \notin Addr
      /\ ht[d] \in Addr
  BY IndexType, ConstantsAssumption DEF HTypeOK, TypeOK, ChainTypeOK, ChainInv, AddrOrNull
<1>a. ChainsSpell(table, ht_next, ht)
  BY DEF ChainInv, ChainsSpell
<1> DEFINE x(q, i) == ht[q[i]]
           rest == ht_next[ht[d]]
           last == get_node(d).last
<1>1. get_node(d).it = ht[d]
  BY GetNode
<1>2. PICK q \in Seq(Data) : \E k \in 1 .. Len(q) :
         /\ Lists(ht, Index(d), q) /\ Spells(table[Index(d)], ht_next, ht, q)
         /\ q[k] = d
         /\ last = IF k = 1 THEN NULL ELSE ht[q[k - 1]]
  BY GetNode
<1>3. PICK k \in 1 .. Len(q) :
         /\ Lists(ht, Index(d), q) /\ Spells(table[Index(d)], ht_next, ht, q)
         /\ q[k] = d
         /\ last = IF k = 1 THEN NULL ELSE ht[q[k - 1]]
  BY <1>2
<1>4. Len(q) \in Nat /\ \A i \in 1 .. Len(q) : q[i] \in Data
  BY <1>2
<1>5. \A i \in 1 .. Len(q) : ht[q[i]] # NULL /\ ht[q[i]] \in Addr /\ Index(q[i]) = Index(d)
  BY <1>3, <1>4, NodesDiffer DEF Lists, Holds
<1>6. k # 1 => k - 1 \in 1 .. Len(q) /\ last \in Addr /\ last # NULL /\ q[k - 1] # d
  <2>1. k # 1 => k - 1 \in 1 .. Len(q) /\ k - 1 # k
    BY <1>4
  <2> QED
    BY <1>0, <1>3, <1>5, <2>1 DEF Lists, Injective
<1>7. /\ \A a \in Addr : ht_next'[a] = IF a = ht[d] THEN NULL ELSE IF a = last THEN rest ELSE ht_next[a]
      /\ \A b \in Bucket : table'[b] = IF b = Index(d) /\ k = 1 THEN rest ELSE table[b]
      /\ ChainTypeOK'
  <2>0. rest \in AddrOrNull
    BY <1>0
  <2>1. CASE k = 1
    <3>1. last = NULL
      BY <1>3, <2>1
    <3>2. /\ table' = [table EXCEPT ![Index(d)] = rest]
          /\ ht_next' = [ht_next EXCEPT ![ht[d]] = NULL]
      BY <1>1, <3>1 DEF ChainDrop
    <3> HIDE DEF rest, last
    <3> QED
      BY <1>0, <2>0, <2>1, <3>1, <3>2 DEF ChainTypeOK, AddrOrNull
  <2>2. CASE k # 1
    <3>1. last # NULL /\ last \in Addr
      BY <1>6, <2>2
    <3>2. /\ ht_next' = [ht_next EXCEPT ![last] = rest, ![ht[d]] = NULL]
          /\ table' = table
      BY <1>1, <3>1 DEF ChainDrop
    <3> HIDE DEF rest, last
    <3> QED
      BY <1>0, <2>0, <2>2, <3>1, <3>2 DEF ChainTypeOK, AddrOrNull
  <2> QED
    BY <2>1, <2>2
<1>8. \A e \in Data : ht'[e] = IF e = d THEN NULL ELSE ht[e]
  BY <1>0
<1>9. ASSUME NEW b \in Bucket, b # Index(d)
      PROVE  \E p \in Seq(Data) : Lists(ht', b, p) /\ Spells(table'[b], ht_next', ht', p)
  <2>1. PICK p \in Seq(Data) : Lists(ht, b, p) /\ Spells(table[b], ht_next, ht, p)
    BY <1>a DEF ChainsSpell
  <2>2. Len(p) \in Nat /\ \A i \in 1 .. Len(p) : p[i] \in Data
    BY <2>1
  <2>3. \A i \in 1 .. Len(p) : ht[p[i]] # NULL /\ ht[p[i]] \in Addr /\ Index(p[i]) = b
    BY <2>1, <2>2, NodesDiffer DEF Lists, Holds
  <2>4. ASSUME NEW i \in 1 .. Len(p), NEW e \in Data, Index(e) # b PROVE ht[p[i]] # ht[e] /\ p[i] # e
    BY <2>2, <2>3, <2>4, NodesDiffer
  <2>5. \A i \in 1 .. Len(p) : ht[p[i]] # ht[d] /\ p[i] # d /\ (k # 1 => ht[p[i]] # last)
    BY <1>3, <1>4, <1>5, <1>6, <1>9, <2>4
  <2>6. \A i \in 1 .. Len(p) : ht'[p[i]] = ht[p[i]] /\ ht_next'[ht[p[i]]] = ht_next[ht[p[i]]]
    <3>1. k = 1 => last = NULL
      BY <1>3
    <3> HIDE DEF last, rest
    <3> QED
      BY <1>7, <1>8, <2>2, <2>3, <2>5, <3>1
  <2>7. Lists(ht', b, p)
    BY <1>8, <1>9, <2>1 DEF Lists
  <2>8. table'[b] = table[b]
    BY <1>7, <1>9
  <2>9. Len(p) # 0 => 1 \in 1 .. Len(p)
    BY <2>2
  <2>10. ASSUME NEW i \in 1 .. Len(p)
         PROVE  ht_next'[ht'[p[i]]] = IF i = Len(p) THEN NULL ELSE ht'[p[i + 1]]
    <3>1. i # Len(p) => i + 1 \in 1 .. Len(p)
      BY <2>2
    <3> QED
      BY <2>1, <2>6, <3>1 DEF Spells
  <2>11. Spells(table'[b], ht_next', ht', p)
    BY <2>1, <2>6, <2>8, <2>9, <2>10 DEF Spells
  <2> QED
    BY <2>7, <2>11
<1>10. \E r \in Seq(Data) : Lists(ht', Index(d), r) /\ Spells(table'[Index(d)], ht_next', ht', r)
  <2> DEFINE r == Without(q, d)
             m == Len(q)
             y(i) == ht[q[i]]
  <2>0. Injective(q)
    BY <1>3 DEF Lists
  <2>1. /\ r \in Seq(Data) /\ Len(r) = m - 1
        /\ \A i \in 1 .. m - 1 : r[i] = IF i < k THEN q[i] ELSE q[i + 1]
    BY <1>3, <2>0, WithoutAt
  <2>2. Injective(r) /\ \A e \in Data : Holds(r, e) <=> e # d /\ Holds(q, e)
    BY <2>0, WithoutHolds
  <2>3. Lists(ht', Index(d), r)
    BY <1>3, <1>8, <2>2 DEF Lists
  <2>4. \A i, j \in 1 .. m : i # j => y(i) # y(j)
    BY <1>4, <1>5, <2>0, NodesDiffer DEF Injective
  <2>5. /\ table[Index(d)] = y(1)
        /\ \A i \in 1 .. m : ht_next[y(i)] = IF i = m THEN NULL ELSE y(i + 1)
    <3>1. m # 0
      BY <1>4
    <3> QED
      BY <1>3, <3>1 DEF Spells
  <2>6. y(k) = ht[d] /\ rest = (IF k = m THEN NULL ELSE y(k + 1)) /\ (k # 1 => last = y(k - 1))
        /\ (k = 1 => last = NULL)
    BY <1>3, <2>5
  <2>7. \A i \in 1 .. m : y(i) \in Addr /\ y(i) # NULL
    BY <1>5
  <2>8. \A i \in 1 .. m : i # k => ht'[q[i]] = y(i)
    BY <1>3, <1>4, <1>8, <2>0 DEF Injective
  <2>9. \A i \in 1 .. m : i # k => ht_next'[y(i)] = IF i = k - 1 THEN rest ELSE ht_next[y(i)]
    <3> SUFFICES ASSUME NEW i \in 1 .. m, i # k
                 PROVE  ht_next'[y(i)] = IF i = k - 1 THEN rest ELSE ht_next[y(i)]
      OBVIOUS
    <3>1. y(i) # ht[d] /\ y(i) \in Addr /\ y(i) # NULL
      BY <2>4, <2>6, <2>7
    <3>2. CASE k = 1
      <4>1. i # k - 1
        BY <3>2
      <4> QED
        BY <1>7, <2>6, <3>1, <3>2, <4>1
    <3>3. CASE k # 1
      <4>1. k - 1 \in 1 .. m
        BY <1>6, <3>3
      <4>2. y(i) = last <=> i = k - 1
        BY <2>4, <2>6, <3>3, <4>1
      <4> QED
        BY <1>7, <3>1, <4>2
    <3> QED
      BY <3>2, <3>3
  <2>10. m \in Nat /\ m > 0 /\ k \in 1 .. m
    BY <1>4
  <2> HIDE DEF r, m, y, rest, last
  <2>11. \A i \in 1 .. m - 1 : ht'[r[i]] = IF i < k THEN y(i) ELSE y(i + 1)
    <3> SUFFICES ASSUME NEW i \in 1 .. m - 1 PROVE ht'[r[i]] = IF i < k THEN y(i) ELSE y(i + 1)
      OBVIOUS
    <3>1. CASE i < k
      <4>1. i \in 1 .. m /\ i # k
        BY <2>10, <3>1
      <4> QED
        BY <2>1, <2>8, <3>1, <4>1
    <3>2. CASE ~(i < k)
      <4>1. i + 1 \in 1 .. m /\ i + 1 # k
        BY <2>10, <3>2
      <4> QED
        BY <2>1, <2>8, <3>2, <4>1
    <3> QED
      BY <3>1, <3>2
  <2>12. ASSUME NEW i \in 1 .. m - 1
         PROVE  ht_next'[ht'[r[i]]] = IF i = m - 1 THEN NULL ELSE ht'[r[i + 1]]
    <3>0. i # m - 1 => i + 1 \in 1 .. m - 1
      BY <2>10
    <3>1. CASE i < k - 1
      <4>1. i \in 1 .. m /\ i # k /\ i < k /\ i # k - 1 /\ i # m /\ i + 1 < k /\ i # m - 1
        BY <2>10, <3>1
      <4>2. ht_next'[ht'[r[i]]] = y(i + 1)
        BY <2>5, <2>9, <2>11, <4>1
      <4> QED
        BY <2>11, <3>0, <4>1, <4>2
    <3>2. CASE i = k - 1
      <4>1. i \in 1 .. m /\ i # k /\ i < k /\ ~(i + 1 < k) /\ i + 1 + 1 = k + 1 /\ (i = m - 1 <=> k = m)
        BY <2>10, <3>2
      <4>2. ht_next'[ht'[r[i]]] = rest
        BY <2>9, <2>11, <3>2, <4>1
      <4> QED
        BY <2>6, <2>11, <3>0, <4>1, <4>2
    <3>3. CASE i > k - 1
      <4>1. /\ i + 1 \in 1 .. m /\ i + 1 # k /\ ~(i < k) /\ i + 1 # k - 1 /\ ~(i + 1 < k)
            /\ (i = m - 1 <=> i + 1 = m)
        BY <2>10, <3>3
      <4>2. ht_next'[ht'[r[i]]] = IF i + 1 = m THEN NULL ELSE y(i + 1 + 1)
        BY <2>5, <2>9, <2>11, <4>1
      <4> QED
        BY <2>11, <3>0, <4>1, <4>2
    <3> QED
      BY <2>10, <3>1, <3>2, <3>3
  <2>13. table'[Index(d)] = IF m - 1 = 0 THEN NULL ELSE ht'[r[1]]
    <3>0. m - 1 # 0 => 1 \in 1 .. m - 1
      BY <2>10
    <3>1. CASE k = 1
      <4>1. table'[Index(d)] = IF m = 1 THEN NULL ELSE y(1 + 1)
        BY <1>0, <1>7, <2>6, <3>1
      <4>2. ~(1 < k) /\ (m = 1 <=> m - 1 = 0)
        BY <2>10, <3>1
      <4> QED
        BY <2>11, <3>0, <4>1, <4>2
    <3>2. CASE k # 1
      <4>1. 1 < k /\ m - 1 # 0
        BY <2>10, <3>2
      <4> QED
        BY <1>0, <1>7, <2>5, <2>11, <3>0, <3>2, <4>1
    <3> QED
      BY <3>1, <3>2
  <2>14. Spells(table'[Index(d)], ht_next', ht', r)
    BY <2>1, <2>12, <2>13 DEF Spells
  <2> QED
    BY <2>1, <2>3, <2>14
<1> QED
  BY <1>7, <1>9, <1>10 DEF ChainsSpell

\* Elements with nodes of their own are no more than there are nodes.
LEMMA FewElements ==
  ASSUME NEW h \in [Data -> AddrOrNull], \A d, e \in Data : h[d] # NULL /\ h[d] = h[e] => d = e
  PROVE  /\ IsFiniteSet({d \in Data : h[d] # NULL})
         /\ Cardinality({d \in Data : h[d] # NULL}) \in Nat
         /\ Cardinality({d \in Data : h[d] # NULL}) < UINT
<1> DEFINE P == {d \in Data : h[d] # NULL}
           f == [d \in P |-> h[d]]
<1>1. f \in Injection(P, Addr)
  BY DEF Injection, IsInjective, AddrOrNull
<1> HIDE DEF P, f
<1>2. IsFiniteSet(P) /\ Cardinality(P) <= Cardinality(Addr)
  BY <1>1, FS_Injection, HashAssumption
<1>3. Cardinality(P) \in Nat /\ Cardinality(Addr) \in Nat /\ Cardinality(Addr) < UINT /\ UINT \in Nat
  BY <1>2, FS_CardinalityType, HashAssumption, ConstantsAssumption
<1>4. Cardinality(P) < UINT
  BY <1>2, <1>3
<1> QED
  BY <1>2, <1>3, <1>4 DEF P

\* table->size with a new element, and with one less.
LEMMA SizeAdd ==
  ASSUME HTypeOK, Indexed, ChainInv, ~fault, op # "clear",
         NEW d \in Data, ht[d] = NULL, NEW n \in Addr \ Live,
         dl' = [dl_insert_node(dl, n) EXCEPT !.size = Add(@, 1)], ht' = [ht EXCEPT ![d] = n]
  PROVE  IsFiniteSet(Present') /\ dl'.size = Cardinality(Present')
<1>0. ht \in [Data -> AddrOrNull] /\ dl \in ListType /\ NULL \notin Addr
  BY ConstantsAssumption DEF HTypeOK, TypeOK
<1>1. \A e \in Data : ht'[e] = IF e = d THEN n ELSE ht[e]
  BY <1>0
<1>2. \A e \in Data : ht[e] # n
  <2> SUFFICES ASSUME NEW e \in Data, ht[e] = n PROVE FALSE
    OBVIOUS
  <2>1. data[n] = e
    BY <1>0, NodesDiffer
  <2> QED
    BY <2>1, ConstantsAssumption DEF Live
<1>3. ht' \in [Data -> AddrOrNull] /\ \A c, e \in Data : ht'[c] # NULL /\ ht'[c] = ht'[e] => c = e
  <2>1. ht' \in [Data -> AddrOrNull]
    BY <1>0 DEF AddrOrNull
  <2> QED
    BY <1>1, <1>2, <2>1, NodesDiffer
<1>4. Present' = {e \in Data : ht'[e] # NULL}
  BY DEF Present
<1>5. IsFiniteSet(Present') /\ Cardinality(Present') \in Nat /\ Cardinality(Present') < UINT
  BY <1>3, <1>4, FewElements
<1>6. Present' = Present \cup {d} /\ d \notin Present
  BY <1>0, <1>1 DEF Present
<1>7. IsFiniteSet(Present) /\ dl.size = Cardinality(Present)
  BY DEF ChainInv
<1>8. Cardinality(Present') = dl.size + 1
  BY <1>6, <1>7, FS_AddElement
<1>a. dl_insert_node(dl, n) \in ListType
  BY <1>0, InsertType
<1>b. dl_insert_node(dl, n).size = dl.size
  BY <1>0 DEF dl_insert_node, ListType
<1>9. dl_insert_node(dl, n) \in ListType /\ dl_insert_node(dl, n).size = dl.size
  BY <1>a, <1>b
<1>10. dl'.size = Add(dl.size, 1)
  BY <1>9 DEF ListType
<1> QED
  BY <1>5, <1>8, <1>10 DEF Add

LEMMA SizeSub ==
  ASSUME HTypeOK, Indexed, ChainInv, ~fault, op # "clear", NEW d \in Data, ht[d] # NULL,
         dl' = [Scrub(dl_remove_node(dl, ht[d]), ht[d]) EXCEPT !.size = Sub(@, 1)],
         ht' = [ht EXCEPT ![d] = NULL]
  PROVE  IsFiniteSet(Present') /\ dl'.size = Cardinality(Present')
<1>0. ht \in [Data -> AddrOrNull] /\ dl \in ListType /\ ht[d] \in Addr
  BY DEF HTypeOK, TypeOK, AddrOrNull
<1>1. \A e \in Data : ht'[e] = IF e = d THEN NULL ELSE ht[e]
  BY <1>0
<1>2. Present' = Present \ {d} /\ d \in Present
  BY <1>1 DEF Present
<1>3. IsFiniteSet(Present) /\ dl.size = Cardinality(Present)
  BY DEF ChainInv
<1>4. IsFiniteSet(Present') /\ Cardinality(Present') = dl.size - 1
  BY <1>2, <1>3, FS_RemoveElement
<1>5. Cardinality(Present) \in Nat /\ Cardinality(Present) # 0
  BY <1>2, <1>3, FS_CardinalityType, FS_EmptySet
<1> DEFINE t == dl_remove_node(dl, ht[d])
           u == Scrub(t, ht[d])
<1>6. t \in ListType /\ u \in ListType
  BY <1>0, RemoveType, SizeType
<1>7. t.size = dl.size
  BY <1>0 DEF dl_remove_node, ListType
<1> HIDE DEF t
<1>8. u.size = t.size
  BY <1>6 DEF Scrub, ListType
<1> HIDE DEF u
<1>9. dl'.size = Sub(u.size, 1)
  BY <1>6 DEF u, t, ListType
<1> QED
  BY <1>3, <1>4, <1>5, <1>7, <1>8, <1>9 DEF Sub

LEMMA RelocateSize ==
  ASSUME NEW t \in ListType, NEW n \in Addr
  PROVE  dl_insert_node(dl_remove_node(t, n), n).size = t.size
<1> DEFINE u == dl_remove_node(t, n)
<1>1. u \in ListType /\ u.size = t.size
  BY RemoveType DEF dl_remove_node, ListType
<1> HIDE DEF u
<1>2. dl_insert_node(u, n).size = u.size
  BY <1>1 DEF dl_insert_node, ListType
<1> QED
  BY <1>1, <1>2 DEF u

\* Steps that leave the hash table alone.
LEMMA TableFrame ==
  ASSUME ChainInv, ~fault, UNCHANGED <<table, ht_next, ht>>, dl'.size = dl.size,
         op # "clear" \/ op' = "clear"
  PROVE  ChainInv'
<1>1. Present' = Present /\ ChainTypeOK'
  BY DEF Present, ChainTypeOK, ChainInv
<1>2. ASSUME op' # "clear", NEW b \in Bucket
      PROVE  \E q \in Seq(Data) : Lists(ht', b, q) /\ Spells(table'[b], ht_next', ht', q)
  BY <1>2 DEF ChainInv
<1> QED
  BY <1>1, <1>2 DEF ChainInv

LEMMA ChainCrash ==
  ASSUME ChainInv, fault', UNCHANGED chains
  PROVE  ChainInv'
BY DEF ChainInv, ChainTypeOK, chains

LEMMA ChainAddStep ==
  ASSUME HTypeOK, Indexed, ChainInv, Idle, NEW d \in Data, AddNode(d), ht[d] = NULL, ChainAdd(d)
  PROVE  ChainInv'
<1>0. ~fault /\ op # "clear"
  BY DEF Idle
<1>1. CASE fault'
  BY <1>1, ChainCrash DEF ChainAdd
<1>2. CASE ~fault'
  <2>1. PICK n \in Addr \ Live :
           /\ dl' = [dl_insert_node(dl, n) EXCEPT !.size = Add(@, 1)]
           /\ ht' = [ht EXCEPT ![d] = n]
    BY <1>2 DEF AddNode, Crash
  <2>2. get_node(d).it = NULL
    BY <1>0, GetNode
  <2>3. ht'[d] = n
    BY <2>1 DEF HTypeOK, TypeOK
  <2>4. hash_insert(n, d)
    BY <1>2, <2>2, <2>3 DEF ChainAdd
  <2>5. ChainTypeOK /\ ChainsSpell(table, ht_next, ht)
    BY <1>0 DEF ChainInv, ChainsSpell
  <2>6. ChainTypeOK' /\ ChainsSpell(table', ht_next', ht')
    BY <1>0, <2>1, <2>4, <2>5, Chained
  <2>7. IsFiniteSet(Present') /\ dl'.size = Cardinality(Present')
    BY <1>0, <2>1, SizeAdd
  <2> QED
    BY <2>6, <2>7 DEF ChainInv, ChainsSpell
<1> QED
  BY <1>1, <1>2

LEMMA ChainDropStep ==
  ASSUME HTypeOK, Indexed, ChainInv, ~fault, op # "clear", NEW d \in Data, delta_delete(d), ChainDrop(d)
  PROVE  ChainInv'
<1>1. CASE fault'
  BY <1>1, ChainCrash DEF ChainDrop
<1>2. CASE ~fault'
  <2>1. /\ ht[d] # NULL
        /\ dl' = [Scrub(dl_remove_node(dl, ht[d]), ht[d]) EXCEPT !.size = Sub(@, 1)]
        /\ ht' = [ht EXCEPT ![d] = NULL]
    BY <1>2 DEF delta_delete, Crash
  <2>2. ChainTypeOK' /\ ChainsSpell(table', ht_next', ht')
    BY <1>2, <2>1, Unchained
  <2>3. IsFiniteSet(Present') /\ dl'.size = Cardinality(Present')
    BY <2>1, SizeSub
  <2> QED
    BY <2>2, <2>3 DEF ChainInv, ChainsSpell
<1> QED
  BY <1>1, <1>2

\* Buckets without anything in them.
LEMMA EmptyChains ==
  ASSUME NEW h, \A d \in Data : h[d] = NULL
  PROVE  ChainsSpell(NoBuckets, NoLinks, h)
<1>1. <<>> \in Seq(Data) /\ Len(<<>>) = 0
  OBVIOUS
<1>2. \A b \in Bucket : NoBuckets[b] = NULL
  BY DEF NoBuckets, Bucket
<1>3. \A b \in Bucket : Lists(h, b, <<>>)
  BY <1>1 DEF Lists, Injective, Holds
<1>4. \A b \in Bucket : Spells(NoBuckets[b], NoLinks, h, <<>>)
  BY <1>1, <1>2 DEF Spells
<1> QED
  BY <1>1, <1>3, <1>4 DEF ChainsSpell

LEMMA EmptyChainType == NoBuckets \in [Bucket -> AddrOrNull] /\ NoLinks \in [Addr -> AddrOrNull]
BY DEF NoBuckets, NoLinks, Bucket, AddrOrNull

LEMMA ChainInit == KInit => ChainInv
<1> SUFFICES ASSUME KInit PROVE ChainInv
  OBVIOUS
<1>1. table = NoBuckets /\ ht_next = NoLinks /\ dl.size = 0 /\ \A d \in Data : ht[d] = NULL
  BY DEF KInit, HInit, Init, EmptyList
<1>2. Present = {}
  BY <1>1 DEF Present
<1> QED
  BY <1>1, <1>2, EmptyChains, EmptyChainType, FS_EmptySet DEF ChainInv, ChainTypeOK, ChainsSpell

LEMMA ChainStep == ListOK /\ ChainInv /\ [KNext]_kvars => ChainInv'
<1> SUFFICES ASSUME ListOK, ChainInv, [KNext]_kvars PROVE ChainInv'
  OBVIOUS
<1>0. HTypeOK /\ Indexed /\ dl \in ListType
  BY DEF ListOK, HTypeOK, TypeOK
<1>1. ASSUME NEW d \in Data, KInsert(d) PROVE ChainInv'
  BY <1>0, <1>1, ChainAddStep DEF KInsert, HInsert, delta_insert
<1>2. ASSUME NEW d \in Data, KUpdate(d) PROVE ChainInv'
  <2>1. Idle /\ ChainAdd(d)
    BY <1>2 DEF KUpdate, HUpdate, delta_update
  <2>2. CASE ht[d] = NULL
    BY <1>0, <1>2, <2>1, <2>2, ChainAddStep DEF KUpdate, HUpdate, delta_update
  <2>3. CASE ht[d] # NULL
    <3>1. Relocate(ht[d]) /\ ~fault /\ op # "clear" /\ ht[d] \in Addr
      BY <1>0, <1>2, <2>1, <2>3 DEF KUpdate, HUpdate, delta_update, Idle, HTypeOK, TypeOK, AddrOrNull
    <3>2. get_node(d).it # NULL
      BY <1>0, <2>3, <3>1, GetNode
    <3>3. UNCHANGED chains
      BY <2>1, <3>2 DEF ChainAdd
    <3>4. CASE fault'
      BY <3>3, <3>4, ChainCrash
    <3>5. CASE ~fault'
      <4>1. dl' = dl_insert_node(dl_remove_node(dl, ht[d]), ht[d]) /\ ht' = ht /\ op' = op
        BY <3>1, <3>5 DEF Relocate, Crash
      <4>2. dl'.size = dl.size
        BY <1>0, <3>1, <4>1, RelocateSize
      <4> QED
        BY <3>1, <3>3, <4>1, <4>2, TableFrame DEF chains
    <3> QED
      BY <3>4, <3>5
  <2> QED
    BY <2>2, <2>3
<1>3. ASSUME NEW d \in Data, KRemove(d) PROVE ChainInv'
  BY <1>0, <1>3, ChainDropStep DEF KRemove, HRemove, delta_remove, Idle
<1>4. CASE KExpire
  <2>1. ~fault /\ op # "clear"
    BY <1>4 DEF KExpire, HExpire, Expire
  <2>2. CASE dl.head \in Live
    <3>1. data[dl.head] \in Data
      BY <1>0, <2>2 DEF Live, HTypeOK, TypeOK
    <3> QED
      BY <1>0, <1>4, <2>1, <2>2, <3>1, ChainDropStep DEF KExpire, HExpire, Expire
  <2>3. CASE dl.head \notin Live
    BY <1>4, <2>3, ChainCrash DEF KExpire, HExpire, Expire, Crash
  <2> QED
    BY <2>2, <2>3
<1>5. CASE KTick
  <2>1. ~fault /\ op # "clear" /\ UNCHANGED chains /\ ht' = ht
    BY <1>5 DEF KTick, HTickEmpty, HTickStart, HTickEnd, TickEmpty, TickStart, TickEnd, Idle,
         Crash, vars
  <2>2. dl'.size = dl.size
    BY <1>0, <1>5 DEF KTick, HTickEmpty, HTickStart, HTickEnd, TickEmpty, TickStart, TickEnd,
         Crash, vars, ListType
  <2> QED
    BY <2>1, <2>2, TableFrame DEF chains
<1>6. CASE KForeachStart \/ KForeachCall \/ KForeachBreak \/ KForeachEnd
  <2>1. ~fault /\ op # "clear" /\ UNCHANGED chains /\ UNCHANGED <<dl, ht>>
    BY <1>6 DEF KForeachStart, KForeachCall, KForeachBreak, KForeachEnd, HForeachStart,
         HForeachCall, HForeachBreak, HForeachEnd, ForeachStart, ForeachCall, ForeachBreak,
         ForeachEnd, Idle, Crash
  <2> QED
    BY <2>1, TableFrame DEF chains
<1>7. CASE KClear
  <2>1. ~fault /\ op' = "clear" /\ UNCHANGED chains /\ UNCHANGED <<dl, ht>>
    BY <1>7 DEF KClear, HClearStart, HClearFree, ClearStart, ClearFree, Idle, Crash
  <2> QED
    BY <2>1, TableFrame DEF chains
<1>8. CASE KClearEnd
  <2>1. /\ table' = NoBuckets /\ ht_next' = NoLinks /\ dl'.size = 0
        /\ \A d \in Data : ht'[d] = NULL
    BY <1>8 DEF KClearEnd, HClearEnd, ClearEnd, EmptyList
  <2>2. Present' = {}
    BY <2>1 DEF Present
  <2>3. ChainsSpell(table', ht_next', ht')
    BY <2>1, EmptyChains
  <2> QED
    BY <2>1, <2>2, <2>3, EmptyChainType, FS_EmptySet DEF ChainInv, ChainTypeOK, ChainsSpell
<1>9. CASE UNCHANGED kvars
  <2>1. UNCHANGED <<table, ht_next, ht, dl, op, fault>>
    BY <1>9 DEF kvars, hvars, vars, chains
  <2>2. CASE fault
    BY <2>1, <2>2, ChainCrash DEF chains
  <2>3. CASE ~fault
    BY <2>1, <2>3, TableFrame
  <2> QED
    BY <2>2, <2>3
<1> QED
  BY <1>1, <1>2, <1>3, <1>4, <1>5, <1>6, <1>7, <1>8, <1>9 DEF KNext

(***************************************************************************)
(* For every hash function, every number of buckets and every sequence of  *)
(* calls of the interface: get_node finds the node of every element in the *)
(* table and of no other, over allocated nodes, in at most as many rounds  *)
(* as there are nodes, and table->size is the number of elements.          *)
(***************************************************************************)
THEOREM ChainsFindHolds == KSpec => []ChainsFind
<1>1. ListOK /\ [KNext]_kvars => ListOK'
  BY ListCalls, ListOKStep
<1>2. ListOK /\ ChainInv => ChainsFind
  <2> SUFFICES ASSUME ListOK, ChainInv, ~fault, op # "clear"
               PROVE  /\ \A d \in Data :
                          /\ get_node(d).it = ht[d]
                          /\ \A i \in 0 .. Cardinality(Addr) :
                                Rounds(d, Cardinality(Addr))[i].it \in Live \cup {NULL}
                      /\ dl.size = Cardinality({d \in Data : get_node(d).it # NULL})
    BY DEF ChainsFind
  <2>1. \A d \in Data :
          /\ get_node(d).it = ht[d]
          /\ \A i \in 0 .. Cardinality(Addr) :
                Rounds(d, Cardinality(Addr))[i].it \in Live \cup {NULL}
    BY GetNode DEF ListOK
  <2>2. {d \in Data : get_node(d).it # NULL} = Present
    BY <2>1 DEF Present
  <2> QED
    BY <2>1, <2>2 DEF ChainInv
<1> QED
  BY <1>1, <1>2, ListOKInit, ChainInit, ChainStep, PTL DEF KSpec

-----------------------------------------------------------------------------
(***************************************************************************)
(* What the tracker's operations do to the table.                          *)
(***************************************************************************)
LEMMA Entries ==
  ASSUME NEW h \in Host
  PROVE  /\ Entry(h) = <<h, 1>> /\ Entry(h) \in Data
         /\ \A g \in Host : Entry(g) = Entry(h) => g = h
BY OverlayAssumption DEF Entry, make_client

\* delta_update lists the element anew, and touches no other.
LEMMA UpdateEffect ==
  ASSUME HTypeOK, NEW d \in Data, HUpdate(d), ~fault'
  PROVE  /\ ht'[d] # NULL /\ ttl'[d] = interval
         /\ \A e \in Data : e # d => ht'[e] = ht[e] /\ ttl'[e] = ttl[e]
<1>1. /\ ht \in [Data -> AddrOrNull] /\ ttl \in [Data -> 0 .. interval]
      /\ ttl' = [ttl EXCEPT ![d] = interval]
  BY DEF HTypeOK, TypeOK, HUpdate, HAdd
<1>2. CASE ht[d] # NULL
  <2>1. ht' = ht
    BY <1>2 DEF HUpdate, delta_update, Relocate, Crash
  <2> QED
    BY <1>1, <1>2, <2>1
<1>3. CASE ht[d] = NULL
  <2>1. \E n \in Addr : ht' = [ht EXCEPT ![d] = n]
    BY <1>3 DEF HUpdate, delta_update, AddNode, Crash
  <2> QED
    BY <1>1, <2>1, ConstantsAssumption
<1> QED
  BY <1>2, <1>3

\* A tick takes one second from every listed element.
LEMMA TickEffect ==
  ASSUME HTypeOK, Indexed, Represents, inForce, HTickEmpty \/ HTickStart
  PROVE  /\ ht' = ht
         /\ \A d \in Data : ht[d] # NULL => ttl[d] > 0 /\ ttl'[d] = ttl[d] - 1
<1>1. ht' = ht
  BY DEF HTickEmpty, TickEmpty, vars, HTickStart, TickStart, Crash
<1>2. Idle /\ ttl' = [d \in Data |-> IF ttl[d] > 0 THEN ttl[d] - 1 ELSE 0]
  BY DEF HTickEmpty, TickEmpty, HTickStart, TickStart, HTick
<1>3. \A d \in Data : ht[d] # NULL => ttl[d] > 0
  BY <1>2 DEF Represents, NoneDue, Indexed, Holds, Idle
<1> QED
  BY <1>1, <1>2, <1>3

\* The expiry loop drops one element, whose time is up.
LEMMA ExpireEffect ==
  ASSUME HTypeOK, Indexed, Represents, inForce, HExpire
  PROVE  \E d \in Data :
            /\ ht[d] # NULL /\ ttl[d] = 0 /\ op = "tick"
            /\ \A e \in Data : e # d => ht'[e] = ht[e] /\ ttl'[e] = ttl[e]
            /\ ~fault' => ht'[d] = NULL
<1>1. op = "tick" /\ dl.head # NULL /\ ~fault
  BY DEF HExpire, Expire
<1>2. /\ queue[1] \in Data /\ dl.head = ht[queue[1]] /\ dl.head \in Live
      /\ data[dl.head] = queue[1] /\ dl.nd[dl.head] = ttl[queue[1]]
  BY <1>1, HeadOfQueue
<1> DEFINE d == queue[1]
<1>3. delta_delete(d) /\ HDrop(d) /\ ttl[d] = 0
  BY <1>2 DEF HExpire, Expire
<1>4. /\ ht \in [Data -> AddrOrNull] /\ ttl \in [Data -> 0 .. interval]
      /\ ttl' = [ttl EXCEPT ![d] = 0]
  BY <1>3 DEF HTypeOK, TypeOK, HDrop
<1>5. ht' = [ht EXCEPT ![d] = NULL] \/ (fault' /\ ht' = ht)
  BY <1>3 DEF delta_delete, Crash
<1>6. ht[d] # NULL
  BY <1>1, <1>2
<1> QED
  BY <1>1, <1>2, <1>3, <1>4, <1>5, <1>6

-----------------------------------------------------------------------------
(***************************************************************************)
(* Types of the overlay's own state; no datagram is older than MaxDelay.   *)
(***************************************************************************)
OTypeOK ==
    /\ mode \in [Host -> {"down", "up", "mute"}]
    /\ timer \in [Host -> 0 .. DIR_KEEPALIVE_INTERVAL]
    /\ net \subseteq Host \X (0 .. MaxDelay)
    /\ ticked \in BOOLEAN
    /\ silent \in [Host -> 0 .. SilentMax]
    /\ missing \in [Host -> 0 .. MissingMax]
    /\ sure \in [Host -> BOOLEAN]

LEMMA Bounds ==
  /\ MaxDelay \in Nat /\ interval \in Nat /\ DIR_KEEPALIVE_INTERVAL \in Nat
  /\ 0 < DIR_KEEPALIVE_INTERVAL /\ DIR_KEEPALIVE_INTERVAL < interval
  /\ SilentMax \in Nat /\ MissingMax \in Nat
  /\ SilentMax = interval + MaxDelay + 1 /\ MissingMax = MaxDelay + 1
BY OverlayAssumption, ConstantsAssumption DEF SilentMax, MissingMax

LEMMA OTypeInit == OInit => OTypeOK
<1> SUFFICES ASSUME OInit PROVE OTypeOK
  OBVIOUS
<1>1. 0 \in 0 .. DIR_KEEPALIVE_INTERVAL /\ SilentMax \in 0 .. SilentMax /\ MissingMax \in 0 .. MissingMax
  BY Bounds
<1>2. mode \in [Host -> {"down", "up", "mute"}] /\ timer \in [Host -> 0 .. DIR_KEEPALIVE_INTERVAL]
  BY <1>1 DEF OInit
<1>3. silent \in [Host -> 0 .. SilentMax] /\ missing \in [Host -> 0 .. MissingMax]
  BY <1>1 DEF OInit
<1>4. net \subseteq Host \X (0 .. MaxDelay) /\ ticked \in BOOLEAN /\ sure \in [Host -> BOOLEAN]
  BY DEF OInit
<1> QED
  BY <1>2, <1>3, <1>4 DEF OTypeOK

LEMMA OTypeStep == OTypeOK /\ [ONext]_ovars => OTypeOK'
<1> SUFFICES ASSUME OTypeOK, [ONext]_ovars PROVE OTypeOK'
  OBVIOUS
<1> USE Bounds
<1>0. \A m \in net : m[1] \in Host /\ m[2] \in 0 .. MaxDelay /\ m = <<m[1], m[2]>>
  BY DEF OTypeOK
<1>1. ASSUME NEW h \in Host, router_keepalive_thread(h) PROVE OTypeOK'
  <2>1. <<h, 0>> \in Host \X (0 .. MaxDelay)
    OBVIOUS
  <2> QED
    BY <1>1, <2>1 DEF router_keepalive_thread, OTypeOK
<1>2. ASSUME NEW h \in Host, RouterStops(h) PROVE OTypeOK'
  BY <1>2 DEF RouterStops, OTypeOK
<1>3. ASSUME NEW h \in Host, RouterStarts(h) PROVE OTypeOK'
  BY <1>3 DEF RouterStarts, OTypeOK
<1>4. ASSUME NEW m \in net, Deliver(m) PROVE OTypeOK'
  <2>1. net' \subseteq net
    BY <1>4 DEF Deliver
  <2>2. sure' \in [Host -> BOOLEAN]
    BY <1>4 DEF Deliver, OTypeOK
  <2>3. missing' \in [Host -> 0 .. MissingMax]
    BY <1>4 DEF Deliver, OTypeOK
  <2> QED
    BY <1>4, <2>1, <2>2, <2>3 DEF Deliver, OTypeOK
<1>5. ASSUME NEW m \in net, Lose(m) PROVE OTypeOK'
  BY <1>5 DEF Lose, OTypeOK
<1>6. CASE ClockTick \/ ClockExpire
  BY <1>6 DEF ClockTick, ClockExpire, OTypeOK
<1>7. CASE TrackerStarts
  BY <1>7 DEF TrackerStarts, OTypeOK
<1>8. CASE Second
  <2>1. net' \subseteq Host \X (0 .. MaxDelay)
    <3>1. \A m \in net : <<m[1], m[2] + 1>> \in Host \X (0 .. MaxDelay)
      BY <1>0, <1>8 DEF Second
    <3> QED
      BY <1>8, <3>1 DEF Second
  <2>2. \A h \in Host : /\ Up(silent[h], SilentMax) \in 0 .. SilentMax
                        /\ Up(missing[h], MissingMax) \in 0 .. MissingMax
    BY DEF Up, OTypeOK
  <2>3. timer' \in [Host -> 0 .. DIR_KEEPALIVE_INTERVAL]
    BY <1>8 DEF Second, OTypeOK
  <2>4. silent' \in [Host -> 0 .. SilentMax]
    BY <1>8, <2>2 DEF Second
  <2>5. missing' \in [Host -> 0 .. MissingMax]
    BY <1>8, <2>2 DEF Second
  <2> QED
    BY <1>8, <2>1, <2>3, <2>4, <2>5 DEF Second, OTypeOK
<1>9. CASE UNCHANGED ovars
  BY <1>9 DEF ovars, OTypeOK
<1> QED
  BY <1>1, <1>2, <1>3, <1>4, <1>5, <1>6, <1>7, <1>8, <1>9 DEF ONext

-----------------------------------------------------------------------------
(***************************************************************************)
(* The table stays sound: every step but the tracker's restart is a step   *)
(* of the delta list, and a restart empties it.                            *)
(***************************************************************************)
TableOK == HTypeOK /\ Indexed /\ Represents

LEMMA TableInit == OInit => TableOK
BY HTypeInit, QueueInit DEF OInit, TInit, KInit, TableOK

LEMMA TableStep == OTypeOK /\ TableOK /\ [ONext]_ovars => TableOK'
<1> SUFFICES ASSUME OTypeOK, TableOK, [ONext]_ovars PROVE TableOK'
  OBVIOUS
<1>1. CASE [HNext]_hvars
  BY <1>1, HTypeStep, QueueStep DEF TableOK
<1>2. CASE TrackerStarts
  <2>1. TypeOK'
    BY <1>2, EmptyType DEF TrackerStarts, TypeOK, AddrOrNull
  <2>2. HTypeOK'
    BY <1>2, <2>1, ConstantsAssumption DEF TrackerStarts, HTypeOK, TableOK
  <2>3. /\ queue' = <<>> /\ Len(queue') = 0 /\ op' = "idle" /\ ~fault'
        /\ dl'.head = NULL /\ dl'.delta = 0 /\ \A d \in Data : ht'[d] = NULL
    BY <1>2 DEF TrackerStarts, EmptyList
  <2>4. Indexed'
    BY <2>3 DEF Indexed, Injective, Holds
  <2>5. Represents'
    BY <2>3 DEF Represents, Chain, NoneDue, CursorOK
  <2> QED
    BY <2>2, <2>4, <2>5 DEF TableOK
<1>3. ASSUME UNCHANGED hvars PROVE TableOK'
  BY <1>1, <1>3
<1>4. ASSUME NEW m \in net, Deliver(m) PROVE TableOK'
  <2>0. m[1] \in Host
    BY DEF OTypeOK
  <2>1. HUpdate(Entry(m[1]))
    BY <1>4 DEF Deliver, process_connect, add_client, KUpdate, Entry
  <2>2. HNext
    BY <2>0, <2>1, Entries DEF HNext, DaemonNext
  <2> QED
    BY <1>1, <2>2
<1>5. CASE ClockTick \/ ClockExpire
  BY <1>1, <1>5 DEF ClockTick, ClockExpire, KExpire, HNext, DaemonNext
<1>6. ASSUME UNCHANGED tvars PROVE TableOK'
  BY <1>3, <1>6 DEF tvars, kvars
<1> QED
  BY <1>2, <1>4, <1>5, <1>6
  DEF ONext, router_keepalive_thread, RouterStops, RouterStarts, Lose, Second, ovars

-----------------------------------------------------------------------------
(***************************************************************************)
(* No ghosts.  A second costs a listed router one tick, and a silent       *)
(* router one more second of silence: what is left to the one and what has *)
(* passed of the other never add up to more than when the last datagram    *)
(* arrived, as late as it could.                                           *)
(***************************************************************************)
Beat == IF ticked THEN 1 ELSE 0

Fading ==
    /\ \A h \in Host : mode[h] = "up" => silent[h] = 0
    /\ \A m \in net : silent[m[1]] <= m[2]
    /\ inForce => \A h \in Host : ~Missing(h) => silent[h] + ttl[Entry(h)] + Beat <= SilentMax

LEMMA FadingInit == OInit => Fading
<1> SUFFICES ASSUME OInit PROVE Fading
  OBVIOUS
<1>1. \A h \in Host : Missing(h)
  BY Entries DEF OInit, TInit, KInit, HInit, Init, Missing
<1> QED
  BY <1>1 DEF OInit, Fading

\* inForce never becomes TRUE again.
LEMMA ForceFades == [ONext]_ovars /\ inForce' => inForce
BY DEF ONext, router_keepalive_thread, RouterStops, RouterStarts, Deliver, Lose, ClockTick,
       ClockExpire, TrackerStarts, Second, ovars, tvars, kvars, hvars, hist, process_connect,
       add_client, KUpdate, HUpdate, HAdd, KExpire, HExpire, HDrop, HTickEmpty, HTickStart,
       HTickEnd, HTick

LEMMA FadingStep == OTypeOK /\ TableOK /\ TableOK' /\ Fading /\ [ONext]_ovars => Fading'
<1> SUFFICES ASSUME OTypeOK, TableOK, TableOK', Fading, [ONext]_ovars PROVE Fading'
  OBVIOUS
<1> USE Bounds
<1>0. /\ \A m \in net : m[1] \in Host /\ m[2] \in 0 .. MaxDelay
      /\ \A h \in Host : silent[h] \in 0 .. SilentMax
      /\ Beat \in {0, 1} /\ Beat' \in {0, 1}
      /\ \A h \in Host : Entry(h) \in Data
      /\ \A d \in Data : ttl[d] \in 0 .. interval
  BY Entries DEF OTypeOK, Beat, TableOK, HTypeOK
<1>a. inForce' => inForce /\ ~fault'
  BY ForceFades DEF TableOK, Represents
<1>1. ASSUME UNCHANGED <<tvars, ticked, silent>>,
             \A h \in Host : mode'[h] = "up" => mode[h] = "up",
             \A m \in net' : m \in net \/ \E h \in Host : m = <<h, 0>> /\ mode[h] = "up"
      PROVE  Fading'
  <2>1. \A h \in Host : mode'[h] = "up" => silent'[h] = 0
    BY <1>1 DEF Fading
  <2>2. \A m \in net' : silent'[m[1]] <= m[2]
    BY <1>1 DEF Fading
  <2>3. inForce' = inForce /\ ht' = ht /\ ttl' = ttl /\ Beat' = Beat
    BY <1>1 DEF tvars, kvars, hvars, hist, vars, Beat
  <2> QED
    BY <1>1, <2>1, <2>2, <2>3 DEF Fading, Missing
<1>2. ASSUME NEW h \in Host, router_keepalive_thread(h) PROVE Fading'
  BY <1>1, <1>2 DEF router_keepalive_thread
<1>3. ASSUME NEW h \in Host, RouterStops(h) PROVE Fading'
  BY <1>1, <1>3 DEF RouterStops, OTypeOK
<1>4. ASSUME NEW h \in Host, RouterStarts(h) PROVE Fading'
  <2>1. CASE UNCHANGED silent
    BY <1>1, <1>4, <2>1 DEF RouterStarts, OTypeOK
  <2>2. CASE silent' = [silent EXCEPT ![h] = 0] /\ mode' = [mode EXCEPT ![h] = "up"]
    <3>1. \A g \in Host : silent'[g] = IF g = h THEN 0 ELSE silent[g]
      BY <2>2 DEF OTypeOK
    <3>2. net' = net /\ inForce' = inForce /\ ht' = ht /\ ttl' = ttl /\ Beat' = Beat
      BY <1>4 DEF RouterStarts, tvars, kvars, hvars, hist, vars, Beat
    <3>3. \A g \in Host : mode'[g] = "up" => silent'[g] = 0
      BY <2>2, <3>1 DEF Fading, OTypeOK
    <3>4. \A m \in net' : silent'[m[1]] <= m[2]
      BY <1>0, <3>1, <3>2 DEF Fading
    <3>5. \A g \in Host : silent'[g] <= silent[g] /\ silent'[g] \in Nat
      BY <1>0, <3>1
    <3>6. inForce' => \A g \in Host : ~Missing(g)' => silent'[g] + ttl'[Entry(g)] + Beat' <= SilentMax
      BY <1>0, <3>2, <3>5 DEF Fading, Missing
    <3> QED
      BY <3>3, <3>4, <3>6 DEF Fading, Entry, make_client
  <2> QED
    BY <1>4, <2>1, <2>2 DEF RouterStarts
<1>5. ASSUME NEW m \in net, Lose(m) PROVE Fading'
  BY <1>1, <1>5 DEF Lose
<1>6. ASSUME NEW m \in net, Deliver(m) PROVE Fading'
  <2> DEFINE h == m[1]
  <2>1. /\ HUpdate(Entry(h)) /\ UNCHANGED <<mode, silent, ticked>> /\ net' \subseteq net
    BY <1>6 DEF Deliver, process_connect, add_client, KUpdate, Entry
  <2>2. ASSUME inForce', NEW g \in Host, ~Missing(g)'
        PROVE  silent'[g] + ttl'[Entry(g)] + Beat' <= SilentMax
    <3>1. /\ ttl'[Entry(h)] = interval
          /\ \A e \in Data : e # Entry(h) => ht'[e] = ht[e] /\ ttl'[e] = ttl[e]
      BY <1>0, <1>a, <2>1, <2>2, UpdateEffect DEF TableOK
    <3>2. CASE g = h
      <4>1. silent[h] <= MaxDelay
        BY <1>0 DEF Fading
      <4> QED
        BY <1>0, <2>1, <3>1, <3>2, <4>1
    <3>3. CASE g # h
      <4>1. Entry(g) # Entry(h)
        BY <1>0, <3>3, Entries
      <4>2. ht'[Entry(g)] = ht[Entry(g)] /\ ttl'[Entry(g)] = ttl[Entry(g)] /\ Beat' = Beat
        BY <1>0, <2>1, <3>1, <4>1 DEF Beat
      <4> QED
        BY <1>a, <2>1, <2>2, <4>2 DEF Fading, Missing, Entry, make_client
    <3> QED
      BY <3>2, <3>3
  <2> QED
    BY <2>1, <2>2 DEF Fading
<1>7. CASE ClockTick
  <2>1. /\ HTickEmpty \/ HTickStart
        /\ UNCHANGED <<mode, silent, net>> /\ Beat = 0 /\ Beat' = 1
    BY <1>7 DEF ClockTick, Beat
  <2>2. ASSUME inForce', NEW g \in Host, ~Missing(g)'
        PROVE  silent'[g] + ttl'[Entry(g)] + Beat' <= SilentMax
    <3>1. ht' = ht /\ \A d \in Data : ht[d] # NULL => ttl'[d] = ttl[d] - 1
      BY <1>a, <2>1, <2>2, TickEffect DEF TableOK
    <3>2. ~Missing(g) /\ ttl'[Entry(g)] = ttl[Entry(g)] - 1
      BY <1>0, <2>2, <3>1 DEF Missing, Entry, make_client
    <3> QED
      BY <1>0, <1>a, <2>1, <2>2, <3>2 DEF Fading
  <2> QED
    BY <2>1, <2>2 DEF Fading
<1>8. CASE ClockExpire
  <2>1. UNCHANGED <<mode, silent, net, ticked>> /\ Beat' = Beat
    BY <1>8 DEF ClockExpire, Beat
  <2>2. CASE HTickEnd
    <3>1. ht' = ht /\ ttl' = ttl
      BY <2>2 DEF HTickEnd, TickEnd, hist
    <3> QED
      BY <1>a, <2>1, <3>1 DEF Fading, Missing
  <2>3. CASE HExpire
    <3>1. ASSUME inForce', NEW g \in Host, ~Missing(g)'
          PROVE  silent'[g] + ttl'[Entry(g)] + Beat' <= SilentMax
      <4>1. PICK d \in Data :
               /\ \A e \in Data : e # d => ht'[e] = ht[e] /\ ttl'[e] = ttl[e]
               /\ ht'[d] = NULL
        BY <1>a, <2>3, <3>1, ExpireEffect DEF TableOK
      <4>2. Entry(g) # d
        BY <3>1, <4>1 DEF Missing, Entry, make_client
      <4>3. ht'[Entry(g)] = ht[Entry(g)] /\ ttl'[Entry(g)] = ttl[Entry(g)]
        BY <1>0, <4>1, <4>2
      <4> QED
        BY <1>a, <2>1, <3>1, <4>3 DEF Fading, Missing, Entry, make_client
    <3> QED
      BY <2>1, <3>1 DEF Fading
  <2> QED
    BY <1>8, <2>2, <2>3 DEF ClockExpire, KExpire
<1>9. CASE TrackerStarts
  <2>1. \A g \in Host : Missing(g)'
    <3>1. \A d \in Data : ht'[d] = NULL
      BY <1>9 DEF TrackerStarts
    <3>2. \A g \in Host : ht'[Entry(g)] = NULL
      BY <1>0, <3>1
    <3> QED
      BY <3>2 DEF Missing
  <2> QED
    BY <1>9, <2>1 DEF TrackerStarts, Fading
<1>10. CASE Second
  <2>1. /\ inForce' = inForce /\ ht' = ht /\ ttl' = ttl /\ Beat = 1 /\ Beat' = 0 /\ mode' = mode
        /\ net' = {<<m[1], m[2] + 1>> : m \in net}
    BY <1>10 DEF Second, tvars, kvars, hvars, hist, vars, Beat
  <2>2. \A g \in Host : /\ silent'[g] <= silent[g] + 1 /\ silent'[g] \in Nat
                        /\ mode[g] = "up" => silent'[g] = 0
    BY <1>0, <1>10 DEF Second, Up
  <2>3. \A m \in net' : silent'[m[1]] <= m[2]
    <3>1. ASSUME NEW m \in net PROVE silent'[m[1]] <= m[2] + 1
      BY <1>0, <2>2 DEF Fading
    <3> QED
      BY <2>1, <3>1
  <2>4. ASSUME inForce', NEW g \in Host, ~Missing(g)'
        PROVE  silent'[g] + ttl'[Entry(g)] + Beat' <= SilentMax
    <3>1. silent[g] + ttl[Entry(g)] + Beat <= SilentMax
      BY <2>1, <2>4 DEF Fading, Missing, Entry, make_client
    <3> QED
      BY <1>0, <2>1, <2>2, <3>1
  <2> QED
    BY <2>1, <2>2, <2>3, <2>4 DEF Fading
<1>11. CASE UNCHANGED ovars
  BY <1>1, <1>11 DEF ovars
<1> QED
  BY <1>2, <1>3, <1>4, <1>5, <1>6, <1>7, <1>8, <1>9, <1>10, <1>11 DEF ONext

(***************************************************************************)
(* For any number of routers, delays and losses: a router whose            *)
(* keep-alive thread ended more than the expiry interval and a datagram's  *)
(* delay ago is not in the tracker's table.                                *)
(***************************************************************************)
THEOREM NoGhostsHold == OSpec => []NoGhosts
<1>1. TableOK /\ Fading /\ OTypeOK => NoGhosts
  <2> SUFFICES ASSUME TableOK, Fading, OTypeOK, inForce, Idle,
                      NEW h \in Host, silent[h] = SilentMax, ~Missing(h)
               PROVE  FALSE
    BY DEF NoGhosts
  <2>1. Entry(h) \in Data /\ ttl[Entry(h)] \in Nat /\ Beat \in {0, 1}
    BY Entries, Bounds DEF TableOK, HTypeOK, Beat
  <2>2. ttl[Entry(h)] > 0
    BY <2>1 DEF TableOK, Represents, NoneDue, Indexed, Holds, Idle, Missing
  <2>3. silent[h] + ttl[Entry(h)] + Beat <= SilentMax
    BY DEF Fading
  <2> QED
    BY <2>1, <2>2, <2>3, Bounds
<1> QED
  BY <1>1, OTypeInit, OTypeStep, TableInit, TableStep, FadingInit, FadingStep, PTL DEF OSpec

-----------------------------------------------------------------------------
(***************************************************************************)
(* A router that runs stays listed.  While everything it sends arrives, it *)
(* has ticks left until it sends again, or a datagram is under way that    *)
(* has been so for as long as the router has been out of the table.        *)
(***************************************************************************)
InTime(h) ==
    /\ mode[h] = "up"
    /\ ~Missing(h) => /\ missing[h] = 0
                      /\ \/ ttl[Entry(h)] + Beat > timer[h]
                         \/ \E m \in net : m[1] = h
    /\ Missing(h) => \/ timer[h] = 0 /\ missing[h] = 0
                     \/ \E m \in net : m[1] = h /\ missing[h] <= m[2]

Lasting == inForce => \A h \in Host : sure[h] => InTime(h)

LEMMA LastingInit == OInit => Lasting
BY DEF OInit, Lasting

LEMMA LastingStep == OTypeOK /\ TableOK /\ TableOK' /\ Lasting /\ [ONext]_ovars => Lasting'
<1> SUFFICES ASSUME OTypeOK, TableOK, TableOK', Lasting, [ONext]_ovars,
                    inForce', NEW h \in Host, sure'[h]
             PROVE  InTime(h)'
  BY DEF Lasting
<1> USE Bounds
<1> DEFINE e == Entry(h)
<1>0. /\ \A m \in net : m[1] \in Host /\ m[2] \in 0 .. MaxDelay
      /\ timer[h] \in 0 .. DIR_KEEPALIVE_INTERVAL /\ missing[h] \in 0 .. MissingMax
      /\ Beat \in {0, 1} /\ Beat' \in {0, 1}
      /\ e \in Data /\ ttl[e] \in 0 .. interval
  BY Entries DEF OTypeOK, Beat, TableOK, HTypeOK
<1>a. inForce /\ ~fault' /\ ~fault
  BY ForceFades DEF TableOK, Represents
<1>b. sure[h] => InTime(h)
  BY <1>a DEF Lasting
<1>c. (Missing(h) <=> ht[e] = NULL) /\ (Missing(h)' <=> ht'[e] = NULL)
  BY DEF Missing, Entry, make_client
<1> HIDE DEF e
\* What keeps the table, the router and its datagrams.
<1>1. ASSUME UNCHANGED <<dl, ht, ttl, ticked>>, sure[h], mode'[h] = mode[h], timer'[h] = timer[h],
             missing'[h] = missing[h], \A m \in net : m[1] = h => m \in net'
      PROVE  InTime(h)'
  <2>1. Beat' = Beat
    BY <1>1 DEF Beat
  <2> QED
    BY <1>1, <1>b, <1>c, <2>1 DEF InTime, e, Entry, make_client
<1>2. ASSUME NEW g \in Host, router_keepalive_thread(g) PROVE InTime(h)'
  <2>0. /\ UNCHANGED <<dl, ht, ttl, ticked, mode, missing, sure>>
        /\ net' = net \cup {<<g, 0>>} /\ timer' = [timer EXCEPT ![g] = DIR_KEEPALIVE_INTERVAL]
        /\ timer[g] = 0
    BY <1>2 DEF router_keepalive_thread, tvars, kvars, hvars, hist, vars
  <2>1. CASE g # h
    BY <1>1, <2>0, <2>1 DEF OTypeOK
  <2>2. CASE g = h
    <3>1. <<h, 0>> \in net' /\ <<h, 0>>[1] = h /\ <<h, 0>>[2] = 0
      BY <2>0, <2>2
    <3>2. \A m \in net : m \in net'
      BY <2>0
    <3>3. mode'[h] = "up" /\ missing'[h] = missing[h] /\ ht' = ht
      BY <1>b, <2>0 DEF InTime
    <3>4. ~Missing(h)' => missing'[h] = 0
      BY <1>b, <1>c, <2>0, <3>3 DEF InTime
    <3>5. Missing(h)' => \E m \in net' : m[1] = h /\ missing'[h] <= m[2]
      BY <1>b, <1>c, <2>0, <3>1, <3>2, <3>3 DEF InTime
    <3> QED
      BY <3>1, <3>3, <3>4, <3>5 DEF InTime
  <2> QED
    BY <2>1, <2>2
<1>3. ASSUME NEW g \in Host, RouterStops(g) PROVE InTime(h)'
  <2>1. g # h
    BY <1>3 DEF RouterStops, OTypeOK
  <2> QED
    BY <1>1, <1>3, <2>1 DEF RouterStops, OTypeOK, tvars, kvars, hvars, hist, vars
<1>4. ASSUME NEW g \in Host, RouterStarts(g) PROVE InTime(h)'
  <2>1. sure[h] /\ mode[g] = "down"
    BY <1>4 DEF RouterStarts
  <2>2. g # h
    BY <1>b, <2>1 DEF InTime
  <2> QED
    BY <1>1, <1>4, <2>1, <2>2 DEF RouterStarts, OTypeOK, tvars, kvars, hvars, hist, vars
<1>5. ASSUME NEW m \in net, Lose(m) PROVE InTime(h)'
  <2>1. m[1] # h
    BY <1>5 DEF Lose, OTypeOK
  <2> QED
    BY <1>0, <1>1, <1>5, <2>1 DEF Lose, OTypeOK, tvars, kvars, hvars, hist, vars
<1>6. ASSUME NEW m \in net, Deliver(m) PROVE InTime(h)'
  <2> DEFINE g == m[1]
  <2>1. /\ HUpdate(Entry(g)) /\ UNCHANGED <<mode, timer, ticked>> /\ net' \in {net, net \ {m}}
        /\ sure' = [sure EXCEPT ![g] = mode[g] = "up"] /\ missing' = [missing EXCEPT ![g] = 0]
    BY <1>6 DEF Deliver, process_connect, add_client, KUpdate, Entry
  <2>2. /\ g \in Host /\ Entry(g) \in Data
    BY <1>0, Entries
  <2>3. /\ ht'[Entry(g)] # NULL /\ ttl'[Entry(g)] = interval
        /\ \A d \in Data : d # Entry(g) => ht'[d] = ht[d] /\ ttl'[d] = ttl[d]
    BY <1>a, <2>1, <2>2, UpdateEffect DEF TableOK
  <2>4. CASE g = h
    <3>1. mode'[h] = "up" /\ missing'[h] = 0
      BY <2>1, <2>4 DEF OTypeOK
    <3>2. ht'[e] # NULL /\ ttl'[e] = interval
      BY <2>3, <2>4 DEF e
    <3>3. ttl'[e] + Beat' > timer'[h]
      BY <1>0, <2>1, <3>2
    <3> QED
      BY <1>c, <3>1, <3>2, <3>3 DEF InTime, e, Entry, make_client
  <2>5. CASE g # h
    <3>1. Entry(g) # e
      BY <2>2, <2>5, Entries DEF e
    <3>2. ht'[e] = ht[e] /\ ttl'[e] = ttl[e] /\ Beat' = Beat
      BY <1>0, <2>1, <2>3, <3>1 DEF Beat
    <3>3. sure[h] /\ mode'[h] = mode[h] /\ timer'[h] = timer[h] /\ missing'[h] = missing[h]
      BY <2>1, <2>5 DEF OTypeOK
    <3>4. \A x \in net : x[1] = h => x \in net'
      BY <2>1, <2>5
    <3>5. ttl'[Entry(h)] = ttl[Entry(h)]
      BY <3>2 DEF e
    <3> QED
      BY <1>b, <1>c, <3>2, <3>3, <3>4, <3>5 DEF InTime, Entry, make_client
  <2> QED
    BY <2>4, <2>5
<1>7. CASE ClockTick
  <2>1. /\ HTickEmpty \/ HTickStart
        /\ UNCHANGED <<mode, timer, net, missing, sure>> /\ Beat = 0 /\ Beat' = 1
    BY <1>7 DEF ClockTick, Beat
  <2>2. ht' = ht /\ (ht[e] # NULL => ttl'[e] = ttl[e] - 1)
    BY <1>0, <1>a, <2>1, TickEffect DEF TableOK
  <2>3. ht[e] # NULL => ttl'[e] + Beat' = ttl[e] + Beat
    BY <1>0, <2>1, <2>2
  <2> QED
    BY <1>b, <1>c, <2>1, <2>2, <2>3 DEF InTime, e, Entry, make_client
<1>8. CASE ClockExpire
  <2>1. UNCHANGED <<mode, timer, net, ticked, missing, sure>> /\ Beat' = Beat
    BY <1>8 DEF ClockExpire, Beat
  <2>2. CASE HTickEnd
    BY <1>1, <2>1, <2>2 DEF HTickEnd, TickEnd, hist
  <2>3. CASE HExpire
    <3>1. PICK d \in Data :
             /\ ht[d] # NULL /\ ttl[d] = 0
             /\ \A x \in Data : x # d => ht'[x] = ht[x] /\ ttl'[x] = ttl[x]
             /\ ht'[d] = NULL
      BY <1>a, <2>3, ExpireEffect DEF TableOK
    <3>2. CASE e # d
      <4>1. ht'[e] = ht[e] /\ ttl'[e] = ttl[e]
        BY <1>0, <3>1, <3>2
      <4> QED
        BY <1>b, <1>c, <2>1, <4>1 DEF InTime, e, Entry, make_client
    <3>3. CASE e = d
      <4>1. InTime(h) /\ ~Missing(h) /\ Missing(h)' /\ ttl[Entry(h)] = 0
        BY <1>b, <1>c, <2>1, <3>1, <3>3 DEF e
      <4>2. mode'[h] = "up" /\ missing'[h] = 0
        BY <2>1, <4>1 DEF InTime
      <4>3. CASE ttl[Entry(h)] + Beat > timer[h]
        <5>1. timer'[h] = 0
          BY <1>0, <2>1, <4>1, <4>3
        <5> QED
          BY <4>1, <4>2, <5>1 DEF InTime
      <4>4. CASE \E m \in net : m[1] = h
        <5>1. \E m \in net' : m[1] = h /\ missing'[h] <= m[2]
          BY <1>0, <2>1, <4>2, <4>4
        <5> QED
          BY <4>1, <4>2, <5>1 DEF InTime
      <4> QED
        BY <4>1, <4>3, <4>4 DEF InTime
    <3> QED
      BY <3>2, <3>3
  <2> QED
    BY <1>8, <2>2, <2>3 DEF ClockExpire, KExpire
<1>9. CASE TrackerStarts
  BY <1>9 DEF TrackerStarts
<1>10. CASE Second
  <2>1. /\ inForce' = inForce /\ ht' = ht /\ ttl' = ttl /\ Beat = 1 /\ Beat' = 0
        /\ mode' = mode /\ sure' = sure /\ net' = {<<m[1], m[2] + 1>> : m \in net}
    BY <1>10 DEF Second, tvars, kvars, hvars, hist, vars, Beat
  <2>2. InTime(h) /\ mode'[h] = "up"
    BY <1>b, <2>1 DEF InTime
  <2>3. timer[h] > 0 /\ timer'[h] = timer[h] - 1
    BY <1>0, <1>10, <2>1, <2>2 DEF Second
  <2>4. ASSUME NEW m \in net, m[1] = h PROVE \E x \in net' : x[1] = h /\ x[2] = m[2] + 1
    <3>1. <<m[1], m[2] + 1>> \in net'
      BY <2>1
    <3> QED
      BY <2>4, <3>1
  <2>5. CASE Missing(h)
    <3>1. PICK m \in net : m[1] = h /\ missing[h] <= m[2]
      BY <1>0, <2>2, <2>3, <2>5 DEF InTime
    <3>2. missing'[h] <= missing[h] + 1 /\ missing'[h] \in Nat
      BY <1>0, <1>10, <2>5 DEF Second, Up
    <3>3. \E x \in net' : x[1] = h /\ missing'[h] <= x[2]
      BY <1>0, <2>4, <3>1, <3>2
    <3> QED
      BY <1>c, <2>1, <2>2, <2>5, <3>3 DEF InTime
  <2>6. CASE ~Missing(h)
    <3>1. missing'[h] = 0
      BY <1>10, <2>6 DEF Second
    <3>2. CASE ttl[Entry(h)] + Beat > timer[h]
      <4>1. ttl'[e] + Beat' > timer'[h]
        BY <1>0, <2>1, <2>3, <3>2 DEF e
      <4> QED
        BY <1>c, <2>1, <2>2, <2>6, <3>1, <4>1 DEF InTime, e, Entry, make_client
    <3>3. CASE \E m \in net : m[1] = h
      <4>1. \E m \in net' : m[1] = h
        BY <2>4, <3>3
      <4> QED
        BY <1>c, <2>1, <2>2, <2>6, <3>1, <4>1 DEF InTime
    <3> QED
      BY <2>2, <2>6, <3>2, <3>3 DEF InTime
  <2> QED
    BY <2>5, <2>6
<1>11. CASE UNCHANGED ovars
  BY <1>1, <1>11 DEF ovars, tvars, kvars, hvars, hist, vars
<1> QED
  BY <1>2, <1>3, <1>4, <1>5, <1>6, <1>7, <1>8, <1>9, <1>10, <1>11 DEF ONext

(***************************************************************************)
(* For every keep-alive interval below the expiry interval and any number  *)
(* of routers: one that runs, and whose datagrams arrive, is out of the    *)
(* tracker's table for no longer than a datagram's delay.                  *)
(***************************************************************************)
THEOREM StaysListedHolds == OSpec => []StaysListed
<1>1. OTypeOK /\ Lasting => StaysListed
  <2> SUFFICES ASSUME OTypeOK, Lasting, inForce, NEW h \in Host, sure[h]
               PROVE  missing[h] <= MaxDelay
    BY DEF StaysListed
  <2>1. InTime(h)
    BY DEF Lasting
  <2>2. \A m \in net : m[2] \in 0 .. MaxDelay
    BY DEF OTypeOK
  <2>3. missing[h] \in 0 .. MissingMax
    BY DEF OTypeOK
  <2>4. missing[h] = 0 \/ \E m \in net : missing[h] <= m[2]
    BY <2>1 DEF InTime
  <2> QED
    BY <2>2, <2>3, <2>4, Bounds
<1> QED
  BY <1>1, OTypeInit, OTypeStep, TableInit, TableStep, LastingInit, LastingStep, PTL DEF OSpec
=============================================================================
