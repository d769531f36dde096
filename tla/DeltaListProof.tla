--------------------------- MODULE DeltaListProof ---------------------------
(***************************************************************************)
(* Proofs about the delta list.                                            *)
(***************************************************************************)
EXTENDS DeltaListH, TLAPS

-----------------------------------------------------------------------------
(***************************************************************************)
(* The list primitives keep every field in its type.                       *)
(***************************************************************************)
\* Unsigned arithmetic stays below UINT.
LEMMA UnsignedType ==
    ASSUME NEW a \in 0 .. UINT - 1, NEW b \in 0 .. UINT - 1
    PROVE  Add(a, b) \in 0 .. UINT - 1 /\ Sub(a, b) \in 0 .. UINT - 1
BY ConstantsAssumption DEF Add, Sub

\* dl_insert_node maps a list to a list.
LEMMA InsertType ==
    ASSUME NEW t \in ListType, NEW n \in Addr
    PROVE  dl_insert_node(t, n) \in ListType
<1>1. interval \in 0 .. UINT - 1
  BY ConstantsAssumption
<1>2. Sub(interval, t.delta) \in 0 .. UINT - 1
  BY <1>1, UnsignedType DEF ListType
<1> QED
  BY <1>1, <1>2 DEF dl_insert_node, ListType, AddrOrNull

\* dl_remove_node maps a list to a list.
LEMMA RemoveType ==
    ASSUME NEW t \in ListType, NEW n \in Addr
    PROVE  dl_remove_node(t, n) \in ListType
<1>1. Sub(t.delta, t.nd[n]) \in 0 .. UINT - 1
  BY UnsignedType DEF ListType
<1>2. \A a \in Addr : Add(t.nd[a], t.nd[n]) \in 0 .. UINT - 1
  BY UnsignedType DEF ListType
<1> QED
  BY <1>1, <1>2 DEF dl_remove_node, ListType, AddrOrNull

\* Changing the element count, or scrubbing a node, maps a list to a list.
LEMMA SizeType ==
    ASSUME NEW t \in ListType, NEW n \in Addr
    PROVE  /\ [t EXCEPT !.size = Add(@, 1)] \in ListType
           /\ [t EXCEPT !.size = Sub(@, 1)] \in ListType
           /\ Scrub(t, n) \in ListType
<1>1. 1 \in 0 .. UINT - 1
  BY ConstantsAssumption
<1>2. Add(t.size, 1) \in 0 .. UINT - 1 /\ Sub(t.size, 1) \in 0 .. UINT - 1
  BY <1>1, UnsignedType DEF ListType
<1>3. 0 \in 0 .. UINT - 1
  BY ConstantsAssumption
<1> QED
  BY <1>2, <1>3 DEF ListType, Scrub, AddrOrNull

\* A list with nothing on it is a list.
LEMMA EmptyType == EmptyList \in ListType
<1>1. 0 \in 0 .. UINT - 1
  BY ConstantsAssumption
<1> QED
  BY <1>1 DEF EmptyList, ListType, AddrOrNull

-----------------------------------------------------------------------------
\* Appending an element, or allocating a node for it, keeps the types.
LEMMA AddNodeType ==
    ASSUME TypeOK, NEW d \in Data, AddNode(d)
    PROVE  TypeOK'
<1>1. CASE Crash
  BY <1>1 DEF Crash, TypeOK
<1>2. CASE ~Crash
  <2>1. PICK n \in Addr :
           /\ dl' = [dl_insert_node(dl, n) EXCEPT !.size = Add(@, 1)]
           /\ ht' = [ht EXCEPT ![d] = n]
           /\ data' = [data EXCEPT ![n] = d]
           /\ UNCHANGED <<op, it, fault>>
    BY <1>2 DEF AddNode
  <2>2. dl' \in ListType
    BY <2>1, InsertType, SizeType DEF TypeOK
  <2> QED
    BY <2>1, <2>2 DEF TypeOK, AddrOrNull
<1> QED
  BY <1>1, <1>2

\* So does relocating a node.
LEMMA RelocateType ==
    ASSUME TypeOK, NEW n \in Addr, Relocate(n)
    PROVE  TypeOK'
<1>1. dl_insert_node(dl_remove_node(dl, n), n) \in ListType
  BY InsertType, RemoveType DEF TypeOK
<1> QED
  BY <1>1 DEF Relocate, TypeOK, Crash

\* So does deleting an element.
LEMMA DeleteType ==
    ASSUME TypeOK, NEW d \in Data, delta_delete(d)
    PROVE  TypeOK'
<1>1. CASE Crash
  BY <1>1 DEF Crash, TypeOK
<1>2. CASE ~Crash
  <2>1. ht[d] \in Addr
    BY DEF TypeOK, delta_delete, AddrOrNull
  <2>2. dl' = [Scrub(dl_remove_node(dl, ht[d]), ht[d]) EXCEPT !.size = Sub(@, 1)]
    BY <1>2 DEF delta_delete
  <2>3. Scrub(dl_remove_node(dl, ht[d]), ht[d]) \in ListType
    BY <2>1, RemoveType, SizeType DEF TypeOK
  <2>4. dl' \in ListType
    BY <2>1, <2>2, <2>3, SizeType
  <2> QED
    BY <1>2, <2>1, <2>4 DEF delta_delete, TypeOK, AddrOrNull
<1> QED
  BY <1>1, <1>2

-----------------------------------------------------------------------------
(***************************************************************************)
(* Taking an element out of the refresh order.                             *)
(***************************************************************************)
\* Without drops the one position that holds the element.
LEMMA WithoutAt ==
    ASSUME NEW q \in Seq(Data), Injective(q), NEW k \in 1 .. Len(q)
    PROVE  /\ Without(q, q[k]) \in Seq(Data)
           /\ Len(Without(q, q[k])) = Len(q) - 1
           /\ \A i \in 1 .. Len(q) - 1 :
                 Without(q, q[k])[i] = IF i < k THEN q[i] ELSE q[i + 1]
<1> DEFINE j == CHOOSE i \in 1 .. Len(q) : q[i] = q[k]
           r == [i \in 1 .. Len(q) - 1 |-> IF i < k THEN q[i] ELSE q[i + 1]]
<1>1. j \in 1 .. Len(q) /\ q[j] = q[k]
  OBVIOUS
<1>2. j = k
  BY <1>1 DEF Injective
<1>3. Without(q, q[k]) = r
  BY <1>2 DEF Without, Contract!Without
<1>4. Len(q) - 1 \in Nat /\ \A i \in 1 .. Len(q) - 1 : r[i] \in Data
  OBVIOUS
<1>5. r \in Seq(Data) /\ Len(r) = Len(q) - 1
  BY <1>4
<1> QED
  BY <1>3, <1>5

\* ... and nothing at all when the element is absent.
LEMMA WithoutAbsent ==
    ASSUME NEW q \in Seq(Data), NEW d, \A i \in 1 .. Len(q) : q[i] # d
    PROVE  Without(q, d) = q
BY DEF Without, Contract!Without

\* In every case Without returns a sequence of elements.
LEMMA WithoutType ==
    ASSUME NEW q \in Seq(Data), NEW d
    PROVE  Without(q, d) \in Seq(Data)
<1>1. CASE \E i \in 1 .. Len(q) : q[i] = d
  <2> DEFINE k == CHOOSE i \in 1 .. Len(q) : q[i] = d
             r == [i \in 1 .. Len(q) - 1 |-> IF i < k THEN q[i] ELSE q[i + 1]]
  <2>1. k \in 1 .. Len(q)
    BY <1>1
  <2>2. Without(q, d) = r
    BY <1>1 DEF Without, Contract!Without
  <2> HIDE DEF k
  <2>3. Len(q) - 1 \in Nat /\ \A i \in 1 .. Len(q) - 1 : r[i] \in Data
    BY <2>1
  <2>4. r \in Seq(Data)
    BY <2>3
  <2> QED
    BY <2>2, <2>4
<1>2. CASE ~\E i \in 1 .. Len(q) : q[i] = d
  BY <1>2, WithoutAbsent
<1> QED
  BY <1>1, <1>2

-----------------------------------------------------------------------------
LEMMA HTypeInit == HInit => HTypeOK
<1> SUFFICES ASSUME HInit PROVE HTypeOK
  OBVIOUS
<1>1. TypeOK
  BY EmptyType DEF HInit, Init, TypeOK, AddrOrNull
<1>2. queue \in Seq(Data) /\ visited \in Seq(Data)
  BY DEF HInit
<1>3. ttl \in [Data -> 0 .. interval]
  BY ConstantsAssumption DEF HInit
<1> QED
  BY <1>1, <1>2, <1>3 DEF HInit, HTypeOK

LEMMA HTypeStep == HTypeOK /\ [HNext]_hvars => HTypeOK'
<1> SUFFICES ASSUME HTypeOK, [HNext]_hvars PROVE HTypeOK'
  OBVIOUS
<1> USE DEF HTypeOK
<1>1. ASSUME NEW d \in Data, HUpdate(d) PROVE HTypeOK'
  <2>1. TypeOK'
    <3>1. CASE ht[d] # NULL
      BY <1>1, <3>1, RelocateType DEF HUpdate, delta_update, TypeOK, AddrOrNull
    <3>2. CASE ht[d] = NULL
      BY <1>1, <3>2, AddNodeType DEF HUpdate, delta_update
    <3> QED
      BY <3>1, <3>2
  <2> QED
    BY <1>1, <2>1, WithoutType, ConstantsAssumption DEF HUpdate, HAdd
<1>2. ASSUME NEW d \in Data, HInsert(d) PROVE HTypeOK'
  <2>1. TypeOK'
    BY <1>2, AddNodeType DEF HInsert, delta_insert
  <2> QED
    BY <1>2, <2>1, WithoutType, ConstantsAssumption DEF HInsert, HAdd
<1>3. ASSUME NEW d \in Data, HRemove(d) PROVE HTypeOK'
  <2>1. TypeOK'
    BY <1>3, DeleteType DEF HRemove, delta_remove
  <2> QED
    BY <1>3, <2>1, WithoutType, ConstantsAssumption DEF HRemove, HDrop
<1>4. CASE HTickEmpty
  BY <1>4, ConstantsAssumption DEF HTickEmpty, TickEmpty, HTick, TypeOK, vars
<1>5. CASE HTickStart
  <2>1. dl' \in ListType
    <3>1. 1 \in 0 .. UINT - 1
      BY ConstantsAssumption
    <3>2. Sub(dl.delta, 1) \in 0 .. UINT - 1
      BY <3>1, UnsignedType DEF TypeOK, ListType
    <3>3. \A a \in Addr : Sub(dl.nd[a], 1) \in 0 .. UINT - 1
      BY <3>1, UnsignedType DEF TypeOK, ListType
    <3>4. CASE dl.head \in Live
      <4>1. dl' = [dl EXCEPT !.delta = Sub(dl.delta, 1),
                             !.nd = [dl.nd EXCEPT ![dl.head] = Sub(dl.nd[dl.head], 1)]]
        BY <1>5, <3>4 DEF HTickStart, TickStart, TypeOK, ListType
      <4> QED
        BY <4>1, <3>2, <3>3, <3>4 DEF TypeOK, ListType, Live
    <3>5. CASE dl.head \notin Live
      BY <1>5, <3>5 DEF HTickStart, TickStart, Crash, TypeOK
    <3> QED
      BY <3>4, <3>5
  <2>2. TypeOK'
    BY <1>5, <2>1 DEF HTickStart, TickStart, Crash, TypeOK
  <2> QED
    BY <1>5, <2>2, ConstantsAssumption DEF HTickStart, HTick
<1>6. CASE HExpire
  <2>1. CASE dl.head \in Live
    <3>1. data[dl.head] \in Data
      BY <2>1 DEF Live, TypeOK
    <3>2. delta_delete(data[dl.head]) /\ HDrop(data[dl.head])
      BY <1>6, <2>1 DEF HExpire, Expire
    <3>3. TypeOK'
      BY <3>1, <3>2, DeleteType
    <3> QED
      BY <3>1, <3>2, <3>3, WithoutType, ConstantsAssumption DEF HDrop
  <2>2. CASE dl.head \notin Live
    BY <1>6, <2>2 DEF HExpire, Expire, Crash, hist, TypeOK
  <2> QED
    BY <2>1, <2>2
<1>7. CASE HTickEnd
  BY <1>7 DEF HTickEnd, TickEnd, hist, TypeOK
<1>8. CASE HForeachStart
  BY <1>8 DEF HForeachStart, ForeachStart, HVisit, TypeOK, ListType
<1>9. CASE HForeachCall
  <2>1. TypeOK'
    BY <1>9 DEF HForeachCall, ForeachCall, Crash, TypeOK, ListType, Live
  <2>2. visited' \in Seq(Data)
    BY <1>9 DEF HForeachCall, HVisit, TypeOK, Live
  <2> QED
    BY <1>9, <2>1, <2>2 DEF HForeachCall, HVisit
<1>10. CASE HForeachBreak
  BY <1>10 DEF HForeachBreak, ForeachBreak, HVisit, TypeOK, AddrOrNull
<1>11. CASE HForeachEnd
  BY <1>11 DEF HForeachEnd, ForeachEnd, HVisit, TypeOK
<1>12. CASE HClearStart
  BY <1>12 DEF HClearStart, ClearStart, hist, TypeOK, ListType
<1>13. CASE HClearFree
  <2>1. it' \in AddrOrNull
    BY <1>13 DEF HClearFree, ClearFree, Crash, TypeOK, ListType, Live
  <2>2. data' \in [Addr -> Data \cup {NULL}]
    BY <1>13 DEF HClearFree, ClearFree, Crash, TypeOK
  <2> QED
    BY <1>13, <2>1, <2>2 DEF HClearFree, ClearFree, Crash, hist, TypeOK
<1>14. CASE HClearEnd
  BY <1>14, EmptyType, ConstantsAssumption
  DEF HClearEnd, ClearEnd, TypeOK, AddrOrNull
<1>15. CASE UNCHANGED hvars
  BY <1>15 DEF hvars, hist, vars, TypeOK
<1> QED
  BY <1>1, <1>2, <1>3, <1>4, <1>5, <1>6, <1>7, <1>8, <1>9, <1>10, <1>11,
     <1>12, <1>13, <1>14, <1>15 DEF HNext, DaemonNext

(***************************************************************************)
(* Type correctness: every pointer field of the table and its nodes stays  *)
(* NULL or a node address, every unsigned counter below UINT, and the      *)
(* history variables stay in their types, whatever the calls.              *)
(***************************************************************************)
THEOREM TypeCorrect == HSpec => []HTypeOK
BY HTypeInit, HTypeStep, PTL DEF HSpec

-----------------------------------------------------------------------------
(***************************************************************************)
(* The list primitives and the chain of nodes they maintain.               *)
(***************************************************************************)
\* n distinct nodes, and ticks that fit an unsigned int.
Row(n, N, L) ==
    /\ n \in Nat
    /\ N \in [1 .. n -> Addr]
    /\ \A i, j \in 1 .. n : i # j => N[i] # N[j]
    /\ L \in [1 .. n -> 0 .. UINT - 1]

\* The sequence f of length n without its position k.
Cut(f, n, k) == [i \in 1 .. n - 1 |-> IF i < k THEN f[i] ELSE f[i + 1]]

\* dl_remove_node of the only node leaves an empty chain.
LEMMA RemoveOnly ==
    ASSUME NEW t \in ListType, NEW N, NEW L, Row(1, N, L), Chain(t, 1, N, L),
           NEW M, NEW K
    PROVE  /\ Chain(dl_remove_node(t, N[1]), 0, M, K)
           /\ RemoveDerefs(t, N[1]) = {}
<1>1. t.next[N[1]] = NULL /\ t.prev[N[1]] = NULL /\ t.nd[N[1]] = L[1] /\ t.delta = L[1]
  BY DEF Chain, Row
<1>2. Sub(t.delta, t.nd[N[1]]) = 0
  BY <1>1 DEF Sub, Row
<1>3. dl_remove_node(t, N[1]).head = NULL /\ dl_remove_node(t, N[1]).delta = 0
  BY <1>1, <1>2 DEF dl_remove_node, ListType
<1>4. RemoveDerefs(t, N[1]) = {}
  BY <1>1 DEF RemoveDerefs
<1> QED
  BY <1>3, <1>4 DEF Chain

\* dl_remove_node of any node but the last cuts it out of the chain.
LEMMA RemoveInner ==
    ASSUME NEW t \in ListType, NEW n, NEW N, NEW L, Row(n, N, L), Chain(t, n, N, L),
           NEW k \in 1 .. n - 1
    PROVE  /\ Chain(dl_remove_node(t, N[k]), n - 1, Cut(N, n, k), Cut(L, n, k))
           /\ \A a \in RemoveDerefs(t, N[k]) : \E i \in 1 .. n : a = N[i]
<1> DEFINE u == dl_remove_node(t, N[k])
           M == Cut(N, n, k)
           K == Cut(L, n, k)
<1>1. /\ n \in Nat /\ n > 1 /\ k < n /\ k + 1 \in 1 .. n /\ k \in 1 .. n
      /\ \A i \in 1 .. n : N[i] \in Addr /\ L[i] \in 0 .. UINT - 1 /\ N[i] # NULL
      /\ \A i, j \in 1 .. n : i # j => N[i] # N[j]
  BY ConstantsAssumption DEF Row
<1>2. /\ t.head = N[1] /\ t.tail = N[n] /\ t.delta = L[n]
      /\ \A i \in 1 .. n :
            /\ t.next[N[i]] = IF i = n THEN NULL ELSE N[i + 1]
            /\ t.prev[N[i]] = IF i = 1 THEN NULL ELSE N[i - 1]
            /\ t.nd[N[i]] = IF i = 1 THEN L[1] ELSE L[i] - L[i - 1]
      /\ \A i, j \in 1 .. n : i < j => L[i] <= L[j]
  BY <1>1 DEF Chain
<1>3. t.next[N[k]] = N[k + 1] /\ t.prev[N[k]] = IF k = 1 THEN NULL ELSE N[k - 1]
  BY <1>1, <1>2
<1>4. N[k + 1] # NULL /\ (k # 1 => N[k - 1] # NULL)
  BY <1>1
<1>5. /\ u.head = IF k = 1 THEN N[k + 1] ELSE t.head
      /\ u.tail = t.tail
      /\ u.delta = t.delta
      /\ u.nd = [t.nd EXCEPT ![N[k + 1]] = Add(t.nd[N[k + 1]], t.nd[N[k]])]
      /\ u.prev = [t.prev EXCEPT ![N[k + 1]] = t.prev[N[k]]]
      /\ u.next = IF k = 1 THEN t.next ELSE [t.next EXCEPT ![N[k - 1]] = N[k + 1]]
  BY <1>3, <1>4 DEF dl_remove_node, ListType
<1>6. /\ t.nd \in [Addr -> 0 .. UINT - 1]
      /\ t.next \in [Addr -> AddrOrNull] /\ t.prev \in [Addr -> AddrOrNull]
  BY DEF ListType
<1>7. \A i \in 1 .. n - 1 : /\ M[i] = IF i < k THEN N[i] ELSE N[i + 1]
                            /\ K[i] = IF i < k THEN L[i] ELSE L[i + 1]
  BY DEF Cut
<1> HIDE DEF u, M, K
<1>8. u.head = M[1] /\ u.tail = M[n - 1] /\ u.delta = K[n - 1]
  BY <1>1, <1>2, <1>5, <1>7
<1>9. \A j \in 1 .. n : u.next[N[j]] = IF j # k - 1 THEN t.next[N[j]] ELSE N[k + 1]
  <2>1. CASE k = 1
    BY <1>1, <1>5, <2>1
  <2>2. CASE k # 1
    <3>1. k - 1 \in 1 .. n
      BY <1>1, <2>2
    <3> QED
      BY <1>1, <1>5, <1>6, <2>2, <3>1
  <2> QED
    BY <2>1, <2>2
<1>10. \A j \in 1 .. n : u.prev[N[j]] = IF j # k + 1 THEN t.prev[N[j]] ELSE t.prev[N[k]]
  BY <1>1, <1>5, <1>6
<1>11. \A j \in 1 .. n : j # k + 1 => u.nd[N[j]] = t.nd[N[j]]
  BY <1>1, <1>5, <1>6
<1>12. u.nd[N[k + 1]] = IF k = 1 THEN L[k + 1] ELSE L[k + 1] - L[k - 1]
  <2>1. u.nd[N[k + 1]] = Add(t.nd[N[k + 1]], t.nd[N[k]])
    BY <1>1, <1>5, <1>6
  <2>2. t.nd[N[k + 1]] = L[k + 1] - L[k] /\ L[k] <= L[k + 1]
    BY <1>1, <1>2
  <2>3. L[k] \in 0 .. UINT - 1 /\ L[k + 1] \in 0 .. UINT - 1
    BY <1>1
  <2>4. CASE k = 1
    <3>1. t.nd[N[k]] = L[k]
      BY <1>1, <1>2, <2>4
    <3> QED
      BY <2>1, <2>2, <2>3, <2>4, <3>1, ConstantsAssumption DEF Add
  <2>5. CASE k # 1
    <3>1. k - 1 \in 1 .. n
      BY <1>1, <2>5
    <3>2. t.nd[N[k]] = L[k] - L[k - 1] /\ L[k - 1] <= L[k] /\ L[k - 1] \in 0 .. UINT - 1
      BY <1>1, <1>2, <2>5, <3>1
    <3> QED
      BY <2>1, <2>2, <2>3, <2>5, <3>2, ConstantsAssumption DEF Add
  <2> QED
    BY <2>4, <2>5
<1>13. ASSUME NEW i \in 1 .. n - 1
       PROVE  /\ u.next[M[i]] = IF i = n - 1 THEN NULL ELSE M[i + 1]
              /\ u.prev[M[i]] = IF i = 1 THEN NULL ELSE M[i - 1]
              /\ u.nd[M[i]] = IF i = 1 THEN K[1] ELSE K[i] - K[i - 1]
  <2>1. /\ i \in 1 .. n /\ i + 1 \in 1 .. n /\ i # n
        /\ i # n - 1 => i + 1 \in 1 .. n - 1 /\ i + 2 \in 1 .. n
        /\ i # 1 => i - 1 \in 1 .. n - 1 /\ i - 1 \in 1 .. n
    BY <1>1
  <2>2. CASE i < k
    <3>1. M[i] = N[i] /\ K[i] = L[i]
      BY <1>7, <2>2
    <3>2. i # 1 => M[i - 1] = N[i - 1] /\ K[i - 1] = L[i - 1]
      BY <1>7, <2>1, <2>2
    <3>3. i # n - 1 => M[i + 1] = IF i = k - 1 THEN N[k + 1] ELSE N[i + 1]
      BY <1>7, <2>1, <2>2
    <3>4. i # n - 1
      BY <1>1, <2>2
    <3> QED
      BY <1>1, <1>2, <1>9, <1>10, <1>11, <2>1, <2>2, <3>1, <3>2, <3>3, <3>4
  <2>3. CASE i = k
    <3>1. M[i] = N[k + 1] /\ K[i] = L[k + 1]
      BY <1>7, <2>3
    <3>2. i # 1 => M[i - 1] = N[k - 1] /\ K[i - 1] = L[k - 1]
      BY <1>7, <2>1, <2>3
    <3>3. i # n - 1 => M[i + 1] = N[k + 2]
      BY <1>7, <2>1, <2>3
    <3>4. u.next[M[i]] = IF i = n - 1 THEN NULL ELSE M[i + 1]
      BY <1>1, <1>2, <1>9, <2>1, <2>3, <3>1, <3>3
    <3>5. u.prev[M[i]] = IF i = 1 THEN NULL ELSE M[i - 1]
      BY <1>1, <1>3, <1>10, <2>1, <2>3, <3>1, <3>2
    <3>6. u.nd[M[i]] = IF i = 1 THEN K[1] ELSE K[i] - K[i - 1]
      BY <1>12, <2>3, <3>1, <3>2
    <3> QED
      BY <3>4, <3>5, <3>6
  <2>4. CASE i > k
    <3>1. M[i] = N[i + 1] /\ K[i] = L[i + 1]
      BY <1>7, <2>4
    <3>2. i # 1 /\ M[i - 1] = N[i] /\ K[i - 1] = L[i]
      BY <1>1, <1>7, <2>1, <2>4
    <3>3. i # n - 1 => M[i + 1] = N[i + 2]
      BY <1>7, <2>1, <2>4
    <3> QED
      BY <1>1, <1>2, <1>9, <1>10, <1>11, <2>1, <2>4, <3>1, <3>2, <3>3
  <2> QED
    BY <1>1, <2>2, <2>3, <2>4
<1>14. \A i, j \in 1 .. n - 1 : i < j => K[i] <= K[j]
  <2>1. \A i \in 1 .. n - 1 : i \in 1 .. n /\ i + 1 \in 1 .. n
    BY <1>1
  <2> QED
    BY <1>1, <1>2, <1>7, <2>1
<1>15. Chain(u, n - 1, M, K)
  BY <1>1, <1>8, <1>13, <1>14 DEF Chain
<1>16. \A a \in RemoveDerefs(t, N[k]) : \E i \in 1 .. n : a = N[i]
  BY <1>1, <1>3 DEF RemoveDerefs
<1> QED
  BY <1>15, <1>16 DEF u, M, K

\* dl_insert_node puts a new node, with interval ticks left, at the end.
LEMMA InsertChain ==
    ASSUME NEW t \in ListType, NEW n, NEW N, NEW L, Row(n, N, L), Chain(t, n, N, L),
           NEW x \in Addr, \A i \in 1 .. n : N[i] # x /\ L[i] <= interval,
           NEW M, NEW K,
           M[n + 1] = x, K[n + 1] = interval,
           \A i \in 1 .. n : M[i] = N[i] /\ K[i] = L[i]
    PROVE  /\ Chain(dl_insert_node(t, x), n + 1, M, K)
           /\ \A a \in InsertDerefs(t) : \E i \in 1 .. n : a = N[i]
<1> DEFINE u == dl_insert_node(t, x)
<1>1. /\ n \in Nat /\ n + 1 \in 1 .. n + 1
      /\ \A i \in 1 .. n : N[i] \in Addr /\ L[i] \in 0 .. UINT - 1 /\ N[i] # NULL
      /\ \A i, j \in 1 .. n : i # j => N[i] # N[j]
  BY ConstantsAssumption DEF Row
<1>2. /\ t.nd \in [Addr -> 0 .. UINT - 1]
      /\ t.next \in [Addr -> AddrOrNull] /\ t.prev \in [Addr -> AddrOrNull]
  BY DEF ListType
<1>3. CASE n = 0
  <2>1. t.head = NULL
    BY <1>3 DEF Chain
  <2>2. /\ u.head = x /\ u.tail = x /\ u.delta = interval
        /\ u.nd[x] = interval /\ u.next[x] = NULL /\ u.prev[x] = NULL
    BY <2>1, <1>2 DEF dl_insert_node, ListType
  <2> HIDE DEF u
  <2>3. M[1] = x /\ K[1] = interval
    BY <1>3
  <2>4. Chain(u, 1, M, K)
    BY <2>2, <2>3 DEF Chain
  <2> QED
    BY <1>3, <2>1, <2>4 DEF u, InsertDerefs
<1>4. CASE n > 0
  <2>1. /\ t.head = N[1] /\ t.head # NULL /\ t.tail = N[n] /\ t.delta = L[n] /\ n \in 1 .. n
        /\ t.tail \in Addr /\ t.tail # x /\ x # NULL
    BY <1>1, <1>4, ConstantsAssumption DEF Chain
  <2>2. \A i \in 1 .. n :
            /\ t.next[N[i]] = IF i = n THEN NULL ELSE N[i + 1]
            /\ t.prev[N[i]] = IF i = 1 THEN NULL ELSE N[i - 1]
            /\ t.nd[N[i]] = IF i = 1 THEN L[1] ELSE L[i] - L[i - 1]
    BY DEF Chain
  <2>3. /\ u.head = N[1] /\ u.tail = x /\ u.delta = interval
        /\ u.nd = [t.nd EXCEPT ![x] = Sub(interval, t.delta)]
        /\ u.prev = [t.prev EXCEPT ![x] = N[n]]
        /\ u.next = [t.next EXCEPT ![N[n]] = x, ![x] = NULL]
    BY <2>1 DEF dl_insert_node, ListType
  <2>4. Sub(interval, t.delta) = interval - L[n]
    BY <1>1, <2>1, ConstantsAssumption DEF Sub
  <2> HIDE DEF u
  <2>5. u.nd[x] = interval - L[n] /\ u.prev[x] = N[n] /\ u.next[x] = NULL
    BY <1>2, <2>1, <2>3, <2>4
  <2>6. \A i \in 1 .. n : /\ u.nd[N[i]] = t.nd[N[i]]
                          /\ u.prev[N[i]] = t.prev[N[i]]
                          /\ u.next[N[i]] = IF i = n THEN x ELSE t.next[N[i]]
    BY <1>1, <1>2, <2>1, <2>3
  <2>7. ASSUME NEW i \in 1 .. n + 1
        PROVE  /\ u.next[M[i]] = IF i = n + 1 THEN NULL ELSE M[i + 1]
               /\ u.prev[M[i]] = IF i = 1 THEN NULL ELSE M[i - 1]
               /\ u.nd[M[i]] = IF i = 1 THEN K[1] ELSE K[i] - K[i - 1]
    <3>1. CASE i = n + 1
      <4>1. M[i] = x /\ K[i] = interval /\ i # 1 /\ M[i - 1] = N[n] /\ K[i - 1] = L[n]
        BY <1>1, <1>4, <2>1, <3>1
      <4> QED
        BY <2>1, <2>5, <3>1, <4>1
    <3>2. CASE i # n + 1
      <4>1. i \in 1 .. n /\ (i # 1 => i - 1 \in 1 .. n) /\ (i # n => i + 1 \in 1 .. n)
        BY <1>1, <3>2
      <4>2. /\ M[i] = N[i] /\ K[i] = L[i]
            /\ i # 1 => M[i - 1] = N[i - 1] /\ K[i - 1] = L[i - 1]
            /\ M[i + 1] = IF i = n THEN x ELSE N[i + 1]
        BY <4>1
      <4>3. K[1] = L[1]
        BY <2>1, <1>1
      <4> QED
        BY <2>2, <2>6, <3>2, <4>1, <4>2, <4>3
    <3> QED
      BY <3>1, <3>2
  <2>8. M[1] = N[1]
    BY <1>1, <1>4
  <2>9. \A i, j \in 1 .. n + 1 : i < j => K[i] <= K[j]
    <3>1. ASSUME NEW i \in 1 .. n + 1, NEW j \in 1 .. n + 1, i < j
          PROVE  K[i] <= K[j]
      <4>1. i \in 1 .. n /\ K[i] = L[i] /\ L[i] <= interval
        BY <1>1, <3>1
      <4>2. CASE j = n + 1
        BY <4>1, <4>2
      <4>3. CASE j # n + 1
        <5>1. j \in 1 .. n /\ K[j] = L[j]
          BY <1>1, <4>3
        <5> QED
          BY <3>1, <4>1, <5>1 DEF Chain
      <4> QED
        BY <4>2, <4>3
    <3> QED
      BY <3>1
  <2>10. Chain(u, n + 1, M, K)
    BY <1>1, <1>4, <2>3, <2>7, <2>8, <2>9, SMTT(20) DEF Chain
  <2>11. \A a \in InsertDerefs(t) : \E i \in 1 .. n : a = N[i]
    BY <2>1 DEF InsertDerefs
  <2> QED
    BY <2>10, <2>11 DEF u
<1> QED
  BY <1>1, <1>3, <1>4

\* Chain speaks only of the table's own fields and of the nodes of the chain.
LEMMA ChainFrame ==
    ASSUME NEW t, NEW u, NEW n \in Nat, NEW N, NEW L, NEW M, NEW K,
           Chain(t, n, N, L),
           u.head = t.head, u.tail = t.tail, u.delta = t.delta,
           \A i \in 1 .. n : /\ M[i] = N[i] /\ K[i] = L[i]
                             /\ u.next[N[i]] = t.next[N[i]]
                             /\ u.prev[N[i]] = t.prev[N[i]]
                             /\ u.nd[N[i]] = t.nd[N[i]]
    PROVE  Chain(u, n, M, K)
<1>1. CASE n = 0
  BY <1>1 DEF Chain
<1>2. CASE n > 0
  <2>1. 1 \in 1 .. n /\ n \in 1 .. n
    BY <1>2
  <2>2. \A i \in 1 .. n : (i # 1 => i - 1 \in 1 .. n) /\ (i # n => i + 1 \in 1 .. n)
    OBVIOUS
  <2> QED
    BY <1>2, <2>1, <2>2 DEF Chain
<1> QED
  BY <1>1, <1>2

\* The start of delta_tick takes one tick from every node of the chain.
LEMMA TickChain ==
    ASSUME NEW t \in ListType, NEW n, NEW N, NEW L, Row(n, N, L), Chain(t, n, N, L),
           n > 0, NEW K, \A i \in 1 .. n : L[i] > 0 /\ K[i] = L[i] - 1
    PROVE  Chain([t EXCEPT !.delta = Sub(@, 1), !.nd[t.head] = Sub(@, 1)], n, N, K)
<1> DEFINE u == [t EXCEPT !.delta = Sub(@, 1), !.nd[t.head] = Sub(@, 1)]
<1>1. /\ n \in Nat /\ 1 \in 1 .. n /\ n \in 1 .. n
      /\ \A i \in 1 .. n : N[i] \in Addr /\ L[i] \in Nat
      /\ \A i, j \in 1 .. n : i # j => N[i] # N[j]
  BY ConstantsAssumption DEF Row
<1>2. t.head = N[1] /\ t.tail = N[n] /\ t.delta = L[n] /\ t.nd[N[1]] = L[1]
  BY <1>1 DEF Chain
<1>3. Sub(t.delta, 1) = L[n] - 1 /\ Sub(t.nd[N[1]], 1) = L[1] - 1
  BY <1>1, <1>2 DEF Sub
<1>4. /\ u.head = t.head /\ u.tail = t.tail /\ u.delta = L[n] - 1
      /\ u.next = t.next /\ u.prev = t.prev
      /\ u.nd = [t.nd EXCEPT ![N[1]] = L[1] - 1]
  BY <1>1, <1>2, <1>3 DEF ListType
<1> HIDE DEF u
<1>5. \A i \in 1 .. n : u.nd[N[i]] = IF i = 1 THEN K[1] ELSE K[i] - K[i - 1]
  <2>1. t.nd \in [Addr -> 0 .. UINT - 1]
    BY DEF ListType
  <2>2. u.nd[N[1]] = K[1]
    BY <1>1, <1>4, <2>1
  <2>3. ASSUME NEW i \in 1 .. n, i # 1
        PROVE  u.nd[N[i]] = K[i] - K[i - 1]
    <3>1. u.nd[N[i]] = t.nd[N[i]] /\ i - 1 \in 1 .. n
      BY <1>1, <1>4, <2>1, <2>3
    <3>2. t.nd[N[i]] = L[i] - L[i - 1]
      BY <2>3 DEF Chain
    <3> QED
      BY <1>1, <3>1, <3>2
  <2> QED
    BY <2>2, <2>3
<1>6. \A i, j \in 1 .. n : i < j => K[i] <= K[j]
  BY <1>1 DEF Chain
<1>7. Chain(u, n, N, K)
  BY <1>1, <1>2, <1>4, <1>5, <1>6 DEF Chain
<1> QED
  BY <1>7 DEF u

-----------------------------------------------------------------------------
(***************************************************************************)
(* The refresh order after a refresh and after a removal.                  *)
(***************************************************************************)
\* A removed element is gone, and only it.
LEMMA WithoutHolds ==
    ASSUME NEW q \in Seq(Data), Injective(q), NEW d \in Data
    PROVE  /\ Injective(Without(q, d))
           /\ \A e \in Data : Holds(Without(q, d), e) <=> e # d /\ Holds(q, e)
<1>1. CASE ~Holds(q, d)
  BY <1>1, WithoutAbsent DEF Holds
<1>2. CASE Holds(q, d)
  <2>1. PICK k \in 1 .. Len(q) : q[k] = d
    BY <1>2 DEF Holds
  <2> DEFINE w == Without(q, d)
  <2>2. /\ w \in Seq(Data) /\ Len(w) = Len(q) - 1
        /\ \A i \in 1 .. Len(q) - 1 : w[i] = IF i < k THEN q[i] ELSE q[i + 1]
    BY <2>1, WithoutAt
  <2> HIDE DEF w
  <2>3. Len(q) \in Nat /\ \A i \in 1 .. Len(q) - 1 : i \in 1 .. Len(q) /\ i + 1 \in 1 .. Len(q)
    OBVIOUS
  <2>4. Injective(w)
    BY <2>2, <2>3 DEF Injective
  <2>5. ASSUME NEW e \in Data, Holds(w, e) PROVE e # d /\ Holds(q, e)
    <3>1. PICK i \in 1 .. Len(q) - 1 : w[i] = e
      BY <2>2, <2>5 DEF Holds
    <3>2. PICK j \in 1 .. Len(q) : j # k /\ q[j] = e
      BY <2>2, <2>3, <3>1
    <3> QED
      BY <2>1, <3>2 DEF Injective, Holds
  <2>6. ASSUME NEW e \in Data, e # d, Holds(q, e) PROVE Holds(w, e)
    <3>1. PICK j \in 1 .. Len(q) : q[j] = e
      BY <2>6 DEF Holds
    <3>2. j # k
      BY <2>1, <2>6, <3>1
    <3>3. CASE j < k
      <4>1. j \in 1 .. Len(q) - 1 /\ w[j] = e
        BY <2>2, <3>1, <3>3
      <4> QED
        BY <2>2, <4>1 DEF Holds
    <3>4. CASE j > k
      <4>1. j - 1 \in 1 .. Len(q) - 1 /\ w[j - 1] = e
        BY <2>2, <3>1, <3>4
      <4> QED
        BY <2>2, <4>1 DEF Holds
    <3> QED
      BY <3>2, <3>3, <3>4
  <2> QED
    BY <2>4, <2>5, <2>6 DEF w
<1> QED
  BY <1>1, <1>2

\* A refreshed element is in the order, once.
LEMMA RequeueHolds ==
    ASSUME NEW q \in Seq(Data), Injective(q), NEW d \in Data
    PROVE  /\ Injective(Append(Without(q, d), d))
           /\ \A e \in Data : Holds(Append(Without(q, d), d), e) <=> e = d \/ Holds(q, e)
<1> DEFINE w == Without(q, d)
           r == Append(w, d)
<1>1. /\ w \in Seq(Data) /\ Injective(w)
      /\ \A e \in Data : Holds(w, e) <=> e # d /\ Holds(q, e)
  BY WithoutType, WithoutHolds
<1> HIDE DEF w
<1>2. /\ Len(r) = Len(w) + 1 /\ Len(w) \in Nat
      /\ \A i \in 1 .. Len(w) : r[i] = w[i] /\ i \in 1 .. Len(r)
      /\ r[Len(w) + 1] = d /\ Len(w) + 1 \in 1 .. Len(r)
      /\ \A i \in 1 .. Len(r) : i \in 1 .. Len(w) \/ i = Len(w) + 1
  BY <1>1
<1>3. \A i \in 1 .. Len(w) : w[i] # d
  BY <1>1 DEF Holds
<1> HIDE DEF r
<1>4. Injective(r)
  BY <1>1, <1>2, <1>3 DEF Injective
<1>5. \A e \in Data : Holds(r, e) <=> e = d \/ Holds(w, e)
  BY <1>2 DEF Holds
<1> QED
  BY <1>1, <1>4, <1>5 DEF r, w

-----------------------------------------------------------------------------
(***************************************************************************)
(* The inductive invariant is HTypeOK /\ Indexed /\ Represents.            *)
(* Represents alone is not inductive: a step that frees or allocates a     *)
(* node is harmless only because Indexed keeps elements, nodes and the     *)
(* refresh order in one-to-one correspondence.                             *)
(***************************************************************************)
\* What the invariant says of the chain, between calls that free nodes.
LEMMA StateRow ==
    ASSUME HTypeOK, Indexed, ~fault, op # "clear"
    PROVE  /\ Row(Len(queue), NodesOf(queue), TicksOf(queue))
           /\ \A i \in 1 .. Len(queue) :
                 /\ queue[i] \in Data
                 /\ NodesOf(queue)[i] = ht[queue[i]] /\ ht[queue[i]] \in Live
                 /\ TicksOf(queue)[i] = ttl[queue[i]] /\ ttl[queue[i]] \in 0 .. interval
           /\ \A d, e \in Data : ht[d] # NULL /\ ht[d] = ht[e] => d = e
<1>1. \A i \in 1 .. Len(queue) : queue[i] \in Data
  BY DEF HTypeOK
<1>2. \A i \in 1 .. Len(queue) : ht[queue[i]] # NULL
  BY <1>1 DEF Indexed, Holds
<1>3. \A i \in 1 .. Len(queue) : ht[queue[i]] \in Addr /\ data[ht[queue[i]]] = queue[i]
  BY <1>1, <1>2 DEF Indexed, HTypeOK, TypeOK, AddrOrNull
<1>4. \A i \in 1 .. Len(queue) : ht[queue[i]] \in Live
  BY <1>1, <1>3, ConstantsAssumption DEF Live
<1>5. \A i \in 1 .. Len(queue) : ttl[queue[i]] \in 0 .. interval /\ ttl[queue[i]] \in 0 .. UINT - 1
  BY <1>1, ConstantsAssumption DEF HTypeOK
<1>6. \A i, j \in 1 .. Len(queue) : i # j => ht[queue[i]] # ht[queue[j]]
  BY <1>3 DEF Indexed, Injective
<1>7. Len(queue) \in Nat
  BY DEF HTypeOK
<1>8. \A d, e \in Data : ht[d] # NULL /\ ht[d] = ht[e] => d = e
  BY DEF Indexed
<1>9. Row(Len(queue), NodesOf(queue), TicksOf(queue))
  BY <1>3, <1>5, <1>6, <1>7 DEF Row, NodesOf, TicksOf
<1> QED
  BY <1>1, <1>3, <1>4, <1>5, <1>8, <1>9 DEF NodesOf, TicksOf

\* Every step keeps elements, nodes and the refresh order in correspondence.
LEMMA IndexedStep ==
    ASSUME HTypeOK, Indexed, HNext
    PROVE  Indexed'
<1> USE DEF HTypeOK
<1>1. CASE fault'
  BY <1>1 DEF Indexed
<1>2. ASSUME ~fault', NEW d \in Data, ht[d] = NULL, AddNode(d), HAdd(d), Idle
      PROVE  Indexed'
  <2>1. PICK n \in Addr \ Live :
           /\ ht' = [ht EXCEPT ![d] = n]
           /\ data' = [data EXCEPT ![n] = d]
           /\ UNCHANGED <<op, it, fault>>
    BY <1>2 DEF AddNode, Crash
  <2>2. /\ Injective(queue')
        /\ \A e \in Data : Holds(queue', e) <=> e = d \/ Holds(queue, e)
    BY <1>2, RequeueHolds DEF HAdd, Indexed, Idle
  <2>3. \A e \in Data : ht'[e] = IF e = d THEN n ELSE ht[e]
    BY <2>1 DEF TypeOK
  <2>4. \A e \in Data : ht'[e] # NULL <=> Holds(queue', e)
    BY <1>2, <2>1, <2>2, <2>3, ConstantsAssumption DEF Indexed, Idle
  <2>5. \A e \in Data : ht'[e] # NULL => data'[ht'[e]] = e
    <3>1. ASSUME NEW e \in Data, ht'[e] # NULL PROVE data'[ht'[e]] = e
      <4>1. CASE e = d
        BY <2>1, <2>3, <4>1 DEF TypeOK
      <4>2. CASE e # d
        <5>1. ht'[e] = ht[e] /\ ht[e] \in Addr /\ data[ht[e]] = e
          BY <1>2, <2>3, <3>1, <4>2 DEF Indexed, Idle, TypeOK, AddrOrNull
        <5>2. ht[e] # n
          BY <2>1, <5>1, ConstantsAssumption DEF Live
        <5> QED
          BY <2>1, <5>1, <5>2 DEF TypeOK
      <4> QED
        BY <4>1, <4>2
    <3> QED
      BY <3>1
  <2> QED
    BY <2>2, <2>4, <2>5 DEF Indexed
<1>3. ASSUME ~fault', NEW d \in Data, ht[d] # NULL, Relocate(ht[d]), HAdd(d), Idle
      PROVE  Indexed'
  <2>1. UNCHANGED <<ht, data, op, it, fault>>
    BY <1>3 DEF Relocate, Crash
  <2>2. /\ Injective(queue')
        /\ \A e \in Data : Holds(queue', e) <=> e = d \/ Holds(queue, e)
    BY <1>3, RequeueHolds DEF HAdd, Indexed, Idle
  <2> QED
    BY <1>3, <2>1, <2>2 DEF Indexed, Idle
<1>4. ASSUME ~fault', ~fault, op # "clear", NEW d \in Data, delta_delete(d), HDrop(d)
      PROVE  Indexed'
  <2>1. /\ ht' = [ht EXCEPT ![d] = NULL]
        /\ data' = [data EXCEPT ![ht[d]] = NULL]
        /\ UNCHANGED <<op, it, fault>>
    BY <1>4 DEF delta_delete, Crash
  <2>2. /\ Injective(queue')
        /\ \A e \in Data : Holds(queue', e) <=> e # d /\ Holds(queue, e)
    BY <1>4, WithoutHolds DEF HDrop, Indexed
  <2>3. \A e \in Data : ht'[e] = IF e = d THEN NULL ELSE ht[e]
    BY <2>1 DEF TypeOK
  <2>4. \A e \in Data : ht'[e] # NULL => data'[ht'[e]] = e
    <3>1. ASSUME NEW e \in Data, ht'[e] # NULL PROVE data'[ht'[e]] = e
      <4>1. e # d /\ ht'[e] = ht[e] /\ ht[e] \in Addr /\ data[ht[e]] = e
        BY <1>4, <2>3, <3>1 DEF Indexed, TypeOK, AddrOrNull
      <4>2. ht[d] # NULL
        BY <1>4 DEF delta_delete
      <4>3. ht[e] # ht[d]
        BY <1>4, <4>1, <4>2 DEF Indexed
      <4> QED
        BY <2>1, <4>1, <4>3 DEF TypeOK
    <3> QED
      BY <3>1
  <2> QED
    BY <1>4, <2>2, <2>3, <2>4 DEF Indexed
<1>5. CASE ~fault' /\ \E d \in Data : HUpdate(d)
  BY <1>2, <1>3, <1>5 DEF HUpdate, delta_update
<1>6. CASE ~fault' /\ \E d \in Data : HInsert(d)
  BY <1>2, <1>6 DEF HInsert, delta_insert
<1>7. CASE ~fault' /\ \E d \in Data : HRemove(d)
  BY <1>4, <1>7 DEF HRemove, delta_remove, Idle
<1>8. CASE ~fault' /\ HExpire
  <2>1. dl.head \in Live
    BY <1>8 DEF HExpire, Expire, Crash
  <2>2. data[dl.head] \in Data /\ delta_delete(data[dl.head]) /\ HDrop(data[dl.head])
        /\ ~fault /\ op # "clear"
    BY <1>8, <2>1 DEF HExpire, Expire, Live, TypeOK
  <2> QED
    BY <1>4, <1>8, <2>2
<1>9. CASE ~fault' /\ (HTickEmpty \/ HTickStart \/ HTickEnd \/ HForeachStart
                     \/ HForeachCall \/ HForeachBreak \/ HForeachEnd)
  <2>1. UNCHANGED <<ht, data, queue, fault>>
    BY <1>9 DEF HTickEmpty, HTickStart, HTickEnd, HForeachStart, HForeachCall,
         HForeachBreak, HForeachEnd, TickEmpty, TickStart, TickEnd, ForeachStart,
         ForeachCall, ForeachBreak, ForeachEnd, HTick, HVisit, Crash, hist, vars
  <2>2. op # "clear"
    BY <1>9 DEF HTickEmpty, HTickStart, HTickEnd, HForeachStart, HForeachCall,
         HForeachBreak, HForeachEnd, TickEmpty, TickStart, TickEnd, ForeachStart,
         ForeachCall, ForeachBreak, ForeachEnd, Idle
  <2> QED
    BY <1>9, <2>1, <2>2 DEF Indexed, Injective, Holds
<1>10. CASE ~fault' /\ (HClearStart \/ HClearFree)
  <2>1. UNCHANGED <<ht, queue, fault>> /\ op' = "clear"
    BY <1>10 DEF HClearStart, HClearFree, ClearStart, ClearFree, Crash, hist
  <2> QED
    BY <1>10, <2>1 DEF Indexed, Injective, Holds
<1>11. CASE ~fault' /\ HClearEnd
  <2>1. queue' = <<>> /\ \A e \in Data : ht'[e] = NULL
    BY <1>11 DEF HClearEnd, ClearEnd
  <2> QED
    BY <2>1 DEF Indexed, Injective, Holds
<1> QED
  BY <1>1, <1>5, <1>6, <1>7, <1>8, <1>9, <1>10, <1>11 DEF HNext, DaemonNext

\* While the promise is in force AtTail tells the last of several elements.
LEMMA Position ==
    ASSUME HTypeOK, Indexed, Represents, inForce, op # "clear",
           NEW d \in Data, ht[d] # NULL
    PROVE  \E k \in 1 .. Len(queue) :
              /\ queue[k] = d
              /\ AtTail(d) <=> k = Len(queue) /\ Len(queue) > 1
<1>1. PICK k \in 1 .. Len(queue) : queue[k] = d
  BY DEF Represents, Indexed, Holds
<1> DEFINE n == Len(queue)
           N == NodesOf(queue)
<1>2. /\ n \in Nat /\ n > 0 /\ 1 \in 1 .. n /\ n \in 1 .. n
      /\ \A i \in 1 .. n : N[i] = ht[queue[i]] /\ N[i] \in Addr
      /\ \A i, j \in 1 .. n : i # j => N[i] # N[j]
  <2>1. n \in Nat
    BY DEF HTypeOK
  <2>2. n > 0 /\ 1 \in 1 .. n /\ n \in 1 .. n
    BY <1>1, <2>1
  <2>3. ~fault
    BY DEF Represents
  <2>4. /\ Row(n, N, TicksOf(queue))
        /\ \A i \in 1 .. n : N[i] = ht[queue[i]]
    BY <2>3, StateRow
  <2> HIDE DEF n, N
  <2>5. /\ \A i \in 1 .. n : N[i] \in Addr
        /\ \A i, j \in 1 .. n : i # j => N[i] # N[j]
    BY <2>4 DEF Row
  <2> QED
    BY <2>1, <2>2, <2>4, <2>5
<1>3. dl.head = N[1] /\ dl.tail = N[n]
  BY <1>2 DEF Represents, Chain
<1>4. N[k] = ht[d]
  BY <1>1, <1>2
<1> HIDE DEF N
<1>5. AtTail(d) <=> N[n] = N[k] /\ N[1] # N[k]
  BY <1>2, <1>3, <1>4, ConstantsAssumption DEF AtTail
<1>6. AtTail(d) <=> k = n /\ k # 1
  BY <1>1, <1>2, <1>5
<1> QED
  BY <1>1, <1>2, <1>6

\* Unlinking a node, not the last of several, from the list.
LEMMA Unlink ==
    ASSUME HTypeOK, Indexed, Represents, inForce, op # "clear",
           NEW d \in Data, ht[d] # NULL, ~AtTail(d)
    PROVE  \E m, M, K :
              /\ Row(m, M, K)
              /\ Chain(dl_remove_node(dl, ht[d]), m, M, K)
              /\ m = Len(Without(queue, d))
              /\ \A i \in 1 .. m :
                    /\ Without(queue, d)[i] \in Data /\ Without(queue, d)[i] # d
                    /\ M[i] = ht[Without(queue, d)[i]] /\ M[i] \in Live /\ M[i] # ht[d]
                    /\ K[i] = ttl[Without(queue, d)[i]] /\ K[i] <= interval
              /\ RemoveDerefs(dl, ht[d]) \subseteq Live
<1> DEFINE n == Len(queue)
           N == NodesOf(queue)
           L == TicksOf(queue)
           w == Without(queue, d)
<1>1. PICK k \in 1 .. n : queue[k] = d /\ (k < n \/ n = 1)
  <2>1. PICK k \in 1 .. n : queue[k] = d /\ ~(k = n /\ n > 1)
    BY Position
  <2>2. n \in Nat
    BY DEF HTypeOK
  <2>3. k < n \/ n = 1
    <3> HIDE DEF n
    <3> QED
      BY <2>1, <2>2
  <2> QED
    BY <2>1, <2>3
<1>2. /\ n \in Nat /\ Row(n, N, L) /\ Chain(dl, n, N, L) /\ dl \in ListType
      /\ \A i \in 1 .. n : /\ N[i] = ht[queue[i]] /\ N[i] \in Live /\ queue[i] \in Data
                           /\ L[i] = ttl[queue[i]] /\ L[i] \in 0 .. interval
  BY StateRow DEF Represents, HTypeOK, TypeOK
<1>3. N[k] = ht[d]
  BY <1>1, <1>2
<1>4. /\ w \in Seq(Data) /\ Len(w) = n - 1
      /\ \A i \in 1 .. n - 1 : w[i] = IF i < k THEN queue[i] ELSE queue[i + 1]
  BY <1>1, WithoutAt DEF HTypeOK, Represents, Indexed
<1> DEFINE M == Cut(N, n, k)
           K == Cut(L, n, k)
<1>5. \A i \in 1 .. n - 1 : /\ i \in 1 .. n /\ i + 1 \in 1 .. n
                            /\ M[i] = IF i < k THEN N[i] ELSE N[i + 1]
                            /\ K[i] = IF i < k THEN L[i] ELSE L[i + 1]
  BY <1>2 DEF Cut
<1>6. M \in [1 .. n - 1 -> Addr] /\ K \in [1 .. n - 1 -> 0 .. UINT - 1] /\ n - 1 \in Nat
  <2>1. M = [i \in 1 .. n - 1 |-> M[i]] /\ K = [i \in 1 .. n - 1 |-> K[i]]
    BY DEF Cut
  <2> HIDE DEF N, L, M, K
  <2>2. \A i \in 1 .. n - 1 : M[i] \in Addr /\ K[i] \in 0 .. UINT - 1
    <3>1. \A j \in 1 .. n : N[j] \in Addr /\ L[j] \in 0 .. UINT - 1
      BY <1>2 DEF Row
    <3> HIDE DEF n
    <3> QED
      BY <1>5, <3>1
  <2>3. n - 1 \in Nat
    BY <1>1, <1>2
  <2> QED
    BY <2>1, <2>2, <2>3
<1> HIDE DEF N, L, w, M, K
<1>7. \A i, j \in 1 .. n : i # j => N[i] # N[j] /\ queue[i] # queue[j]
  BY <1>2 DEF Row, Represents, Indexed, Injective
<1>8. \A i, j \in 1 .. n - 1 : i # j => M[i] # M[j]
  <2>1. ASSUME NEW i \in 1 .. n - 1, NEW j \in 1 .. n - 1, i # j PROVE M[i] # M[j]
    <3>1. PICK a \in 1 .. n : M[i] = N[a] /\ a = IF i < k THEN i ELSE i + 1
      BY <1>5
    <3>2. PICK b \in 1 .. n : M[j] = N[b] /\ b = IF j < k THEN j ELSE j + 1
      BY <1>5
    <3>3. a # b
      BY <2>1, <3>1, <3>2
    <3> QED
      BY <1>7, <3>1, <3>2, <3>3
  <2> QED
    BY <2>1
<1>9. Row(n - 1, M, K)
  BY <1>6, <1>8 DEF Row
<1>10. ASSUME NEW i \in 1 .. n - 1
       PROVE  /\ w[i] \in Data /\ w[i] # d
              /\ M[i] = ht[w[i]] /\ M[i] \in Live /\ M[i] # ht[d]
              /\ K[i] = ttl[w[i]] /\ K[i] <= interval
  <2>1. PICK a \in 1 .. n : a # k /\ M[i] = N[a] /\ K[i] = L[a] /\ w[i] = queue[a]
    <3>1. CASE i < k
      <4>1. M[i] = N[i] /\ K[i] = L[i] /\ w[i] = queue[i] /\ i \in 1 .. n /\ i # k
        BY <1>4, <1>5, <3>1
      <4> QED
        BY <4>1
    <3>2. CASE ~(i < k)
      <4>1. /\ M[i] = N[i + 1] /\ K[i] = L[i + 1] /\ w[i] = queue[i + 1]
            /\ i + 1 \in 1 .. n /\ i + 1 # k
        BY <1>2, <1>4, <1>5, <3>2
      <4> QED
        BY <4>1
    <3> QED
      BY <3>1, <3>2
  <2>2. L[a] \in 0 .. interval
    BY <1>2
  <2>3. L[a] <= interval
    BY <2>2, ConstantsAssumption
  <2> QED
    BY <1>1, <1>2, <1>3, <1>7, <2>1, <2>3
<1>11. Chain(dl_remove_node(dl, ht[d]), n - 1, M, K) /\ RemoveDerefs(dl, ht[d]) \subseteq Live
  <2>1. CASE n = 1
    <3>1. n - 1 = 0 /\ k = 1
      BY <1>1, <2>1
    <3>2. Row(1, N, L) /\ Chain(dl, 1, N, L) /\ ht[d] = N[1] /\ dl \in ListType
      BY <1>2, <1>3, <2>1, <3>1
    <3>3. Chain(dl_remove_node(dl, N[1]), 0, M, K) /\ RemoveDerefs(dl, N[1]) = {}
      BY <3>2, RemoveOnly
    <3> QED
      BY <3>1, <3>2, <3>3
  <2>2. CASE n # 1
    <3>1. k \in 1 .. n - 1
      BY <1>1, <1>2, <2>2
    <3>2. /\ Chain(dl_remove_node(dl, N[k]), n - 1, Cut(N, n, k), Cut(L, n, k))
          /\ \A a \in RemoveDerefs(dl, N[k]) : \E i \in 1 .. n : a = N[i]
      <4> HIDE DEF n
      <4> QED
        BY <1>2, <3>1, RemoveInner
    <3> QED
      BY <1>2, <1>3, <3>2 DEF M, K
  <2> QED
    BY <2>1, <2>2
<1>12. /\ n - 1 = Len(w)
       /\ \A i \in 1 .. n - 1 :
                    /\ w[i] \in Data /\ w[i] # d
                    /\ M[i] = ht[w[i]] /\ M[i] \in Live /\ M[i] # ht[d]
                    /\ K[i] = ttl[w[i]] /\ K[i] <= interval
  BY <1>4, <1>10
<1> QED
  BY <1>9, <1>11, <1>12 DEF w

\* delta_update of an element that is in the table.
LEMMA RelocateRepresents ==
    ASSUME HTypeOK, Indexed, Represents, Idle, inForce', NEW d \in Data,
           ht[d] # NULL, Relocate(ht[d]), HAdd(d)
    PROVE  Represents'
<1> DEFINE w == Without(queue, d)
           x == ht[d]
           t == dl_remove_node(dl, x)
<1>1. inForce /\ ~AtTail(d) /\ op = "idle" /\ ~fault
  BY DEF HAdd, Idle
<1>2. PICK m, M, K :
              /\ Row(m, M, K)
              /\ Chain(t, m, M, K)
              /\ m = Len(w)
              /\ \A i \in 1 .. m : /\ w[i] \in Data /\ w[i] # d
                                   /\ M[i] = ht[w[i]] /\ M[i] \in Live /\ M[i] # ht[d]
                                   /\ K[i] = ttl[w[i]] /\ K[i] <= interval
              /\ RemoveDerefs(dl, ht[d]) \subseteq Live
  BY <1>1, Unlink
<1>3. x \in Addr /\ t \in ListType /\ w \in Seq(Data)
  BY RemoveType, WithoutType DEF HTypeOK, TypeOK, AddrOrNull
<1>4. queue' = Append(w, d) /\ ttl' = [ttl EXCEPT ![d] = interval] /\ ttl'[d] = interval
  BY DEF HAdd, HTypeOK
<1>5. \A i \in 1 .. Len(w) : /\ M[i] = ht[w[i]] /\ M[i] # x
                             /\ K[i] = ttl'[w[i]] /\ K[i] <= interval
  BY <1>2, <1>4 DEF HTypeOK
<1> HIDE DEF w, t
<1> DEFINE N == [i \in 1 .. Len(queue') |-> ht[queue'[i]]]
           L == [i \in 1 .. Len(queue') |-> ttl'[queue'[i]]]
<1>6. /\ Chain(dl_insert_node(t, x), Len(queue'), N, L)
      /\ \A a \in InsertDerefs(t) : \E i \in 1 .. Len(w) : a = M[i]
  <2>1. /\ Len(queue') = m + 1 /\ m \in Nat /\ queue'[m + 1] = d
        /\ \A i \in 1 .. m : queue'[i] = w[i] /\ i \in 1 .. Len(queue')
    BY <1>2, <1>3, <1>4
  <2>2. N[m + 1] = x /\ L[m + 1] = interval
    BY <1>4, <2>1
  <2>3. \A i \in 1 .. m : N[i] = M[i] /\ L[i] = K[i]
    BY <1>2, <1>5, <2>1
  <2>4. \A i \in 1 .. m : M[i] # x /\ K[i] <= interval
    BY <1>2
  <2>5. Row(m, M, K) /\ Chain(t, m, M, K) /\ t \in ListType /\ x \in Addr
    BY <1>2, <1>3
  <2> HIDE DEF N, L, x
  <2>6. /\ Chain(dl_insert_node(t, x), m + 1, N, L)
        /\ \A a \in InsertDerefs(t) : \E i \in 1 .. m : a = M[i]
    BY <2>2, <2>3, <2>4, <2>5, InsertChain
  <2> QED
    BY <1>2, <2>1, <2>6
<1>7. RemoveDerefs(dl, x) \cup InsertDerefs(t) \subseteq Live
  BY <1>2, <1>6
<1>8. dl' = dl_insert_node(t, x) /\ UNCHANGED <<ht, data, op, it, fault>>
  BY <1>7 DEF Relocate, t
<1>9. Chain(dl', Len(queue'), NodesOf(queue)', TicksOf(queue)')
  BY <1>6, <1>8 DEF NodesOf, TicksOf
<1>10. NoneDue'
  <2>1. \A i \in 1 .. Len(queue) : ttl[queue[i]] > 0
    BY <1>1 DEF Represents, NoneDue
  <2>2. \A i \in 1 .. Len(w) : \E j \in 1 .. Len(queue) : queue[j] = w[i]
    <3>1. \A e \in Data : Holds(w, e) => Holds(queue, e)
      BY <1>1, WithoutHolds DEF HTypeOK, Indexed, w
    <3>2. \A i \in 1 .. Len(w) : Holds(w, w[i]) /\ w[i] \in Data
      BY <1>2 DEF Holds
    <3> QED
      BY <3>1, <3>2 DEF Holds
  <2>3. \A i \in 1 .. Len(w) : ttl'[w[i]] > 0
    BY <1>2, <1>5, <2>1, <2>2
  <2>4. \A i \in 1 .. Len(queue') : queue'[i] = IF i = Len(w) + 1 THEN d ELSE w[i]
    BY <1>3, <1>4
  <2>5. \A i \in 1 .. Len(queue') : i # Len(w) + 1 => i \in 1 .. Len(w)
    BY <1>3, <1>4
  <2>6. ttl'[d] > 0
    BY <1>4, ConstantsAssumption
  <2>7. \A i \in 1 .. Len(queue') : ttl'[queue'[i]] > 0
    BY <2>3, <2>4, <2>5, <2>6
  <2> QED
    BY <2>7 DEF NoneDue
<1> QED
  BY <1>1, <1>8, <1>9, <1>10 DEF Represents, CursorOK

\* delta_update or delta_insert of an element that is not in the table.
LEMMA AddRepresents ==
    ASSUME HTypeOK, Indexed, Represents, Idle, inForce', NEW d \in Data,
           ht[d] = NULL, AddNode(d), HAdd(d)
    PROVE  Represents'
<1> DEFINE N == NodesOf(queue)
           L == TicksOf(queue)
<1>1. inForce /\ op = "idle" /\ ~fault
  BY DEF HAdd, Idle
<1>2. /\ Row(Len(queue), N, L) /\ Chain(dl, Len(queue), N, L) /\ dl \in ListType
      /\ queue \in Seq(Data)
      /\ \A i \in 1 .. Len(queue) :
            /\ N[i] = ht[queue[i]] /\ N[i] \in Live /\ queue[i] \in Data
            /\ L[i] = ttl[queue[i]] /\ L[i] \in 0 .. interval /\ L[i] <= interval
  BY <1>1, StateRow, ConstantsAssumption DEF Represents, HTypeOK, TypeOK
<1>3. \A i \in 1 .. Len(queue) : queue[i] # d
  BY <1>1 DEF Indexed, Holds
<1>4. queue' = Append(queue, d) /\ ttl' = [ttl EXCEPT ![d] = interval] /\ ttl'[d] = interval
  BY <1>2, <1>3, WithoutAbsent DEF HAdd, HTypeOK
<1>5. PICK n \in Addr \ Live :
        IF InsertDerefs(dl) \subseteq Live \cup {n}
        THEN /\ dl' = [dl_insert_node(dl, n) EXCEPT !.size = Add(@, 1)]
             /\ ht' = [ht EXCEPT ![d] = n]
             /\ data' = [data EXCEPT ![n] = d]
             /\ UNCHANGED <<op, it, fault>>
        ELSE Crash
  BY DEF AddNode
<1> DEFINE g == [ht EXCEPT ![d] = n]
           u == dl_insert_node(dl, n)
<1>6. /\ g[d] = n
      /\ \A i \in 1 .. Len(queue) : /\ N[i] = g[queue[i]] /\ N[i] # n
                                    /\ L[i] = ttl'[queue[i]] /\ L[i] <= interval
  BY <1>2, <1>3, <1>4, <1>5 DEF HTypeOK, TypeOK
<1> HIDE DEF N, L, g
<1> DEFINE M == [i \in 1 .. Len(queue') |-> g[queue'[i]]]
           K == [i \in 1 .. Len(queue') |-> ttl'[queue'[i]]]
<1>7. /\ Chain(u, Len(queue'), M, K)
      /\ \A a \in InsertDerefs(dl) : \E i \in 1 .. Len(queue) : a = N[i]
  <2> DEFINE m == Len(queue)
  <2>1. /\ Len(queue') = m + 1 /\ m \in Nat /\ queue'[m + 1] = d
        /\ \A i \in 1 .. m : queue'[i] = queue[i] /\ i \in 1 .. Len(queue')
    BY <1>2, <1>4
  <2>2. M[m + 1] = n /\ K[m + 1] = interval
    BY <1>4, <1>6, <2>1
  <2>3. \A i \in 1 .. m : M[i] = N[i] /\ K[i] = L[i]
    BY <1>6, <2>1
  <2>4. \A i \in 1 .. m : N[i] # n /\ L[i] <= interval
    BY <1>6
  <2>5. Row(m, N, L) /\ Chain(dl, m, N, L) /\ dl \in ListType /\ n \in Addr
    BY <1>2, <1>5
  <2> HIDE DEF M, K, m
  <2>6. /\ Chain(u, m + 1, M, K)
        /\ \A a \in InsertDerefs(dl) : \E i \in 1 .. m : a = N[i]
    BY <2>2, <2>3, <2>4, <2>5, InsertChain
  <2> QED
    BY <2>1, <2>6 DEF m
<1>8. InsertDerefs(dl) \subseteq Live \cup {n}
  BY <1>2, <1>7
<1>9. dl' = [u EXCEPT !.size = Add(@, 1)] /\ ht' = g /\ UNCHANGED <<op, it, fault>>
  BY <1>5, <1>8 DEF g
<1>10. u \in ListType
  BY <1>2, <1>5, InsertType
<1> HIDE DEF u
<1>11. /\ dl'.head = u.head /\ dl'.tail = u.tail /\ dl'.delta = u.delta
       /\ dl'.next = u.next /\ dl'.prev = u.prev /\ dl'.nd = u.nd
  BY <1>9, <1>10 DEF ListType
<1>12. Chain(dl', Len(queue'), NodesOf(queue)', TicksOf(queue)')
  <2>1. NodesOf(queue)' = [i \in 1 .. Len(queue') |-> g[queue'[i]]]
    BY <1>9 DEF NodesOf
  <2>2. TicksOf(queue)' = [i \in 1 .. Len(queue') |-> ttl'[queue'[i]]]
    BY DEF TicksOf
  <2> HIDE DEF M, K
  <2>3. Chain(u, Len(queue'), M, K) /\ Len(queue') \in Nat
    <3>1. Len(queue') \in Nat
      BY <1>2, <1>4
    <3> QED
      BY <1>7, <3>1
  <2>4. Chain(dl', Len(queue'), M, K)
    BY <2>3, <1>11, ChainFrame
  <2> QED
    BY <2>1, <2>2, <2>4 DEF M, K
<1>13. NoneDue'
  <2>1. \A i \in 1 .. Len(queue) : ttl[queue[i]] > 0
    BY <1>1 DEF Represents, NoneDue
  <2>2. \A i \in 1 .. Len(queue) : ttl'[queue[i]] > 0
    BY <1>2, <1>6, <2>1
  <2>3. \A i \in 1 .. Len(queue') : queue'[i] = IF i = Len(queue) + 1 THEN d ELSE queue[i]
    BY <1>2, <1>4
  <2>4. \A i \in 1 .. Len(queue') : i # Len(queue) + 1 => i \in 1 .. Len(queue)
    BY <1>2, <1>4
  <2> QED
    BY <1>4, <2>2, <2>3, <2>4, ConstantsAssumption DEF NoneDue
<1> QED
  BY <1>1, <1>9, <1>12, <1>13 DEF Represents, CursorOK

\* delta_remove, and one round of delta_tick's expiry loop.
LEMMA DeleteRepresents ==
    ASSUME HTypeOK, Indexed, Represents, ~fault, op \in {"idle", "tick"}, inForce',
           NEW d \in Data, delta_delete(d), HDrop(d)
    PROVE  Represents'
<1> DEFINE w == Without(queue, d)
           x == ht[d]
           t == dl_remove_node(dl, x)
<1>1. inForce /\ ~AtTail(d) /\ op # "clear" /\ op # "foreach" /\ ht[d] # NULL
  BY DEF HDrop, delta_delete
<1>2. PICK m, M, K :
              /\ Row(m, M, K)
              /\ Chain(t, m, M, K)
              /\ m = Len(w)
              /\ \A i \in 1 .. m : /\ w[i] \in Data /\ w[i] # d
                                   /\ M[i] = ht[w[i]] /\ M[i] \in Live /\ M[i] # ht[d]
                                   /\ K[i] = ttl[w[i]] /\ K[i] <= interval
              /\ RemoveDerefs(dl, ht[d]) \subseteq Live
  BY <1>1, Unlink
<1>3. x \in Addr /\ t \in ListType /\ w \in Seq(Data) /\ m \in Nat
  BY <1>1, <1>2, RemoveType, WithoutType DEF HTypeOK, TypeOK, AddrOrNull
<1>4. /\ queue' = w
      /\ \A e \in Data : ttl'[e] = IF e = d THEN 0 ELSE ttl[e]
  BY DEF HDrop, HTypeOK
<1>5. /\ dl' = [Scrub(t, x) EXCEPT !.size = Sub(@, 1)]
      /\ ht' = [ht EXCEPT ![d] = NULL]
      /\ UNCHANGED <<op, it, fault>>
  BY <1>2 DEF delta_delete
<1>6. \A e \in Data : ht'[e] = IF e = d THEN NULL ELSE ht[e]
  BY <1>5 DEF HTypeOK, TypeOK
<1> HIDE DEF w, t, x
<1>7. /\ dl'.head = t.head /\ dl'.tail = t.tail /\ dl'.delta = t.delta
      /\ dl'.next = [t.next EXCEPT ![x] = NULL]
      /\ dl'.prev = [t.prev EXCEPT ![x] = NULL]
      /\ dl'.nd = [t.nd EXCEPT ![x] = 0]
  BY <1>3, <1>5 DEF ListType, Scrub
<1>8. \A i \in 1 .. m : M[i] \in Addr /\ M[i] # x
  BY <1>2 DEF x, Live
<1>9. \A i \in 1 .. m : /\ dl'.next[M[i]] = t.next[M[i]]
                        /\ dl'.prev[M[i]] = t.prev[M[i]]
                        /\ dl'.nd[M[i]] = t.nd[M[i]]
  BY <1>3, <1>7, <1>8 DEF ListType
<1> DEFINE N == NodesOf(queue)'
           L == TicksOf(queue)'
<1>10. \A i \in 1 .. m : N[i] = M[i] /\ L[i] = K[i]
  BY <1>2, <1>4, <1>6 DEF NodesOf, TicksOf
<1>11. Chain(dl', m, N, L)
  <2>1. m \in Nat /\ Chain(t, m, M, K)
    BY <1>2, <1>3
  <2>2. dl'.head = t.head /\ dl'.tail = t.tail /\ dl'.delta = t.delta
    BY <1>7
  <2>3. \A i \in 1 .. m : /\ N[i] = M[i] /\ L[i] = K[i]
                          /\ dl'.next[M[i]] = t.next[M[i]]
                          /\ dl'.prev[M[i]] = t.prev[M[i]]
                          /\ dl'.nd[M[i]] = t.nd[M[i]]
    BY <1>9, <1>10
  <2> HIDE DEF N, L
  <2> QED
    BY <2>1, <2>2, <2>3, ChainFrame
<1>12. NoneDue'
  <2>1. \A e \in Data : Holds(w, e) => Holds(queue, e)
    BY <1>1, WithoutHolds DEF HTypeOK, Indexed, w
  <2>2. \A i \in 1 .. Len(w) : Holds(w, w[i]) /\ w[i] \in Data /\ w[i] # d
    BY <1>2 DEF Holds
  <2>3. \A i \in 1 .. Len(w) : \E j \in 1 .. Len(queue) : queue[j] = w[i]
    BY <2>1, <2>2 DEF Holds
  <2>4. op' # "tick" => \A i \in 1 .. Len(queue) : ttl[queue[i]] > 0
    BY <1>1, <1>5 DEF Represents, NoneDue
  <2>5. \A i \in 1 .. Len(w) : ttl'[w[i]] = ttl[w[i]]
    BY <1>4, <2>2
  <2>6. op' # "tick" => \A i \in 1 .. Len(w) : ttl'[w[i]] > 0
    BY <2>3, <2>4, <2>5
  <2> QED
    BY <1>4, <2>6 DEF NoneDue
<1> QED
  BY <1>1, <1>2, <1>4, <1>5, <1>11, <1>12 DEF Represents, CursorOK

\* The state of the list while the promise is in force and no clear runs.
LEMMA HeadOfQueue ==
    ASSUME HTypeOK, Indexed, Represents, inForce, op # "clear"
    PROVE  /\ queue = <<>> <=> dl.head = NULL
           /\ dl.head # NULL =>
                 /\ Len(queue) > 0 /\ queue[1] \in Data
                 /\ dl.head = ht[queue[1]] /\ dl.head \in Live /\ data[dl.head] = queue[1]
                 /\ dl.nd[dl.head] = ttl[queue[1]]
<1> DEFINE n == Len(queue)
           N == NodesOf(queue)
           L == TicksOf(queue)
<1>1. /\ n \in Nat /\ Chain(dl, n, N, L) /\ (queue = <<>> <=> n = 0) /\ ~fault
      /\ \A i \in 1 .. n : /\ N[i] = ht[queue[i]] /\ N[i] \in Live /\ queue[i] \in Data
                           /\ L[i] = ttl[queue[i]]
  BY StateRow DEF Represents, HTypeOK
<1> HIDE DEF N, L
<1>2. CASE n = 0
  BY <1>1, <1>2 DEF Chain
<1>3. CASE n > 0
  <2>1. 1 \in 1 .. n
    BY <1>1, <1>3
  <2>2. dl.head = N[1] /\ dl.nd[N[1]] = L[1]
    BY <1>1, <1>3, <2>1 DEF Chain
  <2>3. N[1] \in Live /\ N[1] # NULL /\ N[1] = ht[queue[1]]
    BY <1>1, <2>1, ConstantsAssumption DEF Live
  <2>4. data[N[1]] = queue[1]
    BY <1>1, <2>1, <2>3 DEF Indexed
  <2> QED
    BY <1>1, <1>3, <2>1, <2>2, <2>3, <2>4
<1> QED
  BY <1>1, <1>2, <1>3

\* The first step of delta_tick.
LEMMA TickRepresents ==
    ASSUME HTypeOK, Indexed, Represents, inForce', HTickStart
    PROVE  Represents'
<1> DEFINE n == Len(queue)
           N == NodesOf(queue)
           L == TicksOf(queue)
           K == TicksOf(queue)'
<1>1. inForce /\ op = "idle" /\ ~fault /\ dl.head # NULL /\ queue' = queue
  BY DEF HTickStart, TickStart, HTick, Idle
<1>2. dl.head \in Live /\ n > 0 /\ n \in Nat
  BY <1>1, HeadOfQueue DEF HTypeOK
<1>3. /\ dl' = [dl EXCEPT !.delta = Sub(@, 1), !.nd[dl.head] = Sub(@, 1)]
      /\ op' = "tick" /\ UNCHANGED <<ht, data, it, fault>>
  BY <1>2 DEF HTickStart, TickStart
<1>4. /\ Row(n, N, L) /\ Chain(dl, n, N, L) /\ dl \in ListType
      /\ \A i \in 1 .. n : queue[i] \in Data /\ L[i] = ttl[queue[i]] /\ L[i] > 0
  BY <1>1, StateRow DEF Represents, NoneDue, HTypeOK, TypeOK
<1>5. \A i \in 1 .. n : L[i] > 0 /\ K[i] = L[i] - 1
  BY <1>1, <1>4 DEF HTickStart, HTick, TicksOf
<1>6. NodesOf(queue)' = N
  BY <1>1, <1>3 DEF NodesOf
<1> HIDE DEF N, L, K, n
<1>7. Chain(dl', n, N, K)
  BY <1>2, <1>3, <1>4, <1>5, TickChain
<1> QED
  BY <1>1, <1>3, <1>6, <1>7 DEF Represents, NoneDue, CursorOK, n, K

\* Every step keeps Represents.
LEMMA RepresentsStep ==
    ASSUME HTypeOK, Indexed, Represents, HNext
    PROVE  Represents'
<1> SUFFICES ASSUME inForce' PROVE Represents'
  BY DEF Represents
<1>1. ASSUME NEW d \in Data, HUpdate(d) PROVE Represents'
  <2>1. Idle /\ HAdd(d) /\ \/ ht[d] # NULL /\ Relocate(ht[d])
                           \/ ht[d] = NULL /\ AddNode(d)
    BY <1>1 DEF HUpdate, delta_update
  <2> QED
    BY <2>1, RelocateRepresents, AddRepresents
<1>2. ASSUME NEW d \in Data, HInsert(d) PROVE Represents'
  BY <1>2, AddRepresents DEF HInsert, delta_insert
<1>3. ASSUME NEW d \in Data, HRemove(d) PROVE Represents'
  BY <1>3, DeleteRepresents DEF HRemove, delta_remove, Idle
<1>4. CASE HTickStart
  BY <1>4, TickRepresents
<1>5. CASE HExpire
  <2>1. inForce /\ op = "tick" /\ ~fault /\ dl.head # NULL
    BY <1>5 DEF HExpire, Expire, HDrop, hist
  <2>2. dl.head \in Live /\ data[dl.head] \in Data
    BY <2>1, HeadOfQueue
  <2>3. delta_delete(data[dl.head]) /\ HDrop(data[dl.head])
    BY <1>5, <2>2 DEF HExpire, Expire
  <2> QED
    BY <2>1, <2>2, <2>3, DeleteRepresents
<1>6. CASE HTickEnd
  <2>1. inForce /\ op = "tick" /\ UNCHANGED <<dl, ht, data, it, fault, queue, ttl>> /\ op' = "idle"
    BY <1>6 DEF HTickEnd, TickEnd, hist
  <2>2. ASSUME NEW i \in 1 .. Len(queue) PROVE ttl[queue[i]] > 0
    <3>1. dl.head # NULL /\ Len(queue) \in Nat /\ 1 \in 1 .. Len(queue)
      BY <2>1, <2>2, HeadOfQueue DEF HTypeOK
    <3>2. ttl[queue[1]] # 0
      BY <1>6, <2>1, <3>1, HeadOfQueue DEF HTickEnd, TickEnd
    <3>3. ttl[queue[1]] <= ttl[queue[i]]
      <4>1. i # 1 => TicksOf(queue)[1] <= TicksOf(queue)[i]
        BY <2>1, <2>2, <3>1 DEF Represents, Chain
      <4> QED
        BY <2>1, <3>1, <4>1, StateRow DEF TicksOf, Represents
    <3>4. ttl[queue[1]] \in Nat /\ ttl[queue[i]] \in Nat
      BY <2>1, <3>1, StateRow, ConstantsAssumption DEF Represents
    <3> QED
      BY <3>2, <3>3, <3>4
  <2> QED
    BY <2>1, <2>2 DEF Represents, NodesOf, TicksOf, NoneDue, CursorOK
<1>7. CASE HTickEmpty
  <2>1. inForce /\ op = "idle" /\ UNCHANGED vars /\ queue' = queue /\ dl.head = NULL
    BY <1>7 DEF HTickEmpty, TickEmpty, HTick, Idle
  <2>2. queue = <<>>
    BY <2>1, HeadOfQueue
  <2>3. Len(queue) = 0
    BY <2>2
  <2>4. Chain(dl, 0, NodesOf(queue), TicksOf(queue))
    BY <2>1, <2>3 DEF Represents
  <2>5. Chain(dl', Len(queue'), NodesOf(queue)', TicksOf(queue)')
    BY <2>1, <2>3, <2>4 DEF Chain, vars
  <2> QED
    BY <2>1, <2>3, <2>5 DEF Represents, NoneDue, CursorOK, vars
<1>8. CASE HForeachStart \/ HForeachCall \/ HForeachBreak \/ HForeachEnd \/ HClearStart
  <2>1. inForce /\ op \in {"idle", "foreach"} /\ UNCHANGED <<queue, ttl>> /\ ~fault
    BY <1>8 DEF HForeachStart, HForeachCall, HForeachBreak, HForeachEnd, HClearStart,
         ForeachStart, ForeachCall, ForeachBreak, ForeachEnd, ClearStart, Idle, HVisit, hist
  <2>2. op = "foreach" => it = NULL \/ it \in Live
    BY <2>1, StateRow DEF Represents, CursorOK
  <2>3. UNCHANGED <<dl, ht, data, fault>> /\ op' # "tick"
    BY <1>8, <2>2 DEF HForeachStart, HForeachCall, HForeachBreak, HForeachEnd, HClearStart,
         ForeachStart, ForeachCall, ForeachBreak, ForeachEnd, ClearStart
  <2>4. Chain(dl', Len(queue'), NodesOf(queue)', TicksOf(queue)') /\ NoneDue'
    BY <2>1, <2>3 DEF Represents, NodesOf, TicksOf, NoneDue
  <2>5. dl.head = NULL \/ \E k \in 1 .. Len(queue) : dl.head = ht[queue[k]] /\ k = 1
    BY <2>1, HeadOfQueue DEF HTypeOK
  <2>6. \A i \in 1 .. Len(queue) : data[ht[queue[i]]] = queue[i]
    BY <2>1, StateRow, ConstantsAssumption DEF Indexed, Live
  <2>7. CASE HForeachStart
    BY <2>1, <2>3, <2>4, <2>5, <2>7 DEF HForeachStart, ForeachStart, Represents, CursorOK
  <2>8. CASE HForeachCall
    <3>1. op = "foreach" /\ op' = "foreach" /\ it' = dl.next[it] /\ it # NULL
      BY <2>1, <2>2, <2>8 DEF HForeachCall, ForeachCall
    <3>2. PICK k \in 1 .. Len(queue) : it = ht[queue[k]]
      BY <2>1, <3>1 DEF Represents, CursorOK
    <3>3. dl.next[ht[queue[k]]] = IF k = Len(queue) THEN NULL ELSE ht[queue[k + 1]]
      BY <2>1 DEF Represents, Chain, NodesOf, HTypeOK
    <3>4. k # Len(queue) => k + 1 \in 1 .. Len(queue)
      BY DEF HTypeOK
    <3> QED
      BY <2>1, <2>3, <2>4, <3>1, <3>2, <3>3, <3>4 DEF Represents, CursorOK
  <2>9. CASE HForeachBreak \/ HForeachEnd
    BY <2>1, <2>3, <2>4, <2>9 DEF HForeachBreak, HForeachEnd, ForeachBreak, ForeachEnd,
         Represents, CursorOK
  <2>10. CASE HClearStart
    <3>1. op' = "clear" /\ it' = dl.head
      BY <2>10 DEF HClearStart, ClearStart
    <3>2. CursorOK'
      BY <2>1, <2>3, <2>5, <2>6, <3>1 DEF CursorOK
    <3> QED
      BY <2>1, <2>3, <2>4, <3>2 DEF Represents
  <2> QED
    BY <1>8, <2>7, <2>8, <2>9, <2>10
<1>9. CASE HClearFree
  <2>1. inForce /\ op = "clear" /\ UNCHANGED <<queue, ttl>> /\ ~fault /\ it # NULL
    BY <1>9 DEF HClearFree, ClearFree, hist
  <2>2. PICK k \in 1 .. Len(queue) :
           /\ it = ht[queue[k]]
           /\ \A i \in k .. Len(queue) : data[ht[queue[i]]] = queue[i]
    BY <2>1 DEF Represents, CursorOK
  <2>3. Len(queue) \in Nat /\ \A i \in 1 .. Len(queue) : queue[i] \in Data /\ ht[queue[i]] # NULL
    BY <2>1 DEF HTypeOK, Indexed, Holds
  <2>4. it \in Live
    <3>1. it \in Addr
      BY <2>1 DEF HTypeOK, TypeOK, AddrOrNull
    <3>2. k \in k .. Len(queue)
      BY <2>3
    <3>3. data[it] = queue[k] /\ queue[k] \in Data
      BY <2>2, <2>3, <3>2
    <3> QED
      BY <3>1, <3>3, ConstantsAssumption DEF Live
  <2>5. /\ it' = dl.next[it] /\ data' = [data EXCEPT ![it] = NULL]
        /\ UNCHANGED <<dl, ht, op, fault>>
    BY <1>9, <2>4 DEF HClearFree, ClearFree
  <2>6. Chain(dl', Len(queue'), NodesOf(queue)', TicksOf(queue)') /\ NoneDue'
    BY <2>1, <2>5 DEF Represents, NodesOf, TicksOf, NoneDue
  <2>7. dl.next[ht[queue[k]]] = IF k = Len(queue) THEN NULL ELSE ht[queue[k + 1]]
    BY <2>1, <2>3 DEF Represents, Chain, NodesOf
  <2>8. ASSUME NEW i \in k + 1 .. Len(queue) PROVE data'[ht[queue[i]]] = queue[i]
    <3>1. i \in k .. Len(queue) /\ k \in k .. Len(queue) /\ i \in 1 .. Len(queue) /\ i # k
      BY <2>3
    <3>2. queue[i] # queue[k]
      BY <2>1, <3>1 DEF Indexed, Injective
    <3>3. ht[queue[i]] # it
      BY <2>2, <3>1, <3>2
    <3>4. ht[queue[i]] \in Addr
      BY <2>3, <3>1 DEF HTypeOK, TypeOK, AddrOrNull
    <3> QED
      BY <2>2, <2>5, <3>1, <3>3, <3>4 DEF HTypeOK, TypeOK
  <2>9. k # Len(queue) => k + 1 \in 1 .. Len(queue)
    BY <2>3
  <2>10. CursorOK'
    BY <2>1, <2>2, <2>5, <2>7, <2>8, <2>9 DEF CursorOK
  <2> QED
    BY <2>1, <2>5, <2>6, <2>10 DEF Represents
<1>10. CASE HClearEnd
  <2>1. /\ inForce /\ queue' = <<>> /\ dl' = EmptyList /\ op' = "idle" /\ ~fault'
    BY <1>10 DEF HClearEnd, ClearEnd
  <2>2. Len(queue') = 0 /\ dl'.head = NULL /\ dl'.delta = 0
    BY <2>1 DEF EmptyList
  <2> QED
    BY <2>1, <2>2 DEF Represents, Chain, NoneDue, CursorOK
<1> QED
  BY <1>1, <1>2, <1>3, <1>4, <1>5, <1>6, <1>7, <1>8, <1>9, <1>10 DEF HNext, DaemonNext

LEMMA QueueInit == HInit => Indexed /\ Represents
<1> SUFFICES ASSUME HInit PROVE Indexed /\ Represents
  OBVIOUS
<1>1. /\ queue = <<>> /\ Len(queue) = 0 /\ op = "idle" /\ ~fault
      /\ dl.head = NULL /\ dl.delta = 0 /\ \A d \in Data : ht[d] = NULL
  BY DEF HInit, Init, EmptyList
<1>2. Indexed
  BY <1>1 DEF Indexed, Injective, Holds
<1>3. Represents
  BY <1>1 DEF Represents, Chain, NoneDue, CursorOK
<1> QED
  BY <1>2, <1>3

LEMMA QueueStep == HTypeOK /\ (Indexed /\ Represents) /\ [HNext]_hvars => (Indexed /\ Represents)'
<1> SUFFICES ASSUME HTypeOK, Indexed, Represents, [HNext]_hvars
             PROVE  (Indexed /\ Represents)'
  OBVIOUS
<1>1. CASE HNext
  BY <1>1, IndexedStep, RepresentsStep
<1>2. CASE UNCHANGED hvars
  <2>1. UNCHANGED <<dl, ht, data, op, it, fault, queue, ttl, inForce>>
    BY <1>2 DEF hvars, hist, vars
  <2>2. Indexed'
    BY <2>1 DEF Indexed
  <2>3. NodesOf(queue)' = NodesOf(queue) /\ TicksOf(queue)' = TicksOf(queue)
    BY <2>1 DEF NodesOf, TicksOf
  <2>4. (NoneDue' <=> NoneDue) /\ (CursorOK' <=> CursorOK)
    BY <2>1 DEF NoneDue, CursorOK
  <2>5. Represents'
    BY <2>1, <2>3, <2>4 DEF Represents
  <2> QED
    BY <2>2, <2>5
<1> QED
  BY <1>1, <1>2

(***************************************************************************)
(* The delta list keeps its promise: as long as no node is unlinked from   *)
(* the end of a longer list, the pointers of common/deltalist.c spell out  *)
(* the refresh order and the ticks left, no freed node is ever used and    *)
(* every cursor stands on a node of the list, for every table size and     *)
(* every interval.                                                         *)
(***************************************************************************)
THEOREM ListRepresentsQueue == HSpec => [](Indexed /\ Represents)
BY QueueInit, QueueStep, TypeCorrect, PTL DEF HSpec

(***************************************************************************)
(* Whatever the list pointers come to, corrupt ones included, the hash     *)
(* table finds exactly the elements that were inserted and neither removed *)
(* nor expired, for every set of elements and every heap.                  *)
(***************************************************************************)
THEOREM TableIndexed == HSpec => []Indexed
<1>1. HTypeOK /\ Indexed /\ [HNext]_hvars => Indexed'
  <2>1. UNCHANGED hvars /\ Indexed => Indexed'
    BY DEF hvars, hist, vars, Indexed
  <2> QED
    BY <2>1, IndexedStep
<1> QED
  BY <1>1, QueueInit, TypeCorrect, PTL DEF HSpec

-----------------------------------------------------------------------------
(***************************************************************************)
(* Refinement of ExpiringList.                                             *)
(***************************************************************************)
\* The guard of ExpiringList's actions holds whenever the lock is free.
LEMMA SettledWhenIdle ==
    ASSUME HTypeOK, Represents, inForce, op # "tick"
    PROVE  Contract!Settled
BY DEF Represents, NoneDue, Contract!Settled, Contract!Listed

\* AtTail, read off the pointers, is what ExpiringList calls the last of several.
LEMMA TailIsLast ==
    ASSUME HTypeOK, Indexed, Represents, inForce, op # "clear", NEW d \in Data
    PROVE  /\ AtTail(d) <=> Contract!LastOfSeveral(d)
           /\ ht[d] # NULL <=> d \in Contract!Listed
<1>0. ~fault /\ Len(queue) \in Nat
  BY DEF Represents, HTypeOK
<1>1. ht[d] # NULL <=> d \in Contract!Listed
  BY <1>0 DEF Indexed, Holds, Contract!Listed
<1>2. CASE ht[d] = NULL
  <2>1. \A i \in 1 .. Len(queue) : queue[i] # d
    BY <1>0, <1>2 DEF Indexed, Holds
  <2>2. ~Contract!LastOfSeveral(d)
    BY <1>0, <2>1 DEF Contract!LastOfSeveral
  <2> QED
    BY <1>1, <1>2, <2>2 DEF AtTail
<1>3. CASE ht[d] # NULL
  <2>1. PICK k \in 1 .. Len(queue) :
              /\ queue[k] = d
              /\ AtTail(d) <=> k = Len(queue) /\ Len(queue) > 1
    BY <1>3, Position
  <2>2. Contract!LastOfSeveral(d) <=> k = Len(queue) /\ Len(queue) > 1
    BY <1>0, <2>1 DEF Indexed, Injective, Contract!LastOfSeveral
  <2> QED
    BY <1>1, <2>1, <2>2
<1> QED
  BY <1>2, <1>3

\* Every step is a step of ExpiringList, or leaves its variables alone.
LEMMA ContractStep ==
    ASSUME HTypeOK, Indexed, Represents, [HNext]_hvars
    PROVE  [Contract!Next]_(Contract!evars)
<1>1. CASE UNCHANGED <<queue, ttl, inForce>>
  BY <1>1 DEF Contract!evars
<1>2. inForce' => inForce
  BY DEF HNext, DaemonNext, HUpdate, HInsert, HRemove, HTickEmpty, HTickStart, HExpire, HTickEnd,
       HForeachStart, HForeachCall, HForeachBreak, HForeachEnd, HClearStart, HClearFree,
       HClearEnd, HAdd, HDrop, HTick, HVisit, hist, hvars
<1>3. inForce' \in BOOLEAN
  BY DEF HNext, DaemonNext, HUpdate, HInsert, HRemove, HTickEmpty, HTickStart, HExpire, HTickEnd,
       HForeachStart, HForeachCall, HForeachBreak, HForeachEnd, HClearStart, HClearFree,
       HClearEnd, HAdd, HDrop, HTick, HVisit, hist, hvars, HTypeOK
<1>4. CASE ~inForce
  BY <1>2, <1>3, <1>4 DEF Contract!Next
<1>5. ASSUME inForce, Idle, NEW d \in Data, HAdd(d) PROVE Contract!Next
  <2>1. Contract!Settled /\ op = "idle"
    BY <1>5, SettledWhenIdle DEF Idle
  <2>2. AtTail(d) <=> Contract!LastOfSeveral(d)
    BY <1>5, <2>1, TailIsLast
  <2>3. CASE AtTail(d)
    BY <1>5, <2>1, <2>2, <2>3 DEF HAdd, Contract!Next, Contract!Void, Contract!LastOfSeveral
  <2>4. CASE ~AtTail(d)
    <3>1. inForce'
      BY <1>5, <2>4 DEF HAdd
    <3>2. Contract!Refresh(d)
      BY <1>5, <2>1, <2>2, <2>4 DEF HAdd, Contract!Refresh, Without
    <3> QED
      BY <1>5, <3>1, <3>2 DEF Contract!Next
  <2> QED
    BY <2>3, <2>4
<1>6. ASSUME inForce, NEW d \in Data, HRemove(d) PROVE Contract!Next
  <2>1. Contract!Settled /\ op = "idle" /\ HDrop(d) /\ ht[d] # NULL
    BY <1>6, SettledWhenIdle DEF Idle, HRemove, delta_remove, delta_delete
  <2>2. (AtTail(d) <=> Contract!LastOfSeveral(d)) /\ d \in Contract!Listed
    BY <1>6, <2>1, TailIsLast
  <2>3. CASE AtTail(d)
    BY <1>6, <2>1, <2>2, <2>3 DEF HDrop, Contract!Next, Contract!Void, Contract!LastOfSeveral
  <2>4. CASE ~AtTail(d)
    <3>1. inForce'
      BY <1>6, <2>1, <2>4 DEF HDrop
    <3>2. Contract!Remove(d)
      BY <2>1, <2>2, <2>4 DEF HDrop, Contract!Remove, Without
    <3> QED
      BY <1>6, <3>1, <3>2 DEF Contract!Next
  <2> QED
    BY <2>3, <2>4
<1>7. CASE inForce /\ (HTickEmpty \/ HTickStart)
  <2>1. Contract!Settled
    BY <1>7, SettledWhenIdle DEF HTickEmpty, HTickStart, TickEmpty, TickStart, Idle
  <2>2. Contract!Tick /\ inForce'
    BY <1>7, <2>1 DEF HTickEmpty, HTickStart, HTick, Contract!Tick
  <2> QED
    BY <1>7, <2>2 DEF Contract!Next
<1>8. CASE inForce /\ HExpire
  <2>1. op = "tick" /\ ~fault /\ dl.head # NULL
    BY <1>8 DEF HExpire, Expire
  <2>2. /\ queue # <<>> /\ queue[1] \in Data /\ dl.head \in Live /\ data[dl.head] = queue[1]
        /\ dl.head = ht[queue[1]] /\ dl.nd[dl.head] = ttl[queue[1]]
    BY <1>8, <2>1, HeadOfQueue
  <2>3. HDrop(queue[1]) /\ ttl[queue[1]] = 0
    BY <1>8, <2>2 DEF HExpire, Expire
  <2>4. ttl' = ttl
    BY <2>2, <2>3 DEF HDrop, HTypeOK
  <2>5. inForce'
    BY <1>8, <2>2, <2>3 DEF HDrop, AtTail
  <2>6. Contract!Expire
    BY <2>2, <2>3, <2>4 DEF HDrop, Contract!Expire, Without
  <2> QED
    BY <1>8, <2>5, <2>6 DEF Contract!Next
<1>9. CASE inForce /\ HClearEnd
  <2>1. Contract!Settled
    BY <1>9, SettledWhenIdle DEF HClearEnd, ClearEnd
  <2>2. Contract!Clear /\ inForce'
    BY <1>9, <2>1 DEF HClearEnd, Contract!Clear
  <2> QED
    BY <1>9, <2>2 DEF Contract!Next
<1>10. CASE HTickEnd \/ HForeachStart \/ HForeachCall \/ HForeachBreak \/ HForeachEnd
            \/ HClearStart \/ HClearFree \/ UNCHANGED hvars
  <2>1. UNCHANGED <<queue, ttl, inForce>>
    BY <1>10 DEF HTickEnd, HForeachStart, HForeachCall, HForeachBreak, HForeachEnd,
         HClearStart, HClearFree, HVisit, hist, hvars
  <2> QED
    BY <1>1, <2>1
<1>11. CASE inForce /\ \E d \in Data : HUpdate(d) \/ HInsert(d)
  BY <1>5, <1>11 DEF HUpdate, HInsert, delta_update, delta_insert
<1>12. CASE inForce /\ \E d \in Data : HRemove(d)
  BY <1>6, <1>12
<1> QED
  BY <1>4, <1>7, <1>8, <1>9, <1>10, <1>11, <1>12 DEF HNext, DaemonNext

(***************************************************************************)
(* While the promise is in force the head's delta is not zero between      *)
(* calls, so delta_tick never takes an unsigned delta below zero.          *)
(***************************************************************************)
THEOREM HeadPositiveHolds == HSpec => []HeadPositive
<1>1. HTypeOK /\ Indexed /\ Represents => HeadPositive
  <2> SUFFICES ASSUME HTypeOK, Indexed, Represents, inForce, op = "idle", dl.head # NULL
               PROVE  dl.nd[dl.head] # 0
    BY DEF HeadPositive
  <2>1. Len(queue) > 0 /\ Len(queue) \in Nat /\ dl.nd[dl.head] = ttl[queue[1]] /\ queue[1] \in Data
    BY HeadOfQueue DEF HTypeOK
  <2>2. ttl[queue[1]] > 0
    <3>1. 1 \in 1 .. Len(queue)
      BY <2>1
    <3> QED
      BY <3>1 DEF Represents, NoneDue
  <2> QED
    BY <2>1, <2>2 DEF HTypeOK
<1> QED
  BY <1>1, ListRepresentsQueue, TypeCorrect, PTL

(***************************************************************************)
(* While the promise is in force delta_tick drops no element before        *)
(* `interval' ticks have passed since its last refresh.                    *)
(***************************************************************************)
THEOREM NoEarlyExpiryHolds == HSpec => NoEarlyExpiry
<1> DEFINE OnTime == \A d \in Data :
                        inForce /\ op = "tick" /\ ht[d] # NULL /\ ht'[d] = NULL => ttl[d] = 0
<1>1. HTypeOK /\ (Indexed /\ Represents) /\ [HNext]_hvars => [OnTime]_hvars
  <2> SUFFICES ASSUME HTypeOK, Indexed, Represents, HNext, inForce, NEW d \in Data,
                      op = "tick", ht[d] # NULL, ht'[d] = NULL
               PROVE  ttl[d] = 0
    OBVIOUS
  <2>1. HExpire
    BY DEF HNext, DaemonNext, HUpdate, HInsert, HRemove, HTickEmpty, HTickStart, HTickEnd,
         HForeachStart, HForeachCall, HForeachBreak, HForeachEnd, HClearStart, HClearFree,
         HClearEnd, delta_update, delta_insert, delta_remove, TickEmpty, TickStart, TickEnd,
         ForeachStart, ForeachCall, ForeachBreak, ForeachEnd, ClearStart, ClearFree, ClearEnd, Idle
  <2>2. dl.head # NULL
    BY <2>1 DEF HExpire, Expire
  <2>3. /\ queue[1] \in Data /\ dl.head \in Live /\ data[dl.head] = queue[1]
        /\ dl.nd[dl.head] = ttl[queue[1]]
    BY <2>2, HeadOfQueue
  <2>4. ttl[queue[1]] = 0 /\ delta_delete(queue[1])
    BY <2>1, <2>3 DEF HExpire, Expire
  <2>5. d = queue[1]
    BY <2>3, <2>4 DEF delta_delete, Crash, HTypeOK, TypeOK
  <2> QED
    BY <2>4, <2>5
<1> QED
  BY <1>1, ListRepresentsQueue, TypeCorrect, PTL DEF HSpec, NoEarlyExpiry

(***************************************************************************)
(* The pointer-level delta list implements ExpiringList: while the promise *)
(* is in force, an element leaves on exactly the tick that exhausts its    *)
(* interval, for every table size and every interval.                      *)
(***************************************************************************)
THEOREM ListImplementsContract == HSpec => ContractSpec
<1>1. HInit => Contract!Init
  BY DEF HInit, Contract!Init
<1>2. HTypeOK /\ (Indexed /\ Represents) /\ [HNext]_hvars => [Contract!Next]_(Contract!evars)
  BY ContractStep
<1> QED
  BY <1>1, <1>2, TypeCorrect, ListRepresentsQueue, PTL DEF HSpec, ContractSpec, Contract!Spec

-----------------------------------------------------------------------------
(***************************************************************************)
(* The list when its promise is no longer in force.  Unlinking the last of *)
(* several nodes leaves delta_tail behind, and from then on nodes lose     *)
(* their place, point at themselves and keep dl_prev pointers to nodes     *)
(* that were freed or moved.  What survives, of the nodes that the hash    *)
(* table knows: a dl_next leads to such a node whose dl_prev leads back,   *)
(* and nothing leads to delta_head.  So no two nodes share a successor and *)
(* the walk from delta_head can never come back to a node.                 *)
(***************************************************************************)
Linked(t, S) == \A a \in S : t.next[a] # NULL => t.next[a] \in S /\ t.prev[t.next[a]] = a

Top(t, S) == t.head # NULL => t.head \in S /\ t.prev[t.head] = NULL

\* The nodes the hash table leads to.
Kept == {a \in Addr : data[a] # NULL /\ ht[data[a]] = a}

\* The nodes a running delta_foreach has passed, and where it is.
Trail ==
    LET N(i) == ht[visited[i]]
        m == Len(visited)
    IN  /\ \A i \in 1 .. m : N(i) \in Kept
        /\ it = IF m = 0 THEN dl.head ELSE dl.next[N(m)]
        /\ m > 0 => N(1) = dl.head
        /\ \A i \in 1 .. m - 1 : N(i + 1) = dl.next[N(i)]

WalkInv ==
    /\ Injective(visited)
    /\ ~fault =>
         /\ Linked(dl, Kept)
         /\ op # "clear" => Top(dl, Kept)
         /\ op = "clear" /\ it # NULL => it \in Kept /\ dl.prev[it] \notin Kept
         /\ op = "foreach" => Trail

\* dl_remove_node takes a node out of the links, whatever its dl_prev is.
LEMMA RemoveLinked ==
    ASSUME NEW t \in ListType, NEW S \in SUBSET Addr, NEW n \in S, Linked(t, S), Top(t, S)
    PROVE  /\ Linked(dl_remove_node(t, n), S \ {n})
           /\ Top(dl_remove_node(t, n), S \ {n})
<1> DEFINE u == dl_remove_node(t, n)
           nx == t.next[n]
           pv == t.prev[n]
           T == S \ {n}
<1>0. /\ t.next \in [Addr -> AddrOrNull] /\ t.prev \in [Addr -> AddrOrNull]
      /\ NULL \notin Addr /\ n \in Addr /\ nx \in AddrOrNull /\ pv \in AddrOrNull
  BY ConstantsAssumption DEF ListType
<1>1. /\ u.prev = IF nx = NULL THEN t.prev ELSE [t.prev EXCEPT ![nx] = pv]
      /\ u.next = IF pv = NULL THEN t.next ELSE [t.next EXCEPT ![pv] = nx]
      /\ u.head = IF pv = NULL THEN nx ELSE t.head
  BY DEF dl_remove_node, ListType
<1> HIDE DEF u
<1>2. \A a \in Addr : u.prev[a] = IF a = nx THEN pv ELSE t.prev[a]
  BY <1>0, <1>1
<1>3. \A a \in Addr : u.next[a] = IF a = pv THEN nx ELSE t.next[a]
  BY <1>0, <1>1
<1>4. nx # NULL => nx \in S /\ t.prev[nx] = n
  BY DEF Linked
<1>5. ASSUME NEW a \in T, u.next[a] # NULL PROVE u.next[a] \in T /\ u.prev[u.next[a]] = a
  <2>1. CASE a = pv
    <3>1. u.next[a] = nx /\ nx # NULL
      BY <1>3, <1>5, <2>1
    <3>2. nx # n
      BY <1>4, <2>1, <3>1
    <3> QED
      BY <1>2, <1>4, <2>1, <3>1, <3>2
  <2>2. CASE a # pv
    <3>1. u.next[a] = t.next[a] /\ t.next[a] \in S /\ t.prev[t.next[a]] = a
      BY <1>3, <1>5, <2>2 DEF Linked
    <3>2. t.next[a] # n /\ t.next[a] # nx
      BY <1>4, <1>5, <2>2, <3>1
    <3> QED
      BY <1>2, <3>1, <3>2
  <2> QED
    BY <2>1, <2>2
<1>6. ASSUME u.head # NULL PROVE u.head \in T /\ u.prev[u.head] = NULL
  <2>1. CASE pv = NULL
    <3>1. u.head = nx /\ nx \in S /\ t.prev[nx] = n
      BY <1>1, <1>4, <1>6, <2>1
    <3>2. nx # n
      BY <1>0, <2>1, <3>1
    <3> QED
      BY <1>2, <2>1, <3>1, <3>2
  <2>2. CASE pv # NULL
    <3>1. u.head = t.head /\ t.head \in S /\ t.prev[t.head] = NULL
      BY <1>1, <1>6, <2>2 DEF Top
    <3>2. t.head # n /\ t.head # nx
      BY <1>0, <1>4, <2>2, <3>1
    <3> QED
      BY <1>2, <3>1, <3>2
  <2> QED
    BY <2>1, <2>2
<1>7. Linked(u, T) /\ Top(u, T)
  BY <1>5, <1>6 DEF Linked, Top
<1> QED
  BY <1>7 DEF u

\* dl_insert_node links a node in, whatever delta_tail is.
LEMMA InsertLinked ==
    ASSUME NEW t \in ListType, NEW S \in SUBSET Addr, NEW n \in Addr \ S, Linked(t, S), Top(t, S)
    PROVE  /\ Linked(dl_insert_node(t, n), S \cup {n})
           /\ Top(dl_insert_node(t, n), S \cup {n})
<1> DEFINE u == dl_insert_node(t, n)
           T == S \cup {n}
<1>0. /\ t.next \in [Addr -> AddrOrNull] /\ t.prev \in [Addr -> AddrOrNull]
      /\ NULL \notin Addr /\ n \in Addr
  BY ConstantsAssumption DEF ListType
<1>1. CASE t.head = NULL
  <2>1. /\ u.head = n /\ u.prev = [t.prev EXCEPT ![n] = NULL]
        /\ u.next = [t.next EXCEPT ![n] = NULL]
    BY <1>1 DEF dl_insert_node, ListType
  <2> HIDE DEF u
  <2>2. \A a \in Addr : /\ u.prev[a] = IF a = n THEN NULL ELSE t.prev[a]
                        /\ u.next[a] = IF a = n THEN NULL ELSE t.next[a]
    BY <1>0, <2>1
  <2>3. Linked(u, T)
    BY <2>2 DEF Linked
  <2>4. Top(u, T)
    BY <1>0, <2>1, <2>2 DEF Top
  <2> QED
    BY <2>3, <2>4 DEF u
<1>2. CASE t.head # NULL
  <2>1. /\ u.head = t.head /\ u.prev = [t.prev EXCEPT ![n] = t.tail]
        /\ u.next = [t.next EXCEPT ![t.tail] = n, ![n] = NULL]
    BY <1>2 DEF dl_insert_node, ListType
  <2> HIDE DEF u
  <2>2. \A a \in Addr : /\ u.prev[a] = IF a = n THEN t.tail ELSE t.prev[a]
                        /\ u.next[a] = IF a = n THEN NULL ELSE IF a = t.tail THEN n ELSE t.next[a]
    BY <1>0, <2>1
  <2>3. Linked(u, T)
    BY <2>2 DEF Linked
  <2>4. Top(u, T)
    BY <1>2, <2>1, <2>2 DEF Top
  <2> QED
    BY <2>3, <2>4 DEF u
<1> QED
  BY <1>1, <1>2

\* Only these fields matter to the links.
LEMMA LinksFrame ==
    ASSUME NEW t \in ListType, NEW u \in ListType, NEW S \in SUBSET Addr,
           u.head = t.head, \A a \in S : u.next[a] = t.next[a] /\ u.prev[a] = t.prev[a]
    PROVE  (Linked(t, S) => Linked(u, S)) /\ (Top(t, S) => Top(u, S))
BY DEF Linked, Top

\* The calls that change the list, outside delta_clear.
LEMMA AddLinked ==
    ASSUME HTypeOK, Linked(dl, Kept), Top(dl, Kept), NEW d \in Data, ht[d] = NULL,
           AddNode(d), ~fault'
    PROVE  Linked(dl', Kept') /\ Top(dl', Kept')
<1>0. TypeOK
  BY DEF HTypeOK
<1>1. PICK n \in Addr \ Live :
         /\ dl' = [dl_insert_node(dl, n) EXCEPT !.size = Add(@, 1)]
         /\ ht' = [ht EXCEPT ![d] = n]
         /\ data' = [data EXCEPT ![n] = d]
  BY DEF AddNode, Crash
<1>2. n \in Addr \ Kept /\ Kept \in SUBSET Addr /\ dl \in ListType
  BY <1>0 DEF Kept, Live, TypeOK
<1>3. Kept' = Kept \cup {n}
  <2>1. \A a \in Addr : data'[a] = IF a = n THEN d ELSE data[a]
    BY <1>0, <1>1 DEF TypeOK
  <2>2. \A e \in Data : ht'[e] = IF e = d THEN n ELSE ht[e]
    BY <1>0, <1>1 DEF TypeOK
  <2>3. \A a \in Addr : data[a] \in Data \cup {NULL}
    BY <1>0 DEF TypeOK
  <2>4. data[n] = NULL /\ d # NULL /\ NULL \notin Addr
    BY ConstantsAssumption DEF Live
  <2>5. \A a \in Addr : a \in Kept' <=> a \in Kept \/ a = n
    BY <2>1, <2>2, <2>3, <2>4 DEF Kept
  <2> QED
    BY <1>2, <2>5 DEF Kept
<1> DEFINE u == dl_insert_node(dl, n)
<1>4. Linked(u, Kept \cup {n}) /\ Top(u, Kept \cup {n}) /\ u \in ListType
  BY <1>2, InsertLinked, InsertType
<1>5. dl' = [u EXCEPT !.size = Add(@, 1)] /\ dl' \in ListType
  BY <1>1, <1>4, SizeType, <1>2
<1> HIDE DEF u
<1>6. dl'.head = u.head /\ dl'.next = u.next /\ dl'.prev = u.prev
  BY <1>4, <1>5 DEF ListType
<1>7. Kept \cup {n} \in SUBSET Addr
  BY <1>2
<1>8. Linked(dl', Kept \cup {n}) /\ Top(dl', Kept \cup {n})
  BY <1>4, <1>5, <1>6, <1>7, LinksFrame
<1> QED
  BY <1>3, <1>8

LEMMA RelocateLinked ==
    ASSUME HTypeOK, Linked(dl, Kept), Top(dl, Kept), NEW n \in Kept,
           Relocate(n), ~fault'
    PROVE  Linked(dl', Kept') /\ Top(dl', Kept')
<1> DEFINE t == dl_remove_node(dl, n)
<1>1. dl' = dl_insert_node(t, n) /\ UNCHANGED <<ht, data>>
  BY DEF Relocate, Crash
<1>2. Kept' = Kept /\ Kept \in SUBSET Addr /\ dl \in ListType /\ n \in Addr
  BY <1>1 DEF Kept, HTypeOK, TypeOK
<1>3. Linked(t, Kept \ {n}) /\ Top(t, Kept \ {n}) /\ t \in ListType
  BY <1>2, RemoveLinked, RemoveType
<1> HIDE DEF t
<1>4. n \in Addr \ (Kept \ {n}) /\ Kept \ {n} \in SUBSET Addr /\ (Kept \ {n}) \cup {n} = Kept
  BY <1>2
<1>5. /\ Linked(dl_insert_node(t, n), (Kept \ {n}) \cup {n})
      /\ Top(dl_insert_node(t, n), (Kept \ {n}) \cup {n})
  BY <1>3, <1>4, InsertLinked
<1> QED
  BY <1>1, <1>2, <1>4, <1>5

LEMMA DeleteLinked ==
    ASSUME HTypeOK, Indexed, ~fault, op # "clear", Linked(dl, Kept), Top(dl, Kept),
           NEW d \in Data, delta_delete(d), ~fault'
    PROVE  Linked(dl', Kept') /\ Top(dl', Kept')
<1> DEFINE n == ht[d]
           t == dl_remove_node(dl, n)
           u == Scrub(t, n)
<1>0. TypeOK
  BY DEF HTypeOK
<1>1. /\ n # NULL /\ dl' = [u EXCEPT !.size = Sub(@, 1)]
      /\ ht' = [ht EXCEPT ![d] = NULL] /\ data' = [data EXCEPT ![n] = NULL]
  BY DEF delta_delete, Crash
<1>2. n \in Addr /\ data[n] = d /\ Kept \in SUBSET Addr /\ dl \in ListType
  BY <1>0, <1>1 DEF TypeOK, AddrOrNull, Kept, Indexed
<1>3. n \in Kept
  BY <1>1, <1>2, ConstantsAssumption DEF Kept
<1>4. Linked(t, Kept \ {n}) /\ Top(t, Kept \ {n}) /\ t \in ListType
  BY <1>2, <1>3, RemoveLinked, RemoveType
<1>5. Kept' = Kept \ {n}
  <2>1. \A a \in Addr : data'[a] = IF a = n THEN NULL ELSE data[a]
    BY <1>0, <1>1 DEF TypeOK
  <2>2. \A e \in Data : ht'[e] = IF e = d THEN NULL ELSE ht[e]
    BY <1>0, <1>1 DEF TypeOK
  <2>3. \A a \in Addr : data[a] \in Data \cup {NULL}
    BY <1>0 DEF TypeOK
  <2>4. \A a \in Addr : a \in Kept' <=> a \in Kept /\ a # n
    BY <2>1, <2>2, <2>3, ConstantsAssumption DEF Kept
  <2> QED
    BY <1>2, <2>4 DEF Kept
<1> HIDE DEF n, t
<1>6. u \in ListType /\ dl' \in ListType
  BY <1>1, <1>2, <1>4, SizeType
<1>7. /\ u.head = t.head
      /\ \A a \in Kept \ {n} : u.next[a] = t.next[a] /\ u.prev[a] = t.prev[a]
  BY <1>2, <1>4 DEF Scrub, ListType
<1> HIDE DEF u
<1>8. dl'.head = u.head /\ dl'.next = u.next /\ dl'.prev = u.prev
  BY <1>1, <1>6 DEF ListType
<1>9. Kept \ {n} \in SUBSET Addr
  BY <1>2
<1>10. /\ dl'.head = t.head
       /\ \A a \in Kept \ {n} : dl'.next[a] = t.next[a] /\ dl'.prev[a] = t.prev[a]
  BY <1>7, <1>8
<1> QED
  BY <1>4, <1>5, <1>6, <1>9, <1>10, LinksFrame

\* The walk comes to a node it has not seen.
LEMMA WalkedNew ==
    ASSUME HTypeOK, Indexed, WalkInv, ~fault, op = "foreach", it # NULL
    PROVE  /\ it \in Kept /\ data[it] \in Data
           /\ \A i \in 1 .. Len(visited) : visited[i] # data[it]
<1> DEFINE N(i) == ht[visited[i]]
           m == Len(visited)
<1>1. /\ Linked(dl, Kept) /\ Top(dl, Kept) /\ Trail /\ Injective(visited)
  BY DEF WalkInv
<1>2. visited \in Seq(Data) /\ m \in Nat /\ \A i \in 1 .. m : visited[i] \in Data
  BY DEF HTypeOK
<1>3. /\ \A i \in 1 .. m : N(i) \in Kept
      /\ it = IF m = 0 THEN dl.head ELSE dl.next[N(m)]
      /\ m > 0 => N(1) = dl.head
      /\ \A i \in 1 .. m - 1 : N(i + 1) = dl.next[N(i)]
  BY <1>1 DEF Trail
<1>4. \A a \in Kept : a \in Addr /\ a # NULL /\ data[a] \in Data /\ ht[data[a]] = a
  BY ConstantsAssumption DEF Kept, HTypeOK, TypeOK
<1>5. \A i \in 1 .. m : data[N(i)] = visited[i]
  <2> SUFFICES ASSUME NEW i \in 1 .. m PROVE data[N(i)] = visited[i]
    OBVIOUS
  <2>1. visited[i] \in Data /\ ht[visited[i]] # NULL
    BY <1>2, <1>3, <1>4
  <2> QED
    BY <2>1 DEF Indexed
<1> HIDE DEF N, m
<1>6. CASE m = 0
  <2>1. it \in Kept
    BY <1>1, <1>3, <1>6 DEF Top
  <2> QED
    BY <1>4, <1>6, <2>1 DEF m
<1>7. CASE m > 0
  <2>1. m \in 1 .. m /\ 1 \in 1 .. m
    BY <1>2, <1>7
  <2>2. it = dl.next[N(m)] /\ N(m) \in Kept
    BY <1>3, <1>7, <2>1
  <2>3. it \in Kept /\ dl.prev[it] = N(m)
    BY <1>1, <2>2 DEF Linked
  <2>4. ASSUME NEW i \in 1 .. m PROVE N(i) # it
    <3>1. CASE i = 1
      <4>1. N(i) = dl.head /\ dl.head \in Kept
        BY <1>3, <1>7, <2>1, <3>1
      <4>2. dl.prev[dl.head] = NULL
        BY <1>1, <1>4, <4>1 DEF Top
      <4> QED
        BY <1>4, <2>2, <2>3, <4>1, <4>2
    <3>2. CASE i # 1
      <4>1. i - 1 \in 1 .. m - 1 /\ i - 1 \in 1 .. m /\ i - 1 # m /\ (i - 1) + 1 = i
        BY <1>2, <3>2
      <4>2. N(i) = dl.next[N(i - 1)] /\ N(i - 1) \in Kept
        BY <1>3, <4>1
      <4>3. N(i) \in Kept
        BY <1>3
      <4>4. dl.prev[N(i)] = N(i - 1)
        BY <1>1, <1>4, <4>2, <4>3 DEF Linked
      <4>5. visited[i - 1] # visited[m]
        BY <1>1, <2>1, <4>1 DEF Injective, m
      <4>6. N(i - 1) # N(m)
        BY <1>5, <2>1, <4>1, <4>5
      <4> QED
        BY <2>3, <4>4, <4>6
    <3> QED
      BY <3>1, <3>2
  <2>5. ASSUME NEW i \in 1 .. m PROVE visited[i] # data[it]
    <3>1. ht[data[it]] = it
      BY <1>4, <2>3
    <3> QED
      BY <2>4, <3>1 DEF N
  <2> QED
    BY <1>4, <2>3, <2>5 DEF m
<1> QED
  BY <1>2, <1>6, <1>7

LEMMA WalkStep ==
    ASSUME HTypeOK, Indexed, WalkInv, HNext
    PROVE  WalkInv'
<1>0. TypeOK /\ visited \in Seq(Data)
  BY DEF HTypeOK
<1>a. Kept \in SUBSET Addr /\ NULL \notin Kept /\ dl \in ListType
  BY <1>0, ConstantsAssumption DEF Kept, TypeOK
<1>1. ASSUME op \in {"idle", "tick"}, ~fault, op' = op, visited' = visited,
             ~fault' => Linked(dl', Kept') /\ Top(dl', Kept')
      PROVE  WalkInv'
  BY <1>1 DEF WalkInv
<1>2. ASSUME NEW d \in Data, HUpdate(d) PROVE WalkInv'
  <2>1. op = "idle" /\ ~fault /\ op' = op /\ visited' = visited
    BY <1>2 DEF HUpdate, delta_update, Idle, AddNode, Relocate, Crash, HAdd
  <2>2. Linked(dl, Kept) /\ Top(dl, Kept)
    BY <2>1 DEF WalkInv
  <2>3. ASSUME ht[d] # NULL PROVE ht[d] \in Kept
    BY <1>0, <2>1, <2>3, ConstantsAssumption DEF Kept, Indexed, TypeOK, AddrOrNull
  <2>4. ~fault' => Linked(dl', Kept') /\ Top(dl', Kept')
    BY <1>2, <2>2, <2>3, AddLinked, RelocateLinked DEF HUpdate, delta_update
  <2> QED
    BY <1>1, <2>1, <2>4
<1>3. ASSUME NEW d \in Data, HInsert(d) PROVE WalkInv'
  <2>1. op = "idle" /\ ~fault /\ op' = op /\ visited' = visited
    BY <1>3 DEF HInsert, delta_insert, Idle, AddNode, Crash, HAdd
  <2>2. Linked(dl, Kept) /\ Top(dl, Kept)
    BY <2>1 DEF WalkInv
  <2>4. ~fault' => Linked(dl', Kept') /\ Top(dl', Kept')
    BY <1>3, <2>2, AddLinked DEF HInsert, delta_insert
  <2> QED
    BY <1>1, <2>1, <2>4
<1>4. ASSUME NEW d \in Data, HRemove(d) PROVE WalkInv'
  <2>1. op = "idle" /\ ~fault /\ op' = op /\ visited' = visited
    BY <1>4 DEF HRemove, delta_remove, Idle, delta_delete, Crash, HDrop
  <2>2. Linked(dl, Kept) /\ Top(dl, Kept)
    BY <2>1 DEF WalkInv
  <2>4. ~fault' => Linked(dl', Kept') /\ Top(dl', Kept')
    BY <1>4, <2>1, <2>2, DeleteLinked DEF HRemove, delta_remove
  <2> QED
    BY <1>1, <2>1, <2>4
<1>5. CASE HExpire
  <2>1. op = "tick" /\ ~fault /\ op' = op /\ visited' = visited
    BY <1>5 DEF HExpire, Expire, delta_delete, Crash, HDrop, hist
  <2>2. Linked(dl, Kept) /\ Top(dl, Kept)
    BY <2>1 DEF WalkInv
  <2>3. ASSUME ~fault' PROVE Linked(dl', Kept') /\ Top(dl', Kept')
    <3>1. dl.head \in Live /\ delta_delete(data[dl.head])
      BY <1>5, <2>3 DEF HExpire, Expire, Crash
    <3>2. data[dl.head] \in Data
      BY <1>0, <3>1 DEF Live, TypeOK
    <3> QED
      BY <2>1, <2>2, <2>3, <3>1, <3>2, DeleteLinked
  <2> QED
    BY <1>1, <2>1, <2>3
<1>6. CASE HTickEmpty \/ HTickStart \/ HTickEnd
  <2>1. /\ op \in {"idle", "tick"} /\ ~fault /\ op' \in {"idle", "tick"}
        /\ visited' = visited /\ UNCHANGED <<ht, data>>
    BY <1>6 DEF HTickEmpty, HTickStart, HTickEnd, TickEmpty, TickStart, TickEnd,
         Idle, Crash, HTick, hist, vars
  <2>2. Linked(dl, Kept) /\ Top(dl, Kept) /\ Kept' = Kept
    BY <2>1 DEF WalkInv, Kept
  <2>3. dl'.head = dl.head /\ dl'.next = dl.next /\ dl'.prev = dl.prev
    BY <1>0, <1>6 DEF HTickEmpty, HTickStart, HTickEnd, TickEmpty, TickStart, TickEnd,
         Crash, vars, TypeOK, ListType
  <2>4. Linked(dl', Kept) /\ Top(dl', Kept)
    BY <2>2, <2>3 DEF Linked, Top
  <2> QED
    BY <2>1, <2>2, <2>4 DEF WalkInv
<1>7. CASE HForeachStart
  <2>1. /\ op = "idle" /\ ~fault /\ op' = "foreach" /\ visited' = <<>> /\ it' = dl.head
        /\ UNCHANGED <<dl, ht, data, fault>>
    BY <1>7 DEF HForeachStart, ForeachStart, Idle, HVisit
  <2>2. Linked(dl, Kept) /\ Top(dl, Kept) /\ Kept' = Kept
    BY <2>1 DEF WalkInv, Kept
  <2>3. Len(visited') = 0
    BY <2>1
  <2>4. Trail' /\ Injective(visited')
    BY <2>1, <2>3 DEF Trail, Injective
  <2> QED
    BY <2>1, <2>2, <2>4 DEF WalkInv
<1>8. CASE HForeachCall
  <2>1. /\ op = "foreach" /\ ~fault /\ op' = op /\ it # NULL /\ UNCHANGED <<dl, ht, data>>
    BY <1>8 DEF HForeachCall, ForeachCall, Crash
  <2>2. /\ it \in Kept /\ data[it] \in Data
        /\ \A i \in 1 .. Len(visited) : visited[i] # data[it]
    BY <2>1, WalkedNew
  <2>3. it \in Live
    BY <2>2 DEF Kept, Live
  <2>4. it' = dl.next[it] /\ visited' = Append(visited, data[it]) /\ fault' = fault
    BY <1>8, <2>3 DEF HForeachCall, ForeachCall, HVisit
  <2> DEFINE m == Len(visited)
  <2>5. /\ m \in Nat /\ Len(visited') = m + 1 /\ visited'[m + 1] = data[it]
        /\ \A i \in 1 .. m : visited'[i] = visited[i]
    BY <1>0, <2>2, <2>4
  <2>6. Injective(visited) /\ Trail /\ Linked(dl, Kept) /\ Top(dl, Kept) /\ Kept' = Kept
    BY <2>1 DEF WalkInv, Kept
  <2>7. ht[data[it]] = it
    BY <2>2 DEF Kept
  <2>8. /\ \A i \in 1 .. m : ht[visited[i]] \in Kept
        /\ it = IF m = 0 THEN dl.head ELSE dl.next[ht[visited[m]]]
        /\ m > 0 => ht[visited[1]] = dl.head
        /\ \A i \in 1 .. m - 1 : ht[visited[i + 1]] = dl.next[ht[visited[i]]]
    BY <2>6 DEF Trail
  <2>9. Injective(visited')
    BY <2>2, <2>5, <2>6 DEF Injective
  <2> HIDE DEF m
  <2>10. /\ \A i \in 1 .. m + 1 : ht'[visited'[i]] \in Kept'
         /\ it' = dl'.next[ht'[visited'[m + 1]]]
    <3>1. ASSUME NEW i \in 1 .. m + 1 PROVE ht'[visited'[i]] \in Kept'
      <4>1. i \in 1 .. m \/ i = m + 1
        BY <2>5
      <4> QED
        BY <2>1, <2>2, <2>5, <2>6, <2>7, <2>8, <4>1
    <3>2. ht'[visited'[m + 1]] = it
      BY <2>1, <2>5, <2>7
    <3> QED
      BY <2>1, <2>4, <3>1, <3>2
  <2>11. ht'[visited'[1]] = dl'.head
    <3>1. CASE m = 0
      <4>1. visited'[1] = data[it]
        BY <2>5, <3>1
      <4> QED
        BY <2>1, <2>7, <2>8, <3>1, <4>1
    <3>2. CASE m # 0
      <4>1. m > 0 /\ 1 \in 1 .. m
        BY <2>5, <3>2
      <4> QED
        BY <2>1, <2>5, <2>8, <4>1
    <3> QED
      BY <3>1, <3>2
  <2>12. \A i \in 1 .. m : ht'[visited'[i + 1]] = dl'.next[ht'[visited'[i]]]
    <3> SUFFICES ASSUME NEW i \in 1 .. m
                 PROVE  ht'[visited'[i + 1]] = dl'.next[ht'[visited'[i]]]
      OBVIOUS
    <3>1. CASE i = m
      <4>1. m # 0
        BY <2>5, <3>1
      <4> QED
        BY <2>1, <2>5, <2>7, <2>8, <3>1, <4>1
    <3>2. CASE i # m
      <4>1. i \in 1 .. m - 1 /\ i + 1 \in 1 .. m
        BY <2>5, <3>2
      <4> QED
        BY <2>1, <2>5, <2>8, <4>1
    <3> QED
      BY <3>1, <3>2
  <2>13. Trail'
    <3>1. m + 1 > 0 /\ m + 1 # 0 /\ m + 1 - 1 = m
      BY <2>5
    <3> QED
      BY <2>5, <2>10, <2>11, <2>12, <3>1 DEF Trail
  <2> QED
    BY <2>1, <2>4, <2>6, <2>9, <2>13 DEF WalkInv
<1>9. CASE HForeachBreak \/ HForeachEnd
  <2>1. /\ op = "foreach" /\ ~fault /\ op' = "idle" /\ visited' = <<>>
        /\ UNCHANGED <<dl, ht, data, fault>>
    BY <1>9 DEF HForeachBreak, HForeachEnd, ForeachBreak, ForeachEnd, HVisit
  <2>2. Linked(dl, Kept) /\ Top(dl, Kept) /\ Kept' = Kept
    BY <2>1 DEF WalkInv, Kept
  <2>3. Len(visited') = 0
    BY <2>1
  <2>4. Injective(visited')
    BY <2>1, <2>3 DEF Injective
  <2> QED
    BY <2>1, <2>2, <2>4 DEF WalkInv
<1>10. CASE HClearStart
  <2>1. /\ op = "idle" /\ ~fault /\ op' = "clear" /\ visited' = visited /\ it' = dl.head
        /\ UNCHANGED <<dl, ht, data, fault>>
    BY <1>10 DEF HClearStart, ClearStart, Idle, hist
  <2>2. Linked(dl, Kept) /\ Top(dl, Kept) /\ Kept' = Kept /\ Injective(visited)
    BY <2>1 DEF WalkInv, Kept
  <2>3. it' # NULL => it' \in Kept /\ dl.prev[it'] \notin Kept
    BY <1>a, <2>1, <2>2 DEF Top
  <2> QED
    BY <2>1, <2>2, <2>3 DEF WalkInv
<1>11. CASE HClearFree
  <2>1. op = "clear" /\ ~fault /\ op' = op /\ visited' = visited /\ it # NULL /\ UNCHANGED <<dl, ht>>
    BY <1>11 DEF HClearFree, ClearFree, Crash, hist
  <2>2. Linked(dl, Kept) /\ Injective(visited) /\ it \in Kept /\ dl.prev[it] \notin Kept
    BY <2>1 DEF WalkInv
  <2>3. it \in Live
    BY <2>2 DEF Kept, Live
  <2>4. it' = dl.next[it] /\ data' = [data EXCEPT ![it] = NULL] /\ fault' = fault
    BY <1>11, <2>3 DEF HClearFree, ClearFree
  <2>5. Kept' = Kept \ {it}
    <3>1. \A a \in Addr : data'[a] = IF a = it THEN NULL ELSE data[a]
      BY <1>0, <2>4 DEF TypeOK
    <3> QED
      BY <2>1, <3>1 DEF Kept
  <2>6. Linked(dl, Kept \ {it})
    BY <1>a, <2>2 DEF Linked
  <2>7. it' # NULL => it' \in Kept \ {it} /\ dl.prev[it'] \notin Kept \ {it}
    BY <1>a, <2>2, <2>4 DEF Linked
  <2> QED
    BY <2>1, <2>2, <2>5, <2>6, <2>7 DEF WalkInv
<1>12. CASE HClearEnd
  <2>1. /\ op' = "idle" /\ dl' = EmptyList /\ ht' = [d \in Data |-> NULL]
        /\ UNCHANGED <<data, visited>>
    BY <1>12 DEF HClearEnd, ClearEnd
  <2>2. Kept' = {}
    <3>1. \A a \in Addr : data[a] # NULL => ht'[data[a]] = NULL /\ a # NULL
      BY <1>0, <2>1, ConstantsAssumption DEF TypeOK
    <3> QED
      BY <2>1, <3>1 DEF Kept
  <2>3. dl'.head = NULL
    BY <2>1 DEF EmptyList
  <2> QED
    BY <2>1, <2>2, <2>3 DEF WalkInv, Linked, Top
<1> QED
  BY <1>2, <1>3, <1>4, <1>5, <1>6, <1>7, <1>8, <1>9, <1>10, <1>11, <1>12 DEF HNext, DaemonNext

LEMMA WalkInvInit == HInit => WalkInv
<1> SUFFICES ASSUME HInit PROVE WalkInv
  OBVIOUS
<1>1. /\ visited = <<>> /\ op = "idle" /\ dl.head = NULL /\ \A a \in Addr : data[a] = NULL
  BY DEF HInit, Init, EmptyList
<1>2. Len(visited) = 0
  BY <1>1
<1>3. Injective(visited)
  BY <1>2 DEF Injective
<1> QED
  BY <1>1, <1>3 DEF WalkInv, Linked, Top, Kept

LEMMA WalkInvStep == HTypeOK /\ Indexed /\ WalkInv /\ [HNext]_hvars => WalkInv'
<1> SUFFICES ASSUME HTypeOK, Indexed, WalkInv, UNCHANGED hvars PROVE WalkInv'
  BY WalkStep
<1>1. UNCHANGED <<dl, ht, data, op, it, fault, visited>>
  BY DEF hvars, hist, vars
<1>2. Kept' = Kept /\ (Trail' <=> Trail)
  BY <1>1 DEF Kept, Trail
<1> QED
  BY <1>1, <1>2 DEF WalkInv

(***************************************************************************)
(* However corrupt the list has become: delta_foreach, delta_clear and     *)
(* delta_tick's loop walk over allocated nodes only, and delta_foreach     *)
(* calls its function on no element twice, for every heap and every        *)
(* sequence of calls.                                                      *)
(***************************************************************************)
THEOREM WalksAreSafe == HSpec => []WalkSafe
<1>1. HTypeOK /\ Indexed /\ WalkInv => WalkSafe
  <2> SUFFICES ASSUME HTypeOK, Indexed, WalkInv PROVE WalkSafe
    OBVIOUS
  <2>1. Kept \subseteq Live
    BY DEF Kept, Live
  <2>2. ~fault /\ op = "foreach" /\ it # NULL => it \in Live
    BY <2>1, WalkedNew
  <2>3. ~fault /\ op = "clear" /\ it # NULL => it \in Live
    BY <2>1 DEF WalkInv
  <2>4. ~fault /\ op \in {"idle", "tick"} /\ dl.head # NULL => dl.head \in Live
    BY <2>1 DEF WalkInv, Top
  <2>5. Injective(visited)
    BY DEF WalkInv
  <2> QED
    BY <2>2, <2>3, <2>4, <2>5 DEF WalkSafe, Injective
<1> QED
  BY <1>1, WalkInvInit, WalkInvStep, TypeCorrect, TableIndexed, PTL DEF HSpec
=============================================================================
