-------------------------- MODULE RouterListProof --------------------------
(***************************************************************************)
(* Proofs about the list of routers, for any heap, any routers and any     *)
(* number of handler threads.                                              *)
(***************************************************************************)
EXTENDS RouterList, TLAPS

Item == [addr : Addr, router : Router]

Anchor == {"routers", "tmp"}

\* Ring, of any links and contents.
Linked(nx, pv, en, h, q) ==
    /\ \A i \in 0 .. Len(q) : /\ nx[At(h, q, i)] = At(h, q, i + 1)
                              /\ pv[At(h, q, i + 1)] = At(h, q, i)
    /\ \A i \in 1 .. Len(q) : en[q[i].addr] = q[i].router

-----------------------------------------------------------------------------
(***************************************************************************)
(* The list operations on rings.                                           *)
(***************************************************************************)
LEMMA Elements ==
  ASSUME NEW q \in Seq(Item)
  PROVE  /\ Len(q) \in Nat
         /\ \A i \in 1 .. Len(q) : /\ q[i].addr \in Addr /\ q[i].addr \in Node
                                  /\ q[i].router \in Router
<1>1. Len(q) \in Nat /\ \A i \in 1 .. Len(q) : q[i] \in Item
  OBVIOUS
<1>2. \A x \in Item : x.addr \in Addr /\ x.addr \in Node /\ x.router \in Router
  BY DEF Item, Node
<1> QED
  BY <1>1, <1>2

LEMMA OnRing ==
  ASSUME NEW h \in Anchor, NEW q \in Seq(Item), NEW i \in Int
  PROVE  /\ At(h, q, i) \in Entries(q) \cup {h}
         /\ At(h, q, i) \in Node
         /\ Entries(q) \subseteq Addr
<1>1. \A k \in 1 .. Len(q) : q[k].addr \in Addr
  BY Elements
<1>2. CASE i \in 1 .. Len(q)
  BY <1>1, <1>2 DEF At, Entries, Node
<1>3. CASE i \notin 1 .. Len(q)
  BY <1>1, <1>3 DEF At, Entries, Node, Anchor
<1> QED
  BY <1>2, <1>3

LEMMA Anchors ==
  ASSUME NEW h \in Anchor
  PROVE  h \in Node /\ h \notin Addr
BY RouterListAssumption DEF Anchor, Node


\* Links and contents of other nodes do not matter.
LEMMA Untouched ==
  ASSUME NEW h \in Anchor, NEW q \in Seq(Item),
         NEW nx, NEW pv, NEW en, NEW nx2, NEW pv2, NEW en2,
         Linked(nx, pv, en, h, q),
         \A n \in Entries(q) \cup {h} : nx2[n] = nx[n] /\ pv2[n] = pv[n],
         \A a \in Entries(q) : en2[a] = en[a]
  PROVE  Linked(nx2, pv2, en2, h, q)
<1>1. \A i \in 0 .. Len(q) : i \in Int /\ i + 1 \in Int
  OBVIOUS
<1>2. \A i \in 0 .. Len(q) : /\ At(h, q, i) \in Entries(q) \cup {h}
                             /\ At(h, q, i + 1) \in Entries(q) \cup {h}
  BY <1>1, OnRing
<1>3. \A i \in 0 .. Len(q) : /\ nx2[At(h, q, i)] = At(h, q, i + 1)
                             /\ pv2[At(h, q, i + 1)] = At(h, q, i)
  BY <1>2 DEF Linked
<1>4. \A i \in 1 .. Len(q) : en2[q[i].addr] = q[i].router
  BY DEF Linked, Entries
<1> QED
  BY <1>3, <1>4 DEF Linked

\* What the links of the head and of the first entry lead to.
LEMMA Ends ==
  ASSUME NEW h \in Anchor, NEW q \in Seq(Item), NEW nx, NEW pv, NEW en,
         Linked(nx, pv, en, h, q)
  PROVE  /\ nx[h] = At(h, q, 1) /\ pv[h] = At(h, q, Len(q))
         /\ q # <<>> => pv[q[1].addr] = h /\ nx[q[1].addr] = At(h, q, 2)
<1>1. Len(q) \in Nat
  BY Elements
<1>2. At(h, q, 0) = h /\ At(h, q, Len(q) + 1) = h
  BY <1>1 DEF At
<1>3. nx[h] = At(h, q, 1) /\ pv[h] = At(h, q, Len(q))
  BY <1>1, <1>2 DEF Linked
<1>4. ASSUME q # <<>> PROVE pv[q[1].addr] = h /\ nx[q[1].addr] = At(h, q, 2)
  <2>1. Len(q) >= 1 /\ At(h, q, 1) = q[1].addr
    BY <1>1, <1>4 DEF At
  <2> QED
    BY <1>1, <1>2, <2>1 DEF Linked
<1> QED
  BY <1>3, <1>4

\* list_add_tail of a new entry.
LEMMA Added ==
  ASSUME NEW h \in Anchor, NEW q \in Seq(Item), NEW x \in Item,
         NEW nx \in [Node -> Node \cup {NULL}], NEW pv \in [Node -> Node \cup {NULL}],
         NEW en \in [Addr -> Router \cup {NULL}],
         Linked(nx, pv, en, h, q), NoRepeats(q), x.addr \notin Entries(q),
         NEW nx2, nx2 = [nx EXCEPT ![pv[h]] = x.addr, ![x.addr] = h],
         NEW pv2, pv2 = [pv EXCEPT ![h] = x.addr, ![x.addr] = pv[h]],
         NEW en2, en2 = [en EXCEPT ![x.addr] = x.router]
  PROVE  /\ Linked(nx2, pv2, en2, h, Append(q, x))
         /\ NoRepeats(Append(q, x))
         /\ Entries(Append(q, x)) = Entries(q) \cup {x.addr}
<1> DEFINE n == Len(q)
           q2 == Append(q, x)
           l == At(h, q, n)
<1>a. x.addr \in Addr /\ x.addr \in Node /\ x.router \in Router
  BY DEF Item, Node
<1>b. /\ n \in Nat /\ Len(q2) = n + 1 /\ q2[n + 1] = x
      /\ \A i \in 1 .. n : q2[i] = q[i]
  OBVIOUS
<1>0. /\ n \in Nat /\ Len(q2) = n + 1 /\ q2[n + 1] = x /\ h \notin Addr /\ h \in Node
      /\ \A i \in 1 .. n : q2[i] = q[i] /\ q[i].addr \in Addr /\ q[i].addr # x.addr
      /\ x.addr \in Addr /\ x.addr \in Node /\ l \in Node
  <2> HIDE DEF q2
  <2> QED
    BY <1>a, <1>b, Elements, Anchors DEF At, Entries
<1>1. pv[h] = l
  BY Ends
<1>2. \A i \in 0 .. n : At(h, q2, i) = At(h, q, i)
  BY <1>0 DEF At
<1>3. At(h, q2, n + 1) = x.addr /\ At(h, q2, n + 2) = h
  BY <1>0 DEF At
<1>4. ASSUME NEW i \in 0 .. n - 1
      PROVE  nx2[At(h, q2, i)] = At(h, q2, i + 1) /\ pv2[At(h, q2, i + 1)] = At(h, q2, i)
  <2>1. nx[At(h, q, i)] = At(h, q, i + 1) /\ pv[At(h, q, i + 1)] = At(h, q, i)
    BY <1>0 DEF Linked
  <2>2. At(h, q, i) # l /\ At(h, q, i) # x.addr
    BY <1>0 DEF At, NoRepeats
  <2>3. At(h, q, i + 1) # h /\ At(h, q, i + 1) # x.addr
    BY <1>0 DEF At
  <2>4. At(h, q, i) \in Node /\ At(h, q, i + 1) \in Node
    BY <1>0, OnRing
  <2>5. nx2[At(h, q, i)] = nx[At(h, q, i)] /\ pv2[At(h, q, i + 1)] = pv[At(h, q, i + 1)]
    BY <1>1, <2>2, <2>3, <2>4
  <2> QED
    BY <1>0, <1>2, <2>1, <2>5
<1>5. l # x.addr /\ h # x.addr
  BY <1>0 DEF At
<1>6. nx2[l] = x.addr /\ pv2[x.addr] = l /\ nx2[x.addr] = h /\ pv2[h] = x.addr
  BY <1>0, <1>1, <1>5
<1>7. \A i \in 0 .. n + 1 : nx2[At(h, q2, i)] = At(h, q2, i + 1) /\ pv2[At(h, q2, i + 1)] = At(h, q2, i)
  <2> SUFFICES ASSUME NEW i \in 0 .. n + 1
               PROVE  nx2[At(h, q2, i)] = At(h, q2, i + 1) /\ pv2[At(h, q2, i + 1)] = At(h, q2, i)
    OBVIOUS
  <2>1. CASE i \in 0 .. n - 1
    BY <1>4, <2>1
  <2>2. CASE i = n
    BY <1>0, <1>2, <1>3, <1>6, <2>2
  <2>3. CASE i = n + 1
    <3>1. i + 1 = n + 2
      BY <1>0, <2>3
    <3> QED
      BY <1>3, <1>6, <2>3, <3>1
  <2> QED
    BY <1>0, <2>1, <2>2, <2>3
<1>8. \A i \in 1 .. n + 1 : en2[q2[i].addr] = q2[i].router
  <2>1. \A i \in 1 .. n : en2[q[i].addr] = q[i].router
    BY <1>0 DEF Linked
  <2>2. en2[x.addr] = x.router
    BY <1>0
  <2> QED
    BY <1>0, <2>1, <2>2
<1>9. Linked(nx2, pv2, en2, h, q2)
  <2> HIDE DEF q2
  <2> QED
    BY <1>0, <1>7, <1>8 DEF Linked
<1>10. NoRepeats(q2)
  <2> HIDE DEF q2
  <2> SUFFICES ASSUME NEW i \in 1 .. n + 1, NEW j \in 1 .. n + 1, q2[i].addr = q2[j].addr
               PROVE  i = j
    BY <1>0 DEF NoRepeats
  <2>1. CASE i \in 1 .. n /\ j \in 1 .. n
    BY <1>0, <2>1 DEF NoRepeats
  <2>2. CASE i = n + 1 \/ j = n + 1
    BY <1>0, <2>2
  <2> QED
    BY <1>0, <2>1, <2>2
<1>11. Entries(q2) = Entries(q) \cup {x.addr}
  BY <1>0 DEF Entries
<1> QED
  BY <1>9, <1>10, <1>11

\* list_del, of any links and contents.
DelNext(nx, pv, a) == [nx EXCEPT ![pv[a]] = nx[a], ![a] = NULL]
DelPrev(nx, pv, a) == [pv EXCEPT ![nx[a]] = pv[a], ![a] = NULL]
Freed(en, a) == [en EXCEPT ![a] = NULL]
Rest(q) == Tail(q)

\* list_del of the first entry.
LEMMA Deleted ==
  ASSUME NEW h \in Anchor, NEW q \in Seq(Item), q # <<>>,
         NEW nx \in [Node -> Node \cup {NULL}], NEW pv \in [Node -> Node \cup {NULL}],
         NEW en \in [Addr -> Router \cup {NULL}],
         Linked(nx, pv, en, h, q), NoRepeats(q),
         NEW a, a = q[1].addr
  PROVE  /\ Linked(DelNext(nx, pv, a), DelPrev(nx, pv, a), Freed(en, a), h, Rest(q))
         /\ NoRepeats(Rest(q))
         /\ Entries(Rest(q)) = Entries(q) \ {a}
         /\ At(h, Rest(q), 1) = At(h, q, 2)
<1> DEFINE n == Len(q)
           q2 == Rest(q)
           nx2 == DelNext(nx, pv, a)
           pv2 == DelPrev(nx, pv, a)
           en2 == Freed(en, a)
           s == At(h, q, 2)
<1>0. /\ n \in Nat \ {0} /\ Len(q2) = n - 1 /\ h \notin Addr /\ h \in Node
      /\ \A i \in 1 .. n - 1 : q2[i] = q[i + 1]
      /\ \A i \in 1 .. n : q[i].addr \in Addr
      /\ \A i \in 2 .. n : q[i].addr # a
      /\ a \in Addr /\ a \in Node /\ s \in Node
  <2>1. n \in Nat \ {0} /\ Len(q2) = n - 1 /\ \A i \in 1 .. n - 1 : q2[i] = q[i + 1]
    BY DEF Rest
  <2> QED
    BY <2>1, Elements, Anchors DEF At, NoRepeats
<1>1. At(h, q, 0) = h /\ At(h, q, 1) = a
  BY <1>0 DEF At
<1>2. pv[a] = h /\ nx[a] = s
  BY Ends
<1>3. \A i \in 1 .. n : At(h, q2, i) = At(h, q, i + 1)
  BY <1>0 DEF At
<1>4. At(h, q2, 0) = h
  BY <1>0 DEF At
<1>5. ASSUME NEW i \in 1 .. n - 1
      PROVE  nx2[At(h, q2, i)] = At(h, q2, i + 1) /\ pv2[At(h, q2, i + 1)] = At(h, q2, i)
  <2>1. nx[At(h, q, i + 1)] = At(h, q, i + 2) /\ pv[At(h, q, i + 2)] = At(h, q, i + 1)
    BY <1>0 DEF Linked
  <2>2. At(h, q, i + 1) # h /\ At(h, q, i + 1) # a
    BY <1>0 DEF At
  <2>3. At(h, q, i + 2) # s /\ At(h, q, i + 2) # a
    BY <1>0 DEF At, NoRepeats
  <2>4. At(h, q, i + 1) \in Node /\ At(h, q, i + 2) \in Node
    BY <1>0, OnRing
  <2>5. nx2[At(h, q, i + 1)] = nx[At(h, q, i + 1)] /\ pv2[At(h, q, i + 2)] = pv[At(h, q, i + 2)]
    BY <1>2, <2>2, <2>3, <2>4 DEF DelNext, DelPrev
  <2>6. At(h, q2, i) = At(h, q, i + 1) /\ At(h, q2, i + 1) = At(h, q, i + 2)
    BY <1>0, <1>3
  <2> QED
    BY <2>1, <2>5, <2>6
<1>6. s # a /\ h # a
  BY <1>0 DEF At
<1>7. nx2[At(h, q2, 0)] = At(h, q2, 1) /\ pv2[At(h, q2, 1)] = At(h, q2, 0)
  BY <1>0, <1>2, <1>3, <1>4, <1>6 DEF DelNext, DelPrev
<1>8. \A i \in 0 .. n - 1 : nx2[At(h, q2, i)] = At(h, q2, i + 1) /\ pv2[At(h, q2, i + 1)] = At(h, q2, i)
  <2> SUFFICES ASSUME NEW i \in 0 .. n - 1
               PROVE  nx2[At(h, q2, i)] = At(h, q2, i + 1) /\ pv2[At(h, q2, i + 1)] = At(h, q2, i)
    OBVIOUS
  <2>1. CASE i = 0
    BY <1>7, <2>1
  <2>2. CASE i \in 1 .. n - 1
    BY <1>5, <2>2
  <2> QED
    BY <1>0, <2>1, <2>2
<1>9. \A i \in 1 .. n - 1 : en2[q2[i].addr] = q2[i].router
  BY <1>0 DEF Linked, Freed
<1>10. Linked(nx2, pv2, en2, h, q2)
  BY <1>0, <1>8, <1>9 DEF Linked
<1>11. NoRepeats(q2)
  BY <1>0 DEF NoRepeats
<1>12. Entries(q2) = Entries(q) \ {a}
  <2>1. \A e \in Entries(q2) : e \in Entries(q) \ {a}
    BY <1>0 DEF Entries
  <2>2. ASSUME NEW e \in Entries(q) \ {a} PROVE e \in Entries(q2)
    <3>1. PICK i \in 1 .. n : e = q[i].addr
      BY DEF Entries
    <3>2. i # 1
      BY <3>1
    <3>3. i - 1 \in 1 .. n - 1 /\ q2[i - 1] = q[i]
      BY <1>0, <3>2
    <3> QED
      BY <1>0, <3>1, <3>3 DEF Entries
  <2> QED
    BY <2>1, <2>2
<1> QED
  BY <1>0, <1>3, <1>10, <1>11, <1>12

\* set_routers hands the entries of one ring to the other head.
LEMMA HandedOver ==
  ASSUME NEW h \in Anchor, NEW g \in Anchor, h # g, NEW q \in Seq(Item), q # <<>>,
         NEW nx \in [Node -> Node \cup {NULL}], NEW pv \in [Node -> Node \cup {NULL}],
         NEW en, Linked(nx, pv, en, h, q), NoRepeats(q),
         NEW nx2, nx2 = [nx EXCEPT ![g] = nx[h], ![pv[h]] = g],
         NEW pv2, pv2 = [pv EXCEPT ![g] = pv[h], ![nx[h]] = g]
  PROVE  Linked(nx2, pv2, en, g, q)
<1> DEFINE n == Len(q)
           f == q[1].addr
           l == q[n].addr
<1>0. /\ n \in Nat \ {0} /\ h \notin Addr /\ h \in Node /\ g \notin Addr /\ g \in Node
      /\ \A i \in 1 .. n : q[i].addr \in Addr /\ q[i].addr \in Node
  BY Elements, Anchors
<1>1. f \in Addr /\ l \in Addr /\ f \in Node /\ l \in Node
  BY <1>0
<1>2. nx[h] = f /\ pv[h] = l
  BY <1>0, Ends DEF At
<1>3. At(g, q, 0) = g /\ At(g, q, n + 1) = g /\ At(g, q, 1) = f /\ At(g, q, n) = l
  BY <1>0 DEF At
<1>4. \A i \in 1 .. n : At(g, q, i) = q[i].addr /\ At(h, q, i) = q[i].addr
  BY <1>0 DEF At
<1>5. nx2[g] = f /\ nx2[l] = g /\ pv2[g] = l /\ pv2[f] = g
  BY <1>0, <1>1, <1>2
<1>6. ASSUME NEW i \in 1 .. n - 1
      PROVE  nx2[At(g, q, i)] = At(g, q, i + 1) /\ pv2[At(g, q, i + 1)] = At(g, q, i)
  <2>1. nx[q[i].addr] = q[i + 1].addr /\ pv[q[i + 1].addr] = q[i].addr
    BY <1>0, <1>4 DEF Linked
  <2>2. q[i].addr # l /\ q[i + 1].addr # f
    BY <1>0 DEF NoRepeats
  <2>3. q[i].addr # g /\ q[i + 1].addr # g
    BY <1>0
  <2>4. nx2[q[i].addr] = nx[q[i].addr] /\ pv2[q[i + 1].addr] = pv[q[i + 1].addr]
    BY <1>0, <1>2, <2>2, <2>3
  <2> QED
    BY <1>0, <1>4, <2>1, <2>4
<1>7. \A i \in 0 .. n : nx2[At(g, q, i)] = At(g, q, i + 1) /\ pv2[At(g, q, i + 1)] = At(g, q, i)
  <2> SUFFICES ASSUME NEW i \in 0 .. n
               PROVE  nx2[At(g, q, i)] = At(g, q, i + 1) /\ pv2[At(g, q, i + 1)] = At(g, q, i)
    OBVIOUS
  <2>1. CASE i = 0
    BY <1>3, <1>5, <2>1
  <2>2. CASE i \in 1 .. n - 1
    BY <1>6, <2>2
  <2>3. CASE i = n
    BY <1>3, <1>5, <2>3
  <2> QED
    BY <1>0, <2>1, <2>2, <2>3
<1>8. \A i \in 1 .. n : en[q[i].addr] = q[i].router
  BY DEF Linked
<1> QED
  BY <1>7, <1>8 DEF Linked

-----------------------------------------------------------------------------
(***************************************************************************)
(* The inductive invariant.  A thread that holds routers_lock is the only  *)
(* one that is inside; the update thread's cursor stands on the first      *)
(* entry left, an iterator behind the entries it has seen.                 *)
(***************************************************************************)
UpdateInside ==
    /\ upc \in {"request", "set"} <=> lock = "update"
    /\ upc = "set" => cur = At("routers", known, 1)
    /\ upc = "init" => pending = <<>>

WalkInside ==
    \A w \in Walker : walk[w] # NoWalk =>
        lock = w /\ walk[w].it = At("routers", known, Len(walk[w].out) + 1)

RInv == RTypeOK /\ Rings /\ NoEntryLost /\ WalksSeeOneList /\ UpdateInside /\ WalkInside

\* Rings, in terms of links.
LEMMA RingsLinked ==
  Rings <=> /\ ~fault /\ Linked(next, prev, ent, "routers", known)
            /\ upc # "init" => Linked(next, prev, ent, "tmp", pending)
BY DEF Rings, Ring, Linked

LEMMA RingsLinkedNext ==
  Rings' <=> /\ ~fault' /\ Linked(next', prev', ent', "routers", known')
             /\ upc' # "init" => Linked(next', prev', ent', "tmp", pending')
BY DEF Rings, Ring, Linked

LEMMA NoWalkers ==
  ASSUME RInv, lock \notin Walker
  PROVE  \A w \in Walker : walk[w] = NoWalk
BY DEF RInv, WalkInside

LEMMA Typed ==
  ASSUME RTypeOK
  PROVE  known \in Seq(Item) /\ pending \in Seq(Item)
BY DEF RTypeOK, Item

LEMMA Inits == RInit => RInv
<1> SUFFICES ASSUME RInit PROVE RInv
  OBVIOUS
<1>0. <<>> \in Seq(Item) /\ <<>> \in Seq(Router) /\ Len(<<>>) = 0
  OBVIOUS
<1>1. RTypeOK
  <2>1. NoWalk \in [it : Node \cup {NULL}, out : Seq(Router)]
    BY <1>0 DEF NoWalk
  <2>2. next \in [Node -> Node \cup {NULL}]
    BY DEF RInit
  <2>3. "routers" \in Node
    BY DEF Node
  <2> QED
    BY <1>0, <2>1, <2>2, <2>3 DEF RInit, RTypeOK, Item
<1>2. next["routers"] = "routers" /\ prev["routers"] = "routers"
  BY RouterListAssumption DEF RInit, Node
<1>3. Linked(next, prev, ent, "routers", <<>>)
  BY <1>0, <1>2 DEF Linked, At
<1>4. Rings
  BY <1>3, RingsLinked DEF RInit
<1>5. NoEntryLost
  <2>1. Entries(<<>>) = {} /\ NoRepeats(<<>>)
    BY <1>0 DEF Entries, NoRepeats
  <2> QED
    BY <2>1 DEF NoEntryLost, RInit, Live
<1>6. WalksSeeOneList /\ WalkInside
  BY DEF WalksSeeOneList, WalkInside, RInit
<1>7. UpdateInside
  BY DEF UpdateInside, RInit
<1> QED
  BY <1>1, <1>4, <1>5, <1>6, <1>7 DEF RInv

(***************************************************************************)
(* The steps of router_update_thread.                                      *)
(***************************************************************************)
LEMMA InitTmpStep == RInv /\ InitTmp => RInv'
<1> SUFFICES ASSUME RInv, InitTmp PROVE RInv'
  OBVIOUS
<1> USE Typed DEF RInv
<1>0. /\ "routers" \in Anchor /\ "tmp" \in Anchor /\ "routers" # "tmp"
      /\ "tmp" \in Node /\ "tmp" \notin Addr
  BY Anchors DEF Anchor
<1>1. RTypeOK'
  BY <1>0 DEF RTypeOK, InitTmp, INIT_LIST_HEAD
<1>2. /\ \A n \in Entries(known) \cup {"routers"} : next'[n] = next[n] /\ prev'[n] = prev[n]
      /\ next'["tmp"] = "tmp" /\ prev'["tmp"] = "tmp"
  <2>1. Entries(known) \subseteq Addr
    BY <1>0, OnRing
  <2>2. Entries(known) \cup {"routers"} \subseteq Node \ {"tmp"}
    BY <1>0, <2>1 DEF Node
  <2> QED
    BY <1>0, <2>2 DEF RTypeOK, InitTmp, INIT_LIST_HEAD
<1>3. Linked(next', prev', ent', "routers", known')
  <2>1. Linked(next, prev, ent, "routers", known)
    BY RingsLinked
  <2> QED
    BY <1>0, <1>2, <2>1, Untouched DEF InitTmp
<1>4. pending = <<>> /\ pending' = <<>>
  BY DEF UpdateInside, InitTmp
<1>5. Linked(next', prev', ent', "tmp", <<>>)
  <2>1. Len(<<>>) = 0
    OBVIOUS
  <2> QED
    BY <1>2, <2>1 DEF Linked, At
<1>6. Rings'
  BY <1>3, <1>4, <1>5, RingsLinkedNext, RingsLinked DEF InitTmp
<1>7. NoEntryLost'
  <2>1. Entries(<<>>) = {}
    BY DEF Entries
  <2> QED
    BY <1>4, <2>1 DEF NoEntryLost, InitTmp, Live, Entries, NoRepeats
<1>8. WalksSeeOneList' /\ WalkInside'
  BY DEF WalksSeeOneList, WalkInside, InitTmp
<1>9. UpdateInside'
  BY DEF UpdateInside, InitTmp
<1> QED
  BY <1>1, <1>6, <1>7, <1>8, <1>9

\* The steps that only take or release routers_lock and move on.
LEMMA LockStep == RInv /\ (UpdateLock \/ RequestFails \/ RequestDone) => RInv'
<1> SUFFICES ASSUME RInv, UpdateLock \/ RequestFails \/ RequestDone PROVE RInv'
  OBVIOUS
<1> USE Typed DEF RInv
<1>0. /\ UNCHANGED <<next, prev, ent, known, pending, fault, walk>>
      /\ upc # "init" /\ upc' # "init"
  BY DEF UpdateLock, RequestFails, RequestDone, links
<1>1. lock \notin Walker
  BY RouterListAssumption DEF UpdateInside, UpdateLock, RequestFails, RequestDone
<1>2. \A w \in Walker : walk'[w] = NoWalk
  BY <1>0, <1>1, NoWalkers
<1>3. Rings'
  BY <1>0, RingsLinked, RingsLinkedNext
<1>4. upc = "request" => next["routers"] = At("routers", known, 1)
  <2>1. Linked(next, prev, ent, "routers", known)
    BY RingsLinked
  <2>2. At("routers", known, 0) = "routers"
    BY DEF At
  <2>3. 0 \in 0 .. Len(known)
    BY Elements
  <2> QED
    BY <2>1, <2>2, <2>3 DEF Linked
<1>5. UpdateInside'
  BY <1>0, <1>4 DEF UpdateInside, UpdateLock, RequestFails, RequestDone
<1>6. cur' \in Node
  <2>1. At("routers", known, 1) \in Node
    BY OnRing DEF Anchor
  <2> QED
    BY <1>4, <2>1 DEF RTypeOK, UpdateLock, RequestFails, RequestDone
<1>7. RTypeOK'
  BY <1>0, <1>6 DEF RTypeOK, UpdateLock, RequestFails, RequestDone
<1>8. NoEntryLost'
  <2>1. Live' = Live
    BY <1>0 DEF Live
  <2> QED
    BY <1>0, <2>1 DEF NoEntryLost
<1> QED
  BY <1>2, <1>3, <1>5, <1>7, <1>8 DEF WalksSeeOneList, WalkInside

\* parse_node never meets a freed entry at the end of tmp.
LEMMA ParseStep == ASSUME RInv, NEW r \in Router, parse_node(r) PROVE RInv'
<1> USE Typed DEF RInv
<1>a. PICK a \in Addr \ Live :
         IF prev["tmp"] \in Live \cup {"tmp"}
         THEN /\ list_add_tail(a, "tmp")
              /\ ent' = [ent EXCEPT ![a] = r]
              /\ pending' = Append(pending, [addr |-> a, router |-> r])
              /\ UNCHANGED <<lock, upc, cur, walk, fault, known>>
         ELSE Crash
  BY DEF parse_node
<1> DEFINE x == [addr |-> a, router |-> r]
<1>b. "routers" \in Anchor /\ "tmp" \in Anchor /\ "routers" # "tmp" /\ upc = "request"
  BY DEF Anchor, parse_node
<1>c. x \in Item /\ x.addr = a /\ x.router = r
  BY DEF Item
<1>d. /\ Linked(next, prev, ent, "routers", known)
      /\ Linked(next, prev, ent, "tmp", pending)
  BY <1>b, RingsLinked
<1>e. /\ Live = Entries(known) \cup Entries(pending)
      /\ Entries(known) \cap Entries(pending) = {}
      /\ NoRepeats(known) /\ NoRepeats(pending)
  BY <1>b DEF NoEntryLost
<1>f. /\ next \in [Node -> Node \cup {NULL}] /\ prev \in [Node -> Node \cup {NULL}]
      /\ ent \in [Addr -> Router \cup {NULL}]
  BY DEF RTypeOK
<1>2. prev["tmp"] \in Entries(pending) \cup {"tmp"}
  <2>1. prev["tmp"] = At("tmp", pending, Len(pending))
    BY <1>b, <1>d, Ends
  <2> QED
    BY <1>b, <2>1, Elements, OnRing
<1>3. /\ next' = [next EXCEPT ![prev["tmp"]] = a, ![a] = "tmp"]
      /\ prev' = [prev EXCEPT !["tmp"] = a, ![a] = prev["tmp"]]
      /\ ent' = [ent EXCEPT ![a] = r]
      /\ pending' = Append(pending, x)
      /\ UNCHANGED <<lock, upc, cur, walk, fault, known>>
  BY <1>a, <1>2, <1>e DEF list_add_tail
<1>1. /\ Linked(next', prev', ent', "tmp", Append(pending, x))
      /\ NoRepeats(Append(pending, x))
      /\ Entries(Append(pending, x)) = Entries(pending) \cup {a}
  <2>1. x.addr \notin Entries(pending)
    BY <1>c, <1>e
  <2>2. /\ next' = [next EXCEPT ![prev["tmp"]] = x.addr, ![x.addr] = "tmp"]
        /\ prev' = [prev EXCEPT !["tmp"] = x.addr, ![x.addr] = prev["tmp"]]
        /\ ent' = [ent EXCEPT ![x.addr] = x.router]
    BY <1>3, <1>c
  <2> HIDE DEF x
  <2> QED
    BY <1>b, <1>c, <1>d, <1>e, <1>f, <2>1, <2>2, Added
<1>4. Linked(next', prev', ent', "tmp", pending')
  BY <1>1, <1>3
<1>5. Linked(next', prev', ent', "routers", known')
  <2>1. /\ Entries(known) \subseteq Addr /\ Entries(pending) \subseteq Addr
        /\ "routers" \notin Addr /\ "tmp" \notin Addr
        /\ "routers" \in Node /\ Addr \subseteq Node
    BY <1>b, OnRing, Anchors DEF Node
  <2>2. \A n \in Entries(known) \cup {"routers"} :
           n \in Node /\ n # a /\ n # "tmp" /\ n # prev["tmp"]
    BY <1>2, <1>b, <1>e, <2>1
  <2>3. \A n \in Entries(known) \cup {"routers"} : next'[n] = next[n] /\ prev'[n] = prev[n]
    BY <1>3, <1>f, <2>2
  <2>4. \A n \in Entries(known) : ent'[n] = ent[n]
    BY <1>3, <1>f, <2>1, <2>2
  <2>5. Linked(next', prev', ent', "routers", known)
    BY <1>b, <1>d, <2>3, <2>4, Untouched
  <2> QED
    BY <1>3, <2>5
<1>6. Rings'
  BY <1>3, <1>4, <1>5, RingsLinked, RingsLinkedNext
<1>7. NoEntryLost'
  <2>1. Live' = Live \cup {a}
    BY <1>3, <1>f, RouterListAssumption DEF Live
  <2>2. a \notin Entries(known)
    BY <1>e
  <2>3. upc' # "init" /\ known' = known
    BY <1>3, <1>b
  <2>4. NoRepeats(pending') /\ Entries(pending') = Entries(pending) \cup {a}
    BY <1>1, <1>3
  <2>5. /\ Live' = Entries(known') \cup Entries(pending')
        /\ Entries(known') \cap Entries(pending') = {}
    BY <1>e, <2>1, <2>2, <2>3, <2>4
  <2> QED
    BY <1>e, <2>3, <2>4, <2>5 DEF NoEntryLost
<1>8. RTypeOK'
  <2>1. Append(pending, x) \in Seq(Item)
    BY <1>c
  <2>2. pending' \in Seq([addr : Addr, router : Router])
    BY <1>3, <2>1 DEF Item
  <2>3. a \in Node /\ "tmp" \in Node
    BY DEF Node
  <2>4. prev["tmp"] \in Node
    BY <1>2, <1>b, OnRing, <2>3 DEF Node
  <2>5. next' \in [Node -> Node \cup {NULL}]
    BY <1>3, <1>f, <2>3, <2>4
  <2>6. prev' \in [Node -> Node \cup {NULL}]
    BY <1>3, <1>f, <2>3, <2>4
  <2>7. ent' \in [Addr -> Router \cup {NULL}]
    BY <1>3, <1>f
  <2> QED
    BY <1>3, <2>2, <2>5, <2>6, <2>7 DEF RTypeOK
<1>9. WalksSeeOneList' /\ WalkInside' /\ UpdateInside'
  BY <1>3, <1>b DEF WalksSeeOneList, WalkInside, UpdateInside
<1> QED
  BY <1>6, <1>7, <1>8, <1>9

\* set_routers frees the first entry left, which nobody else looks at.
LEMMA FreeStep == RInv /\ SetFree => RInv'
<1> SUFFICES ASSUME RInv, SetFree PROVE RInv'
  OBVIOUS
<1> USE Typed DEF RInv
<1>b. /\ "routers" \in Anchor /\ "tmp" \in Anchor /\ "routers" # "tmp"
      /\ upc = "set" /\ lock = "update" /\ cur # "routers"
      /\ cur = At("routers", known, 1)
  BY DEF Anchor, SetFree, UpdateInside
<1>c. known # <<>> /\ cur = known[1].addr /\ Len(known) >= 1 /\ Len(known) \in Nat
  BY <1>b, Elements DEF At
<1>d. /\ Linked(next, prev, ent, "routers", known)
      /\ Linked(next, prev, ent, "tmp", pending)
  BY <1>b, RingsLinked
<1>e. /\ Live = Entries(known) \cup Entries(pending)
      /\ Entries(known) \cap Entries(pending) = {}
      /\ NoRepeats(known) /\ NoRepeats(pending)
  BY <1>b DEF NoEntryLost
<1>f. /\ next \in [Node -> Node \cup {NULL}] /\ prev \in [Node -> Node \cup {NULL}]
      /\ ent \in [Addr -> Router \cup {NULL}]
  BY DEF RTypeOK
<1>1. prev[cur] = "routers" /\ next[cur] = At("routers", known, 2)
  BY <1>b, <1>c, <1>d, Ends
<1>2. /\ next[cur] \in Entries(known) \cup {"routers"}
      /\ cur \in Entries(known)
  BY <1>1, <1>b, OnRing
<1>3. /\ next' = [next EXCEPT ![prev[cur]] = next[cur], ![cur] = NULL]
      /\ prev' = [prev EXCEPT ![next[cur]] = prev[cur], ![cur] = NULL]
      /\ ent' = [ent EXCEPT ![cur] = NULL]
      /\ cur' = next[cur]
      /\ known' = Tail(known)
      /\ UNCHANGED <<lock, upc, walk, fault, pending>>
  <2>1. {cur, next[cur], prev[cur]} \subseteq Live \cup {"routers"}
    BY <1>1, <1>2, <1>e
  <2> QED
    BY <2>1 DEF SetFree, list_del
<1>4. /\ Linked(next', prev', ent', "routers", known')
      /\ NoRepeats(known')
      /\ Entries(known') = Entries(known) \ {cur}
      /\ At("routers", known', 1) = At("routers", known, 2)
  <2>1. /\ "routers" \in Anchor /\ known \in Seq(Item) /\ known # <<>> /\ NoRepeats(known)
        /\ Linked(next, prev, ent, "routers", known)
        /\ cur = known[1].addr
    BY <1>b, <1>c, <1>d, <1>e
  <2>2. /\ next' = DelNext(next, prev, cur) /\ prev' = DelPrev(next, prev, cur)
        /\ ent' = Freed(ent, cur) /\ known' = Rest(known)
    BY <1>3 DEF DelNext, DelPrev, Freed, Rest
  <2> HIDE DEF RInv
  <2> QED
    BY ONLY <1>f, <2>1, <2>2, Deleted
<1>g. /\ Entries(known) \subseteq Addr /\ Entries(pending) \subseteq Addr
      /\ "routers" \notin Addr /\ "tmp" \notin Addr
      /\ "routers" \in Node /\ "tmp" \in Node /\ Addr \subseteq Node
  BY <1>b, OnRing, Anchors DEF Node
<1>5. Linked(next', prev', ent', "tmp", pending')
  <2>2. \A n \in Entries(pending) \cup {"tmp"} :
           n \in Node /\ n # cur /\ n # prev[cur] /\ n # next[cur]
    BY <1>1, <1>2, <1>b, <1>e, <1>g
  <2>3. \A n \in Entries(pending) \cup {"tmp"} : next'[n] = next[n] /\ prev'[n] = prev[n]
    BY <1>3, <1>f, <2>2
  <2>4. \A n \in Entries(pending) : ent'[n] = ent[n]
    BY <1>3, <1>f, <1>g, <2>2
  <2>5. Linked(next', prev', ent', "tmp", pending)
    BY <1>b, <1>d, <2>3, <2>4, Untouched
  <2> QED
    BY <1>3, <2>5
<1>6. Rings'
  BY <1>3, <1>4, <1>5, RingsLinked, RingsLinkedNext
<1>7. NoEntryLost'
  <2>1. Live' = Live \ {cur}
    BY <1>2, <1>3, <1>f, <1>g, RouterListAssumption DEF Live
  <2>2. cur \notin Entries(pending)
    BY <1>2, <1>e
  <2>3. upc' # "init" /\ pending' = pending
    BY <1>3, <1>b
  <2>4. NoRepeats(known') /\ Entries(known') = Entries(known) \ {cur}
    BY <1>4
  <2>5. /\ Live' = Entries(known') \cup Entries(pending')
        /\ Entries(known') \cap Entries(pending') = {}
    BY <1>e, <2>1, <2>2, <2>3, <2>4
  <2> QED
    BY <1>e, <2>3, <2>4, <2>5 DEF NoEntryLost
<1>8. RTypeOK'
  <2>1. Tail(known) \in Seq(Item)
    BY <1>c
  <2>2. known' \in Seq([addr : Addr, router : Router])
    BY <1>3, <2>1 DEF Item
  <2>3. cur \in Node /\ next[cur] \in Node /\ prev[cur] \in Node
    BY <1>1, <1>2, <1>g
  <2>5. next' \in [Node -> Node \cup {NULL}]
    BY <1>3, <1>f, <2>3
  <2>6. prev' \in [Node -> Node \cup {NULL}]
    BY <1>3, <1>f, <2>3
  <2>7. ent' \in [Addr -> Router \cup {NULL}]
    BY <1>3, <1>f
  <2> QED
    BY <1>3, <2>2, <2>3, <2>5, <2>6, <2>7 DEF RTypeOK
<1>9. WalksSeeOneList' /\ WalkInside'
  <2>1. lock \notin Walker
    BY <1>b, RouterListAssumption
  <2>2. \A w \in Walker : walk'[w] = NoWalk
    BY <1>3, <2>1, NoWalkers
  <2> QED
    BY <2>2 DEF WalksSeeOneList, WalkInside
<1>10. UpdateInside'
  <2>1. cur' = At("routers", known', 1)
    BY <1>1, <1>3, <1>4
  <2> QED
    BY <1>3, <1>b, <2>1 DEF UpdateInside
<1> QED
  BY <1>6, <1>7, <1>8, <1>9, <1>10

\* set_routers hands tmp's entries to `routers', or leaves it empty.
LEMMA LinkStep == RInv /\ SetLink => RInv'
<1> SUFFICES ASSUME RInv, SetLink PROVE RInv'
  OBVIOUS
<1> USE Typed DEF RInv
<1>a. /\ "routers" \in Anchor /\ "tmp" \in Anchor /\ "tmp" # "routers"
      /\ upc = "set" /\ lock = "update" /\ cur = "routers"
      /\ cur = At("routers", known, 1)
  BY DEF Anchor, SetLink, UpdateInside
<1>b. /\ known' = pending /\ pending' = <<>> /\ lock' = "free" /\ upc' = "init"
      /\ UNCHANGED <<ent, cur, walk, fault>>
  BY DEF SetLink
<1>c. /\ Len(pending) \in Nat /\ Len(known) \in Nat
      /\ \A i \in 1 .. Len(known) : known[i].addr # "routers"
      /\ \A i \in 1 .. Len(pending) : pending[i].addr # "tmp"
  BY <1>a, Elements, Anchors
<1>d. known = <<>>
  BY <1>a, <1>c DEF At
<1>e. /\ Linked(next, prev, ent, "tmp", pending)
      /\ next["tmp"] = At("tmp", pending, 1) /\ prev["tmp"] = At("tmp", pending, Len(pending))
  BY <1>a, RingsLinked, Ends
<1>f. /\ next \in [Node -> Node \cup {NULL}] /\ prev \in [Node -> Node \cup {NULL}]
  BY DEF RTypeOK
<1>g. Live = Entries(pending) /\ NoRepeats(pending)
  <2>1. Entries(known) = {}
    BY <1>d DEF Entries
  <2> QED
    BY <1>a, <2>1 DEF NoEntryLost
<1>h. /\ "routers" \in Node /\ "tmp" \in Node /\ next["tmp"] \in Node /\ prev["tmp"] \in Node
  BY <1>a, <1>c, <1>e, OnRing, Anchors
<1>1. /\ next' \in [Node -> Node \cup {NULL}] /\ prev' \in [Node -> Node \cup {NULL}]
      /\ Linked(next', prev', ent', "routers", pending)
  <2>1. CASE list_empty("tmp")
    <3>1. pending = <<>> /\ Len(<<>>) = 0
      BY <1>c, <1>e, <2>1 DEF list_empty, At
    <3>2. next' = [next EXCEPT !["routers"] = "routers"] /\ prev' = [prev EXCEPT !["routers"] = "routers"]
      BY <2>1 DEF SetLink, INIT_LIST_HEAD
    <3>3. next'["routers"] = "routers" /\ prev'["routers"] = "routers"
      BY <1>f, <1>h, <3>2
    <3>4. Linked(next', prev', ent', "routers", <<>>)
      BY <3>1, <3>3 DEF Linked, At
    <3> QED
      BY <1>f, <1>h, <3>1, <3>2, <3>4
  <2>2. CASE ~list_empty("tmp")
    <3>1. /\ next' = [next EXCEPT !["routers"] = next["tmp"], ![prev["tmp"]] = "routers"]
          /\ prev' = [prev EXCEPT !["routers"] = prev["tmp"], ![next["tmp"]] = "routers"]
      BY <2>2 DEF SetLink
    <3>2. pending # <<>>
      BY <1>e, <2>2 DEF list_empty, At
    <3>3. Linked(next', prev', ent, "routers", pending)
      BY <1>a, <1>e, <1>f, <1>g, <3>1, <3>2, HandedOver
    <3>4. next' \in [Node -> Node \cup {NULL}]
      BY <1>f, <1>h, <3>1
    <3>5. prev' \in [Node -> Node \cup {NULL}]
      BY <1>f, <1>h, <3>1
    <3> QED
      BY <1>b, <3>3, <3>4, <3>5
  <2> QED
    BY <2>1, <2>2
<1>2. Rings'
  BY <1>1, <1>b, RingsLinked, RingsLinkedNext
<1>3. NoEntryLost'
  <2>1. Live' = Live
    BY <1>b DEF Live
  <2>2. NoRepeats(<<>>)
    BY DEF NoRepeats
  <2> QED
    BY <1>b, <1>g, <2>1, <2>2 DEF NoEntryLost
<1>4. RTypeOK'
  BY <1>1, <1>b DEF RTypeOK
<1>5. UpdateInside'
  BY <1>b DEF UpdateInside
<1>6. WalksSeeOneList' /\ WalkInside'
  <2>1. lock \notin Walker
    BY <1>a, RouterListAssumption
  <2>2. \A w \in Walker : walk'[w] = NoWalk
    BY <1>b, <2>1, NoWalkers
  <2> QED
    BY <2>2 DEF WalksSeeOneList, WalkInside
<1> QED
  BY <1>2, <1>3, <1>4, <1>5, <1>6

(***************************************************************************)
(* The steps of a handler that walks the ring.                             *)
(***************************************************************************)
\* A step that touches neither the rings nor the update thread.
LEMMA RingsKept ==
  ASSUME RInv, UNCHANGED <<next, prev, ent, upc, cur, fault, known, pending>>
  PROVE  Rings' /\ NoEntryLost'
<1>1. Rings'
  BY RingsLinked, RingsLinkedNext DEF RInv
<1>2. Live' = Live
  BY DEF Live
<1> QED
  BY <1>1, <1>2 DEF RInv, NoEntryLost

LEMMA WalkStartStep == ASSUME RInv, NEW w \in Walker, WalkStart(w) PROVE RInv'
<1> USE Typed DEF RInv
<1> DEFINE v == [it |-> next["routers"], out |-> <<>>]
<1>1. /\ lock = "free" /\ lock' = w /\ walk' = [walk EXCEPT ![w] = v]
      /\ UNCHANGED <<next, prev, ent, upc, cur, fault, known, pending>>
  BY DEF WalkStart, links
<1>2. next["routers"] = At("routers", known, 1) /\ next["routers"] \in Node
  BY RingsLinked, Ends, OnRing DEF Anchor
<1>3. \A u \in Walker : walk[u] = NoWalk
  BY <1>1, NoWalkers, RouterListAssumption
<1>4. v \in [it : Node \cup {NULL}, out : Seq(Router)]
  BY <1>2
<1>5. walk \in [Walker -> [it : Node \cup {NULL}, out : Seq(Router)]]
  BY DEF RTypeOK
<1>6. \A u \in Walker : walk'[u] = IF u = w THEN v ELSE NoWalk
  BY <1>1, <1>3, <1>5
<1>7. RTypeOK'
  BY <1>1, <1>4, <1>5 DEF RTypeOK
<1>8. /\ v.it = At("routers", known, 1) /\ Len(v.out) = 0 /\ Len(known) \in Nat
      /\ v.it = "routers" => Len(known) = 0
  <2>1. Len(known) \in Nat /\ \A i \in 1 .. Len(known) : known[i].addr # "routers"
    BY Elements, Anchors DEF Anchor
  <2> QED
    BY <1>2, <2>1 DEF At
<1>9. WalksSeeOneList' /\ WalkInside'
  <2> HIDE DEF v
  <2>1. WalksSeeOneList'
    BY <1>1, <1>6, <1>8 DEF WalksSeeOneList
  <2>2. WalkInside'
    BY <1>1, <1>6, <1>8 DEF WalkInside
  <2> QED
    BY <2>1, <2>2
<1>10. UpdateInside'
  BY <1>1, RouterListAssumption DEF UpdateInside
<1> QED
  BY <1>1, <1>7, <1>9, <1>10, RingsKept

LEMMA WalkEndStep == ASSUME RInv, NEW w \in Walker, WalkEnd(w) PROVE RInv'
<1> USE DEF RInv
<1>1. /\ walk[w].it = "routers" /\ lock' = "free" /\ walk' = [walk EXCEPT ![w] = NoWalk]
      /\ UNCHANGED <<next, prev, ent, upc, cur, fault, known, pending>>
  BY DEF WalkEnd, links
<1>2. walk[w] # NoWalk
  BY <1>1, RouterListAssumption DEF NoWalk
<1>3. lock = w
  BY <1>2 DEF WalkInside
<1>4. walk \in [Walker -> [it : Node \cup {NULL}, out : Seq(Router)]]
  BY DEF RTypeOK
<1>5. \A u \in Walker : walk'[u] = NoWalk
  BY <1>1, <1>3, <1>4 DEF WalkInside
<1>6. NoWalk \in [it : Node \cup {NULL}, out : Seq(Router)]
  BY DEF NoWalk
<1>7. RTypeOK'
  BY <1>1, <1>4, <1>6 DEF RTypeOK
<1>8. WalksSeeOneList' /\ WalkInside'
  BY <1>5 DEF WalksSeeOneList, WalkInside
<1>9. UpdateInside'
  BY <1>1, <1>3, RouterListAssumption DEF UpdateInside
<1> QED
  BY <1>1, <1>7, <1>8, <1>9, RingsKept

\* The iterator stands on an entry that is still allocated.
LEMMA WalkStepStep == ASSUME RInv, NEW w \in Walker, WalkStep(w) PROVE RInv'
<1> USE Typed DEF RInv
<1> DEFINE it == walk[w].it
           out == walk[w].out
           k == Len(out)
           v == [it |-> next[it], out |-> Append(out, ent[it])]
<1>1. walk[w] # NoWalk /\ it # "routers"
  BY DEF WalkStep
<1>2. walk \in [Walker -> [it : Node \cup {NULL}, out : Seq(Router)]]
  BY DEF RTypeOK
<1>3. out \in Seq(Router) /\ k \in Nat /\ k <= Len(known) /\ lock = w
  BY <1>1, <1>2 DEF WalksSeeOneList, WalkInside
<1>4. it = At("routers", known, k + 1)
  BY <1>1 DEF WalkInside
<1>5. Len(known) \in Nat /\ k + 1 \in 1 .. Len(known) /\ it = known[k + 1].addr
  BY <1>1, <1>3, <1>4, Elements DEF At
<1>6. Linked(next, prev, ent, "routers", known)
  BY RingsLinked
<1>7. /\ next[it] = At("routers", known, k + 2) /\ ent[it] = known[k + 1].router
      /\ ent[it] \in Router
  BY <1>4, <1>5, <1>6, Elements DEF Linked
<1>8. it \in Live
  <2>1. it \in Entries(known)
    BY <1>5 DEF Entries
  <2> QED
    BY <2>1 DEF NoEntryLost
<1>9. /\ walk' = [walk EXCEPT ![w] = v]
      /\ UNCHANGED <<next, prev, ent, lock, upc, cur, fault, known, pending>>
  BY <1>8 DEF WalkStep, links
<1>10. \A u \in Walker : walk'[u] = IF u = w THEN v ELSE walk[u]
  BY <1>2, <1>9
<1>11. v \in [it : Node \cup {NULL}, out : Seq(Router)]
  <2>1. next[it] \in Node
    BY <1>3, <1>7, OnRing DEF Anchor
  <2>2. Append(out, ent[it]) \in Seq(Router)
    BY <1>3, <1>7
  <2> QED
    BY <2>1, <2>2
<1>12. RTypeOK'
  BY <1>2, <1>9, <1>11 DEF RTypeOK
<1>13. /\ v.it = At("routers", known, k + 2) /\ Len(v.out) = k + 1
       /\ \A i \in 1 .. k : v.out[i] = out[i]
       /\ v.out[k + 1] = known[k + 1].router
  BY <1>3, <1>7
<1>14. v.it = "routers" => k + 1 = Len(known)
  <2>1. \A i \in 1 .. Len(known) : known[i].addr # "routers"
    BY Elements, Anchors DEF Anchor
  <2> QED
    BY <1>3, <1>5, <1>13, <2>1 DEF At
<1>15. \A i \in 1 .. k + 1 : v.out[i] = known[i].router
  <2>1. \A i \in 1 .. k : out[i] = known[i].router
    BY <1>1 DEF WalksSeeOneList
  <2> HIDE DEF v, out
  <2> QED
    BY <1>3, <1>13, <2>1
<1>16. \A u \in Walker : u # w => walk'[u] = NoWalk
  BY <1>3, <1>10 DEF WalkInside
<1>17. WalksSeeOneList'
  <2> HIDE DEF v, k
  <2>1. ASSUME NEW u \in Walker, walk'[u] # NoWalk
        PROVE  /\ Len(walk'[u].out) <= Len(known')
               /\ \A i \in 1 .. Len(walk'[u].out) : walk'[u].out[i] = known'[i].router
               /\ walk'[u].it = "routers" => Len(walk'[u].out) = Len(known')
    <3>1. u = w /\ walk'[u] = v /\ known' = known
      BY <1>9, <1>10, <1>16, <2>1
    <3> QED
      BY <1>5, <1>13, <1>14, <1>15, <3>1
  <2> QED
    BY <2>1 DEF WalksSeeOneList
<1>18. WalkInside'
  <2> HIDE DEF v, k
  <2>1. ASSUME NEW u \in Walker, walk'[u] # NoWalk
        PROVE  lock' = u /\ walk'[u].it = At("routers", known', Len(walk'[u].out) + 1)
    <3>1. u = w /\ walk'[u] = v /\ known' = known /\ lock' = u
      BY <1>3, <1>9, <1>10, <1>16, <2>1
    <3>2. Len(v.out) + 1 = k + 2
      BY <1>3, <1>13
    <3> QED
      BY <1>13, <3>1, <3>2
  <2> QED
    BY <2>1 DEF WalkInside
<1>19. UpdateInside'
  BY <1>9 DEF UpdateInside
<1> QED
  BY <1>9, <1>12, <1>17, <1>18, <1>19, RingsKept

-----------------------------------------------------------------------------
(***************************************************************************)
(* The invariant is kept by every step ...                                 *)
(***************************************************************************)
LEMMA RInvStep == RInv /\ [RNext]_rvars => RInv'
<1> SUFFICES ASSUME RInv, [RNext]_rvars PROVE RInv'
  OBVIOUS
<1>1. CASE UNCHANGED rvars
  <2>1. Rings' /\ NoEntryLost'
    BY <1>1, RingsKept DEF rvars, links
  <2> QED
    BY <1>1, <2>1
    DEF rvars, links, RInv, RTypeOK, WalksSeeOneList, UpdateInside, WalkInside
<1>2. CASE UpdateNext
  BY <1>2, InitTmpStep, LockStep, FreeStep, LinkStep, ParseStep DEF UpdateNext
<1>3. CASE \E w \in Walker : WalkStart(w) \/ WalkStep(w) \/ WalkEnd(w)
  BY <1>3, WalkStartStep, WalkStepStep, WalkEndStep
<1> QED
  BY <1>1, <1>2, <1>3 DEF RNext

(***************************************************************************)
(* Links, cursor and iterators of router.c lead to nodes in every          *)
(* reachable state, for every heap, set of routers and number of handlers. *)
(***************************************************************************)
THEOREM RouterListTypeCorrect == RSpec => []RTypeOK
BY Inits, RInvStep, PTL DEF RSpec, RInv

(***************************************************************************)
(* set_routers and parse_node keep two sound rings, and no thread ever     *)
(* touches a freed entry.                                                  *)
(***************************************************************************)
THEOREM RingsHold == RSpec => []Rings
BY Inits, RInvStep, PTL DEF RSpec, RInv

(***************************************************************************)
(* router_update_thread neither leaks an entry nor links one twice, however *)
(* many of its requests fail half-way.                                     *)
(***************************************************************************)
THEOREM NothingLost == RSpec => []NoEntryLost
BY Inits, RInvStep, PTL DEF RSpec, RInv

(***************************************************************************)
(* flood_message and routers_to_json see one list, in full, whenever the   *)
(* update thread exchanges it.                                             *)
(***************************************************************************)
THEOREM OneListSeen == RSpec => []WalksSeeOneList
BY Inits, RInvStep, PTL DEF RSpec, RInv
=============================================================================
