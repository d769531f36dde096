----------------------------- MODULE RouterList -----------------------------
(***************************************************************************)
(* The list of routers that a router knows (router/router.c): the ring of  *)
(* entries behind `routers', the temporary list `tmp' on the stack of      *)
(* router_update_thread, and the handlers that walk the ring to flood a    *)
(* message or to answer a discover request.                                *)
(*                                                                         *)
(* Entries live on a heap that hands out freed addresses again.  Whatever  *)
(* psnet_request leaves in dst is parsed: an attempt yields any entries    *)
(* and then succeeds or fails.  Touching a freed entry sets fault.         *)
(*                                                                         *)
(* A definition named Mut... is the next one with a plausible mistake.     *)
(***************************************************************************)
EXTENDS Integers, Sequences

CONSTANTS
    Addr,    \* addresses malloc may return
    Router,  \* contents of an entry
    Walker,  \* handler threads
    NULL

ASSUME RouterListAssumption ==
    /\ NULL \notin Addr \cup Router
    /\ {"routers", "tmp"} \cap (Addr \cup {NULL}) = {}
    /\ {"free", "update"} \cap Walker = {}

Node == Addr \cup {"routers", "tmp"}  \* an entry or one of the two heads

VARIABLES
    next, prev,  \* the links of every node
    ent,         \* what an allocated entry holds, NULL for a freed one
    lock,        \* holder of routers_lock: "free", "update" or a walker
    upc,         \* where router_update_thread is
    cur,         \* pos, its cursor in set_routers
    walk,        \* the walk each handler is on
    fault,       \* a freed entry was used
    known,       \* history: the entries of the ring, in order
    pending      \* history: entries parsed and not yet in the ring

links == <<next, prev, ent>>
rvars == <<links, lock, upc, cur, walk, fault, known, pending>>

Live == {a \in Addr : ent[a] # NULL}

NoWalk == [it |-> NULL, out |-> <<>>]

Crash == fault' = TRUE /\ UNCHANGED <<links, lock, upc, cur, walk, known, pending>>

-----------------------------------------------------------------------------
(***************************************************************************)
(* The operations of include/list.h that router.c and parse.c call.        *)
(***************************************************************************)
INIT_LIST_HEAD(head) ==
    /\ next' = [next EXCEPT ![head] = head]
    /\ prev' = [prev EXCEPT ![head] = head]

list_add_tail(new, head) ==
    /\ next' = [next EXCEPT ![prev[head]] = new, ![new] = head]
    /\ prev' = [prev EXCEPT ![head] = new, ![new] = prev[head]]

\* The entry's own links are poisoned.
list_del(entry) ==
    /\ next' = [next EXCEPT ![prev[entry]] = next[entry], ![entry] = NULL]
    /\ prev' = [prev EXCEPT ![next[entry]] = prev[entry], ![entry] = NULL]

list_empty(head) == next[head] = head

-----------------------------------------------------------------------------
(***************************************************************************)
(* router_update_thread.                                                   *)
(***************************************************************************)
\* tmp is initialized once, when the thread starts.
MutInitTmpOnce ==
    /\ upc = "init"
    /\ upc' = "lock"
    /\ UNCHANGED <<links, lock, cur, walk, fault, known, pending>>

InitTmp ==
    /\ upc = "init"
    /\ INIT_LIST_HEAD("tmp")
    /\ upc' = "lock"
    /\ UNCHANGED <<ent, lock, cur, walk, fault, known, pending>>

\* routers_lock is taken only to install the new list.
MutUpdateUnlocked ==
    /\ upc = "lock"
    /\ upc' = "request"
    /\ UNCHANGED <<links, lock, cur, walk, fault, known, pending>>

UpdateLock ==
    /\ upc = "lock"
    /\ lock = "free"
    /\ lock' = "update"
    /\ upc' = "request"
    /\ UNCHANGED <<links, cur, walk, fault, known, pending>>

\* parse_node: an entry is allocated and added at the end of tmp.
parse_node(r) ==
    /\ upc = "request"
    /\ \E a \in Addr \ Live :
         IF prev["tmp"] \in Live \cup {"tmp"}
         THEN /\ list_add_tail(a, "tmp")
              /\ ent' = [ent EXCEPT ![a] = r]
              /\ pending' = Append(pending, [addr |-> a, router |-> r])
              /\ UNCHANGED <<lock, upc, cur, walk, fault, known>>
         ELSE Crash

\* A retry starts from an empty tmp, whatever is in it.
MutRetryInits ==
    /\ upc = "request"
    /\ lock' = "free"
    /\ upc' = "init"
    /\ UNCHANGED <<links, cur, walk, fault, known, pending>>

\* The attempt fails, perhaps half-way: its entries stay in tmp.
RequestFails ==
    /\ upc = "request"
    /\ lock' = "free"
    /\ upc' = "lock"
    /\ UNCHANGED <<links, cur, walk, fault, known, pending>>

RequestDone ==
    /\ upc = "request"
    /\ upc' = "set"
    /\ cur' = next["routers"]
    /\ UNCHANGED <<links, lock, walk, fault, known, pending>>

\* The next entry is looked up after the current one was freed.
MutFreeUnsafe ==
    /\ upc = "set"
    /\ cur # "routers"
    /\ IF {cur, next[cur], prev[cur]} \subseteq Live \cup {"routers"}
       THEN /\ list_del(cur)
            /\ ent' = [ent EXCEPT ![cur] = NULL]
            /\ cur' = next'[cur]
            /\ known' = Tail(known)
            /\ UNCHANGED <<lock, upc, walk, fault, pending>>
       ELSE Crash

\* set_routers: the old entries are unlinked and freed, one per step ...
SetFree ==
    /\ upc = "set"
    /\ cur # "routers"
    /\ IF {cur, next[cur], prev[cur]} \subseteq Live \cup {"routers"}
       THEN /\ list_del(cur)
            /\ ent' = [ent EXCEPT ![cur] = NULL]
            /\ cur' = next[cur]
            /\ known' = Tail(known)
            /\ UNCHANGED <<lock, upc, walk, fault, pending>>
       ELSE Crash

\* ... and those of tmp take their place; the thread unlocks and sleeps.
SetLink ==
    LET first == next["tmp"]
        last  == prev["tmp"]
    IN  /\ upc = "set"
        /\ cur = "routers"
        /\ IF list_empty("tmp")
           THEN INIT_LIST_HEAD("routers")
           ELSE /\ next' = [next EXCEPT !["routers"] = first, ![last] = "routers"]
                /\ prev' = [prev EXCEPT !["routers"] = last, ![first] = "routers"]
        /\ lock' = "free"
        /\ upc' = "init"
        /\ known' = pending
        /\ pending' = <<>>
        /\ UNCHANGED <<ent, cur, walk, fault>>

-----------------------------------------------------------------------------
(***************************************************************************)
(* flood_message and routers_to_json, which does not look at the limit     *)
(* that a discover request gives.                                          *)
(***************************************************************************)
WalkStart(w) ==
    /\ lock = "free"
    /\ walk[w] = NoWalk
    /\ lock' = w
    /\ walk' = [walk EXCEPT ![w] = [it |-> next["routers"], out |-> <<>>]]
    /\ UNCHANGED <<links, upc, cur, fault, known, pending>>

WalkStep(w) ==
    LET it == walk[w].it
    IN  /\ walk[w] # NoWalk
        /\ it # "routers"
        /\ IF it \in Live
           THEN /\ walk' = [walk EXCEPT ![w] = [it |-> next[it],
                                                out |-> Append(@.out, ent[it])]]
                /\ UNCHANGED <<links, lock, upc, cur, fault, known, pending>>
           ELSE Crash

WalkEnd(w) ==
    /\ walk[w].it = "routers"
    /\ walk' = [walk EXCEPT ![w] = NoWalk]
    /\ lock' = "free"
    /\ UNCHANGED <<links, upc, cur, fault, known, pending>>

-----------------------------------------------------------------------------
RInit ==
    /\ next = [n \in Node |-> IF n \in Addr THEN NULL ELSE n]
    /\ prev = next
    /\ ent = [a \in Addr |-> NULL]
    /\ lock = "free"
    /\ upc = "init"
    /\ cur = "routers"
    /\ walk = [w \in Walker |-> NoWalk]
    /\ fault = FALSE
    /\ known = <<>>
    /\ pending = <<>>

UpdateNext ==
    \/ InitTmp \/ UpdateLock \/ RequestFails \/ RequestDone \/ SetFree \/ SetLink
    \/ \E r \in Router : parse_node(r)

RNext ==
    /\ ~fault
    /\ \/ UpdateNext
       \/ \E w \in Walker : WalkStart(w) \/ WalkStep(w) \/ WalkEnd(w)

RSpec == RInit /\ [][RNext]_rvars

-----------------------------------------------------------------------------
(***************************************************************************)
(* Type invariant: links lead to nodes, and so do the update thread's      *)
(* cursor and the handlers' iterators.                                     *)
(***************************************************************************)
RTypeOK ==
    /\ next \in [Node -> Node \cup {NULL}]
    /\ prev \in [Node -> Node \cup {NULL}]
    /\ ent \in [Addr -> Router \cup {NULL}]
    /\ lock \in {"free", "update"} \cup Walker
    /\ upc \in {"init", "lock", "request", "set"}
    /\ cur \in Node
    /\ walk \in [Walker -> [it : Node \cup {NULL}, out : Seq(Router)]]
    /\ fault \in BOOLEAN
    /\ known \in Seq([addr : Addr, router : Router])
    /\ pending \in Seq([addr : Addr, router : Router])

\* The i-th node of a ring with head h and entries q: h itself before and
\* after the entries.
At(h, q, i) == IF i \in 1 .. Len(q) THEN q[i].addr ELSE h

\* From head h the links lead, both ways, through the entries q.
Ring(h, q) ==
    /\ \A i \in 0 .. Len(q) : /\ next[At(h, q, i)] = At(h, q, i + 1)
                              /\ prev[At(h, q, i + 1)] = At(h, q, i)
    /\ \A i \in 1 .. Len(q) : ent[q[i].addr] = q[i].router

Entries(q) == {q[i].addr : i \in 1 .. Len(q)}

NoRepeats(q) == \A i, j \in 1 .. Len(q) : q[i].addr = q[j].addr => i = j

(***************************************************************************)
(* set_routers: at every step `routers' is a sound ring of what the last   *)
(* update yielded, failed attempts before it included, and so is tmp of    *)
(* what was parsed since it was initialized; an old ring's end that tmp    *)
(* still points to after the exchange is never followed.                   *)
(***************************************************************************)
Rings == ~fault /\ Ring("routers", known) /\ (upc # "init" => Ring("tmp", pending))

(***************************************************************************)
(* No entry is lost or shared: every allocated one is on exactly one of    *)
(* the two rings (on that of `routers', while tmp is out of use) and only  *)
(* once, so that the next update frees it.                                 *)
(***************************************************************************)
NoEntryLost ==
    LET parsed == IF upc = "init" THEN {} ELSE Entries(pending)
    IN  /\ Live = Entries(known) \cup parsed
        /\ Entries(known) \cap parsed = {}
        /\ NoRepeats(known) /\ NoRepeats(pending)

(***************************************************************************)
(* A walk sees one list, in full: what it has seen is the beginning of the *)
(* ring as it is now, and all of the ring when it ends, however the list   *)
(* is exchanged between walks.                                             *)
(***************************************************************************)
WalksSeeOneList ==
    \A w \in Walker : walk[w] # NoWalk =>
        LET out == walk[w].out
        IN  /\ Len(out) <= Len(known)
            /\ \A i \in 1 .. Len(out) : out[i] = known[i].router
            /\ walk[w].it = "routers" => Len(out) = Len(known)
=============================================================================
