----------------------------- MODULE HashTable -----------------------------
(***************************************************************************)
(* The hash table inside the delta list (common/deltalist.c): an array of  *)
(* buckets, each a singly linked chain through ht_next, which get_node     *)
(* walks with the table's `equals'.  DeltaList represents it by the lookup *)
(* map ht; here the chains are kept beside that map, by every operation    *)
(* that touches them, and decide for themselves where a node is: ChainsFind *)
(* says that they implement the map.                                       *)
(*                                                                         *)
(* A definition named Mut... is the next one with a plausible mistake.     *)
(***************************************************************************)
EXTENDS DeltaListH

CONSTANTS
    HT_SIZE,  \* number of buckets
    hash      \* the table's hash function, the same for equal elements

\* The memory holds fewer nodes than table->size can count.
ASSUME HashAssumption ==
    /\ HT_SIZE \in Nat \ {0}
    /\ hash \in [Data -> Nat]
    /\ IsFiniteSet(Addr) /\ Cardinality(Addr) < UINT

VARIABLES
    table,    \* bucket -> the first node of its chain, or NULL
    ht_next   \* address -> node->ht_next

chains == <<table, ht_next>>
kvars  == <<hvars, chains>>

Index(d) == hash[d] % HT_SIZE

\* One round of get_node's loop for d: c.it is the node to look at, c.last
\* the one before it in the chain.
Step(d, c) ==
    IF c.it = NULL \/ data[c.it] = d THEN c
    ELSE [it |-> ht_next[c.it], last |-> c.it]

\* The cursor after n rounds.
Rounds(d, n) ==
    LET at[i \in 0 .. n] ==
          IF i = 0 THEN [it |-> table[Index(d)], last |-> NULL] ELSE Step(d, at[i - 1])
    IN  at

\* The loop ends within as many rounds as there are nodes, or never does.
get_node(d) == Rounds(d, Cardinality(Addr))[Cardinality(Addr)]

hash_insert(n, d) ==
    /\ table' = [table EXCEPT ![Index(d)] = n]
    /\ ht_next' = [ht_next EXCEPT ![n] = table[Index(d)]]

\* delta_insert and delta_update: a node they allocate is chained.
ChainAdd(d) ==
    IF fault' \/ get_node(d).it # NULL THEN UNCHANGED chains
    ELSE hash_insert(ht'[d], d)

\* The bucket is always given the removed node's successor.
MutDropAtHead(d) ==
    LET c == get_node(d)
    IN  IF fault' \/ c.it = NULL THEN UNCHANGED chains
        ELSE /\ table' = [table EXCEPT ![Index(d)] = ht_next[c.it]]
             /\ ht_next' = [ht_next EXCEPT ![c.it] = NULL]

\* delta_delete: the node is unlinked from its predecessor or its bucket.
\* What free() leaves in its ht_next is nothing anyone may read.
ChainDrop(d) ==
    LET c == get_node(d)
        rest == ht_next[c.it]
    IN  IF fault' \/ c.it = NULL THEN UNCHANGED chains
        ELSE IF c.last # NULL
        THEN /\ ht_next' = [ht_next EXCEPT ![c.last] = rest, ![c.it] = NULL]
             /\ UNCHANGED table
        ELSE /\ table' = [table EXCEPT ![Index(d)] = rest]
             /\ ht_next' = [ht_next EXCEPT ![c.it] = NULL]

NoBuckets == [b \in 0 .. HT_SIZE - 1 |-> NULL]

NoLinks == [a \in Addr |-> NULL]

-----------------------------------------------------------------------------
(***************************************************************************)
(* The interface of the delta list, with the chains.                       *)
(***************************************************************************)
KInsert(d)    == HInsert(d) /\ ChainAdd(d)
KUpdate(d)    == HUpdate(d) /\ ChainAdd(d)
KRemove(d)    == HRemove(d) /\ ChainDrop(d)
KExpire       == HExpire /\ (IF dl.head \in Live THEN ChainDrop(data[dl.head])
                                                 ELSE UNCHANGED chains)
KTick         == (HTickEmpty \/ HTickStart \/ HTickEnd) /\ UNCHANGED chains
KForeachStart == HForeachStart /\ UNCHANGED chains
KForeachCall  == HForeachCall /\ UNCHANGED chains
KForeachBreak == HForeachBreak /\ UNCHANGED chains
KForeachEnd   == HForeachEnd /\ UNCHANGED chains
KClear        == (HClearStart \/ HClearFree) /\ UNCHANGED chains
KClearEnd     == HClearEnd /\ table' = NoBuckets /\ ht_next' = NoLinks

KInit == HInit /\ table = NoBuckets /\ ht_next = NoLinks

KNext ==
    \/ \E d \in Data : KInsert(d) \/ KUpdate(d) \/ KRemove(d)
    \/ KTick \/ KExpire
    \/ KForeachStart \/ KForeachCall \/ KForeachBreak \/ KForeachEnd
    \/ KClear \/ KClearEnd

KSpec == KInit /\ [][KNext]_kvars

-----------------------------------------------------------------------------
(***************************************************************************)
(* Whatever was inserted, removed, expired and cleared in whichever order, *)
(* get_node finds the node of every element in the table by walking one    *)
(* bucket, finds nothing for any other element, reads no freed node on the *)
(* way and comes to an end.  table->size counts what can be found.         *)
(***************************************************************************)
ChainsFind ==
    ~fault /\ op # "clear" =>
        /\ \A d \in Data :
            /\ get_node(d).it = ht[d]
            /\ \A i \in 0 .. Cardinality(Addr) :
                  Rounds(d, Cardinality(Addr))[i].it \in Live \cup {NULL}
        /\ dl.size = Cardinality({d \in Data : get_node(d).it # NULL})
=============================================================================
