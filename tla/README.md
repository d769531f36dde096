# psnet in TLA+

A verification development for psnet: TLA+ models of the parts of the program
that carry its logic, TLC runs that check them on small instances, and proofs
checked by TLAPS that hold for every instance.

psnet is an overlay network for unreliable broadcast. A *tracker* (`pstrackd`,
`tracker/service.c`) keeps a list of routers; *routers* (`router/service.c`,
`router/router.c`) keep a list of clients and of other routers, and flood
broadcast messages to both. Both daemons are threads around shared tables: two
acceptors (TCP and UDP), one handler thread per connection or datagram, one
clock thread per table and, in the router, a thread that renews the router list
and one that keeps the tracker informed.

## Inventory

| Part | State | Operations | Interacts with | Hard behaviour | What makes it correct |
|---|---|---|---|---|---|
| delta list (`common/deltalist.c`) | hash table, doubly linked list with relative expiry times, size, sum | insert, update, remove, tick, foreach, clear, lookups | clock thread; client table and message cache | pointer updates over long call sequences, freed nodes, unsigned arithmetic, expiry on time | list = refresh order; every delta exact; elements leave exactly when due; no freed node used |
| client table (`common/client.c`) | one delta list of addresses | add, remove, list as JSON, flood | both daemons | list changes between requests; limits | responses respect `num`, no duplicates, requester excluded, complete |
| message cache (`router/msgcache.c`) | one delta list of ids | cache_msg | broadcast handlers | concurrent copies of one message | one handler floods an id per stay in the cache |
| thread pool (`common/server.c`) | `num_threads`, its mutex | accept, refuse, create, finish | `main`, UDP start-up, all handlers | second initialization by the UDP thread, failing `pthread_create` | count exact, limit kept, slots returned |
| broadcast (`router/service.c`, `router/router.c`) | hop count in the message, cache, router list, `routers_lock` | receive, deduplicate, flood | other routers, clients, update thread | loss, duplication, reordering, forgotten ids, lock held during a request | floods once, hop limit, dies out, nobody stuck |
| router list (`router/router.c`) | list of addresses, `routers_lock` | renew, walk | tracker, handlers | replacement during a walk, failed attempts | walks see one complete list |
| registration (`router/router.c`, tracker's client table) | the sleep of the keep-alive thread, the tracker's table | connect datagram, expiry | routers and tracker | loss, duplication, delay, restarts on both sides, two clocks with a second of margin | running routers get and stay listed, dead ones are forgotten |
| requests (`common/protocol.c`) | a socket, a response | request, parse header, read body | tracker | partial failure, uninitialized results | a request is sent, a failure is reported |
| tokenizer (`common/jsmn.c`) | token array, `toknext`, `toksuper` | parse, look up a field | message parsing | nesting found by scanning backwards, array full, skipping of nested values | accepts what the brackets allow, counts right, finds the right value |
| parsing (`common/parse.c`) | token array and its capacity | parse a message, a header, a list of nodes | handlers, requests | capacity and tokens carried from message to message, room for entries | parsed lists and headers are those of the text |
| socket I/O (`common/network.c`) | delimiter automaton | read a message, send | handlers | delimiter at the limits of the buffer | message ends at the first delimiter |
| configuration (`common/ini.c`, `ini_handler`, `parse_opts`) | settings, section, previous name, first error | read a line, an option; start | `main` | continued lines, numbers in `int` and `long`, two sources for one setting | last usable setting counts, first error reported, no thread limit of 0, no port registered that is not listened on |
| daemonize, terminal colours | – | – | – | – | not modelled |

`PROJECT.json` lists the same components with their status, and the hazards
with the source line where each one bites and the property that would notice.

## Modules

**DeltaList** is `common/deltalist.c` pointer by pointer. `dl` holds the fields
of `struct delta_list` and, per address, the `delta`, `dl_next` and `dl_prev`
of a node; `ht` is the map the hash table implements; `data` says
what an allocated node holds, or that it is free. `free()` gives addresses back
and the next `malloc()` may return them. `fault` is set when a freed node is
dereferenced; C promises nothing after that, so the model stops. Operations that
end within one critical section are one action. `delta_tick`, `delta_foreach`
and `delta_clear` loop under `table->lock` and are several actions, with `op` as
the holder of the lock and `it` as the cursor.

**DeltaListH** adds history: `queue`, the order of the last refreshes; `ttl`,
the ticks each element should have left; `visited`, the elements a running
`delta_foreach` has called back; and `inForce`. The last becomes FALSE when the
last of several nodes is unlinked: `dl_remove_node` does not update
`delta_tail`, and from then on the list no longer does what its comments say
(see *Findings*). The history never influences an action of the code.

**HashTable** adds the bucket chains of the hash table, `table` and `ht_next`,
to DeltaListH: `get_node` walks a chain round by round, `hash_insert` puts a
node at its head, `ChainDrop` unlinks it where `get_node` found it. The chains
do not look at `ht`; `ChainsFind` says that they implement it.

**ExpiringList** is what a user of the delta list relies on, without pointers:
a queue of distinct elements, each of which leaves on the tick that brings it to
zero. DeltaListH implements it: `Contract` is its instance under the refinement
mapping (`queue`, `ttl` and `inForce`), `ContractSpec` the property.

**Server** is `common/server.c` and the clean-up at the end of each handler.
Every thread has a program counter; `num_threads++` and `num_threads--` are a
load and a store, because `udp_server_init` writes the variable without the
lock. `main()` has initialized the counter and the mutex in `SInit`; `Reset` and
`Reinit` are the second initialization. `leaked` counts handlers
`pthread_create` failed to start, `lost` the slots in use at the reset, and
`clean` says that the reset and the re-initialization met no thread in a
critical section. A reset inside a critical section, or a re-initialization of a
held mutex, is undefined; nothing is claimed after it.

**Flood** is broadcasting in a network of routers: `process_broadcast`,
`cache_msg`, `flood_message`, `flood_to_clients`, `router_update_thread` with
`set_routers`, and the datagrams between them, which are lost, duplicated and
reordered. Handler threads are slots with a program counter; caching is one
step because `delta_update` holds the table's lock; a flood is two steps under
`routers_lock`. Of the `hops` field the code compares and increments the
first character only; `hops` is that character, counted from '0', so that a
claimed 10 is a 1. `age` is history: the routers a copy has really passed. Values
that the code reads uninitialized are nondeterministic: the list a tracker request yields, the length of a broadcast that came over TCP,
and half of an IPv6 sender's address.

**Tracker** is the client table and the tracker's handlers on top of
HashTable: a connect is `delta_update`, a disconnect `delta_remove`, and list
and discover are a `delta_foreach` whose callback builds the response. A port
number is checked against the `PORT_MAX` of the source (665535) and then
truncated to 16 bits; `num` goes from `long` to `int` (`Int32`) before it is
checked.

**Connection** is one TCP connection: `tcp_read_msg` with one `recv` per step
and its delimiter automaton (`pos`), `parse_message` with the token capacity
(`ntok`) that it overwrites, and the loop of `handle_connection`, which is the
same in both daemons. A byte is CR, LF or something else; what a complete text
means (how many tokens, a known method or not) is the client's choice. A text
without tokens is not refused: the array still holds the previous message's, or
nothing, so it may be served too, with 0 as the new capacity; and a text that
fills the buffer has no terminating NUL and may take any number of tokens.
`RecvNothing` is the end of the stream, an error, or the 30 seconds of
`SO_RCVTIMEO`. An answer is a state of its own: `send` blocks without a timeout,
and `Answered` and `Refused` are its return.

**RouterList** is the list of `router/router.c` link by link: the ring behind
`routers`, the temporary list `tmp` of `router_update_thread`, `set_routers`
freeing one entry per step, and walks by handlers (`flood_message`,
`routers_to_json`). Since `psnet_request` leaves its result undefined, an
attempt parses any entries and then succeeds or fails. `known` and `pending` are
history: the entries the two lists should have, in order, each with its address. `INIT_LIST_HEAD`,
`list_add_tail`, `list_del` and `list_empty` are those of `include/list.h`.

**Overlay** puts the routers' keep-alive threads and the tracker's table
together, on top of Tracker and down to the pointers. Time passes in seconds
(`Second`); within one, every thread that is due runs, in any order. A datagram
takes at most `MaxDelay` seconds, and is lost, duplicated and overtaken. Routers
stop without a word and start again, perhaps without a keep-alive thread
("mute"), because `main` ignores the result of `router_init`; the tracker starts
again with an empty table. `silent`, `missing` and `sure` are history.

**Jsmn** is the tokenizer as it is built, without `JSMN_STRICT` and
`JSMN_PARENT_LINKS`: `jsmn_parse` is one round of its loop, from a parser and a
lexeme (a bracket, a string, a primitive, a malformed or a cut-off one) to a
parser. Strings are known by their pieces, since `jsmn_get_value` compares
prefixes, and texts by what the code looks at in their characters (`chars`):
the first one, the number their leading digits make, whether anything follows
those, and their length. The loops that look at the tokens are one operator per round
(`SkipRound`, `FieldRound`, `ElementRound`), which does nothing once the loop
has ended, and a recursive function that takes as many rounds as there are tokens.
**Parse** reads texts one lexeme per step and then does what
`parse_message`, `parse_node_list` and `parse_header` do. A text that is copied
behind the end of a stack buffer (46 characters for an address or a port, 5 for
a size) makes the outcome `Overrun`, after which nothing is claimed. Its history is the
outline of the text, recorded from the brackets without looking at the tokens:
the text (`js`), where the tokens are in it (`place`), the bracket around each
position (`around`) and what is directly inside each (`inside`). It is the
reference the properties compare with.

**Config** is a daemon's way to its settings: `ini_parse_file` line by line,
`ini_handler`, `parse_opts` option by option, and the order of `main`. A text is
the number it begins with and whether anything follows; `Int32` is the
conversion from `long` to `int`, and `% PORT` the one to `in_port_t`.
`registered` is the port `router_init` gives to the threads that report to the
tracker, or 0 when it starts none, which `main` ignores; `Listening` is the port
`getaddrinfo` makes of the same text.

**DeltaListProof**, **TrackerProof** (which also treats HashTable and Overlay),
**ServerProof**, **ConnectionProof**, **FloodProof**, **RouterListProof**,
**ConfigProof** and **ParseProof** hold the proofs. The **MC...** modules
instantiate the others for TLC: bounds, symmetry, and the properties that only
TLC checks.

## Runs

| Run | Shows |
|---|---|
| `client_table` | The tracker's requests and the remaining calls of the delta list's interface; three hosts of which two share a bucket, three addresses, interval 2, port 1 sent as 1, as 65537 or as a number beyond an `int`, a port out of range, `num` from -1 to 2, very large and beyond an `int`. The hash table's contents (`Indexed`), its chains and `size` (`ChainsFind`), the list's contents (`Represents`), no walk leaves the heap or goes round (`WalkSafe`), the head's delta never waits at zero (`HeadPositive`), no element leaves early, the refinement of ExpiringList; responses are within the limit, free of duplicates and of the requester (`ResponseSound`), and complete. `Indexed`, `ChainsFind`, `WalkSafe` and `ResponseSound` also hold after the list is corrupt; the others claim nothing then (`inForce`). |
| `thread_pool` | Limit 2 with four handler threads, enough for the 2 + 2 that a reset can lead to: exact count, limit; slots come back and accepted clients are dealt with. |
| `flood` | Two routers, one on the IPv4 host of the client and one on IPv6, two handlers each, one duplicated datagram and two changes to the routers' lists; a client claims a hop count that begins with 0, 1 or 7 or with something below a digit: no copy passes more routers than the limit allows, one flood per stay in the cache. |
| `flood_dies_out` | Two IPv6 routers that know each other: a broadcast dies out though caches forget at any time, and every handler finishes. |
| `overlay` | Two routers and a tracker, losses, duplicates, delays, crashes and restarts: a router that is gone is forgotten after the interval and a datagram's delay (`NoGhosts`); one of whose datagrams none is lost is never missing for longer than that delay (`StaysListed`); one that runs on is listed again and again (`GetsListed`). |
| `connection` | Every byte stream over three kinds of bytes, a buffer of seven and five tokens: a delimiter that no CR precedes is not read past (`StopsAtDelimiter`), no parse is promised more tokens than the array has (`CTypeOK`), and a client that stops sending but takes its answers loses its connection (`SilenceCloses`). |
| `router_list` | Five entries, two handlers, attempts that fail half-way: both rings sound at every step (`Rings`), no entry lost or shared (`NoEntryLost`), a walk sees one complete list (`WalksSeeOneList`). |
| `messages` | Messages of up to six lexemes, one message after the other in one array of five tokens; node lists of up to one entry more than the limit; headers of up to four fields; numbers with and without text behind them, and texts longer than the buffers they are copied into: sizes and nesting as the brackets say (`Nesting`), accepted or refused for the first thing wrong (`Verdict`), fields found behind nested values (`ValueFound`), lists and headers parsed as written, with a buffer overrun by nothing but texts that are too long for it (`NodesParsed`, `HeaderParsed`), and room for the entries asked for (`RoomForEntries`). |
| `configuration` | Both daemons, every sequence of four lines and options: the first bad line is reported (`ErrorIsFirst`), the last usable setting counts (`LastOneCounts`), nobody serves with `max-threads` 0, and the port a router registers is one it listens on (`Usable`). |

Three more runs end in a counterexample; they are the findings below.

*Bounds.* Three nodes are enough for a head, a tail and one in between, and
for a node that is freed and reused while two others are linked; runs with four
addresses, interval 3 and a larger skew show nothing new. After corruption the
deltas drift; `MaxSkew` keeps that part of the state space finite. It is out of
reach while the promise is in force, so it cuts nothing away from the properties
that hold only then. `UINT` is 64, far above every distance
that occurs. Flood caps the broadcasts, duplicates and list changes with
`MaxCasts`, `MaxDups` and `MaxChanges`; expiries are not bounded, so that in
`flood_dies_out` nothing but the hop limit can end the circulation. The hop limit is 3
instead of 4: a message still goes there, back and there again. The thread pool's
passing runs stop at the first state in which `clean` is FALSE.

A buffer of seven bytes holds the longest
message the automaton can tell apart from a shorter one: a delimiter, the byte
before it and two more. Five entries fill both lists of RouterList at once with
two or more each.

In `overlay` the interval is 2 and the keep-alive interval 1 (10 and 9 in the
code: what matters is that they differ by one), and a datagram takes up to a
second, so that two of a router's datagrams can be under way and overtake each
other; 3 and 2 show nothing new. Behaviours end where the list becomes corrupt
(finding 1), since nothing is claimed after that. In `messages` six lexemes
close a bracket inside another and leave room for a field behind it, with one
lexeme more than the five tokens hold. In `configuration` four inputs are a
section, a field, its continuation or replacement and an option; `INT` is 32
instead of 2^32 and `PORT` 8 instead of 2^16; in the tracker `INT` is 2^20, above
every port number the source accepts.

*Fairness.* Clock threads, handlers and acceptors are never blocked by anything
but a mutex, so a step that stays possible is taken (weak fairness). A thread
that waits for a mutex other threads take again and again is assumed to get it
in the end (strong fairness on taking the lock). Nothing is assumed about
clients: connections may stay open, callbacks may break off, broadcasts may
never come. In Connection `recv()` returns within its timeout, and a
text that was read is parsed; that `send()` returns is not assumed, since nothing
limits it: `SilenceCloses` has it as its premise that the client takes its
answers (`TakesAnswers`), and without the premise TLC finds a handler that waits
for ever. In Flood `connect()` returns, which TCP's own timeout guarantees, and
a datagram does not stay in flight for ever. In Overlay the same holds of threads,
clocks and datagrams; and of the datagrams a router sends again and again the
tracker gets one in the end, which is an assumption about the network and
about the tracker's thread limit (strong fairness on `Deliver`, only for
`GetsListed`).

## Proofs

For every set of elements, heap, interval and width of `unsigned int`
(`ConstantsAssumption`: the interval is positive and fits):

* `TypeCorrect`: `HSpec => []HTypeOK`.
* `ListRepresentsQueue`: `HSpec => [](Indexed /\ Represents)`. The inductive
  invariant is `HTypeOK /\ Indexed /\ Represents`. `Represents` says that the
  pointers spell out `queue` with the deltas that `ttl` demands; it is not
  inductive alone, because freeing a node or linking a new one is harmless only
  if elements, nodes and queue positions correspond one to one, which is
  `Indexed`. The lemmas treat a chain of nodes as two sequences (nodes and
  ticks): one lemma each for appending, unlinking, ticking and walking, and one
  for each action.
* `ListImplementsContract`: `HSpec => ContractSpec`, from the invariant: each
  action maps to an ExpiringList action or leaves its variables alone.
* `HeadPositiveHolds`: `HSpec => []HeadPositive`, and `NoEarlyExpiryHolds`:
  `HSpec => NoEarlyExpiry`, both about the list while the promise is in force.
  They read the head's delta, and the elements a tick drops, off the sequence
  that `Represents` spells. On a corrupt list neither is true: the deltas
  drift, and after enough calls an unsigned delta wraps.
* `TableIndexed`: `HSpec => []Indexed`, with or without the promise: the hash
  table and the nodes' contents are inverse to each other however corrupt the
  list is.
* `WalksAreSafe`: `HSpec => []WalkSafe`. This is about the list after finding 1,
  when the pointers no longer spell anything. What is left is `WalkInv`: among
  the nodes the hash table knows, `dl_next` leads to such a node, whose
  `dl_prev` leads back, and nothing leads to the head. Then `dl_next` is
  injective and misses the head, so no walk from the head can meet a node
  twice; a running `delta_foreach` has followed `dl_next` from the head
  (`Trail`), and the node `delta_clear` stands on has no predecessor left.
  `delta_tail` appears nowhere in it: it may name anything.

For every finite heap smaller than an `unsigned int` can count, every number of
buckets and every hash function (`HashAssumption`):

* `TrackerUsesTable`: `TSpec => KSpec /\ HSpec`, so that what is proved of the
  table holds in the tracker.
* `ChainsFindHolds`: `KSpec => []ChainsFind`. The invariant, `ChainInv`: each
  bucket's chain spells a sequence of exactly the elements that hash there, and
  `size` is their number. It needs `Indexed`, since a freed node must be in no
  chain. `get_node` is a recursive function; that it returns the node is
  shown by a least round at which it would differ from the sequence, since the
  library's induction theorems cannot be used (below).
* `ResponseIsSound`: `TSpec => []ResponseSound`. While a response is built, what
  it lists has been called back and is listed once (`ReqInv`); that the walk
  calls nobody back twice, even over a corrupt list, is `WalkInv`.
* `ResponseIsComplete`: `TSpec => ResponseComplete`, an action property. While
  the promise is in force the elements called back are the beginning of `queue`,
  the cursor stands on the next one, and the list built so far is those without
  the one to ignore (`Gathered`). It needs `Represents` for the cursor and
  `Indexed` for what a node holds. The lemmas `WithoutAppend` and
  `WithoutPrefix` say how leaving out an element commutes with appending and
  with taking the beginning.

For every keep-alive interval from 1 to below the expiry interval and every
bound on a datagram's delay (`OverlayAssumption`), any number of routers,
losses, duplicates, crashes and restarts:

* `NoGhostsHold`: `OSpec => []NoGhosts`. `Fading`: the ticks left to a listed
  router and the seconds it has been silent add up to at most the interval and
  the delay, and a datagram under way is at least as old as its
  sender's silence.
* `StaysListedHolds`: `OSpec => []StaysListed`. `Lasting`: as long as none of a
  router's datagrams is lost, either its next report is sent before its entry is due
  (`timer` below what is left of `ttl`), or one is under way. The two clocks are not
  synchronized, so both invariants count a tick of this second (`Beat`). Both
  rest on `HTypeOK /\ Indexed /\ Represents`: an entry leaves on the tick its
  interval ends, which finding 1 takes away; therefore they say nothing then.

For every `max_threads` and any finite set of handlers (`ServerAssumption`):

* `PoolTypeCorrect`: `SSpec => []STypeOK`.
* `PoolCountsThreads`: `SSpec => [](Exclusion /\ Accounting /\ ThreadLimit)`.
  `Accounting` needs the loaded value to be current at the store (`SlotInv`),
  which needs the mutex to exclude (`Exclusion`); the four together with the
  type invariant are inductive.
* `ThreadLimitHolds`: `SSpec => []ThreadLimit`, because a handler at work holds
  a slot.

For every size of the buffer and of the token array (`ConnectionAssumption`):

* `ConnectionTypeCorrect`: `CSpec => []CTypeOK`.
* `MessageBoundaries`: `CSpec => [](EndsInDelimiter /\ StopsAtDelimiter)`. The
  invariant says what `delim.pos` knows: the last `pos` bytes are the beginning
  of a delimiter (`Sound`), and whenever the last k bytes are one, with no CR
  before them, `pos` is k, or k + 2 if they continue an earlier line end
  (`Noticed`). The second part is what fails after a CR.

For every network of routers and clients, number of handlers and hop limit that
one digit can hold (`FloodAssumption`: 2 to 10):

* `FloodTypeCorrect`: `FSpec => []FTypeOK`.
* `HopLimitHolds`: `FSpec => []HopLimit`; whatever its first character, the
  count a handler accepts leaves room for one more, and has grown with every
  router since the first.
* `FloodOnceHolds`: `FSpec => []FloodOnce`, inductive with the type invariant:
  `surplus`, the floods of an id less the times it left the cache, and the
  handlers about to flood it add up to one while the id is cached and to none
  otherwise. The lemmas follow the set of those handlers through each step, which
  takes a finite number of them.

For every heap, set of routers and number of handlers (`RouterListAssumption`):

* `RouterListTypeCorrect`, `RingsHold`, `NothingLost`, `OneListSeen`: `RTypeOK`,
  `Rings`, `NoEntryLost` and `WalksSeeOneList`. They are inductive only together
  (`RInv`), with what the lock gives: the update thread's cursor is at the first
  entry left while it holds the lock (`UpdateInside`), a handler's iterator at the
  entry behind those it has seen (`WalkInside`). The lemmas treat a ring as the
  sequence it spells, and `list_add_tail`, `list_del`, and the replacement at the end
  of `set_routers` as operations on it.

For every file, command line and even width of an `int`, and every number of
ports that divides it (`ConfigAssumption`):

* `UsableHolds`: `GSpec => []Usable`; no accepted line or option stores 0, and a
  number leaves the same remainder after the conversion to an `int` as before
  (`SamePort`), so that the port registered is the one listened on.
* `ErrorIsFirstHolds`: `GSpec => []ErrorIsFirst`; the error reported is a bad
  line, not below any line that is bad whatever precedes it (`ErrorInv`).
* `LastOneCountsHolds`: `GSpec => []LastOneCounts`. `LastInv` says that
  `section` and `prev_name` are those of the last header and the last pair
  behind it, and each setting that of the last line or option that counts.

For every set of lexemes, size of the token arrays and limit on the entries
(`ParseAssumption`: the sizes and the limit are positive), texts of any length and depth:

* `ParserTypeCorrect`, `NestingHolds`, `VerdictHolds`: `PTypeOK`, `Nesting` and
  `Verdict`. The inductive invariant, `ParseInv`, says of the outline that the
  tokens form a forest numbered in the order they are met (`Forest`: what is
  inside a token comes behind it and before anything else that comes behind it);
  of the parser that its tokens are those of the outline (`Agrees`) and that the
  open ones are exactly those on the way to the bracket it is in (`Path`); and
  of a text that was refused that its last lexeme is the only thing wrong (`Stopped`). `Path` is
  what replaces the parent links: the loop that looks for the innermost open
  token finds the bracket around the closed one.
* `ValueFoundHolds`: `PSpec => []ValueFound`. The loop that skips a value has, in
  every round, as many tokens left to skip as it has met children and not yet
  passed (`AheadCount`), so it stops at the next token beside the value, and has
  raised the limit by what it passed (`SkipFinds`, `SkipOver`). Hence the loop over the fields stands, after n
  rounds, at the n-th name inside the object, and stops at the least that is a hit or is
  no name (`GetFinds`).
* `HeaderParsedHolds`, `NodesParsedHolds`: `HeaderParsed` and `NodesParsed`, from
  `ValueFound`'s lemmas; the loop over the elements stands at the n-th element
  with the n addresses before it (`ElementAtIs`, `ListIs`). What becomes of one
  element is decided by the tokens of its three fields (`NodeOutcome`), overruns
  included (`AddressIs`).
* `RoomForEntriesHolds`: `PSpec => []RoomForEntries`. Between one element and the
  next there are at most ten tokens if none has more, which is added up over the
  list (`TenEach`).

All the loops are recursive functions. What they compute is shown as for `get_node`: the
state of every round is given in closed form, and a least round at which it
would differ is contradicted.

Model-checked only: liveness (`GetsListed`, `SlotsReturn`, `SilenceCloses`,
`Quiescence`, `HandlersFinish`), which is beyond the prover.

## Findings

1. *delta_tail* (`common/deltalist.c:98-111`): `dl_remove_node` does not update
   it. When the last of several elements is refreshed, it is appended behind
   itself: the hash table knows it, but the list no longer reaches it. The run
   `foreach_doc` shows that `delta_foreach` then misses the element. For the same
   reason the clock never expires it, and `delta` is no longer the sum of the
   deltas.
2. *num_threads* (`common/server.c:192`): initialized a second time while
   handlers may be running (`max_threads_doc`).
3. *ip_addr_equals* (`include/ipv6.h:91-92`): inverted for IPv4
   (`forward_doc`). The counterexample takes a router that knows another one,
   which at present depends on the uninitialized result of finding 6.
4. *tcp_read_msg* (`common/network.c:96-99`): after a mismatch the byte is not
   looked at again, so the double CRLF in CR CR LF CR LF is missed.
   `StopsAtDelimiter` and the theorem about it except this case.

The rest follows from reading the code while modelling it; no run is about it.

5. `routers_to_json` (`router/router.c:178`) ignores the `num` of a discover
   request, which doc/psnet_protocol:150 calls the maximum number of addresses.
6. `psnet_request` never sends its request (`common/protocol.c:47-49`),
   `udp_server_main` stores half of an IPv6 address (`common/server.c:207`),
   `handle_connection` leaves the length of a broadcast unset
   (`router/service.c:196-228`), `main` ignores the result of `router_init`
   (`router/service.c:410`), and `router_keepalive_thread` compares with -1 what
   is a negated `errno` (`router/router.c:109`).
7. `parse_message` (`common/parse.c:164`): a text without tokens is parsed
   successfully, and the tokens looked at are those of the message before. And it
   stores the number of tokens used where the capacity is kept
   (`common/parse.c:166`): each request on a connection must make do with as
   many tokens as the one before it took, and a larger one is refused.
8. `jsmn_get_value` (`common/jsmn.c:305`): compares only as many characters as
   the key has, so an entry with `ipv` before `ip` is refused. `NodesParsed` excepts it.
9. `parse_node_list` (`common/parse.c:88`): `nentries`, "the maximum number of
   entries to parse" (`include/parse.h:43`), limits the tokens only. An entry of
   three fields takes seven of the ten tokens reserved for it, so up to ten
   sevenths of `nentries` are taken: four of them fit in the tokens for three.
   `RoomForEntries` is about the other side, that as many as `nentries` fit.
10. `parse_node` copies an address and a port of any length into 46 characters
    (`common/parse.c:32`, `59-60`, `70-71`), and `parse_header` a size into five
    (`117`, `142-143`): longer ones, such as a size of 10000, are written behind
    the buffer. `NodesParsed` and `HeaderParsed` name the texts concerned.
11. Numbers are not read as a whole. An `ipv` of `4x` is a 4
    (`common/parse.c:54-55`), a size of `7x` is 7 (`145-148`), and of `hops` the
    first character is compared and incremented (`router/service.c:149-152`): a
    message that claims 10 hops goes on with 20.
12. `router_init` (`router/router.c:126-128`) converts the port with `atoi` and
    to 16 bits: 65536, which `parse_opts` accepts, is 0, and `router_init` fails.
    `main` ignores that, and `getaddrinfo` makes port 0 of the same text: the
    router serves on a port of the kernel's choice and never registers.
13. `handle_connection`: only `SO_RCVTIMEO` is set (`common/server.c:129`), and
    `tcp_send_bytes` blocks in `send` (`common/network.c:38`): a client that
    neither reads nor closes keeps its handler and its slot.
14. `ini_handler` accepts negative numbers, a `max-threads` of -3 among them, and
    numbers followed by text for "positive integers", which `parse_opts`
    refuses; and the router reads
    `directory-address` and `directory-port` where doc/psnetrc has
    `tracker-address` and `tracker-port`.
15. A router serves neither `disconnect` nor `list`, which doc/psnet_protocol
    gives to trackers and routers alike.

## Plan

Done: all components but the ones below, and the proofs above: every safety property
that a passing run checks is proved. What is
left:

* An abstract specification of the overlay (a set of listed routers with
  deadlines) that Overlay implements, so that three and more routers can be
  checked without the pointers.

## Not modelled

* `psnet_request` after its misplaced `goto`: unreachable. The functions it
  would call are modelled (Connection, Parse), and RouterList and Flood take
  every outcome it can have.
* `info`, `ip` and `ping`, and the JSON text of responses: they read and format.
* Memory that is lost (`add_client`, `psnet_request_discover`): it has no effect
  on what the daemons answer.
* `daemonize`, the terminal colours, the parts of `list.h` that psnet does not
  use, socket calls beyond their results.
