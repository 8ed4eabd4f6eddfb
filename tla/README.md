# Marina controller: verification project

Marina monitors network traffic with a Tofino switch.  The switch counts per flow
features (packets, sizes, inter arrival times) in registers; a controller, written in C
and running next to the switch driver, decides which flows are monitored, installs and
removes them, reads the registers once per second and exports the features.  The
controller's threads share rings, hash tables, heaps and arrays, mostly without locks.
This directory holds TLA+ models of that controller, TLC configurations for them, and
TLAPS proofs.

All paths below are relative to the repository, `src/` in `PROJECT.json`.

## The system

| Part | Source | State | Operations | Used by |
|---|---|---|---|---|
| Rings | `controller/datastructures/mk_ringbuffer.h` | array, `read`, `write`, `full`, `empty`, spin lock | `put`, `ensure_put`, `get`, `length` | packet ring: packet and export thread to flow db; data plane ring: flow db and bloom maintenance to data plane; DNS ring |
| Flow database thread | `controller/flow_db/flow_db.c` | heaps of free flow and session ids per pipe, flow table, session table | add a flow, remove by five tuple (FIN), remove by id (timeout), session clean up | reads the packet ring, fills the data plane ring |
| Id heap | `controller/datastructures/heap.c` | array, size | `build`, `push`, `pop` | flow db |
| Hash tables | `controller/datastructures/{flow,session,dns}_hashtable.c` | open addressing array, map from value to slot, flow counters | add, get, remove, remove by value, copy | one writer each; the packet and export threads read without lock |
| Data plane thread | `controller/dataplane/{dataplane,dp_api}.c` | cache of entry handles | install, remove, clear registers, write bloom bits | reads the data plane ring, writes the switch |
| Bloom filter | `controller/datastructures/bloom_filter.c` | 16 bit counters, a lock per filter | mark irrelevant, mark relevant, age at random | flow db and a maintenance thread |
| Features and aging | `controller/dataplane/features.c` | two register snapshots, 64 bit sums, time of the last change | read, accumulate, time out | export thread |
| Export | `controller/export/export_features.c` | copy of the session table and of the uuids, time of the last round | wait a second, read the features, copy, print | export thread |
| Packet handler | `controller/packet_handler/packet_handler.c` | none | parse, look addresses up, queue a command | pcap callback; fills the packet ring and the DNS ring |
| DNS database | `controller/dns_db/dns_db.c` | DNS table | insert an answer, remove a timed out address | DNS ring |
| Setup | `controller/controller.c`, `dataplane/prepare_dataplane.c` | port mapping | start the threads | |
| Switch program | `p4/` | classification tables, registers, bloom bits | classify, count, send to the controller | every packet |

How a flow lives: an unclassified packet reaches the packet handler, which queues
`PKT_ADD_FLOW`.  The flow database takes the lowest free flow id and session id of the
pipe of the packet's port, enters both tables and queues `DP_ADD_FLOW`.  The data plane
thread adds a classification entry, keeps its handle under the flow id, and from then on
the switch counts the flow's packets.  A FIN, or 30 seconds without change, makes the flow
database free the ids and queue `DP_REMOVE_FLOW` and, when the session ends,
`DP_CLEAR_REGISTERS`.

What is hard: every arrow above is asynchronous; ids, handles and slots are reused before
the other side has heard that they are free; full rings refuse commands and the callers
react differently; nearly all locks are commented out.  `PROJECT.json` lists these hazards
at their lines with the properties that cover them.

## The modules

| Module | Models | How |
|---|---|---|
| `BoundedQueue` | what a ring promises | abstract FIFO queue with call and return points |
| `CommandRing` | `mk_ringbuffer.h` | a program counter per thread, one action per shared memory access |
| `Commands` | `structs.h`, `dataplane_ringbuffer.h` | ids, ports, pipes, commands; the ring as bounded queue |
| `FlowDB` | `flow_db.c`, session counting of `session_hashtable.c` | one action per handler, split where it touches the ring |
| `DataPlane` | `dataplane.c`, `dp_api.c` | one action per command; the switch's tables with handles of their own |
| `Controller` | the two threads together | `FlowDB`, `DataPlane` and the bloom filter as third user of the ring |
| `IdPool`, `Heap` | `heap.c` | set of free ids; the array operations, one action per iteration of their loops, shown to implement it |
| `Dictionary`, `ProbeTable` | `flow_hashtable.c`, `session_hashtable.c` | dictionary; the writer of a table with linear probing, one action per store, shown to implement it |
| `FlowTable` | the lookup of `packet_thread` | extends `ProbeTable` by the reader without a lock |
| `SessionTable` | the copy of the session table in `export_features.c`, `mk_uuid` and its lock | extends `ProbeTable` by the reader that holds another lock |
| `Lifecycle` | `process_packet`, the loop of `flowdb_thread`, the aging in `features.c`, the rounds of `export_features.c` | extends `Controller` by the packet ring, the map of the egress indices, time and traffic |
| `BloomFilter` | `bloom_filter.c` | counters, locks, the aging thread and the switch's bits |
| `Features` | the arithmetic of `features.c`, `clear_registers` of `dataplane.c` | one feature of one session id: sync, read, load, store and clear are steps |
| `DnsDb` | `dns_db.c`, `dns_hashtable.c`, `dns_ringbuffer.h` | the table as a dictionary, in which a removal moves entries for a while |
| `PacketHandler` | `packet_handler.c`, the P4 `ingress` control | extends `DnsDb`; one action per lookup and per put into the packet ring; the switch's choice of packets in front, the flow database behind |

`MC...` modules give the constants values for TLC, `..._proofs` modules hold the theorems about
the module they are named after and their proofs; `HashTable_proofs` holds those about
`ProbeTable`, `FlowTable` and `SessionTable`, and `Lifecycle_proofs` uses the theorems of
`Controller_proofs`.

The abstractions fit together: `Controller` uses a bounded queue for the data plane ring
(`CommandRing` implements `BoundedQueue`, proved), the set of free ids with its minimum
for a heap (`Heap` implements `IdPool`, proved) and a dictionary for the flow table
(`ProbeTable` implements `Dictionary`, proved).  `Lifecycle` uses the actions of
`Controller` unchanged and adds variables beside them; that it implements `Controller` is proved.

### Rings

Variables `head`, `tail`, `full`, `empty` and `data` are the C fields.  `put` and `get`
test a flag without the lock, take the spin lock, `put` tests again, and each of the field
updates is a step.  `ensure_put` is `put` in a loop.  The spin lock is a variable; any
waiting thread may get it (no fairness among them).

### Flow database and data plane

A heap is the set of its ids.  A handler runs as one step up to its access to the data
plane ring, because only there another thread can see or change what the handler uses;
removals have two such accesses and three steps.  `dropped` records that the ring has
refused a command, so properties can say what holds while it has not.  With
`UseSessions`, `session_cleanup_after_flow_remove` passes an uninitialised variable as
counter index: the model chooses the index freely.  The offset in a FIN packet's five tuple
is uninitialised as well and comes from `Garbage`.  The switch chooses handles freely
among the unused ones of the table, rejects duplicate keys and full tables.  It is assumed
that a rejected `table_add` does not write the handle.  Flows are classified in the pipe they
arrive on and counted in the one they leave on (`features_egress` in `p4/include/features.p4`):
`CountedAt` are the indices at which an entry's packets are counted.

Left out of these modules: statistics, log output, the register write of
`clear_registers` (see `Features`).

### The life of a flow

`Lifecycle` closes the loop around `Controller`: `packet_ring` is the ring in front of
`flowdb_thread`, `egress_feature_to_session_id` the map that the session table keeps for the
aging, and `exporter` the index at which `process_and_age_feature` is.  The code reads the map
twice per index (lines 226 and 230; in the Debug and Release builds line 233 uses the value
that line 230 loaded), so `Age` and `Expire` are two steps, and sessions may come and go in
between.  Ages replace points in time: `last_flow_update` is how many seconds ago the index
was updated, all ages beyond the timeout being alike, and `uptime` is what CLOCK_MONOTONIC
shows, capped in the same way.  A packet of a flow is processed at any time, also after its
entry was installed: the packet may have waited for `packet_thread`.  `silent` observes how long
ago a read found that the session of an index had been counted.

A sync or a read may fail (`StartFailedRound`).  `read_feature` swaps the two buffers before it
knows: `differ` are the indices at which they differ and `swapped` says which is the newer one, so
that a failed read makes the aging see the differences of the read before once more.  `MapNew` and
`MapEnded` are the stores to `egress_feature_to_session_id`, the unconditional -1 of a removal
included (`session_hashtable.c:148`); the entries that a removal moves, and that are stored again,
are an arbitrary set.

The model has no sessions (`UseSessions` is false, as an assumption), because a timeout
carries a session id and is executed as a flow id.

### Id heap

`data` and `curSize` are the C fields.  Only `flowdb_thread` uses the heaps, so nothing
interleaves with a call; `call` is where the call in progress is, and an iteration of a loop is a
step: `heapify` at an index, for the index `a` of the loop of `heap_build` or for the 0 of
`heap_pop`, and the loop of `heap_decrease`.  The first lines of `heap_decrease` have no effect for
`heap_push`, its only caller, which has stored the item already.  `heap_peek` is not called.

### Hash tables

`entries`, `feature_index_to_entry_map` and `num_entries` are the C fields.  Between two
memory barriers the compiler may reorder stores, so `Store` writes the fields in any order,
as far as the readers can tell (`StoreGroups`);
`Publish` is the store to `occupied` behind the barrier.  The key is a struct: its copy
(`flow_hashtable.c:71`, `150`) and its comparison (`:98`) are several accesses in the program and one
step each in the model, so that a half written key is never compared.  A lookup could take one for
its own only if the hash agrees as well.  `murmur` is one of the hash
functions in `MurmurHash3`, chosen at the start.  `history` observes what happened during a
lookup, `copyHistory` what happened during a copy.  The search for an absent key in a full table
does not end.  `Found` is false then: an addition has tested `num_entries` before it searches, a session that gets a uuid has a
free id and with it a free slot, and a removal, which would not return, has no step.

`SessionTable` follows one row of the export: an arbitrary index of the map and an arbitrary
slot, copied in any order while `flowdb_thread` works on the table.  `uuid_mapping_lock`
stops only `mk_uuid`.  Rows may be wrong while a removal moves entries: the map names
the slot of an entry that has moved on, or key and value come from different sessions.  The
comment at `export_features.c:150` promises a "threadsafe copy"; `SettledIsExported` says what is
true of it.  The feature values are no part of the copy: `print_flow_data` reads them when the lock is
free again (`:109`), and `SessionTable` leaves them out.

A row has no uuid either.  `print_session_five_tuple` gets one and prints none
(`export_features.c:35-49`); only a build with `EXPORT_NUMPY` writes it (`:93`), which `config.h:105`
has commented out.  The header line begins with a column `uuid` nevertheless (`:64`), so that in the
default build every row has one field less than the header announces.  The uuids are therefore not
modelled, only their lock, which makes `mk_uuid` wait.

### Bloom filter

One pipe.  Critical sections are one step; the counter reads outside of them are
steps of their own.  `held` are locks that are never released: a counter that is 0 under the lock has
no branch that unlocks.  That is unreachable while no counter wraps around, because nothing else
decreases a counter between the maintenance's test and its lock (`LocksAreNotLost`).

Two behaviours of the model contradict comments in `config.h` (lines 94-100).  When the ring
refuses a removal, `Undo` increases the counters of all indices in the command, which
include those left over from earlier rounds and the initial 0, so a counter no longer tracks
the five tuples inserted into it.  The code has one command for all pipes, whose left over indices
may be another pipe's; with one pipe they are always of the same.  And `dataplane_thread` ignores removals (the write is
commented out), so the controller never clears a bit in the switch.  `bits` are the bits that
were written; the switch itself clears them when it looks at them, see below.

### Features

Snapshots of the register are kept as the total that had been counted, of which the code
sees the low word; `cleared` is the total that the last read before the value was set to 0
had brought.  A sync
copies the register into the driver's memory, a read copies that into a buffer; either may
fail, and `read_feature` swaps its buffers before it knows.  The addition to the value is a
load and a store, so that a clear in between is undone by the store; `Store` then brings
back `cleared`, too.  What the register counted before the clear but after the last read is
added to the next session's value.  `CorrectModuloWord` and `ValueExact` count from that read,
too, so they do not object to the traffic that is carried over; nor does the code try to avoid it.

`Restart` is the end of the controller at any point, with a switch that keeps counting, and
`Prepare` what `dataplane_thread` does before it executes commands.  It is assumed to be done
when `feature_export_thread` reads for the first time, a second after it was started; the code
has no other synchronisation of the two (`controller.c:51`).  `Prepare` is right for six of
the seven features.  `reset_fn` of `iat_log` resets `iat_log_square` (`features.c:70`), which
is the mutant `PrepareKept`: after a restart the first value of every session is
too large by what the switch had counted before, against the comment at `features.c:267`, "compute
the correct feature values for each flow".  For this feature `CorrectModuloWord` is violated, as the
mutant shows; the run `features` is about the other six.

### Packet handler and DNS database

`setup_session_hash` and `heuristic` look the two addresses of a packet up one after the
other, and `dns_db_thread` may change the table between any two of these four lookups.  A removal
that `heuristic` puts into the DNS ring is part of the lookup's step (`packet_handler.c:130-136`):
`packet_thread` is the ring's only producer, so nobody can take the room in between.
`dns_hashtable_get` reads the value after it has found the entry, without a lock: while
a removal moves entries (`dns_db = "moving"`) a lookup returns anything, and `torn` records
that it returned something wrong.  A lookup of an unknown address in a full table does not
return; the model then has no step for `packet_thread`, and the run does not check for
deadlock for this reason.  `parse_dns_packet` compares names beyond the end of
`RELEVANT_DOMAIN_NAMES` (`sizeof` counts bytes): the model lets any other record match.

`known` and `filtered` stand for what follows the packet ring; they change when
`flowdb_thread` takes a command.  The switch looks bloom bits up with `clr_bitc`
(`p4/include/bloomfilter.p4:74`), which clears them: a filtered flow is hidden for one packet,
although the file's header says "Entries are set and deleted by the controller".  A flow is only
written again if its counter was 0, so the model lets `PKT_ADD_BLOOM_FILTER_IRRELEVANT` have
no effect.

As answers are stored without a type (finding below), the entries that lookups can find come
from `Seeded`, which stands for the ones that `evaluation/packet_handler_eval.c` puts into the
table directly; DNS messages are taken from a port whose swapped number is 53.

## The runs

| Run | Question | Bounds |
|---|---|---|
| `ring` | is the unlocked fast path safe, is the ring a FIFO queue, do calls return | 2 producers, 3 slots, 2 items: full, empty and wrap around all happen |
| `controller_two_pipes` | are ids conserved, do they stay on their pipe, are counters shared, does the switch follow the flow table, does it catch up, do removals finish | 3 flows on 2 pipes that forward to each other, 1 id each, so that two flows compete for one id and ids and handles are reused while commands wait; the two are of different protocols, so that the switch has room for both at once and their entries could share a register |
| `controller_sessions` | are ids conserved with sessions | 2 flows of one session, counters within 2 of 0 |
| `flow_table` | probing, backward shift, map, termination, and what an unlocked lookup can return | 3 keys, 3 values, 3 slots: the table becomes full; two hash functions that collide around the end, of the looked up key too |
| `session_table` | what does the export print while sessions come and go | 3 keys, 2 ids, 3 slots: ids are reused for other keys and entries move around the end |
| `lifecycle` | are timeouts due, and does every flow end | a TCP and a UDP flow, 1 id per pipe, traffic from pipe 0 to pipe 1, so that a session is aged at an index that is not its id; a packet ring of 2 and a data plane ring of 1, timeout of 2 seconds, started 1 second after boot, syncs and reads that fail |
| `heap` | is the minimum right | 6 ids, all fill orders |
| `bloom_filter` | does a counted tuple reach the switch, can the threads block each other | 1 tuple marked up to twice per index, 2 filters of width 2, ring of 2 |
| `packet_handler` | do separate lookups agree, is only removed what timed out, is a relevant flow found, does the thread return | a UDP flow from a valid server, a TCP flow to one that times out, DNS messages; 2 seconds, rings of 1, a DNS table of 3 that becomes full, 1 flow id |
| `features` | are values right after failures, overflows, clears and restarts | words of 3, values of 2 words |

The bounds are the smallest at which reuse, refusal, wrap around and collision all occur;
each property is violated at these bounds by a mutant of the code (a dropped guard, a
missing reset, a swapped order).

Runs that are expected to fail show where the code does something else than its comments
say:

| Run | Comment | Behaviour |
|---|---|---|
| `session_ends_early` | sessions with active flows are not removed | the first flow is not counted and the counter to decrease is arbitrary |
| `answers_unused` | DNS messages are used to determine relevant flows | the port is compared in the wrong byte order, the key has no type, only one record is used |

Other behaviours to know of, which the models have and the properties leave out by their
premises: a full ring swallows the `DP_REMOVE_FLOW` of a FIN, and the entry stays in the
switch (`flow_db.c:123`, premise `~dropped`); a flow for which no session id is left stays
in the table without being installed (`flow_db.c:58`); a FIN that arrives on a port of
another pipe moves the ids to that pipe's heaps (`flow_db.c:114`; `IdsStayOnTheirPipe` has
stable ports as premise); a failed read makes a value too large by 2^32 (`features.c:186`,
premise `exact`), and reads that fail every other time do so again and again; a lookup
misses a known flow while a removal moves entries of its chain (`flow_hashtable.c:93`, premise
`~history.shifted` of `OnlyShiftsHide`); in the first `FLOW_TIMEOUT` seconds after boot every
flow is timed out that is not counted from one read to the next (`features.c:219`, exception of
`TimeoutsAreDue`); a new session inherits the age of its index and may be timed out before
a read has seen it counting (`features.c:226`, same property); after a rejected
`DP_ADD_FLOW` (a full table of the switch) the cached handle is that of the flow
id's previous flow, and the next removal deletes whatever entry has it now (`dataplane.c:66`;
`RemovalHitsItsFlow` is checked with
tables that have room for all flow ids); a FIN clears the values at an uninitialised offset
from its session, perhaps those of another flow (`packet_handler.c:238`, premise `OffsetFits` of
`CountersNotShared`); if two pipes forward to the same pipe, their flows are counted into the
same registers there (premise `EgressPipesApart`), and the end of one session hides the other
from the aging (`session_hashtable.c:148`); reads that fail every other time keep an idle flow for
ever (`features.c:186`, premise of `IdleFlowsEnd`).

## Fairness

Every thread is an endless loop on a core of its own, so a thread that can take a step
takes one: weak fairness of each thread's continuation.  Nobody is obliged to send packets,
so starting an operation is never fair.  The spin lock is not fair: a waiting thread is only
sure to get it if it stays free, and `ConsumerNotStarved` holds because producers stop
at a full ring.  In `Features` not every sync fails for ever (strong fairness of a
successful one); `CatchesUp` also has it as a premise that reads stop failing.  In
`PacketHandler` the packets of a flow keep coming and not all of them get lost
(`KeepsSending`, a premise of `RelevantBecomesKnown`, as is that commands are not refused for
ever and ids and table entries are left).  In `Lifecycle` the three polling threads are
fair, the traffic is not, and `IdleFlowsEnd` has it as a premise that the traffic stops and that
reads stop failing.

## Proofs

Everything below is proved for every value of the constants that meets the `ASSUME`s of
the modules: sizes are positive, ports belong to pipes, identifiers of different kinds differ,
ages and words are natural numbers, some port forwards.  TLC evaluates each assumption on the constants of a run.

### Ring (`CommandRing_proofs`)

For every ring size and every set of producers, the invariant
`IndInv`: the indices stay in range, the number of items is the distance from `read` to
`write` (or the size, when `full`), the flags agree with it except between the two stores
that change them, and only the lock owner is between those stores.  `FlagsExact`,
`MutualExclusion`, `PutNeverOverwrites`, `GetNeverUnderflows` and `TypeOK` follow.  The
strengthening is needed because the flag tests happen outside the lock: that `empty` is
false stays true until the consumer itself takes an item, which is only visible with the
program counters in the invariant.  From it `RingImplementsQueue` follows: the sequence of items
between `read` and `write` is the queue, and every memory access is a step of `BoundedQueue` or
leaves its state alone.

### Flow database, data plane and switch (`Controller_proofs`)

For any number of flows, ids, ports and pipes:

- `ControllerTypeCorrect`: types, and the ring's bound.
- `IdsNeverLost`: every id is in exactly one heap or with exactly one owner, on all paths.
- `TimeoutsNameTheirFlow`: flow and session ids move in lockstep without sessions and
  refusals.  Inductive strengthening `LockstepInv`: the two heaps of a pipe are equal,
  except for the id of the removal in progress.
- `IdsStayOnTheirPipe`: if all packets of a flow arrive on ports of one pipe
  (`StableArrivals`), ids stay on their pipe.  Strengthening `PipeInv` adds the ids of the
  removal in progress.  Without the assumption it is false: a FIN on another pipe's port moves the id.
- `SwitchFollows`, `SwitchRejectsNothing`, `RemovalsHitTheirFlow` and `CountersAreNotShared`: for
  flows without sessions and with stable arrivals (`Setting`), as long as no command was
  refused.  The invariant `SwitchInv` follows the commands through the ring: there is a sequence
  of sets of flows with their ids (`Course`), one for the point before each command, which begins
  with the flows that have an entry in the switch and ends with those of the flow table; each set
  is one to one, and each command fits its place (`Effect`: an addition is of a flow and an id that
  are not in the set, a removal of a pair that is, registers are cleared after their flow
  is gone).  `EntriesCached` adds that an entry is at the handle cached for its id.
  The theorems about rejections, removals and the flow table also assume `TablesHaveRoom`: a table of the
  switch has an entry for every flow id of a pipe, or for every flow of its protocol.  With the
  shipped sizes (131071 ids per heap, tables of 98304 IPv4 and 32768 IPv6 flows) that holds
  as long as the flows of a protocol are no more than its table has entries.
  `CountersAreNotShared` does not need it.  Its premise is `EgressPipesApart`: registers are those of
  the egress pipe, and pipes that forward to one pipe would share them.  From `SwitchInv` two entries
  have different ids; `IndexOfOneSession` shows that ids of one pipe keep different indices after the
  offset to the egress pipe, and ids of different pipes leave on different pipes (`EgressPipe`).  The
  second half, about clears, is for offsets of the session's pipe (`OffsetFits`).

### The life of a flow (`Lifecycle_proofs`)

`LifecycleImplementsController`: every step of the whole loop is a step of `Controller` or leaves
its variables alone, which needs `LifecycleTypeCorrect` because a timeout of the packet ring must
carry an id.  `ControllerKeepsItsPromises` transfers the theorems about
the two threads.  `OnlySilentFlowsTimeOut` is `TimeoutsAreDue` for every `FLOW_TIMEOUT`,
number of indices and ring size.  Its invariant `SilenceInv` says that an index is no older than the
last count that was read, unless the round under way is about to make it so before it looks at
the index; and that between the two reads of the map an index without an age has nothing to lose.

### Hash tables (`HashTable_proofs`)

For every table size, every hash function, any keys and values, and any grouping of the
stores between two barriers.  The inductive invariant `TableInv` says what holds in the middle
of an operation, where the table is not in order:

- every probe path is occupied from the home of an entry to the entry, except for the
  slots that a removal has emptied and not yet filled again (`Unbroken`, `Gap`);
- no key and no value is in two entries, the entry being moved or added included
  (`KeysUnique`, `ItemApart`), that one goes to the free slot at the end of an unbroken path
  (`ItemReady`), and the stores done so far are those that are no longer to do (`ItemStored`);
- the map names the slot of every occupied entry and of nothing else, but for the value that the
  writer is at (`Mapped`, `NamesEntry`), and `num_entries` counts the entries (`Counted`);
- `Cut`: there is a slot that no path crosses, except the path of the entry in it.  It is the slot that
  was filled last; in a table with a free slot, that one.

`Cut` is what makes `RemovalsComeToAnEnd` true for a full table: the comment in
`flow_hashtable.c:135` argues with an unoccupied entry, which in a table that was full is only the
removed one.  A shift never moves an entry across the cut, so every move comes closer to it and
the loop cannot come around to where it began.  `ProbesStayUnbroken` and `MapStaysExact` are the
invariant between two operations, and `FlowTableImplementsDictionary` shows the dictionary
changing in exactly one step of each operation (`Publish` of an addition, the start of a removal).

`FoundKeysWereThere` and `AdditionsHideNothing` are about the lookup without a lock.  Their
invariant `LookupInv` says where the lookup is: as long as its key was in the table all the time
and no removal moved anything, the key's entry lies ahead of the reader on its path
(`OnItsWay`), and by `Unbroken` there is no free slot before it.

`SettledSessionsAreExported` is about the copy of the session table.
As long as no removal runs, additions leave every entry in its slot, and what has been copied is
of that slot (`CopyIsSettled`).  `SessionTableInOrder` and `SessionTableImplementsDictionary` are the
order of the table and the dictionary again.

### Id heap (`Heap_proofs`)

For any number of ids and any order in which the array is filled.  The inductive invariant
`HeapInv` says how far the array is in order while a loop runs (`Order`).  An item that rises may
be smaller than its parent, and no other may; an item that sinks may be larger than its children,
and no other at or behind index `a`, where `heap_build` has come to.  In both cases its
children must not be smaller than its parent (`OrderedAcross`), without which the invariant
is not inductive: after the swap they are parent and child.  With `Distinct`, that no id is in the
heap twice, `HeapNeverExceedsArray` follows by counting: an id that may be pushed is missing in the
heap, so there is room.  `HeapImplementsIdPool` is the refinement of the set of free ids: a swap
within the heap changes no set, a push adds the id, and a pop takes the root, which is the
lowest because the first smaller item would have a smaller parent (`RootIsLowest`).
`HeapCallsAdvance` is the measure by which the loops end.

### Bloom filter (`BloomFilter_proofs`)

For any number and width of filters, any hashes, ring size and width of the counters.
`CountedBitsAreWritten` rests on `BloomInv`: while nothing was refused, a counter that is not 0 has
its bit in the switch, in a command in the ring, in the command that
`bloom_filter_set_irrelevant` is building, or it is 1 and about to be looked at.
The command being built counts only for the filters that have been passed: the indices ahead are
still 0, which is a valid index, and would be overwritten.  `StepsFit` is needed for the
maintenance: it counts up again only after a refusal.  `LocksAreNotLost` has the premise that no
counter reaches its largest number (`BelowLimit`); its invariant is that the counter the
maintenance has chosen is still not 0 when it waits for the lock.

### Features (`Features_proofs`)

For every word size: `LowWordCorrect` (the low word of a value is right, counted from the last read
before the clear, whatever overflows, failures, clears and restarts happened) and `ValueCorrect` (the value is exact without failed
reads and with less than a word between two syncs).  The invariants add that the value which
the export thread has loaded, and will store, was right for the older buffer and stays so when
the one in memory is cleared, and for exactness that register, driver memory and buffers are less
than a word apart.

### Packet handler and DNS database (`PacketHandler_proofs`)

`FlowsHaveClients` rests on `StaysUnknown`: what the first pass over the addresses did not find
cannot be found by the second, because nobody adds an address with a type.
`ValidAddressesStay` is an action property; it rests on `RemovalsAreDue`: a removal waits in the ring only
for an address that has timed out, and it stays so.  Both hold unless a lookup was torn by the moves
of another removal, for any packets, DNS messages and sizes.

### Only model checked

- Liveness (fairness is out of the prover's reach): `ConsumerNotStarved`, `CallsReturn`,
  `Converges`, `RemovalFinishes`, `LocksAreReleased`, `CatchesUp`, `IdleFlowsEnd`,
  `RelevantBecomesKnown`, `LookupsEnd`, `TimedOutIsRemoved`.

Every invariant and every action property that a passing run checks is proved.

## Not modelled

Hash functions (arbitrary functions in the models), header and DNS message parsing,
formatting, statistics, the contents of the static tables, the P4 pipeline beyond the
tables and registers the controller writes, tests, mocks and benchmarks.  Full memory
reordering by the processor is not modelled: the target is x86, where stores and loads
of one kind stay in order.

What a new session inherits in its feature values when `DP_CLEAR_REGISTERS` was refused
(`flow_db.c:92`), or names the wrong egress index after a FIN (`packet_handler.c:238`), needs
`Features` for every index composed with `Controller`; the product is beyond TLC at bounds
where ids are reused.  Session keys that change when a server's address times out between the
first packet and the FIN (`use_sessions`) are not modelled either.  `prepare_dataplane.c` writes
static tables.

## Further work

The liveness properties could be reduced to measures, as `HeapCallsAdvance` and
`RemovalsComeToAnEnd` do for loops.  `Features` for every index, composed with `Controller`, would
cover the two cases named above.
