# pmacct in TLA+

A formal model of the parts of pmacct where processes, threads, signals,
failures and long-lived data structures meet: the thread pool, the queue
between the core process and a plugin, the memory caches of the plugins and the
writers that store what they purge, the table of IP fragments, the sessions and
the routing table of the BGP daemon, and the BMP/BGP high-availability feature.
Each part is a TLA+ module translated from the code and model-checked with TLC
on small instances; eight of them have theorems that TLAPS proves for every value
of the constants.

`PROJECT.json` maps every definition to the lines it models and lists runs,
mutants, hazards and theorems. To repeat a run:
`tlc -config PluginCache_purge.cfg MCPluginCache`; to repeat the proofs of a
module: `tlapm PluginCacheProofs.tla`.

## 1. The system

pmacct is a family of daemons (pmacctd, uacctd, nfacctd, sfacctd, pmbgpd,
pmbmpd, pmtelemetryd). A daemon is a *core process* that collects packets,
flows or routing messages and one forked *plugin process* for each configured
plugin. The core writes records into a ring in shared memory, one ring per
plugin; a plugin aggregates the records in memory and at every refresh forks a
*writer* that prints, stores or publishes them. Routing daemons run the BGP,
BMP, RPKI and telemetry collectors as *threads* taken from a pool; they dump
their tables through pools of short-lived workers and, in a cluster, decide
through Redis which collector forwards.

| Component | State | Operations | Interacts through | What is hard | What makes it correct |
|---|---|---|---|---|---|
| Thread pool (`thread_pool.c`) | worker flags `go`, `quit`, mutexes, free list | allocate, send, run, deallocate | mutexes, condition variables | lost signals, failing jobs, stopping | every job runs once; deallocation ends |
| Core/plugin channel (`plugin_hooks.c`, plugin loops) | ring of buffers, `seq`, `wakeup`, `last_buf_off`, socket pair | pack, commit, kick; poll, check, copy, resynchronise | shared memory without locks | every interleaving of two processes; lapping | no record lost or repeated; a sleeping plugin is woken |
| Plugin cache (`plugin_common.c`) | hash chains, scratch area, queue, pending container, time-bins | insert, purge, re-insert, exit | fork, signals, clock | retry after an urgent purge; open time-bins | each byte is written once; insertions end |
| BMP/BGP HA (`ha.c`) | daemon state, flags, message queue, Redis keys | Redis round, forward/enqueue, pop, dump, signals | Redis, Kafka, four threads | crash, expiry, outage, signals in mid-round | one active collector; no message lost |
| SQL cache (`sql_common.c`) | chains, LRU list, queues of entries and of pending ones | insert, reuse, retire, purge, urgent purge | fork, clock | elements moved and reused while queued | chains and list agree; each record is written once |
| SQL writer (`pgsql_plugin.c`, `mysql_plugin.c`) | transaction, multi-values buffer, queues to reprocess | connect, lock, query, commit, recover | two databases | any call may fail in the middle | each element is stored once, in its table; the writer ends |
| In-memory table (`imt_plugin.c`, `memory.c`, `server.c`) | chains in memory pools | insert, query, erase | client socket, forked reader | erasing while a client reads | an answer is a snapshot |
| Fragments (`ip_frag.c`), flows (`ip_flow.c`) | hash chains with an LRU list | find, create, recycle, prune | core loop | recycled and pruned nodes | lists consistent; no stale data |
| Conntrack, classifiers | expectations per flow | insert, search, prune | flow table | as above | as above |
| NetFlow/IPFIX (`nfacctd.c`, `nfv9_template.c`) | templates per exporter | insert, refresh, decode | UDP, Kafka, ZeroMQ | data before or between templates | a set is decoded with its own template |
| Sequence status (`xflow_status.c`) | last number, counters | update | collectors | wrap at 32 bits | only real gaps count |
| BGP sessions (`bgp/bgp.c`, `bgp_msg.c`) | slots of peers, descriptors, batch, hold times | accept, throttle, replace, read, close | TCP, `select()` | connections and resets in any order; starvation | one session per peer; the RIB is what it announced |
| BGP table (`bgp/bgp_table.c`) | trie with reference counts | get, match, unlock, walk and delete | BGP thread and core | nodes deleted under a walk; counts that wrap | trie sound; counts exact; longest match |
| BGP attributes and dumps | interned attributes, dump state | intern, release, dump | thread pool | reference counts; dump during update | nothing freed in use |
| BMP (`bmp/`), telemetry, RPKI | peers, per-peer RIBs, ROA table | as BGP | TCP, files | loss of a session in mid-message | as BGP |
| Tee, nfprobe, sfprobe | receivers, flow trees | balance, expire, export | UDP | reload under traffic; expiry order | every flow exported once |
| Tags, filters, preprocess, networks | tables | evaluate, reload | SIGUSR2 | reload in mid-use | evaluation equals a linear search |
| Configuration, signals, logging, encoders, parsers | little | - | - | - | - |

## 2. The modules

| Module | Models | Lines of code behind it |
|---|---|---|
| `ThreadPool` | `thread_pool.c`, complete | `allocate_thread_pool`, `send_to_pool`, `thread_runner`, `deallocate_thread_pool` |
| `PluginChannel` | writer: `exec_plugins`, `check_pipe_buffer_space`, `fill_pipe_buffer`; reader: main loop of `print_plugin.c` | shared by the Kafka, AMQP, SQL, nfprobe, sfprobe and tee plugins, with small differences |
| `PluginCache`, `MCPluginCache` | `P_cache_insert`, `P_sum_*_insert`, `P_cache_attach_new_node`, `P_cache_mark_flush`, `P_cache_flush`, `P_cache_insert_pending`, `P_cache_handle_flush_event`, `P_update_time_reference`, `P_exit_now`, `dump_writers_*` | `plugin_common.c`, `print_plugin.c`, `util.c` |
| `SqlCache`, `MCSqlCache` | `sql_cache_insert`, `sql_cache_flush`, `sql_cache_flush_pending`, `sql_cache_handle_flush_event`, `ReBuildChain`, `RetireElem`, `AddToLRUTail` and the time reference | `sql_common.c`, `sql_common_m.c`, `util.c` |
| `AbstractCache` | what both caches promise: a table of counters | implemented by `PluginCache` and `SqlCache` (`ImplementsTable`) |
| `SqlWriter` | `PG_cache_purge`, `MY_cache_purge`, `sql_query`, the `*_cache_dbop`, connecting and locking | `pgsql_plugin.c`, `mysql_plugin.c`, `sql_common.c`, `preprocess.c` |
| `FragmentTable`, `MCFragmentTable` | `ip_fragment_handler`, `find_fragment`, `create_fragment`, `prune_old_fragments`, `notify_orphan_fragment`, the accounting of what was held back | `ip_frag.c`, `nl.c`, `pkt_handlers.c` |
| `BgpTable`, `MCBgpTable` | `bgp_node_get`, `bgp_node_match`, `bgp_lock_node`, `bgp_unlock_node`, `bgp_node_delete`, `bgp_route_next`, `bgp_table_info_delete`, the table's side of updates, withdrawals and lookups | `bgp_table.c`, `bgp_util.c`, `bgp_msg.c`, `bgp_lookup.c` |
| `BgpPeers`, `MCBgpPeers` | the loop of `skinny_bgp_daemon_online`, `bgp_peer_close`, the batch, `bgp_parse_msg` and its message handlers | `bgp.c`, `bgp_msg.c`, `bgp_util.c` |
| `HighAvailability`, `MCHighAvailability` | all of `ha.c`, what it uses of `redis_common.c`, the test in `bmp_log_msg` (`bgp_logdump.c` has the same) | |
| `ThreadPoolProofs`, `PluginChannelProofs`, `PluginCacheProofs`, `SqlCacheProofs`, `FragmentTableProofs`, `SqlWriterProofs`, `BgpProofs` (sessions, table, high availability) | the theorems | |
| `Lists` | unlinking from a doubly linked list, for `FragmentTable` and `SqlCache` | `ip_frag.c`, `sql_common.c` |
| `ListsAndSums` | lists, sums over finite sets, and induction for the proofs about both | |

### ThreadPool
One client thread and a set of workers. A worker's mutex is explicit, since
`thread_runner()` holds it while a job runs and leaves with it locked; the
pool's mutex only guards sections that cannot block inside, which are single
steps. A signal moves a waiting thread to its re-check and is otherwise lost;
spurious wake-ups are an action. Whether jobs may return `ERR`, whether thread
creation may fail and whether the `sleep(1)` before a deallocation is long
enough are constants. Left out: the arithmetic of stack sizes.

### PluginChannel
Each load and store of shared memory that the other process can tell apart is
a step, in program order: storing `seq`, `num`, `last_buf_off`, testing and
clearing `wakeup`, writing the token on the one side; setting `wakeup`,
polling, reading the token, comparing `seq`, reading `last_buf_off` and then
the `seq` found there, copying header and records on the other. Reordering by
compiler or CPU is *not* modelled: what is found violated is so already with
the stores in order, and what is shown to hold assumes that order. The content
of a buffer is its number; record sizes are in units of the fixed part, so that
`Sizes = {1}` is a plugin without variable-length primitives; `Immediate` is
`buffer_immediate`, with which every record is sent at once. Left out: ZeroMQ,
the receive budget, the commit at `hdr.num == INT_MAX`, filters and sampling
(which keep packets from a plugin), several plugins (rings are independent).

### PluginCache
Nodes are the buckets' heads and the scratch area. One step is one node of a
chain, one insertion, one node marked, or one of fork, flush and placing a
copy. Primitives are a key, counters the bytes; `given`, `written` and `lost`
are histories. A writer has its own copy of the memory, so what it will write
is settled at the fork. Time is the index of the time-bin. `SumHost` selects
`P_sum_host_insert` (the port, AS and MAC variants are alike), `ProRating`
flows over several time-bins. Left out: stitching, `malloc` failures inside an
entry, dynamic table names, the Kafka and AMQP purge functions.

Together with a refinement mapping (what is in the chains, in the container and
on its way between the two is *held*) it implements `AbstractCache`: a record
adds to one counter, and a purge takes every time-bin up to some last one,
whole, and gives it to one writer or drops it.

### SqlCache
A bucket has a fixed first element; the others come from `malloc()` and are also
on the LRU list. Entries whose time-bin is open stay in place over a purge and
are moved ahead of the free elements of their chain, one per step, because a
search stops at the first free element. Elements are reused for another bucket
when stale (`Stale`) and freed when older (`Retire`).

An urgent purge copies one pointer of the pending entries back to the queue,
whatever their number. With two or more of them the rest of the queue is what
was there (`Shortened`): unless that happens to be the same, entries are missing
from the queue, repeated or already committed, and the plugin goes on with it.
So does the model; `urged = "wrong"` records it, for good. It stops
(`pc = "mangled"`) only where C says no more: when the entry in hand is appended
past the end of the array (`QueueSafe`), and when a purge, the exit or
`sql_cache_flush_pending` reads an element that has been freed (`Dangling`); a
freed element that `malloc()` has given out again is read as what it now is.
`ListsSound` holds all the same; `Conservation`, `SearchFindsAll` and
`ImplementsTable` (each of its steps) are stated up to the first wrong queue, and
`PendingKept` says that there is none (section 5). The cache implements
`AbstractCache` with the mapping "in an entry other than the one in hand". Left
out: pro-rating, stitching, `malloc` failures inside an entry.

### SqlWriter
The writer process from its fork to its exit. A call that can end in several
ways (connect, lock, query, commit) is an operator that returns the *set* of its
outcomes; an action takes one of them. `Init` enumerates the backend, whether
there is a backup host, whether MySQL uses multi-value statements, and for each
element its validity after the preprocessing filters and its table. Rows are
recorded with the table they went to, in the order of the statements, so that
what is stored twice, nowhere or in the wrong table can be told apart. A refused
statement of several rows rewinds the loop to the first row of the buffer, at the
primary when there is no backup and at the backup otherwise; the first leaves the
writer no room for the next row and so ends it, the second may leave the primary
working, and elements that the rewound loop meets again are put off, and stored,
a second time (section 5). `NeverTwice` sets this case apart (`BackupRewound`).
Left out: SQLite, `COPY`, the composition of statements, a COMMIT whose answer is lost.

### FragmentTable
Sequential code over two structures that hold the same nodes: conflict chains
and an LRU list. Reuse of an expired node keeps its old fields, as in the code;
`recycled` is a history of such nodes. A prune that follows a pointer to a freed
node ends in `pc = "undefined"`. Sampling and the number of plugins are
constants: the first plugin that accounts a packet clears what was held back.
The IPv6 half of the file repeats the IPv4 half over another key.

### BgpTable
A node is its prefix, a sequence of bits. The lock has the width `LockBits`
(32 in the code, and it wraps). The walk that deletes a peer's routes is one
step per node, and updates of other peers do not interleave with it (one
thread), but lookups by the core do. The code has no lock between the two
threads: the interleaving inside an operation is left out, as any outcome would
be possible there. The lists of routes of a node are the set of peers with a
route there.

### BgpPeers
One turn of the loop is two steps, `select()` with at most one new connection,
and one message of one peer; `Tick` passes a second. Descriptors are given out
lowest first, as `accept()` does, so that they are reused. Hold times,
keep-alives, the batch that throttles connections, the round robin, addresses
and router identifiers that appear twice are as in the code. Messages are their
types; a message may come in parts. `announced`, `silent`, `bypass` and
`shifted` are histories: what the peer has announced, how long it has been
silent, how often a readable slot was passed over, and whether the number of
slots searched has changed meanwhile. Left out: cross-connects, ADD-PATH, sends
that fail, a body that never follows its header (`recv` would block), and two
options that are off by default: `tmp_bgp_lookup_compare_ports` (`bgp.c:919`),
with which connections from different ports of an address are different peers,
and `bgp_disable_router_id_check` (`bgp_msg.c:178`). `OneSession` is about the
default configuration: with the first option an address may have several
sessions, with the second an identifier.

### HighAvailability
A set of collectors, each with its Redis thread (one step per Redis command and
per shared flag), the BMP/BGP thread (test of the flag and queueing are two
steps), the thread that discards old messages and the thread that dumps the
queue. Redis is a map from collector to timestamp and remaining life. Seconds
pass by `HaTick`. Left out: contents and order of messages, authentication, more
than one cluster.

## 3. The runs

All twelve hold.

| Run | Distinct states | What it asks |
|---|---|---|
| `pool_jobs` | 13,392 | `NoJobLost`, `JobEventuallyRuns`: with succeeding jobs and a sufficient sleep every job sent is run. |
| `pool_hostile` | 32,496 | `JobsAtMostOnce`, `DeallocateReturns` even when jobs and thread creation fail and deallocation comes too early. |
| `channel_keeps_up` | 1,096,984 | `RewindBounded`, `JumpsAreCounted`, `KickReachesAll`: what a plugin that is not lapped can rely on. |
| `channel_overrun` | 2,286,346 | `RecordsConserved`, `NoSlotOverflow`: the writer's bookkeeping with variable-length records, early commits and lapping. |
| `ha_failover` | 264,845 | `NoMessageLost`, `OneActive`, `AllActiveWithoutRedis` with one crash, outage or new timestamp. |
| `ha_signals` | 1,290,832 | `ActiveQueueEmpty` with crashes, expiring keys, forced states and a Kafka that refuses messages. |
| `cache_purge` | 149,282 | `Conservation`, `UniqueEntries`, `QueueExact`: purges, retries and re-insertion; `ImplementsTable`: the cache is a table of counters. |
| `sql_cache` | 797,842 | `ListsSound`: reuse, retirement, moved entries, both kinds of purge, wrong queues; `SearchFindsAll`, `Conservation`, `ImplementsTable` up to the first wrong queue. |
| `sql_writer` | 1,343,054 | `StoredOnce`, `LostOnlyInTransaction`, `NeverTwice` with every call free to fail; `WriterEnds`. |
| `fragments` | 684,032 | `ListsAgree`, `PacketsConserved`, `LeftoversOnlyInRecycled`, `UndefinedWhenEmptied` over prunes, expiry and recycling. |
| `bgp_table` | 60,902 | `TrieSound`, `LocksExact`, `MatchIsLongest`, `NeverAborts`, `WalkClears`, `WalkAdvances`. |
| `bgp_peers` | 199,160 | `EverySessionWatched`, `OneSession`, `RibIsAnnounced`, `NoStarvation`, `ReplacedWhenSilent`. |

Where a module's `TypeOK` is proved (`ThreadPool`, `PluginChannel`,
`HighAvailability`, there `HaTypeOK`), no run repeats it; elsewhere it is a conjunct of the first
invariant of the module (of `NeverTwice` in `SqlWriter`, of `Conservation` in
`PluginCache`).

### Bounds, and why they are enough
* **Pool**: two workers and three jobs. A worker must be reused (more jobs than
  workers), the free list must have held two workers, and one must be busy
  while the other is stopped. Deadlock is checked.
* **Channel**: `channel_keeps_up` has a ring of five slots, of which a plugin
  that keeps up leaves the core three, and five buffers and the one sent at exit:
  the core reuses a slot and the plugin reads what is in it. The socket
  pair holds one token, so writes of tokens are dropped, and wake-ups are lost
  because the core looks at `wakeup` before the plugin has set it. TLC was asked
  for each of these cases and finds it. Records are sent at once (`Immediate`),
  which makes the most buffers of the fewest packets. `KickReachesAll` starts
  from a token in the pair, or one that the core is bound to write (`WakeUp`); it
  cannot start from the commit of a buffer, as a wake-up may be lost
  (`SleepingPluginKicked`, section 5), nor say that every buffer is processed, as
  resynchronisation may skip one (`JumpsAreCounted`).
  `KeepsUp` says that a packet leaves the core two slots short of lapping
  the plugin (`InStep`): one slot for the buffer that is being read and one that
  `last_buf_off` may lead back to. A record that does not fit commits a buffer
  before it goes into the next one, and counts for two slots; with a margin that
  counts it for one, TLC finds a plugin that steps back to a slot the core has
  already claimed, reads its `seq` of -1, expects 0 next and so forgets the
  error count. `channel_overrun` drops this
  assumption, with two slots, sequence numbers that wrap at 4 and records that
  fit, fit only in an empty buffer, or never fit (sizes 1, 2, 4 for a buffer of
  3).
* **HA**: two collectors, a key's life of three seconds. `ha_failover` takes
  one message and one fault: with two faults among two collectors both may
  crash, and no protocol keeps the message. Messages live as long as the key
  (`Timeout = 3`); with 2 the gap until the survivor notices is longer than
  the life of a message and TLC finds it lost, so the bound is tight. The code's defaults
  satisfy it. `Punctual` says that every thread is done within its second;
  `Overlap = FALSE` that a message on its way to the queue arrives before the
  flag changes; section 5 says what happens otherwise. `ha_signals` takes two
  messages and two faults of any kind but an outage, and a queue limited to
  one message, and uses the symmetry of the collectors (no liveness there).
* **Cache**: two buckets, of which one has two keys, two time-bins and a scratch
  area of three nodes (two can be handed out) make chains of three nodes, so
  that an entry can be hidden behind another, the area can be exhausted and
  re-insertion has to walk. With `Delay = 1` entries stay open over a purge.
  Four records are enough to fill the chain and need one node more. One writer
  makes "all writers busy" common.
* **SQL cache**: two buckets, two elements from `malloc()`, a queue of three
  entries, four records and one writer: the heap is exhausted, elements change
  buckets, and the queue fills up so that purges become urgent. With three
  entries a closed one can be ahead of two pending ones, so that the urgent purge
  leaves a wrong queue (with two it cannot), and `sql_cache_flush_pending` then
  follows a pointer to an element that was freed. That a purge meets one on the
  queue, because it was retired meanwhile, takes five records; such an instance
  (`Buckets = 1`, `Heap = 3`, `Retire = 0`, 4.5 million states) was checked once,
  for the invariants. Three time-bins are needed
  for an element to be open, stale and retired (`Delay = 1`, `Stale = 0`,
  `Retire = 1`); an entry is closed to further additions above
  `Threshold = 1`, so that a key can have two entries.
* **SQL writer**: four elements over two tables and a multi-values buffer of two
  rows. Two rows fill the buffer, an element of the other table lies between
  them, and a fourth element is in hand when the statement is sent and refused:
  with three the loop is never rewound over an element that was put off, and a
  stronger `NeverTwice` holds that is false in the code. Every validity, backend
  and option is an initial state.
* **Fragments**: three nodes and three datagrams, two of one bucket, four
  fragments and six seconds, with a life of one second and prunes that fall
  into it: chains of two, a full budget, recycling, periodic and emergency
  prunes all occur. The nodes are symmetric. The lists are changed by `Without`,
  a recursive function (as in `sql_cache`), for the prover knows nothing of `SelectSeq`.
  The run may stop when the clock and
  the fragments are used up, so deadlock is not checked.
* **BGP table**: five prefixes of up to three bits, among them the root, a
  prefix above another and two siblings that need a joint; two peers, which are
  symmetric, and two lookups. `LockBits = 4` is out of the reach of two lookups;
  with two bits and four lookups the count wraps (section 5).
* **BGP peers**: two slots for three addresses, of which two are allowed, two
  router identifiers, a hold time of two seconds, a batch of one connection.
  A larger instance (`MaxPeers = 3`, `MinHold = 1`, `Old = 3`, 573,311 states)
  was checked once and holds too.

### Fairness
Weak fairness only, and only of steps a process takes by itself: the workers
and a client inside a call (`ThreadPool`), a plugin and a core that has begun
to commit (`PluginChannel`), the plugin inside an operation (`PluginCache`), the
writer process (`SqlWriter`), the threads of a live collector and the clock
(`HighAvailability`). It says that the kernel schedules runnable threads and
that jobs and calls to Kafka, Redis and the databases return, with success or
not. `NoStarvation` needs no fairness: it bounds how often a readable peer is
passed over. Packets, records, jobs, signals, restarts and the return of
Redis are never assumed to happen.

## 4. What is proved

All theorems are of the form `Spec => []P` (`SilentAreReplaced`, `WalkClearsAll`
and `WalkOnlyAdvances` are about steps, `Spec => [][A]_vars`, and
`CacheImplementsTable` and `SqlCacheImplementsTable` are refinements), some
under a hypothesis on the constants that is given below with its reason. They
are proved for any value of the constants that satisfies the named assumptions
of the module, and rest on an inductive invariant that was checked with TLC
first.

**`ListsAndSums`** is what the other proofs share. The library's induction
theorems cannot be instantiated by the installed provers, so induction is done
over sets: a set of naturals that holds 0 and each successor of its members is
`Nat` (`NaturalsBySet`), and likewise for the subsets of a finite set
(`SubsetsBySet`). From these follow that the sum of `MapThenSumSet` exists and
how it changes with one term, over a union and under a renaming. On lists,
`WithoutEmbeds` says that what `Without` leaves is the rest in its order, which
all unlinking rests on. Recursive
functions (`Without`, `Added`, the searches and climbs of `BgpTable`) get their
existence the same way.

**`ThreadPoolProofs`** (assumptions: a finite, non-empty set of workers, `NoJob`
and `NoWorker` apart from jobs and workers).
* `TypeCorrect`: `TypeOK`, with `PendingInv`, because dereferencing a worker
  needs one in the client's hand.
* `AtMostOnce`: `JobsAtMostOnce`. `PendingInv` says that a worker with `go` set
  and `quit` not set holds a job that was sent and has not run, and that no two
  hold the same; the property itself only counts executions and is not
  inductive.
* `FreeIdle`: `FreeWorkersIdle`, from `OwnershipInv`: a worker is on the free
  list, in the client's hand or busy, never in two of these places.
* `NothingLost`: `NoJobLost`, if no job fails and the sleep suffices, from
  `StopInv`: only deallocation, after its sleep, stops a worker. Without either
  hypothesis it is false (section 5).

**`PluginChannelProofs`** (positive sizes and lengths).
* `ChannelTypes`: `TypeOK`: every access of both processes is inside the ring.
  The strengthening `ReaderInRing` is needed because `rg->ptr` may point at the
  end of the ring between buffers, but not when it is dereferenced.
* `NoOverflow`: `NoSlotOverflow`: no record is written past its slot. Inductive
  with the types, because a buffer is committed as soon as a fixed part no
  longer fits and a variable part is checked before it is written.
* `RecordsAreConserved`: `RecordsConserved`, for any mix of sizes. `Balance` is
  the same with the sum of what was sent (`Sent`) as a function of the list, and
  `EmptyAfterSend` says that a record which is packed again finds an empty
  buffer, also when it does not fit there either and the core gives up.
* `RewindsByOne`: `RewindBounded`, and `EveryJumpCounted`: `JumpsAreCounted`, if
  `Calm`: the core keeps in step (`KeepsUp`) and the sequence number has not
  wrapped (`MAX_SEQNUM` is 65536; after a wrap the number does not tell a buffer
  from one written 65536 buffers earlier). `KeepInv` says what each slot holds:
  the buffers of the last turn around the ring with their numbers (`RingInv`),
  where the writer is between its three stores (`WriterInv`), that
  `last_buf_off` is at most one buffer behind (`OffInv`), that the plugin's slot
  and expected number are those of one buffer (`ReaderInv`), which has not been
  overwritten (`WindowInv`), and that the error count is zero only after a
  buffer in sequence (`CountInv`).

**`PluginCacheProofs`** (`CacheAssumption`).
* `QueueIsExact`: `QueueExact`: the queue lists each node in use once and
  nothing else, so a purge reaches every entry and the queue fits its array. It
  is not inductive, as a scratch node is handed out without looking at its
  state. `CacheInv` adds that every queued node, every link and the cursor is at
  or below `sa.ptr` (`Reached`), and that only queued nodes are linked
  (`Linked`): `P_cache_flush()` unlinks the queued nodes only, and then rewinds
  the area.
* `EntriesAreUnique`: `UniqueEntries`, if `~ProRating` (a pro-rated flow may be
  counted in a time-bin again after a retry). Nodes are handed out in the order
  of their indices, so that a chain is the nodes in use of its bucket in
  ascending order (`Chains`) although re-insertion builds it anew; a container
  being put back fits in the area (`Fits`); and no entry behind the cursor is
  the record's own (`Passed`).
* `CacheImplementsTable`: `ImplementsTable`, if `~ExitAnywhere` (an exit between
  fork and flush writes entries twice, section 5). Each step moves one term of a
  sum or all the terms of closed time-bins.
* `BytesAreConserved`: `Conservation`, if also `~SumHost` and `~ProRating`, as a
  retry of a record that was changed already is counted twice (section 5). With
  the record under way, the sums of the refinement are what was given.

**`SqlCacheProofs`** (`SqlCacheAssumption`): all three invariants of `sql_cache`
and its refinement, for any number of buckets, elements, keys, time-bins and
writers, any hash and any size of the queue.
* `CacheInvHolds`: the inductive invariant of the rest. The chains share no
  element, and one in use is in the chain of its key (`ListInv`); the queue, or
  while entries are moved the pending ones, list the elements in use once each
  but for the one that found the queue full (`Exact`, in `QueueInv`), which is
  then in hand instead of its record (`HandInv`). `Exact` is claimed up to the
  first wrong queue (section 5); the length of queue and pending entries, and all
  of `ListInv`, whatever the queue lists.
* `ListsStaySound`: `ListsSound`, from it, for wrong queues too; the order of the
  LRU list is that of the tags, as an element goes to the tail with the latest
  base time.
* `SearchesFindAll`: `SearchFindsAll`, from `SearchInv`: between purges no free
  element is ahead of an entry in use; during a purge, which frees elements and
  then moves the pending entries one by one, this holds of those moved so far. An
  exchange of two elements or a copy to the head keeps it because what is passed
  over on the way is in use.
* `RecordsAreConserved`: `Conservation`, from `Ledger`: one step moves one record,
  or the sums of closed time-bins. Like the two next to it, it ends with the
  first wrong queue, from which there is no way back (`WrongStays`).
* `SqlCacheImplementsTable`: `ImplementsTable`: a move of an entry keeps its key,
  time-bin and count, so that the sums do not change while entries are between
  two elements.

**`BgpProofs`**, high availability (natural times and bounds; the module extends
all three of the modules it is about, whose names therefore have the prefixes
`Ha` and `Table`).
* `HaTypeCorrect`: `HaTypeOK`.
* `NothingStranded`: `ActiveQueueEmpty`, if `~Overlap`: an active collector
  that is not dumping has an empty queue, for any number of collectors and any
  timing of rounds, dumps, signals, crashes and failures of Redis and Kafka.
  `QueueInv` relates the queue to `old_bmp_bgp_forwarding`, which lags behind
  the flag between `Forward` and `StartDump`, and to the first round, which
  never dumps and need not.
* `NothingDropped`: `NoMessageLost`, if `Failover`: at most one fault, a crash,
  an outage of Redis or a new timestamp; at least two collectors, punctual, with
  no limit on the queue and messages that live at least as long as a key. Section
  3 says why these are needed and section 5 what happens without them; the
  numbers of collectors and messages and the times are arbitrary. By
  `FailoverInv`, each message not in Kafka is with one collector that can be
  named. Before the fault (`Undisturbed`) the oldest collector is active, and
  every other one holds all that is not in Kafka, not older than this second, as
  nothing can be popped. After it (`Disturbed(X)`, `X` the collector that crashed
  or went to the end of the line, if any) the oldest of the others is the heir
  (`Heir`): until it has to dump, its messages not yet in Kafka are not older
  than `Timeout` less the rest of the life of the key that still blocks it
  (`InTimeToDump`), so that the key expires first. `Sane` relates the threads of
  a collector, and no second passes between the first rounds of collectors that
  start together (`FirstSecond`), which would otherwise make a younger one the
  oldest. TLC checked `FailoverInv` for two collectors before it was proved.

**`FragmentTableProofs`** (`FragmentAssumption`, `NilAssumption`): all four
properties of `fragments`, for any datagrams, hash, nodes, time-outs and plugins.
* `ListsStayConsistent`: `ListsAgree`, from `FragInv`: chains and LRU list hold
  the same nodes (`ChainsInv`), the list is in the order of the deadlines
  (`OrderInv`), and a packet is in hand exactly during a call (`CallInv`).
* `LeftoversConfined`: `LeftoversOnlyInRecycled`, and `FragmentsAreConserved`:
  `PacketsConserved`, inductive relative to it; the second as a sum over the
  nodes (`Ledger`).
* `UndefinedOnlyAfterEmptying`: `UndefinedWhenEmptied`, if
  `EmerInterval <= PruneOffset` (60 s and 1800 s in `ip_frag.h`). `TimeInv` relates
  the two deadlines of a prune to the root's successor that it leaves dangling;
  with a longer emergency interval TLC finds a third way to follow it.

**`BgpProofs`**, sessions (`PeersAssumption`): all five properties of `bgp_peers`,
for any number of slots, addresses, routers, routes, buckets and any times.
* `SessionsWatched`: `EverySessionWatched`, inductive as it stands. The new
  descriptor is one no slot holds (`Fresh`, by the pigeonhole principle), and
  closing slots clears just their descriptors (`CloseWatched`).
* `SessionsUnique`: `OneSession`, for the default configuration (section 2),
  inductive with it: `Doomed` leaves either the
  new session or the one that is not stale.
* `RoundRobin`: `NoStarvation`, from `WaitInv`: how often a slot was passed over
  and how far it is ahead of the search add up to less than one turn, because
  `peers_idx_rr` moves by one slot per read while the slot is not reached.
  `ReadInv` adds that only slots within the bounds are ready.
* `RibOfSessions`: `RibIsAnnounced`, from `RibInv`: every route is in the bucket
  of its session's descriptor (`RibOwned`), where `bgp_peer_close()` looks for
  it, there is one per session and prefix (`RibUnique`), and a peer has announced
  nothing before its OPEN (`NotYet`).
* `SilentAreReplaced`: `ReplacedWhenSilent`, from `SilentInv`: the age of the last
  KEEPALIVE sent exceeds the silence of the peer by at most half the hold time.

**`BgpProofs`**, table (`TableAssumption`; `ModulusAssumption`, that `2^LockBits`
is a positive number): all six properties of `bgp_table`, for any length of
addresses, routes and peers, if `NoWrap`: the routes at a node, the lookups and
one reference more fit in a lock. Without it they are false, as lookups never
unlock (section 5).
* `TrieStaysSound`: `TrieSound`. `Wired` says that the two directions of the
  links agree; each of `Hang`, `Join` and `UnlinkedTrie` keeps it, and so do the
  insertions and deletions that are made of them.
* `LookupFindsLongest`: `MatchIsLongest`. In a wired trie the one path of a search
  meets every prefix of what it looks for (`WayMeets`, by induction on the length
  of the prefix).
* `LocksStayExact`: `LocksExact`, and `NoAbort`: `NeverAborts`, from `Exact(T, h)`,
  where `h` counts the references that are not those of routes. Each operation
  changes `h` by what it takes and gives back; during `bgp_node_delete` the node
  it has come to is the only one that may be left without reason (`Deleting`).
* `WalkOnlyAdvances`: `WalkAdvances`, and `WalkClearsAll`: `WalkClears`.
  `bgp_route_next` goes to the next of all nodes in the order of the prefixes
  (`AfterFacts`): where two nodes branch there is a node (`Branch`), and the climb
  meets it (`ClimbMeets`). `TableInv` adds `WalkAhead`: the routes the walk has still to
  delete are at its node or after it. The node itself stays while the walk
  refers to it, so only nodes behind the walk are deleted under it.

**`SqlWriterProofs`** (`WriterAssumption`: at least one element, a buffer of at
least one row): all three invariants of `sql_writer`, for any number of elements
and tables and any size of the multi-values buffer. What a call may do is stated
once for each (`MyQuery`, `MyWrap`, `PgQuery`) and proved over all its outcomes,
through the primary, the connection to the backup and the backup itself.
* `WriterNeverTwice`: `NeverTwice`. `Places` says where an element is: stored, in
  the buffer, ahead in the queue or put off, in one of these and once, so that a
  round never has more elements than the queue. A rewind at the primary breaks
  this (what lies between the head of the buffer and the element in hand is ahead
  again and also put off), but the loop then comes back to the committed element
  that was refused, at which the writer exits (`Doomed`), so nothing of it is
  stored.
* `WriterStoresOnce`: `StoredOnce`. `Covered` says that no committed element is
  missing from these places as long as nothing was refused and a failed primary
  has its backup. For PostgreSQL, `PgPrimary` and `PgBackup` say what the two
  transactions hold: the elements passed (`Passed`), and those of the list that
  were sent again so far.
* `WriterLosesOnlyInTransaction`: `LostOnlyInTransaction`, from `PgLists`: the
  bulk list holds all the elements passed, the specific one all from the first
  refused element on.

Only model-checked:
* everything under fairness (`JobEventuallyRuns`, `DeallocateReturns`,
  `KickReachesAll`, `WriterEnds`, `OneActive`, `AllActiveWithoutRedis`), which is
  out of the prover's reach. Every safety property of the runs is proved.

## 5. Where the code does not do what it says

The modules also state what comments and documents say where TLC finds that the
code does not do it. These properties are not among the runs; each is refuted on
the instance given, as a difference from the cfg of a run.

| Property | Instance | What happens |
|---|---|---|
| `ThreadPool!FreeThreadsAlive` | `pool_jobs` with `Spec`, `JobMayFail = TRUE`, `CreateMayFail = FALSE` | A job that returns `ERR` ends its worker, which first pushes itself on the free list; the next job is handed to it and never run (`thread_pool.c:223`). |
| `ThreadPool!NoCrash` | `pool_jobs` | A pool of which some threads could not be created is deallocated through the `NULL` entries of `pool->list` (`thread_pool.c:169`; "bail out", :109). |
| `ThreadPool!NoJobLost` | `pool_jobs`, `SleepSuffices = FALSE` | Deallocation stops a worker before it has started its job (`thread_pool.c:218`; "Let him finish", :171). |
| `PluginChannel!SleepingPluginKicked` | `channel_keeps_up` with `Spec`, `PollTimesOut = FALSE` | The plugin finds no data, the core commits and sees `wakeup` clear, the plugin sets `wakeup` and sleeps on the data until the next buffer or the time-out (`plugin_hooks.c:528`). `KickReachesAll` shows that the next token repairs it. |
| `PluginChannel!BuffersWhole` | the same | `seq` is stored before `num` (`plugin_hooks.c:506`): a plugin in between takes a buffer with no records. |
| `PluginChannel!NothingProcessedTwice` | the same | A late token makes the plugin go back to `last_buf_off`, the buffer it has just processed (`print_plugin.c:314`). |
| `PluginChannel!SlotProtected` | the same, `Slots = 3`, `KeepsUp = FALSE` | The check of `seq` and the copy are separate (`plugin_hooks.c:542`, `print_plugin.c:320`). |
| `PluginChannel!LossIsLogged` | as for `SlotProtected` | The first three losses are counted and not logged (`print_plugin.c:307`, `CONFIG-KEYS:369`). |
| `HighAvailability!NoMessageLost` | `ha_failover` with `Spec`, `MaxMsgs = 2`, `Faults = {"crash"}`, `Overlap = TRUE` | A message is queued after the dump that should have taken it (`bmp_logdump.c:338`). |
| `HighAvailability!NoMessageLost` | the same, `Overlap = FALSE`, `KafkaFails = TRUE` | The dump pops a message whether or not Kafka took it (`ha.c:242`). |
| `HighAvailability!ForcedStateHolds` | the same as the first, `Faults = {"standby"}` | A round that has passed its test of `forced_mode` overwrites the forced state for good (`ha.c:331`). |
| `HighAvailability!ExpiryMeansOffline` | the same as the first, `Faults = {"crash", "expiry"}`, `MaxFaults = 2` | A key that expires between `KEYS` and `GET` makes the reader copy from a null pointer (`redis_common.c:189`). |
| `PluginCache!InsertionEnds` | `cache_purge` with `FairSpec`, `Scratch = 2`, `Delay = 0`, `MaxRecords = 3` | With every entry in an open time-bin an urgent purge frees nothing and the insertion retries by recursion for ever (`plugin_common.c:507`). Without time-bins (`MaxSlot = 1`) every insertion ends. |
| `PluginCache!Conservation` | `cache_purge`, `Buckets = 1`, `Scratch = 1`, `Delay = 0`, `MaxSlot = 1`, `MaxRecords = 3`, `SumHost = TRUE` | A retried `sum_host` record is counted under address zero too (`plugin_common.c:507`, `QUICKSTART:573`). |
| `PluginCache!Conservation` | `cache_purge`, `Scratch = 2`, `Delay = 0`, `MaxRecords = 3`, `ProRating = TRUE`, `Unit = 2` | A retried pro-rated flow starts again at its first time-bin with a counter already divided (`plugin_common.c:266`). |
| `PluginCache!Conservation` | `cache_purge`, `Scratch = 2`, `Delay = 0`, `MaxRecords = 3`, `ExitAnywhere = TRUE` | SIGINT between fork and flush writes entries twice; between flush and re-insertion it loses them (`plugin_common.c:760`). |
| `SqlCache!PendingKept` | `sql_cache` | After an urgent purge one pointer of the pending entries is copied back to the queue, whatever their number (`sql_common.c:939`): with a closed entry ahead of two pending ones the queue lists one that is already committed, which is written again, and lacks one in use, which is never written. The entry in hand is appended past the end of an array still full (:942). |
| `SqlWriter!RecoveredOnce` | `sql_writer` | "don't reprocess free and already recovered elements" (`pgsql_plugin.c:590`): an element that went to the backup is sent there again. |
| `SqlWriter!RefusedIsRecovered` | `sql_writer` | `sql_recovery_backup_host` "works by checking for the successful result of each SQL query" (`CONFIG-KEYS:1407`); a refused query of a transaction is not always repeated at the backup. |
| `SqlWriter!FilteredIsRecovered` | `sql_writer` | Elements that a filter sends to the backup (`CONFIG-KEYS:1638`) do not get there in every case. |
| `SqlWriter!RewindRepeatsNothing` | `sql_writer` | "DB failure: we will rewind the multi-values buffer" (`mysql_plugin.c:430`): a filtered element makes the full buffer go to the backup while the primary works; refused there, the loop goes back over the elements of other tables too, which are put off, and in the next round stored, twice. A round may then have more elements than the array. |
| `SqlWriter!OwnTable` | `sql_writer` | PostgreSQL expands the table name of the first element of the queue for all of them (`pgsql_plugin.c:541`). |
| `BgpTable!NeverAborts` | `bgp_table`, `LockBits = 2`, `MaxLookups = 4` | Lookups lock the node they return and nobody unlocks it (`bgp_table.c:313`): the counter (`bgp_table.h:59`) wraps, and a node with routes is deleted (assertion at `bgp_table.c:425`). |
| `BgpPeers!LabelIsAnnounced` | `bgp_peers`, `Labels = {l1, l2}` | "Received same information" (`bgp_msg.c:1516`) compares the attributes only: a route announced again with another label keeps the old one. |
| `BgpPeers!NeverStarves` | `bgp_peers`, `MaxPeers = 5`, five allowed addresses, one identifier, `MinHold = 0`, no hold times, prefixes, attributes or labels, one bucket, no batch, `Old = 1` | "To avoid starvation of the later established peers" (`bgp.c:988`): `peers_idx_rr` is used modulo the number of slots to search (`bgp.c:1000`), which a reset changes. With slots 0, 1, 2 and 4 open, slot 4 resets when the search is about to start from 4: it goes on from 4 modulo 3, and slot 0 is passed over five times. As connections and resets go on it may be passed over again. While the number stays the same the wait is bounded (`NoStarvation`). |

Losing the committed entries when no writer may be started is documented
(`CONFIG-KEYS`, `print_max_writers`) and is accounted for by `lost`.

## 6. What is not modelled

Parsers, encoders, the output formats, configuration, start-up and third-party
libraries hold no state that outlives a call, or are not pmacct's own; they are
most of the repository's lines. Data races on the BGP table are not modelled, as
nothing bounds their outcome. `PROJECT.json` lists each component with its
reason. The other components of section 1 are planned.

## 7. Plan

Written so far, in the order of the plan: `ThreadPool`, `PluginChannel`,
`HighAvailability`, `PluginCache` with their proofs; `FragmentTable`;
`AbstractCache` and `SqlCache`; `SqlWriter`; `BgpTable`; `BgpPeers` with its
proofs. Then the proofs of `FragmentTable`, `BgpTable`, `SqlWriter` and `SqlCache`
and the rest of those of `PluginChannel` and `PluginCache`. Next:

1. `PluginPipeline`: channel and cache composed through an abstract channel
   (records in order, some dropped), for the property that what is written is
   what the core sent, less what was logged as missing.
2. `TemplateCache` (`nfv9_template.c`), `SequenceStatus` (`xflow_status.c`, with
   32-bit arithmetic against a reference definition).
3. Reference counts of BGP attributes and the dump of tables through the thread
   pool; `BmpPeers` on top of `BgpPeers`; `RpkiSession`.
4. `MemoryTable` (memory pools, forked reader), `TeeBalancing`, `FlowExpiry`
   (nfprobe), `Pretag` (evaluation against a linear search), `ip_flow.c` (the
   shape of `FragmentTable`).

The theorem worth proving with them is the composition: that `PluginPipeline`
conserves what the core sent, from `Conservation` and the channel's properties.
