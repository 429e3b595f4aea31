----------------------------- MODULE PluginCache -----------------------------
(***************************************************************************)
(* The memory cache of the print, Kafka and AMQP plugins (plugin_common.c):*)
(* a hash table of buckets with conflict chains, whose extra nodes come    *)
(* from a scratch area.  Records taken from the pipe are added to the      *)
(* entry of their key and time-bin; at each refresh, and whenever a record *)
(* finds no node (safe_action), the entries whose time-bin is closed are   *)
(* given to a forked writer, the others are copied to a container, the     *)
(* whole table is emptied and the copies are put back.                     *)
(*                                                                         *)
(* The plugin is one process; what interleaves with it are its writer      *)
(* children, the clock and the SIGINT handler P_exit_now.  A step is one   *)
(* hop along a chain, one insertion, or one of mark, fork, flush.          *)
(***************************************************************************)
EXTENDS Integers, Sequences, FiniteSetsExt

CONSTANTS
    Keys,         \* the values a set of aggregation primitives can have
    Zero,         \* the key whose primitives are all zero
    Hash,         \* P_cache_modulo: the bucket of each key
    Buckets,      \* print_cache_entries
    Scratch,      \* sa.num, nodes of the scratch area
    MaxWriters,   \* dump_max_writers
    Delay,        \* startup_delay, in whole time-bins
    MaxSlot,      \* time-bins are 1 .. MaxSlot (a bound)
    MaxRecords,   \* records that arrive (a bound)
    Unit,         \* bytes a flow has in each time-bin it covers
    Skew,         \* time-bins an exporter's clock may be ahead
    SumHost,      \* TRUE: insert_func is P_sum_host_insert
    ProRating,    \* nfacctd_pro_rating
    ExitAnywhere  \* TRUE: SIGINT may come in the middle of an operation

NIL == 0
Slots == 1 .. MaxSlot
Heads == 1 .. Buckets
Nodes == 1 .. (Buckets + Scratch)
Phases == {"run", "marking", "forked", "flushed", "exited"}

ASSUME CacheAssumption ==
    /\ Buckets \in Nat \ {0} /\ Scratch \in Nat /\ MaxWriters \in Nat
    /\ Zero \in Keys /\ Hash \in [Keys -> Heads]
    /\ Delay \in Nat /\ MaxSlot \in Nat \ {0} /\ MaxRecords \in Nat
    /\ Unit \in Nat \ {0} /\ Skew \in Nat
    /\ {SumHost, ProRating, ExitAnywhere} \subseteq BOOLEAN
    /\ ~(SumHost /\ ProRating)

VARIABLES
    key, slot, cnt,  \* primitives, basetime and bytes_counter of each node
    valid,           \* "free", "inuse" or "committed"
    next,            \* next node of the conflict chain
    queue,           \* queries_queue[0 .. qq_ptr - 1]
    marked,          \* how many of them P_cache_mark_flush has marked
    sa,              \* sa.ptr, as the index of a scratch node
    pending,         \* pqq_container[0 .. pqq_ptr - 1]
    work,            \* the insertions begun and not completed, innermost first
    cp,              \* cache_ptr, the cursor of the insertion under way
    basetime,        \* time-bin of the current time
    newbase,         \* new_basetime, 0 when unset
    writers,         \* writer children alive
    arrived,         \* records that arrived so far
    pc,              \* where the plugin process is
    given, written, lost  \* bytes per key and time-bin: received; handed to a
                          \* writer; dropped because there was no writer

nodes  == <<key, slot, cnt, valid, next>>
ledger == <<given, written, lost>>
clock  == <<basetime, newbase>>
vars   == <<nodes, queue, marked, sa, pending, work, cp, clock, writers, arrived, pc,
            ledger>>

(* An insertion: what P_cache_insert was called with.  "tot" is tot_bytes, *)
(* "len" the pkt_len of the record, which pro-rating overwrites, and       *)
(* "slot" is ibasetime, which it moves from "from" to "to".                *)
Insertion(k, len, from, to) ==
    [key |-> k, len |-> len, tot |-> len, from |-> from, to |-> to,
     slot |-> from]

Bucket(s) == IF s = <<>> THEN NIL ELSE Hash[Head(s).key]

Init ==
    /\ key = [n \in Nodes |-> Zero] /\ slot = [n \in Nodes |-> 0]
    /\ cnt = [n \in Nodes |-> 0] /\ valid = [n \in Nodes |-> "free"]
    /\ next = [n \in Nodes |-> NIL]
    /\ queue = <<>> /\ marked = 0 /\ sa = 0 /\ pending = <<>> /\ work = <<>> /\ cp = NIL
    /\ basetime = 1 /\ newbase = 0 /\ writers = 0 /\ arrived = 0 /\ pc = "run"
    /\ given = [ks \in Keys \X Slots |-> 0]
    /\ written = given /\ lost = given

-----------------------------------------------------------------------------
(* A record is taken from the pipe buffer: its primitives, and the         *)
(* time-bins its flow covers.  Without pro-rating a flow is counted in the *)
(* time-bin of its start.  P_sum_host_insert counts it once under its      *)
(* source and once under its destination.                                  *)
Calls == IF SumHost THEN {<<a, b>> : a, b \in Keys \ {Zero}}
                    ELSE {<<k>> : k \in Keys}

Arrive(calls, from, to) ==
    /\ pc = "run" /\ work = <<>> /\ arrived < MaxRecords
    /\ from <= to /\ to <= basetime + Skew
    /\ ~ProRating => from = to
    /\ work' = [i \in DOMAIN calls |->
                  Insertion(calls[i], Unit * (to - from + 1), from, to)]
    /\ cp' = Hash[calls[1]]
    /\ arrived' = arrived + 1
    /\ given' = [ks \in Keys \X Slots |->
                   IF ks[2] \in from .. to
                   THEN given[ks] + Unit *
                        Cardinality({i \in DOMAIN calls : calls[i] = ks[1]})
                   ELSE given[ks]]
    /\ UNCHANGED <<marked, nodes, queue, sa, pending, clock, writers, pc, written, lost>>

-----------------------------------------------------------------------------
(* P_cache_insert: one node of the chain per step.                         *)

Inserting == pc = "run" /\ work # <<>>
InUse(n) == valid[n] = "inuse"
(* Mutant of Matches: the entry's time-bin is compared with the clock's.   *)
MatchesNow(n) == key[n] = Head(work).key /\ slot[n] = basetime

Matches(n) == key[n] = Head(work).key /\ slot[n] = Head(work).slot

(* The part of the flow's bytes that falls in the current time-bin.        *)
Share(i) ==
    LET part == i.tot \div (i.to - i.from + 1)
    IN  IF i.to > i.from THEN (IF part > 1 THEN part ELSE 1) ELSE i.len

(* P_cache_attach_new_node: room is tested for two nodes past sa.ptr.      *)
RoomToAttach == sa + 2 <= Scratch
NewNode == Buckets + 1 + (sa + 1)

(* The insertion is done at node n: with pro-rating the next time-bin is   *)
(* inserted, searched for from n on; else the call returns.                *)
InsertedAt(n) ==
    LET i == Head(work) IN
    IF i.slot < i.to
    THEN /\ work' = <<[i EXCEPT !.len = Share(i), !.slot = i.slot + 1]>>
                      \o Tail(work)
         /\ cp' = n
    ELSE /\ work' = Tail(work)
         /\ cp' = Bucket(Tail(work))

(* Node n becomes the entry of k in time-bin s and is queued.              *)
Occupy(n, k, s, c) ==
    /\ key' = [key EXCEPT ![n] = k]
    /\ slot' = [slot EXCEPT ![n] = s]
    /\ cnt' = [cnt EXCEPT ![n] = c]
    /\ valid' = [valid EXCEPT ![n] = "inuse"]
    /\ queue' = Append(queue, n)

(* Another entry's node: on to the next one of the chain.                  *)
Hop ==
    /\ Inserting /\ InUse(cp) /\ ~Matches(cp) /\ next[cp] # NIL
    /\ cp' = next[cp]
    /\ UNCHANGED <<marked, nodes, queue, sa, pending, work, clock, writers, arrived,
                   pc, ledger>>

(* The entry's own node: the counters are summed.                          *)
SumCounters ==
    /\ Inserting /\ InUse(cp) /\ Matches(cp)
    /\ cnt' = [cnt EXCEPT ![cp] = @ + Share(Head(work))]
    /\ InsertedAt(cp)
    /\ UNCHANGED <<marked, key, slot, valid, next, queue, sa, pending, clock, writers,
                   arrived, pc, ledger>>

(* A node that is not in use is taken, whatever it held before.            *)
TakeFree ==
    /\ Inserting /\ ~InUse(cp)
    /\ Occupy(cp, Head(work).key, Head(work).slot, Share(Head(work)))
    /\ InsertedAt(cp)
    /\ UNCHANGED <<marked, next, sa, pending, clock, writers, arrived, pc, ledger>>

(* The chain has ended and the scratch area has a node left.               *)
Attach ==
    /\ Inserting /\ InUse(cp) /\ ~Matches(cp) /\ next[cp] = NIL
    /\ RoomToAttach
    /\ sa' = sa + 1
    /\ next' = [next EXCEPT ![cp] = NewNode]
    /\ Occupy(NewNode, Head(work).key, Head(work).slot, Share(Head(work)))
    /\ InsertedAt(NewNode)
    /\ UNCHANGED <<marked, pending, clock, writers, arrived, pc, ledger>>

-----------------------------------------------------------------------------
(* Emptying the cache.                                                     *)

CommitBase == IF newbase # 0 THEN newbase ELSE basetime
IsPending(n) == CommitBase < slot[n] + Delay
Queued == {queue[i] : i \in DOMAIN queue}
Entry(n) == [key |-> key[n], slot |-> slot[n], cnt |-> cnt[n]]

(* Mutant of MarkFlush: the entry copied to the container is committed too. *)
MarkFlushAll ==
    LET n == queue[marked + 1] IN
    /\ pc = "marking" /\ marked < Len(queue)
    /\ pending' = IF IsPending(n) THEN Append(pending, Entry(n)) ELSE pending
    /\ valid' = [valid EXCEPT ![n] = "committed"]
    /\ marked' = marked + 1
    /\ UNCHANGED <<key, slot, cnt, next, queue, sa, work, cp, clock, writers,
                   arrived, pc, ledger>>

(* P_cache_mark_flush, one queued node per step: a closed entry is         *)
(* committed, another is copied to the container and its node freed.       *)
MarkFlush ==
    LET n == queue[marked + 1] IN
    /\ pc = "marking" /\ marked < Len(queue)
    /\ IF IsPending(n)
       THEN /\ pending' = Append(pending, Entry(n))
            /\ valid' = [valid EXCEPT ![n] = "free"]
       ELSE /\ valid' = [valid EXCEPT ![n] = "committed"]
            /\ UNCHANGED pending
    /\ marked' = marked + 1
    /\ UNCHANGED <<key, slot, cnt, next, queue, sa, work, cp, clock, writers,
                   arrived, pc, ledger>>

(* safe_action: the record found no node.                                  *)
Full ==
    /\ Inserting /\ InUse(cp) /\ ~Matches(cp) /\ next[cp] = NIL
    /\ ~RoomToAttach
    /\ work' = [work EXCEPT ![1].len = Share(Head(work))]
    /\ pc' = "marking"
    /\ UNCHANGED <<nodes, queue, marked, sa, pending, cp, clock, writers,
                   arrived, ledger>>

(* P_cache_handle_flush_event: the refresh deadline has passed.            *)
FlushEvent ==
    /\ pc = "run" /\ work = <<>>
    /\ pc' = "marking"
    /\ UNCHANGED <<nodes, queue, marked, sa, pending, work, cp, clock, writers,
                   arrived, ledger>>

(* What the purge function writes for one key and time-bin: the committed  *)
(* entries of the queue.                                                   *)
BytesIn(S, ks) ==
    MapThenSumSet(LAMBDA n : cnt[n],
                  {n \in S : key[n] = ks[1] /\ slot[n] = ks[2]})

Committed == {n \in Queued : valid[n] = "committed"}
Credit(acct, S) == [ks \in Keys \X Slots |-> acct[ks] + BytesIn(S, ks)]

(* fork() of a writer, which has its own copy of the cache.                *)
Fork ==
    /\ pc = "marking" /\ marked = Len(queue) /\ writers < MaxWriters
    /\ writers' = writers + 1
    /\ written' = Credit(written, Committed)
    /\ pc' = "forked"
    /\ UNCHANGED <<marked, nodes, queue, sa, pending, work, cp, clock, arrived, given,
                   lost>>

(* All writers are busy (CHLD_ALERT), or fork() fails: a warning is logged *)
(* and the committed entries are not written.                              *)
NoWriter ==
    /\ pc = "marking" /\ marked = Len(queue)
    /\ lost' = Credit(lost, Committed)
    /\ pc' = "forked"
    /\ UNCHANGED <<marked, nodes, queue, sa, pending, work, cp, clock, writers,
                   arrived, given, written>>

(* P_cache_flush, and what is left of the queue: every queued node is      *)
(* freed and unlinked, the scratch area is rewound; a refresh also clears  *)
(* new_basetime.                                                           *)
FlushTo(q) ==
    /\ pc = "forked"
    /\ valid' = [n \in Nodes |-> IF n \in Queued THEN "free" ELSE valid[n]]
    /\ next' = [n \in Nodes |-> IF n \in Queued THEN NIL ELSE next[n]]
    /\ queue' = q /\ sa' = 0 /\ marked' = 0
    /\ newbase' = IF work = <<>> THEN 0 ELSE newbase
    /\ cp' = Bucket(pending)
    /\ pc' = "flushed"
    /\ UNCHANGED <<key, slot, cnt, pending, work, basetime, writers, arrived,
                   ledger>>

(* Mutant of Flush: the queue is kept.                                     *)
FlushKeepsQueue == FlushTo(queue)

(* qq_ptr = FALSE: the queue is emptied.                                   *)
Flush == FlushTo(<<>>)

-----------------------------------------------------------------------------
(* P_cache_insert_pending: the copies go to the first node of their chain  *)
(* that is not in use, without comparing keys.                             *)

Reinserting == pc = "flushed" /\ pending # <<>>

PendingHop ==
    /\ Reinserting /\ InUse(cp) /\ next[cp] # NIL
    /\ cp' = next[cp]
    /\ UNCHANGED <<marked, nodes, queue, sa, pending, work, clock, writers, arrived,
                   pc, ledger>>

(* The copy is placed at n, with no successor.                             *)
PlaceAt(n, linked) ==
    LET e == Head(pending) IN
    /\ Occupy(n, e.key, e.slot, e.cnt)
    /\ next' = [linked EXCEPT ![n] = NIL]
    /\ pending' = Tail(pending)
    /\ cp' = Bucket(Tail(pending))

PendingFree ==
    /\ Reinserting /\ ~InUse(cp)
    /\ PlaceAt(cp, next)
    /\ UNCHANGED <<marked, sa, work, clock, writers, arrived, pc, ledger>>

(* The end of the chain: a new node, or "Pending entries will be lost" and *)
(* the loop is left.                                                       *)
PendingAttach ==
    /\ Reinserting /\ InUse(cp) /\ next[cp] = NIL
    /\ IF RoomToAttach
       THEN /\ sa' = sa + 1
            /\ PlaceAt(NewNode, [next EXCEPT ![cp] = NewNode])
       ELSE /\ pending' = <<>>
            /\ UNCHANGED <<nodes, queue, sa, cp>>
    /\ UNCHANGED <<marked, work, clock, writers, arrived, pc, ledger>>

(* "try to insert again": insert_func is called with the record as it now  *)
(* is; P_sum_host_insert finds no destination left in it and counts the    *)
(* zero host too.                                                          *)
Retry(w) ==
    LET i == Head(w)
        again(k) == Insertion(k, i.len, i.from, i.to)
    IN  <<again(i.key)>> \o (IF SumHost THEN <<again(Zero)>> ELSE <<>>)
                         \o Tail(w)

Resume ==
    /\ pc = "flushed" /\ pending = <<>>
    /\ work' = IF work = <<>> THEN <<>> ELSE Retry(work)
    /\ cp' = Bucket(work)
    /\ pc' = "run"
    /\ UNCHANGED <<marked, nodes, queue, sa, pending, clock, writers, arrived, ledger>>

-----------------------------------------------------------------------------
(* What interleaves with the plugin.                                       *)

(* P_update_time_reference: the clock enters the next time-bin.            *)
Roll ==
    /\ pc = "run" /\ work = <<>> /\ basetime < MaxSlot
    /\ newbase' = basetime
    /\ basetime' = basetime + 1
    /\ UNCHANGED <<marked, nodes, queue, sa, pending, work, cp, writers, arrived, pc,
                   ledger>>

(* A writer child ends; dump_writers_count no longer counts it.            *)
WriterEnds ==
    /\ pc # "exited" /\ writers > 0
    /\ writers' = writers - 1
    /\ UNCHANGED <<marked, nodes, queue, sa, pending, work, cp, clock, arrived, pc,
                   ledger>>

(* P_exit_now, the SIGINT handler: whatever is queued is committed and     *)
(* purged by the plugin process itself, if a writer would be allowed.      *)
Exit ==
    /\ pc # "exited"
    /\ ExitAnywhere \/ (pc = "run" /\ work = <<>>)
    /\ valid' = [n \in Nodes |-> IF n \in Queued THEN "committed" ELSE valid[n]]
    /\ IF writers < MaxWriters
       THEN written' = Credit(written, Queued) /\ UNCHANGED lost
       ELSE lost' = Credit(lost, Queued) /\ UNCHANGED written
    /\ pc' = "exited"
    /\ UNCHANGED <<marked, key, slot, cnt, next, queue, sa, pending, work, cp, clock,
                   writers, arrived, given>>

Exited == pc = "exited" /\ UNCHANGED vars

-----------------------------------------------------------------------------
PluginStep ==
    \/ Hop \/ SumCounters \/ TakeFree \/ Attach \/ Full
    \/ MarkFlush \/ Fork \/ NoWriter \/ Flush
    \/ PendingHop \/ PendingFree \/ PendingAttach \/ Resume

Next ==
    \/ \E calls \in Calls, from, to \in Slots : Arrive(calls, from, to)
    \/ PluginStep
    \/ FlushEvent \/ Roll \/ WriterEnds \/ Exit \/ Exited

Spec == Init /\ [][Next]_vars

(* The plugin process runs on: the operation it is in goes forward.        *)
FairSpec == Spec /\ WF_vars(PluginStep)

-----------------------------------------------------------------------------
(* Properties.                                                             *)

Counted == [key : Keys, slot : Slots, cnt : Nat]
Insertions == [key : Keys, len : Nat, tot : Nat, from : Slots, to : Slots,
               slot : Slots]

(* Types: in particular the scratch area and the queue stay in bounds.     *)
TypeOK ==
    /\ key \in [Nodes -> Keys] /\ slot \in [Nodes -> Slots \union {0}]
    /\ cnt \in [Nodes -> Nat] /\ valid \in [Nodes -> {"free", "inuse", "committed"}]
    /\ next \in [Nodes -> Nodes \union {NIL}] /\ queue \in Seq(Nodes)
    /\ marked \in 0 .. Len(queue)
    /\ sa \in Nat /\ (sa # 0 => sa < Scratch)
    /\ pending \in Seq(Counted) /\ work \in Seq(Insertions)
    /\ cp \in Nodes \union {NIL} /\ basetime \in Slots
    /\ newbase \in Slots \union {0} /\ writers \in 0 .. MaxWriters
    /\ arrived \in 0 .. MaxRecords /\ pc \in Phases
    /\ {given, written, lost} \subseteq [Keys \X Slots -> Nat]

InCache(ks) ==
    IF pc \in {"forked", "exited"} THEN 0
    ELSE BytesIn({n \in Queued : valid[n] # "free"}, ks)

InContainer(ks) ==
    IF pc = "exited" THEN 0
    ELSE MapThenSumSet(LAMBDA j : pending[j].cnt,
                       {j \in DOMAIN pending :
                          <<pending[j].key, pending[j].slot>> = ks})

ToInsert(ks) ==
    MapThenSumSet(LAMBDA i : Share(work[i]),
                  {i \in DOMAIN work : /\ work[i].key = ks[1]
                                       /\ ks[2] \in work[i].slot .. work[i].to})

(* Every byte received is, under the key and time-bin it belongs to, in    *)
(* the cache, waiting in the container, handed to one writer or dropped    *)
(* for want of a writer, and only once: purges, safe_action's retry, the   *)
(* re-insertion of pending entries (P_cache_insert_pending's "Pending      *)
(* entries will be lost") and the exit handler neither lose nor repeat it. *)
(* The scratch area and the queue stay in bounds meanwhile (TypeOK).       *)
Conservation ==
    /\ TypeOK
    /\ \A ks \in Keys \X Slots :
         given[ks] = written[ks] + lost[ks] + InCache(ks) + InContainer(ks)
                     + ToInsert(ks)

(* A key and time-bin has one node: P_cache_insert's search finds the      *)
(* entry it made before, although P_cache_insert_pending rebuilds the      *)
(* chains in another order and without comparing.                          *)
UniqueEntries ==
    \A m, n \in Nodes :
      (InUse(m) /\ InUse(n) /\ key[m] = key[n] /\ slot[m] = slot[n]) => m = n

(* The cache is a table of counters that a purge empties by whole          *)
(* time-bins: chains, the scratch area, the container and the retry after  *)
(* an urgent purge cannot be seen from outside.                            *)
Counters == [ks \in Keys \X Slots |-> InCache(ks) + InContainer(ks)]
Table == INSTANCE AbstractCache WITH
             held <- Counters, LastSlot <- MaxSlot,
             Amounts <- 1 .. (Unit * MaxSlot)
ImplementsTable == Table!Spec

(* queries_queue lists each node in use once, and nothing else, so that a  *)
(* purge reaches every entry, P_cache_flush unlinks every chain and the    *)
(* queue cannot outgrow its array.                                         *)
QueueExact ==
    /\ \A i, j \in DOMAIN queue : queue[i] = queue[j] => i = j
    /\ pc \in {"run", "flushed"} => Queued = {n \in Nodes : InUse(n)}

(* safe_action "replenishes cache space" and "tries to insert again": the  *)
(* insertion of a record ends.                                             *)
InsertionEnds == (work # <<>>) ~> (work = <<>>)
=============================================================================
