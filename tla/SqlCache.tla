------------------------------ MODULE SqlCache ------------------------------
(***************************************************************************)
(* The memory cache of the SQL plugins (sql_common.c, sql_common_m.c).     *)
(* A bucket is a fixed first element and a chain of elements that malloc() *)
(* gave; these are also on an LRU list, from which they are reused for     *)
(* another bucket when stale and freed when older still.  Unlike the other *)
(* plugins' cache, entries whose time-bin is still open stay in place      *)
(* during a purge; sql_cache_flush_pending moves them ahead of the free    *)
(* elements of their chain, because a search ends at the first free one.   *)
(*                                                                         *)
(* A step is the arrival of a record, one insertion, one purge or the move *)
(* of one pending entry.  Time is the index of the time-bin.               *)
(***************************************************************************)
EXTENDS Integers, Sequences, SequencesExt, Lists

CONSTANTS
    Keys,        \* the values a set of aggregation primitives can have
    NoKey,       \* the primitives of an element never used
    Hash,        \* sql_cache_modulo: the bucket of each key
    Buckets,     \* sql_cache_entries
    Heap,        \* elements that malloc() can give at most
    QSize,       \* qq_size
    Stale,       \* STALE_M refresh times
    Retire,      \* RETIRE_M refresh times
    Threshold,   \* CACHE_THRESHOLD, above which no more is added to an entry
    MaxWriters,  \* sql_max_writers
    Delay,       \* sql_startup_delay, in whole time-bins
    Late,        \* time-bins a record may be late (a bound)
    MaxSlot,     \* time-bins are 1 .. MaxSlot (a bound)
    MaxRecords   \* records that arrive (a bound)

NIL == 0
Slots == 1 .. MaxSlot
Heads == 1 .. Buckets
Nodes == 1 .. (Buckets + Heap)
Bins == Keys \X Slots

ASSUME SqlCacheAssumption ==
    /\ Buckets \in Nat \ {0} /\ Heap \in Nat /\ QSize \in Nat \ {0}
    /\ Stale \in Nat /\ Retire \in Nat /\ Stale <= Retire
    /\ Hash \in [Keys -> Heads] /\ NoKey \notin Keys
    /\ {Threshold, MaxWriters, Delay, Late, MaxRecords} \subseteq Nat
    /\ MaxSlot \in Nat \ {0}

VARIABLES
    key, slot, cnt, valid, tag,  \* of each element; tag is lru_tag
    chain,       \* elements of each bucket, the fixed one first
    lru,         \* LRU list, oldest first
    queue,       \* sql_queries_queue[0 .. sql_qq_ptr - 1]
    pend,        \* sql_pending_queries_queue[0 .. sql_pqq_ptr - 1]
    moved,       \* how many of them sql_cache_flush_pending has seen
    rec,         \* the record in hand: its key and time-bin
    safe,        \* SafePtr, the entry that found the queue full
    basetime, newbase, committed,  \* of struct insert_data
    writers, arrived, pc,
    given, written, lost,  \* records per key and time-bin: received, handed to
                           \* a writer, dropped for want of one
    urged        \* history of the urgent purges: "never"; "wrong" once one has left
                 \* another queue than the pending entries; else "now" if one came
                 \* after the last regular purge, "past" if not

elems  == <<key, slot, cnt, valid, tag>>
lists  == <<chain, lru>>
ledger == <<given, written, lost>>
clock  == <<basetime, newbase, committed>>
vars   == <<elems, lists, queue, pend, moved, rec, safe, clock, writers, arrived,
            pc, ledger, urged>>

NoRec == <<NoKey, 1>>

Init ==
    /\ key = [n \in Nodes |-> NoKey] /\ slot = [n \in Nodes |-> 1]
    /\ cnt = [n \in Nodes |-> 0] /\ valid = [n \in Nodes |-> "free"]
    /\ tag = [n \in Nodes |-> 1]
    /\ chain = [b \in Heads |-> <<b>>] /\ lru = <<>>
    /\ queue = <<>> /\ pend = <<>> /\ moved = 0 /\ rec = NoRec /\ safe = NIL
    /\ basetime = 1 /\ newbase = 1 /\ committed = 0 /\ writers = 0 /\ arrived = 0
    /\ pc = "run"
    /\ given = [b \in Bins |-> 0] /\ written = given /\ lost = given
    /\ urged = "never"

-----------------------------------------------------------------------------
InUse(n) == valid[n] = "inuse"
Allocated == UNION {ToSet(chain[b]) : b \in Heads}
Unlinked(n) == [b \in Heads |-> Without(chain[b], {n})]

(* Mutant of Retirable: an element in use may be retired too.              *)
RetirableAny == lru # <<>> /\ basetime - tag[lru[1]] > Retire

(* Housekeeping of sql_cache_insert: the oldest of the LRU list is freed   *)
(* when it is old enough and not on the queue.                             *)
Retirable ==
    lru # <<>> /\ basetime - tag[lru[1]] > Retire /\ ~InUse(lru[1])

(* A record of key k arrives for time-bin s; RetireElem.                   *)
Arrive(k, s) ==
    /\ pc = "run" /\ arrived < MaxRecords /\ s \in (basetime - Late) .. basetime
    /\ arrived' = arrived + 1
    /\ given' = [given EXCEPT ![<<k, s>>] = @ + 1]
    /\ rec' = <<k, s>> /\ pc' = "insert"
    /\ IF Retirable
       THEN chain' = Unlinked(lru[1]) /\ lru' = Tail(lru)
       ELSE UNCHANGED lists
    /\ UNCHANGED <<elems, queue, pend, moved, safe, clock, writers, written,
                   lost, urged>>

Inserting == pc = "insert"
Bucket == Hash[rec[1]]
Line == chain[Bucket]

Matches(n) ==
    InUse(n) /\ key[n] = rec[1] /\ slot[n] = rec[2] /\ cnt[n] <= Threshold

(* Where the search along the chain ends, 0 at the end of the chain.       *)
Found == SelectInSeq(Line, LAMBDA n : ~InUse(n) \/ Matches(n))

Update ==
    /\ Inserting /\ Found # 0 /\ Matches(Line[Found])
    /\ cnt' = [cnt EXCEPT ![Line[Found]] = @ + 1]
    /\ pc' = "run" /\ rec' = NoRec
    /\ UNCHANGED <<key, slot, valid, tag, lists, queue, pend, moved, safe, clock,
                   writers, arrived, ledger, urged>>

Room == Len(queue) < QSize

(* The record becomes the entry at n: queued, or kept as SafePtr until an  *)
(* urgent purge has made room; AddToLRUTail.                               *)
EnterAt(n, linked) ==
    /\ key' = [key EXCEPT ![n] = rec[1]]
    /\ slot' = [slot EXCEPT ![n] = rec[2]]
    /\ cnt' = [cnt EXCEPT ![n] = 1]
    /\ valid' = [valid EXCEPT ![n] = "inuse"]
    /\ tag' = [tag EXCEPT ![n] = basetime]
    /\ chain' = linked
    /\ lru' = IF n \in Heads THEN lru ELSE Append(Without(lru, {n}), n)
    /\ rec' = NoRec
    /\ IF Room
       THEN queue' = Append(queue, n) /\ pc' = "run" /\ UNCHANGED safe
       ELSE safe' = n /\ pc' = "urgent" /\ UNCHANGED queue
    /\ UNCHANGED <<pend, moved, clock, writers, arrived, ledger, urged>>

(* "we found a no more valid entry"                                        *)
TakeFree ==
    /\ Inserting /\ Found # 0 /\ ~InUse(Line[Found])
    /\ EnterAt(Line[Found], chain)

StaleHead ==
    lru # <<>> /\ ~InUse(lru[1]) /\ basetime - tag[lru[1]] > Stale

(* ReBuildChain: a stale element is moved to the end of this chain.        *)
Reuse ==
    /\ Inserting /\ Found = 0 /\ StaleHead
    /\ EnterAt(lru[1], [Unlinked(lru[1]) EXCEPT ![Bucket] = Append(@, lru[1])])

(* malloc() and BuildChain.                                                *)
Malloc ==
    /\ Inserting /\ Found = 0 /\ ~StaleHead
    /\ \E n \in Nodes \ Allocated : EnterAt(n, [chain EXCEPT ![Bucket] = Append(@, n)])

(* malloc() fails: "we should have finished memory"                        *)
NoMemory ==
    /\ Inserting /\ Found = 0 /\ ~StaleHead
    /\ pc' = "urgent"
    /\ UNCHANGED <<elems, lists, queue, pend, moved, rec, safe, clock, writers,
                   arrived, ledger, urged>>

-----------------------------------------------------------------------------
(* Purges.                                                                 *)

(* sql_cache_flush, check-pointing: has the clock moved to a time-bin past *)
(* the last one committed?                                                 *)
Moved == newbase # 0 /\ newbase < basetime /\ newbase > committed

Open(n) == IF Moved THEN slot[n] + Delay >= basetime ELSE slot[n] + Delay > basetime

Pending ==
    IF queue = <<>> THEN pend ELSE Without(queue, {n \in Nodes : ~Open(n)})
Closed == Without(queue, {n \in Nodes : Open(n)})

Count(seq, b) ==
    MapThenSumSet(LAMBDA i : cnt[seq[i]],
                  {i \in DOMAIN seq : key[seq[i]] = b[1] /\ slot[seq[i]] = b[2]})

Credit(acct, seq) == [b \in Bins |-> acct[b] + Count(seq, b)]

(* The closed entries are committed; a writer is forked for them, or they  *)
(* are dropped because there are too many writers or fork() fails.         *)
FlushAndFork ==
    /\ valid' = [n \in Nodes |-> IF n \in ToSet(Closed) THEN "committed" ELSE valid[n]]
    /\ committed' = IF queue = <<>> THEN committed
                    ELSE IF Moved THEN newbase ELSE basetime
    /\ \/ /\ writers < MaxWriters /\ writers' = writers + 1
          /\ written' = Credit(written, Closed) /\ UNCHANGED lost
       \/ lost' = Credit(lost, Closed) /\ UNCHANGED <<writers, written>>
    /\ UNCHANGED <<key, slot, cnt, tag, basetime, arrived, given>>

(* The queue is read: none of its elements has been freed.                 *)
Readable == ToSet(queue) \subseteq Allocated

(* sql_cache_handle_flush_event, up to the sorting of the pending entries. *)
FlushEvent ==
    /\ pc = "run" /\ Readable
    /\ FlushAndFork
    /\ pend' = Pending /\ moved' = 0 /\ pc' = "move"
    /\ UNCHANGED <<lists, queue, rec, safe, newbase, urged>>

(* What an urgent purge leaves on the queue: memcpy() of the size of one   *)
(* pointer, the rest is what was there.                                    *)
Shortened == [i \in DOMAIN Pending |-> IF i = 1 THEN Pending[1] ELSE queue[i]]

(* safe_action: an urgent purge.  When it leaves another queue than the    *)
(* pending entries the plugin goes on with that one, on which entries are  *)
(* missing, repeated or already committed.                                 *)
UrgentPurge ==
    /\ pc = "urgent" /\ Readable
    /\ FlushAndFork
    /\ pend' = Pending /\ queue' = Shortened /\ pc' = "resume"
    /\ urged' = IF urged # "wrong" /\ Shortened = Pending THEN "now" ELSE "wrong"
    /\ UNCHANGED <<lists, moved, rec, safe, newbase>>

(* Mutant of QueueSafe: the entry is not put on the queue.                 *)
QueueSafeNot ==
    /\ pc = "resume" /\ safe # NIL
    /\ safe' = NIL /\ pc' = "run"
    /\ UNCHANGED <<elems, lists, queue, pend, moved, rec, clock, writers, arrived,
                   ledger, urged>>

(* The entry that found the queue full is put on it: past the end of the   *)
(* array, if it is still full.                                             *)
QueueSafe ==
    /\ pc = "resume" /\ safe # NIL
    /\ queue' = Append(queue, safe) /\ safe' = NIL
    /\ pc' = IF Room THEN "run" ELSE "mangled"
    /\ UNCHANGED <<elems, lists, pend, moved, rec, clock, writers, arrived, ledger,
                   urged>>

(* No entry was made: the insertion is tried again.                        *)
Retry ==
    /\ pc = "resume" /\ safe = NIL /\ pc' = "insert"
    /\ UNCHANGED <<elems, lists, queue, pend, moved, rec, safe, clock, writers,
                   arrived, ledger, urged>>

-----------------------------------------------------------------------------
(* sql_cache_flush_pending, one pending entry per step.                    *)

Moving == pend[moved + 1]
Place(n) == CHOOSE b \in Heads : n \in ToSet(chain[b])
Hole(n) == SelectInSeq(chain[Place(n)], LAMBDA m : m = n \/ ~InUse(m))
MovingOn ==
    /\ pc = "move" /\ moved < Len(pend) /\ Moving \in Allocated
    /\ moved' = moved + 1
    /\ UNCHANGED <<queue, rec, safe, clock, writers, arrived, pc, ledger, urged>>

(* No free element is ahead of it.                                         *)
Stay ==
    /\ MovingOn /\ chain[Place(Moving)][Hole(Moving)] = Moving
    /\ UNCHANGED <<elems, lists, pend>>

(* The first element of the bucket is free: the entry is copied there and  *)
(* its own element retired.                                                *)
CopyToHead ==
    /\ MovingOn /\ Hole(Moving) = 1 /\ chain[Place(Moving)][1] # Moving
    /\ LET b == Place(Moving) IN
       /\ key' = [key EXCEPT ![b] = key[Moving]]
       /\ slot' = [slot EXCEPT ![b] = slot[Moving]]
       /\ cnt' = [cnt EXCEPT ![b] = cnt[Moving]]
       /\ valid' = [valid EXCEPT ![b] = valid[Moving], ![Moving] = "free"]
       /\ tag' = [tag EXCEPT ![b] = tag[Moving]]
       /\ pend' = [pend EXCEPT ![moved + 1] = b]
    /\ chain' = Unlinked(Moving) /\ lru' = Without(lru, {Moving})

Exchange(seq, i, j) == [seq EXCEPT ![i] = seq[j], ![j] = seq[i]]

(* Mutant of Swap: the two are left where they are.                        *)
SwapNot ==
    /\ MovingOn /\ Hole(Moving) # 1 /\ chain[Place(Moving)][Hole(Moving)] # Moving
    /\ UNCHANGED <<elems, lists, pend>>

(* SwapChainedElems: another free element is ahead of it.                  *)
Swap ==
    /\ MovingOn /\ Hole(Moving) # 1 /\ chain[Place(Moving)][Hole(Moving)] # Moving
    /\ LET b == Place(Moving)
           i == SelectInSeq(chain[b], LAMBDA m : m = Moving)
       IN  chain' = [chain EXCEPT ![b] = Exchange(@, Hole(Moving), i)]
    /\ UNCHANGED <<elems, lru, pend>>

Settled == urged' = IF urged = "now" THEN "past" ELSE urged

(* Mutant of FlushEnds: the queue still lists what was committed.          *)
FlushEndsKeeps ==
    /\ pc = "move" /\ moved = Len(pend)
    /\ newbase' = 0 /\ Settled /\ pc' = "run" /\ moved' = 0
    /\ UNCHANGED <<elems, lists, queue, pend, rec, safe, basetime, committed,
                   writers, arrived, ledger>>

(* The rest of the event: the pending entries are the new queue.           *)
FlushEnds ==
    /\ pc = "move" /\ moved = Len(pend)
    /\ queue' = pend /\ newbase' = 0 /\ Settled /\ pc' = "run" /\ moved' = 0
    /\ UNCHANGED <<elems, lists, pend, rec, safe, basetime, committed, writers,
                   arrived, ledger>>

-----------------------------------------------------------------------------
(* sql_update_time_reference: the clock enters the next time-bin.          *)
Roll ==
    /\ pc = "run" /\ basetime < MaxSlot
    /\ newbase' = basetime /\ basetime' = basetime + 1
    /\ UNCHANGED <<elems, lists, queue, pend, moved, rec, safe, committed, writers,
                   arrived, pc, ledger, urged>>

(* A writer child ends; dump_writers_count no longer counts it.            *)
WriterEnds ==
    /\ pc = "run" /\ writers > 0 /\ writers' = writers - 1
    /\ UNCHANGED <<elems, lists, queue, pend, moved, rec, safe, clock, arrived, pc,
                   ledger, urged>>

(* sql_exit_gracefully, between two operations: all of the queue is        *)
(* written by the plugin itself, unless too many writers are at work.      *)
Exit ==
    /\ pc = "run" /\ Readable
    /\ valid' = [n \in Nodes |-> IF n \in ToSet(queue) THEN "committed" ELSE valid[n]]
    /\ IF writers < MaxWriters
       THEN written' = Credit(written, queue) /\ UNCHANGED lost
       ELSE lost' = Credit(lost, queue) /\ UNCHANGED written
    /\ pc' = "exited"
    /\ UNCHANGED <<key, slot, cnt, tag, lists, queue, pend, moved, rec, safe, clock,
                   writers, arrived, given, urged>>

(* A purge, the exit or sql_cache_flush_pending reads an element that has  *)
(* been freed: what follows is undefined.                                  *)
Dangling ==
    /\ \/ pc \in {"run", "urgent"} /\ ~Readable
       \/ pc = "move" /\ moved < Len(pend) /\ Moving \notin Allocated
    /\ pc' = "mangled"
    /\ UNCHANGED <<elems, lists, queue, pend, moved, rec, safe, clock, writers,
                   arrived, ledger, urged>>

Stopped == pc \in {"exited", "mangled"} /\ UNCHANGED vars

Next ==
    \/ \E k \in Keys, s \in Slots : Arrive(k, s)
    \/ Update \/ TakeFree \/ Reuse \/ Malloc \/ NoMemory
    \/ FlushEvent \/ Stay \/ CopyToHead \/ Swap \/ FlushEnds
    \/ UrgentPurge \/ QueueSafe \/ Retry
    \/ Roll \/ WriterEnds \/ Exit \/ Dangling \/ Stopped

Spec == Init /\ [][Next]_vars

-----------------------------------------------------------------------------
(* Properties.                                                             *)

Phases == {"run", "insert", "urgent", "resume", "move", "exited", "mangled"}

TypeOK ==
    /\ key \in [Nodes -> Keys \union {NoKey}] /\ slot \in [Nodes -> Slots]
    /\ cnt \in [Nodes -> 0 .. MaxRecords] /\ tag \in [Nodes -> Slots]
    /\ valid \in [Nodes -> {"free", "inuse", "committed"}]
    /\ lru \in Seq(Nodes) /\ queue \in Seq(Nodes) /\ pend \in Seq(Nodes)
    /\ moved \in 0 .. Len(pend) /\ safe \in Nodes \union {NIL}
    /\ writers \in 0 .. MaxWriters /\ pc \in Phases
    /\ pc # "mangled" => Len(queue) <= QSize

(* The lists stay lists: every element malloc() gave is in one chain, once *)
(* and behind its first element, and on the LRU list, once, in the order   *)
(* of the tags; what is in use is never freed, also once an urgent purge   *)
(* has left a wrong queue.  The queue is never longer than its array but   *)
(* for the append past its end, at which the model stops (TypeOK).         *)
ListsSound ==
    /\ TypeOK
    /\ \A b \in Heads : chain[b] # <<>> /\ chain[b][1] = b
    /\ \A b, c \in Heads : \A i \in DOMAIN chain[b], j \in DOMAIN chain[c] :
         chain[b][i] = chain[c][j] => (b = c /\ i = j)
    /\ IsInjective(lru) /\ ToSet(lru) = Allocated \ Heads
    /\ \A i, j \in DOMAIN lru : i < j => tag[lru[i]] <= tag[lru[j]]
    /\ \A n \in Nodes : InUse(n) => n \in Allocated

InCache == [b \in Bins |->
    MapThenSumSet(LAMBDA n : cnt[n],
                  {n \in Nodes : InUse(n) /\ n # safe /\ <<key[n], slot[n]>> = b})]
InHand == [b \in Bins |->
    IF rec = b \/ (safe # NIL /\ <<key[safe], slot[safe]>> = b) THEN 1 ELSE 0]

(* Every record is, under its key and time-bin, in an entry, in hand,      *)
(* handed to a writer or dropped for want of one, and only once; and every *)
(* entry in use is on the queue, once, so that it will be: until an urgent *)
(* purge leaves another queue than the pending entries (PendingKept).      *)
Conservation ==
  urged # "wrong" =>
    /\ \A b \in Bins : given[b] = written[b] + lost[b] + InCache[b] + InHand[b]
    /\ pc \in {"run", "insert"} =>
         IsInjective(queue) /\ ToSet(queue) = {n \in Nodes : InUse(n)}

(* A regular purge leaves every entry in use ahead of all free elements of *)
(* its chain, where the next record of its key and time-bin finds it,      *)
(* unless an urgent purge came after it or left a wrong queue; and before  *)
(* the first urgent purge there is one entry per key and time-bin (below   *)
(* the threshold).                                                         *)
SearchFindsAll ==
    pc = "run" =>
      /\ urged \in {"never", "past"} =>
           \A b \in Heads : \A i, j \in DOMAIN chain[b] :
             (i < j /\ InUse(chain[b][j])) => InUse(chain[b][i])
      /\ urged = "never" =>
           \A m, n \in Nodes :
             (/\ InUse(m) /\ InUse(n) /\ key[m] = key[n] /\ slot[m] = slot[n]
              /\ cnt[m] <= Threshold /\ cnt[n] <= Threshold)
                => m = n

(* The cache is a table of counters that a purge empties by whole          *)
(* time-bins, like the one of the other plugins, until an urgent purge     *)
(* leaves another queue than the pending entries.  The stuttering step is  *)
(* written out because TLC tries the disjuncts in this order.              *)
Table == INSTANCE AbstractCache WITH
             held <- InCache, LastSlot <- MaxSlot, Amounts <- {1}
ImplementsTable ==
    /\ Table!Init
    /\ [][UNCHANGED Table!vars \/ urged' = "wrong" \/ Table!Next]_(Table!vars)

(* An urgent purge keeps the pending entries on the queue.  It does not,   *)
(* when there are two or more of them behind a closed one (README, 5).     *)
PendingKept == urged # "wrong"
=============================================================================
