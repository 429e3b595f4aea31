-------------------------- MODULE PluginCacheProofs --------------------------
(***************************************************************************)
(* What holds of PluginCache for every table, every hash and every         *)
(* sequence of records.                                                    *)
(*                                                                         *)
(* QueueIsExact: queries_queue lists each node in use once and nothing     *)
(* else.  It is not inductive: a node of the scratch area is handed out    *)
(* without a look at its state, so that it is not queued already must      *)
(* follow from where sa.ptr is.  CacheInv therefore bounds every queued    *)
(* node, every link and the cursor by sa.ptr (Reached), and says that only *)
(* queued nodes are linked (Linked), without which P_cache_flush, which    *)
(* unlinks the queued nodes only, would leave links beyond a rewound       *)
(* scratch area.                                                           *)
(*                                                                         *)
(* EntriesAreUnique: ChainInv adds what the chains look like.  Nodes are   *)
(* handed out in the order of their indices, so the chain of a bucket is   *)
(* the nodes in use of that bucket in ascending order (Chains), the cursor *)
(* is on the chain of its record (Walk), and a container being put back    *)
(* needs no more scratch nodes than there are left (Fits): "Pending        *)
(* entries will be lost" is never logged.  SearchInv adds that no entry    *)
(* behind the cursor is the record's own (Passed).                         *)
(*                                                                         *)
(* CacheImplementsTable: the refinement of AbstractCache.  The bytes of    *)
(* the cache and of the container are sums over sets of nodes and of       *)
(* copies; each step moves one term or all terms of closed time-bins.      *)
(*                                                                         *)
(* BytesAreConserved: with the record under way they are what was given.   *)
(***************************************************************************)
EXTENDS PluginCache, ListsAndSums

Copies == [key : Keys, slot : Slots \union {0}, cnt : Nat]
States == {"free", "inuse", "committed"}

(* The types the argument needs.                                           *)
Shape ==
    /\ key \in [Nodes -> Keys]
    /\ slot \in [Nodes -> Slots \union {0}]
    /\ cnt \in [Nodes -> Nat]
    /\ valid \in [Nodes -> States]
    /\ next \in [Nodes -> Nodes \union {NIL}]
    /\ queue \in Seq(Nodes)
    /\ marked \in Nat
    /\ sa \in Nat
    /\ pending \in Seq(Copies)
    /\ work \in Seq(Insertions)
    /\ cp \in Nodes \union {NIL}
    /\ pc \in Phases

(* The last scratch node handed out, or the last bucket's neighbour.       *)
Top == Buckets + 1 + sa

Reached ==
    /\ \A i \in 1 .. Len(queue) : queue[i] <= Top
    /\ \A n \in Nodes : next[n] <= Top
    /\ cp <= Top

Linked ==
    \A n \in Nodes : next[n] # NIL => \E i \in 1 .. Len(queue) : queue[i] = n

NoRepeat ==
    \A i, j \in 1 .. Len(queue) : queue[i] = queue[j] => i = j

AllQueued ==
    \A n \in Nodes : valid[n] = "inuse" => \E i \in 1 .. Len(queue) : queue[i] = n

OnlyInUse ==
    pc \in {"run", "flushed"} =>
      \A i \in 1 .. Len(queue) : valid[queue[i]] = "inuse"

Cursor ==
    /\ pc = "run" /\ work # <<>> => cp # NIL
    /\ pc = "flushed" /\ pending # <<>> => cp # NIL

CacheInv ==
    /\ Shape /\ Reached /\ Linked /\ NoRepeat /\ AllQueued /\ OnlyInUse /\ Cursor

(* The invariant gives the property.                                       *)
LEMMA InvGivesExact == CacheInv => QueueExact
  <1> SUFFICES ASSUME CacheInv PROVE QueueExact
    OBVIOUS
  <1>1. DOMAIN queue = 1 .. Len(queue)
    BY DEF CacheInv, Shape
  <1>2. \A i \in 1 .. Len(queue) : queue[i] \in Nodes
    BY DEF CacheInv, Shape
  <1>3. ASSUME pc \in {"run", "flushed"}
        PROVE  Queued = {n \in Nodes : InUse(n)}
    BY <1>1, <1>2, <1>3 DEF CacheInv, AllQueued, OnlyInUse, Queued, InUse
  <1> QED
    BY <1>1, <1>3 DEF CacheInv, NoRepeat, QueueExact

(* Initially all nodes are free and nothing is queued.                     *)
LEMMA InitInv == Init => CacheInv
  <1> SUFFICES ASSUME Init PROVE CacheInv
    OBVIOUS
  <1> USE CacheAssumption DEF Init, NIL, Nodes, Slots, Phases
  <1>1. Shape
    BY DEF Shape, States
  <1>2. Reached /\ Linked /\ NoRepeat /\ AllQueued /\ OnlyInUse /\ Cursor
    BY DEF Reached, Top, Linked, NoRepeat, AllQueued, OnlyInUse, Cursor
  <1> QED
    BY <1>1, <1>2 DEF CacheInv

(* The bucket of a record or copy is a node, and it has one if it exists.  *)
LEMMA BucketOfWork ==
    ASSUME NEW s \in Seq(Insertions)
    PROVE  /\ Bucket(s) \in Nodes \union {NIL}
           /\ Bucket(s) <= Buckets
           /\ s # <<>> => Bucket(s) # NIL
  <1>1. CASE s = <<>>
    BY <1>1, CacheAssumption DEF Bucket, NIL
  <1>2. CASE s # <<>>
    <2>1. Head(s) \in Insertions
      BY <1>2
    <2>2. Hash[Head(s).key] \in 1 .. Buckets
      BY <2>1, CacheAssumption DEF Insertions, Heads
    <2> QED
      BY <1>2, <2>2, CacheAssumption DEF Bucket, Nodes, NIL
  <1> QED
    BY <1>1, <1>2

(* The same for a container.                                               *)
LEMMA BucketOfCopies ==
    ASSUME NEW s \in Seq(Copies)
    PROVE  /\ Bucket(s) \in Nodes \union {NIL}
           /\ Bucket(s) <= Buckets
           /\ s # <<>> => Bucket(s) # NIL
  <1>1. CASE s = <<>>
    BY <1>1, CacheAssumption DEF Bucket, NIL
  <1>2. CASE s # <<>>
    <2>1. Head(s) \in Copies
      BY <1>2
    <2>2. Hash[Head(s).key] \in 1 .. Buckets
      BY <2>1, CacheAssumption DEF Copies, Heads
    <2> QED
      BY <1>2, <2>2, CacheAssumption DEF Bucket, Nodes, NIL
  <1> QED
    BY <1>1, <1>2

(* The share of a flow is a number of bytes.                               *)
LEMMA ShareIsNat ==
    ASSUME NEW i \in Insertions PROVE Share(i) \in Nat
  <1>1. i.tot \in Nat /\ i.len \in Nat /\ i.to \in Int /\ i.from \in Int
    BY CacheAssumption DEF Insertions, Slots
  <1>2. CASE i.to > i.from
    <2>1. i.tot \div (i.to - i.from + 1) \in Int
      BY <1>1, <1>2
    <2> QED
      BY <1>1, <1>2, <2>1 DEF Share
  <1>3. CASE ~(i.to > i.from)
    BY <1>1, <1>3 DEF Share
  <1> QED
    BY <1>2, <1>3

(* Queueing a node that is not queued keeps the queue exact.               *)
LEMMA OccupyKeeps ==
    ASSUME CacheInv, NEW n \in Nodes, NEW k \in Keys,
           NEW s \in Slots \union {0}, NEW c \in Nat,
           \A i \in 1 .. Len(queue) : queue[i] # n,
           pc \in {"run", "flushed"}, pc' = pc, Occupy(n, k, s, c)
    PROVE  /\ key' \in [Nodes -> Keys] /\ slot' \in [Nodes -> Slots \union {0}]
           /\ cnt' \in [Nodes -> Nat] /\ valid' \in [Nodes -> States]
           /\ queue' \in Seq(Nodes)
           /\ Len(queue') = Len(queue) + 1
           /\ \A i \in 1 .. Len(queue) : queue'[i] = queue[i]
           /\ queue'[Len(queue) + 1] = n
           /\ NoRepeat' /\ AllQueued' /\ OnlyInUse'
  <1> USE DEF CacheInv, Occupy
  <1>1. /\ key' \in [Nodes -> Keys] /\ slot' \in [Nodes -> Slots \union {0}]
        /\ cnt' \in [Nodes -> Nat] /\ valid' \in [Nodes -> States]
    BY DEF Shape, States
  <1>2. /\ queue' \in Seq(Nodes)
        /\ Len(queue) \in Nat
        /\ Len(queue') = Len(queue) + 1
        /\ \A i \in 1 .. Len(queue) : queue'[i] = queue[i] /\ queue[i] \in Nodes
        /\ queue'[Len(queue) + 1] = n
    BY DEF Shape
  <1>3. NoRepeat'
    <2> SUFFICES ASSUME NEW i \in 1 .. Len(queue'), NEW j \in 1 .. Len(queue'),
                        queue'[i] = queue'[j]
                 PROVE  i = j
      BY DEF NoRepeat
    <2>1. /\ i \in 1 .. Len(queue) \/ i = Len(queue) + 1
          /\ j \in 1 .. Len(queue) \/ j = Len(queue) + 1
      BY <1>2
    <2> QED
      BY <1>2, <2>1 DEF NoRepeat
  <1>4. AllQueued'
    <2> SUFFICES ASSUME NEW m \in Nodes, valid'[m] = "inuse"
                 PROVE  \E i \in 1 .. Len(queue') : queue'[i] = m
      BY DEF AllQueued
    <2>1. CASE m = n
      BY <1>2, <2>1
    <2>2. CASE m # n
      <3>1. valid[m] = "inuse"
        BY <2>2 DEF Shape
      <3>2. PICK i \in 1 .. Len(queue) : queue[i] = m
        BY <3>1 DEF AllQueued
      <3> QED
        BY <1>2, <3>2
    <2> QED
      BY <2>1, <2>2
  <1>5. OnlyInUse'
    <2> SUFFICES ASSUME NEW i \in 1 .. Len(queue')
                 PROVE  valid'[queue'[i]] = "inuse"
      BY DEF OnlyInUse
    <2>1. CASE i = Len(queue) + 1
      BY <1>2, <2>1 DEF Shape
    <2>2. CASE i \in 1 .. Len(queue)
      BY <1>2, <2>2 DEF Shape, OnlyInUse
    <2> QED
      BY <1>2, <2>1, <2>2
  <1> QED
    BY <1>1, <1>2, <1>3, <1>4, <1>5

(* A step that leaves the table, the queue and sa.ptr alone.               *)
LEMMA QuietStep ==
    ASSUME CacheInv, UNCHANGED <<nodes, queue, sa>>,
           OnlyInUse', Shape', Cursor', cp' <= Top
    PROVE  CacheInv'
  <1>1. Reached'
    BY DEF CacheInv, Reached, Top, nodes
  <1>2. Linked' /\ NoRepeat' /\ AllQueued'
    BY DEF CacheInv, Linked, NoRepeat, AllQueued, nodes
  <1> QED
    BY <1>1, <1>2 DEF CacheInv

(* The insertion under way moves on to its next time-bin or to the next    *)
(* record.                                                                 *)
LEMMA InsertedAtKeeps ==
    ASSUME CacheInv, work # <<>>, NEW n \in Nodes, InsertedAt(n)
    PROVE  /\ work' \in Seq(Insertions)
           /\ cp' \in Nodes \union {NIL}
           /\ cp' <= n \/ cp' <= Buckets
           /\ work' # <<>> => cp' # NIL
  <1>1. Head(work) \in Insertions /\ Tail(work) \in Seq(Insertions)
    BY DEF CacheInv, Shape
  <1>2. CASE Head(work).slot < Head(work).to
    <2> DEFINE h == Head(work)
               i == [h EXCEPT !.len = Share(h), !.slot = h.slot + 1]
    <2>1. i \in Insertions
      <3>1. h.slot \in Slots /\ h.to \in Slots
        BY <1>1 DEF Insertions
      <3>2. h.slot + 1 \in Slots
        BY <1>2, <3>1, CacheAssumption DEF Slots
      <3>3. Share(h) \in Nat
        BY <1>1, ShareIsNat
      <3> HIDE DEF h
      <3> QED
        BY <1>1, <3>2, <3>3 DEF Insertions, h
    <2>2. work' = <<i>> \o Tail(work) /\ cp' = n
      BY <1>2 DEF InsertedAt
    <2> HIDE DEF i
    <2>3. <<i>> \in Seq(Insertions)
      BY <2>1
    <2>4. work' \in Seq(Insertions)
      BY <1>1, <2>2, <2>3
    <2> QED
      BY <2>2, <2>4, CacheAssumption DEF Nodes, NIL
  <1>3. CASE ~(Head(work).slot < Head(work).to)
    <2>1. work' = Tail(work) /\ cp' = Bucket(Tail(work))
      BY <1>3 DEF InsertedAt
    <2> QED
      BY <1>1, <2>1, BucketOfWork
  <1> QED
    BY <1>2, <1>3

(* A record arrives.                                                       *)
LEMMA ArriveKeeps ==
    ASSUME CacheInv, NEW calls \in Calls, NEW from \in Slots, NEW to \in Slots,
           Arrive(calls, from, to)
    PROVE  CacheInv'
  <1>1. PICK m \in {1, 2} : DOMAIN calls = 1 .. m /\ calls \in [1 .. m -> Keys]
    <2>1. CASE SumHost
      <3>1. PICK a \in Keys, b \in Keys : calls = <<a, b>>
        BY <2>1 DEF Calls
      <3> QED
        BY <3>1
    <2>2. CASE ~SumHost
      <3>1. PICK k \in Keys : calls = <<k>>
        BY <2>2 DEF Calls
      <3> QED
        BY <3>1
    <2> QED
      BY <2>1, <2>2
  <1>2. Unit * (to - from + 1) \in Nat
    <2>1. to - from + 1 \in Nat
      BY CacheAssumption DEF Arrive, Slots
    <2> QED
      BY <2>1, CacheAssumption
  <1>3. \A k \in Keys : Insertion(k, Unit * (to - from + 1), from, to) \in Insertions
    BY <1>2 DEF Insertion, Insertions
  <1>4. work' \in [1 .. m -> Insertions]
    BY <1>1, <1>3 DEF Arrive
  <1>5. work' \in Seq(Insertions)
    BY <1>4
  <1>6. cp' \in 1 .. Buckets
    BY <1>1, CacheAssumption DEF Arrive, Heads
  <1>7. cp' \in Nodes /\ cp' # NIL /\ cp' <= Top
    BY <1>6, CacheAssumption DEF Nodes, NIL, Top, CacheInv, Shape
  <1>8. Shape'
    BY <1>5, <1>7 DEF Arrive, CacheInv, Shape, nodes
  <1>9. OnlyInUse' /\ Cursor'
    BY <1>7 DEF Arrive, CacheInv, OnlyInUse, Cursor, nodes
  <1> QED
    BY <1>7, <1>8, <1>9, QuietStep DEF Arrive

(* Walking a chain.                                                        *)
LEMMA HopKeeps ==
    ASSUME CacheInv, Hop \/ PendingHop
    PROVE  CacheInv'
  <1>1. cp \in Nodes /\ cp' = next[cp] /\ next[cp] # NIL
    BY DEF CacheInv, Shape, Cursor, Hop, PendingHop, Inserting, Reinserting
  <1>2. cp' \in Nodes /\ cp' <= Top
    BY <1>1 DEF CacheInv, Shape, Reached
  <1>3. UNCHANGED <<nodes, queue, marked, sa, pending, work, pc>>
    BY DEF Hop, PendingHop
  <1>4. Shape' /\ OnlyInUse' /\ Cursor'
    BY <1>1, <1>2, <1>3 DEF CacheInv, Shape, OnlyInUse, Cursor, nodes
  <1> QED
    BY <1>2, <1>3, <1>4, QuietStep

(* Summing counters.                                                       *)
LEMMA SumKeeps ==
    ASSUME CacheInv, SumCounters
    PROVE  CacheInv'
  <1>1. work # <<>> /\ cp \in Nodes /\ pc = "run"
    BY DEF CacheInv, Shape, Cursor, SumCounters, Inserting
  <1>2. /\ work' \in Seq(Insertions) /\ cp' \in Nodes \union {NIL}
        /\ cp' <= cp \/ cp' <= Buckets
        /\ work' # <<>> => cp' # NIL
    BY <1>1, InsertedAtKeeps DEF SumCounters
  <1>3. cp' <= Top /\ cp' \in Int
    BY <1>1, <1>2, CacheAssumption DEF CacheInv, Shape, Reached, Top, Nodes, NIL
  <1>4. Share(Head(work)) \in Nat
    BY <1>1, ShareIsNat DEF CacheInv, Shape
  <1>5. cnt' \in [Nodes -> Nat]
    BY <1>1, <1>4 DEF SumCounters, CacheInv, Shape
  <1>6. UNCHANGED <<key, slot, valid, next, queue, marked, sa, pending, pc>>
    BY DEF SumCounters
  <1>7. Shape'
    BY <1>2, <1>5, <1>6 DEF CacheInv, Shape
  <1>8. Reached'
    BY <1>3, <1>6 DEF CacheInv, Reached, Top
  <1>9. Linked' /\ NoRepeat' /\ AllQueued' /\ OnlyInUse' /\ Cursor'
    BY <1>1, <1>2, <1>6
       DEF CacheInv, Linked, NoRepeat, AllQueued, OnlyInUse, Cursor
  <1> QED
    BY <1>7, <1>8, <1>9 DEF CacheInv

(* A free node of the chain is taken by the record being inserted.         *)
LEMMA TakeFreeKeeps ==
    ASSUME CacheInv, TakeFree
    PROVE  CacheInv'
  <1> DEFINE h == Head(work)
  <1>1. work # <<>> /\ cp \in Nodes /\ pc = "run" /\ valid[cp] # "inuse"
    BY DEF CacheInv, Shape, Cursor, TakeFree, Inserting, InUse
  <1>2. h \in Insertions /\ h.key \in Keys /\ h.slot \in Slots /\ Share(h) \in Nat
    <2>1. h \in Insertions
      BY <1>1 DEF CacheInv, Shape
    <2> QED
      BY <2>1, ShareIsNat DEF Insertions
  <1>3. \A i \in 1 .. Len(queue) : queue[i] # cp
    BY <1>1 DEF CacheInv, OnlyInUse
  <1>4. UNCHANGED <<next, marked, sa, pending, pc>> /\ InsertedAt(cp)
    BY DEF TakeFree
  <1>5. Occupy(cp, h.key, h.slot, Share(h))
    BY DEF TakeFree
  <1> HIDE DEF h
  <1>6. /\ key' \in [Nodes -> Keys] /\ slot' \in [Nodes -> Slots \union {0}]
        /\ cnt' \in [Nodes -> Nat] /\ valid' \in [Nodes -> States]
        /\ queue' \in Seq(Nodes)
        /\ Len(queue') = Len(queue) + 1
        /\ \A i \in 1 .. Len(queue) : queue'[i] = queue[i]
        /\ queue'[Len(queue) + 1] = cp
        /\ NoRepeat' /\ AllQueued' /\ OnlyInUse'
    BY <1>1, <1>2, <1>3, <1>4, <1>5, OccupyKeeps
  <1>7. /\ work' \in Seq(Insertions) /\ cp' \in Nodes \union {NIL}
        /\ cp' <= cp \/ cp' <= Buckets
        /\ work' # <<>> => cp' # NIL
    BY <1>1, <1>4, InsertedAtKeeps
  <1>8. cp' <= Top /\ cp <= Top
    BY <1>1, <1>7, CacheAssumption DEF CacheInv, Shape, Reached, Top, Nodes, NIL
  <1>9. Len(queue) \in Nat
    BY DEF CacheInv, Shape
  <1>10. Shape'
    BY <1>4, <1>6, <1>7 DEF CacheInv, Shape
  <1>11. Reached'
    <2>1. ASSUME NEW i \in 1 .. Len(queue') PROVE queue'[i] <= Top
      <3>1. CASE i \in 1 .. Len(queue)
        BY <1>6, <3>1 DEF CacheInv, Reached
      <3>2. CASE i = Len(queue) + 1
        BY <1>6, <1>8, <3>2
      <3> QED
        BY <1>6, <1>9, <3>1, <3>2
    <2> QED
      BY <1>4, <1>8, <2>1 DEF CacheInv, Reached, Top
  <1>12. Linked'
    BY <1>4, <1>6, <1>9 DEF CacheInv, Linked
  <1>13. Cursor'
    BY <1>1, <1>4, <1>7 DEF Cursor
  <1> QED
    BY <1>6, <1>10, <1>11, <1>12, <1>13 DEF CacheInv

(* A new node is linked after the last one of a chain: it lies beyond all  *)
(* nodes in use.                                                           *)
LEMMA NewNodeFresh ==
    ASSUME CacheInv, RoomToAttach
    PROVE  /\ NewNode \in Nodes /\ NewNode = Top + 1 /\ Top \in Int
           /\ \A i \in 1 .. Len(queue) : queue[i] # NewNode
  <1>1. NewNode \in Nodes /\ NewNode = Top + 1 /\ Top \in Int
    BY CacheAssumption DEF CacheInv, Shape, RoomToAttach, NewNode, Nodes, Top
  <1>2. \A i \in 1 .. Len(queue) : queue[i] \in Int /\ queue[i] <= Top
    BY CacheAssumption DEF CacheInv, Shape, Reached, Nodes
  <1> QED
    BY <1>1, <1>2

(* A record goes to a new node of the scratch area.                        *)
LEMMA AttachKeeps ==
    ASSUME CacheInv, Attach
    PROVE  CacheInv'
  <1> DEFINE h == Head(work)
  <1>1. work # <<>> /\ cp \in Nodes /\ pc = "run" /\ valid[cp] = "inuse"
    BY DEF CacheInv, Shape, Cursor, Attach, Inserting, InUse
  <1>2. h \in Insertions /\ h.key \in Keys /\ h.slot \in Slots /\ Share(h) \in Nat
    <2>1. h \in Insertions
      BY <1>1 DEF CacheInv, Shape
    <2> QED
      BY <2>1, ShareIsNat DEF Insertions
  <1>3. /\ NewNode \in Nodes /\ NewNode = Top + 1 /\ Top \in Int
        /\ \A i \in 1 .. Len(queue) : queue[i] # NewNode
    BY NewNodeFresh DEF Attach
  <1>4. /\ UNCHANGED <<marked, pending, pc>> /\ InsertedAt(NewNode)
        /\ sa' = sa + 1 /\ next' = [next EXCEPT ![cp] = NewNode]
    BY DEF Attach
  <1>5. Occupy(NewNode, h.key, h.slot, Share(h))
    BY DEF Attach
  <1> HIDE DEF h
  <1>6. /\ key' \in [Nodes -> Keys] /\ slot' \in [Nodes -> Slots \union {0}]
        /\ cnt' \in [Nodes -> Nat] /\ valid' \in [Nodes -> States]
        /\ queue' \in Seq(Nodes)
        /\ Len(queue') = Len(queue) + 1
        /\ \A i \in 1 .. Len(queue) : queue'[i] = queue[i]
        /\ queue'[Len(queue) + 1] = NewNode
        /\ NoRepeat' /\ AllQueued' /\ OnlyInUse'
    BY <1>1, <1>2, <1>3, <1>4, <1>5, OccupyKeeps
  <1>7. /\ work' \in Seq(Insertions) /\ cp' \in Nodes \union {NIL}
        /\ cp' <= NewNode \/ cp' <= Buckets
        /\ work' # <<>> => cp' # NIL
    BY <1>1, <1>3, <1>4, InsertedAtKeeps
  <1>8. Top' = Top + 1
    BY <1>4, CacheAssumption DEF CacheInv, Shape, Top
  <1>9. cp' <= Top'
    BY <1>3, <1>7, <1>8, CacheAssumption DEF CacheInv, Shape, Top, Nodes, NIL
  <1>10. Len(queue) \in Nat
    BY DEF CacheInv, Shape
  <1>11. next' \in [Nodes -> Nodes \union {NIL}]
    BY <1>1, <1>3, <1>4 DEF CacheInv, Shape
  <1>12. Shape'
    BY <1>4, <1>6, <1>7, <1>11 DEF CacheInv, Shape
  <1>13. Reached'
    <2>1. \A i \in 1 .. Len(queue) : queue[i] \in Int /\ queue[i] <= Top
      BY CacheAssumption DEF CacheInv, Shape, Reached, Nodes
    <2>2. \A i \in 1 .. Len(queue') : queue'[i] <= Top'
      BY <1>3, <1>6, <1>8, <1>10, <2>1
    <2>3. \A n \in Nodes : next'[n] <= Top'
      <3> SUFFICES ASSUME NEW n \in Nodes PROVE next'[n] <= Top'
        OBVIOUS
      <3>1. next[n] \in Int /\ next[n] <= Top
        BY CacheAssumption DEF CacheInv, Shape, Reached, Nodes, NIL
      <3> QED
        BY <1>1, <1>3, <1>4, <1>8, <3>1 DEF CacheInv, Shape
    <2> QED
      BY <1>9, <2>2, <2>3 DEF Reached
  <1>14. Linked'
    <2> SUFFICES ASSUME NEW n \in Nodes, next'[n] # NIL
                 PROVE  \E i \in 1 .. Len(queue') : queue'[i] = n
      BY DEF Linked
    <2>1. n = cp \/ next[n] # NIL
      BY <1>1, <1>4 DEF CacheInv, Shape
    <2>2. PICK i \in 1 .. Len(queue) : queue[i] = n
      BY <1>1, <2>1 DEF CacheInv, Linked, AllQueued
    <2> QED
      BY <1>6, <1>10, <2>2
  <1>15. Cursor'
    BY <1>1, <1>4, <1>7 DEF Cursor
  <1> QED
    BY <1>6, <1>12, <1>13, <1>14, <1>15 DEF CacheInv

(* The cache is full, or the refresh time has come: marking begins.        *)
LEMMA BeginKeeps ==
    ASSUME CacheInv, Full \/ FlushEvent
    PROVE  CacheInv'
  <1>1. /\ UNCHANGED <<nodes, queue, marked, sa, pending, cp>>
        /\ pc' = "marking"
    BY DEF Full, FlushEvent
  <1>2. work' \in Seq(Insertions)
    <2>1. CASE Full
      <3> DEFINE h == Head(work)
                 i == [h EXCEPT !.len = Share(h)]
      <3>1. work # <<>> /\ h = work[1]
        BY <2>1 DEF Full, Inserting, CacheInv, Shape
      <3>2. h \in Insertions
        BY <3>1 DEF CacheInv, Shape
      <3>3. Share(h) \in Nat
        BY <3>2, ShareIsNat
      <3>4. i \in Insertions
        <4> HIDE DEF h
        <4> QED
          BY <3>2, <3>3 DEF Insertions
      <3>5. work' = [work EXCEPT ![1] = i]
        BY <2>1, <3>1 DEF Full
      <3> HIDE DEF i
      <3> QED
        BY <3>1, <3>4, <3>5 DEF CacheInv, Shape
    <2>2. CASE FlushEvent
      BY <2>2 DEF FlushEvent, CacheInv, Shape
    <2> QED
      BY <2>1, <2>2
  <1>3. Shape'
    BY <1>1, <1>2 DEF CacheInv, Shape, nodes, Phases
  <1>4. OnlyInUse' /\ Cursor' /\ cp' <= Top
    BY <1>1 DEF OnlyInUse, Cursor, CacheInv, Reached
  <1> QED
    BY <1>1, <1>3, <1>4, QuietStep

(* Marking a node never puts one in use.                                   *)
LEMMA MarkKeeps ==
    ASSUME CacheInv, MarkFlush
    PROVE  CacheInv'
  <1> DEFINE n == queue[marked + 1]
  <1>1. /\ pc = "marking" /\ marked < Len(queue)
        /\ UNCHANGED <<key, slot, cnt, next, queue, sa, work, cp, pc>>
        /\ marked' = marked + 1
    BY DEF MarkFlush
  <1>2. n \in Nodes
    BY <1>1 DEF CacheInv, Shape
  <1>3. Entry(n) \in Copies
    BY <1>2 DEF Entry, Copies, CacheInv, Shape
  <1>4. pending' = pending \/ pending' = Append(pending, Entry(n))
    BY DEF MarkFlush
  <1>5. valid' = [valid EXCEPT ![n] = "free"] \/ valid' = [valid EXCEPT ![n] = "committed"]
    BY DEF MarkFlush
  <1> HIDE DEF n
  <1>6. pending' \in Seq(Copies)
    <2>1. pending \in Seq(Copies)
      BY DEF CacheInv, Shape
    <2>2. \A e \in Copies : Append(pending, e) \in Seq(Copies)
      BY <2>1
    <2> QED
      BY <1>3, <1>4, <2>1, <2>2
  <1>7. /\ valid' \in [Nodes -> States]
        /\ \A m \in Nodes : valid'[m] = "inuse" => valid[m] = "inuse"
    <2>1. valid \in [Nodes -> States] /\ "free" \in States /\ "committed" \in States
      BY DEF CacheInv, Shape, States
    <2>2. valid' \in [Nodes -> States]
      BY <1>2, <1>5, <2>1
    <2>3. ASSUME NEW m \in Nodes, valid'[m] = "inuse" PROVE valid[m] = "inuse"
      BY <1>2, <1>5, <2>1, <2>3
    <2> QED
      BY <2>2, <2>3
  <1>8. Shape'
    BY <1>1, <1>6, <1>7 DEF CacheInv, Shape
  <1>9. Reached' /\ Linked' /\ NoRepeat'
    BY <1>1 DEF CacheInv, Reached, Top, Linked, NoRepeat
  <1>10. AllQueued'
    BY <1>1, <1>7 DEF CacheInv, AllQueued
  <1>11. OnlyInUse' /\ Cursor'
    BY <1>1 DEF OnlyInUse, Cursor
  <1> QED
    BY <1>8, <1>9, <1>10, <1>11 DEF CacheInv

(* The writer, or its absence, the clock and the children's ends do not    *)
(* touch the table.                                                        *)
LEMMA AroundKeeps ==
    ASSUME CacheInv, Fork \/ NoWriter \/ Roll \/ WriterEnds
    PROVE  CacheInv'
  <1>1. /\ UNCHANGED <<nodes, queue, marked, sa, pending, work, cp>>
        /\ pc' = pc \/ pc' = "forked"
    BY DEF Fork, NoWriter, Roll, WriterEnds
  <1>2. Shape'
    BY <1>1 DEF CacheInv, Shape, nodes, Phases
  <1>3. OnlyInUse' /\ Cursor' /\ cp' <= Top
    BY <1>1 DEF CacheInv, OnlyInUse, Cursor, Reached, nodes
  <1> QED
    BY <1>1, <1>2, <1>3, QuietStep

(* Flushing frees and unlinks everything: what is not queued was free and  *)
(* unlinked already.                                                       *)
LEMMA FlushKeeps ==
    ASSUME CacheInv, Flush
    PROVE  CacheInv'
  <1> USE DEF Flush, FlushTo
  <1>1. \A n \in Nodes : n \in Queued <=> \E i \in 1 .. Len(queue) : queue[i] = n
    BY DEF Queued, CacheInv, Shape
  <1>2. valid' \in [Nodes -> States] /\ next' \in [Nodes -> Nodes \union {NIL}]
    BY DEF CacheInv, Shape, States
  <1>3. \A n \in Nodes : next'[n] = NIL
    BY <1>1 DEF CacheInv, Linked
  <1>4. \A n \in Nodes : valid'[n] # "inuse"
    BY <1>1 DEF CacheInv, AllQueued
  <1>5. /\ cp' \in Nodes \union {NIL} /\ cp' <= Buckets
        /\ pending # <<>> => cp' # NIL
    BY BucketOfCopies DEF CacheInv, Shape
  <1>6. Shape'
    BY <1>2, <1>5 DEF CacheInv, Shape, Phases
  <1>7. Reached'
    <2>1. Len(queue') = 0 /\ Top' = Buckets + 1
      BY CacheAssumption DEF Top
    <2>2. NIL <= Top' /\ cp' <= Top'
      BY <1>5, <2>1, CacheAssumption DEF NIL, Nodes
    <2> QED
      BY <1>3, <2>1, <2>2 DEF Reached
  <1>8. Linked' /\ NoRepeat' /\ AllQueued' /\ OnlyInUse'
    BY <1>3, <1>4 DEF Linked, NoRepeat, AllQueued, OnlyInUse
  <1>9. Cursor'
    BY <1>5 DEF Cursor
  <1> QED
    BY <1>6, <1>7, <1>8, <1>9 DEF CacheInv

(* A pending copy goes back to a free node ...                             *)
LEMMA PendingFreeKeeps ==
    ASSUME CacheInv, PendingFree
    PROVE  CacheInv'
  <1> DEFINE e == Head(pending)
  <1>1. pending # <<>> /\ cp \in Nodes /\ pc = "flushed" /\ valid[cp] # "inuse"
    BY DEF CacheInv, Shape, Cursor, PendingFree, Reinserting, InUse
  <1>2. /\ e \in Copies /\ Tail(pending) \in Seq(Copies)
        /\ e.key \in Keys /\ e.slot \in Slots \union {0} /\ e.cnt \in Nat
    <2>1. e \in Copies /\ Tail(pending) \in Seq(Copies)
      BY <1>1 DEF CacheInv, Shape
    <2> QED
      BY <2>1 DEF Copies
  <1>3. \A i \in 1 .. Len(queue) : queue[i] # cp
    BY <1>1 DEF CacheInv, OnlyInUse
  <1>4. /\ UNCHANGED <<marked, sa, work, pc>>
        /\ next' = [next EXCEPT ![cp] = NIL]
        /\ pending' = Tail(pending) /\ cp' = Bucket(Tail(pending))
    BY DEF PendingFree, PlaceAt
  <1>5. Occupy(cp, e.key, e.slot, e.cnt)
    BY DEF PendingFree, PlaceAt
  <1> HIDE DEF e
  <1>6. /\ key' \in [Nodes -> Keys] /\ slot' \in [Nodes -> Slots \union {0}]
        /\ cnt' \in [Nodes -> Nat] /\ valid' \in [Nodes -> States]
        /\ queue' \in Seq(Nodes)
        /\ Len(queue') = Len(queue) + 1
        /\ \A i \in 1 .. Len(queue) : queue'[i] = queue[i]
        /\ queue'[Len(queue) + 1] = cp
        /\ NoRepeat' /\ AllQueued' /\ OnlyInUse'
    BY <1>1, <1>2, <1>3, <1>4, <1>5, OccupyKeeps
  <1>7. /\ cp' \in Nodes \union {NIL} /\ cp' <= Buckets
        /\ pending' # <<>> => cp' # NIL
    BY <1>2, <1>4, BucketOfCopies
  <1>8. cp' <= Top /\ cp <= Top
    BY <1>1, <1>7, CacheAssumption DEF CacheInv, Shape, Reached, Top, Nodes, NIL
  <1>9. Len(queue) \in Nat
    BY DEF CacheInv, Shape
  <1>10. /\ next' \in [Nodes -> Nodes \union {NIL}]
         /\ \A n \in Nodes : next'[n] = NIL \/ next'[n] = next[n]
    BY <1>1, <1>4 DEF CacheInv, Shape
  <1>11. Shape'
    BY <1>2, <1>4, <1>6, <1>7, <1>10 DEF CacheInv, Shape
  <1>12. Reached'
    <2>1. ASSUME NEW i \in 1 .. Len(queue') PROVE queue'[i] <= Top
      <3>1. CASE i \in 1 .. Len(queue)
        BY <1>6, <3>1 DEF CacheInv, Reached
      <3>2. CASE i = Len(queue) + 1
        BY <1>6, <1>8, <3>2
      <3> QED
        BY <1>6, <1>9, <3>1, <3>2
    <2>2. NIL <= Top
      BY CacheAssumption DEF CacheInv, Shape, Top, NIL
    <2>3. \A n \in Nodes : next'[n] <= Top
      BY <1>10, <2>2 DEF CacheInv, Reached
    <2>4. Top' = Top
      BY <1>4 DEF Top
    <2> QED
      BY <1>8, <2>1, <2>3, <2>4 DEF Reached
  <1>13. Linked'
    <2> SUFFICES ASSUME NEW n \in Nodes, next'[n] # NIL
                 PROVE  \E i \in 1 .. Len(queue') : queue'[i] = n
      BY DEF Linked
    <2>1. PICK i \in 1 .. Len(queue) : queue[i] = n
      BY <1>10 DEF CacheInv, Linked
    <2> QED
      BY <1>6, <1>9, <2>1
  <1>14. Cursor'
    BY <1>1, <1>4, <1>7 DEF Cursor
  <1> QED
    BY <1>6, <1>11, <1>12, <1>13, <1>14 DEF CacheInv

(* ... or to a new one.                                                    *)
LEMMA PendingAttachKeeps ==
    ASSUME CacheInv, PendingAttach, RoomToAttach
    PROVE  CacheInv'
  <1> DEFINE e == Head(pending)
  <1>1. pending # <<>> /\ cp \in Nodes /\ pc = "flushed" /\ valid[cp] = "inuse"
    BY DEF CacheInv, Shape, Cursor, PendingAttach, Reinserting, InUse
  <1>2. /\ e \in Copies /\ Tail(pending) \in Seq(Copies)
        /\ e.key \in Keys /\ e.slot \in Slots \union {0} /\ e.cnt \in Nat
    <2>1. e \in Copies /\ Tail(pending) \in Seq(Copies)
      BY <1>1 DEF CacheInv, Shape
    <2> QED
      BY <2>1 DEF Copies
  <1>3. /\ NewNode \in Nodes /\ NewNode = Top + 1 /\ Top \in Int
        /\ \A i \in 1 .. Len(queue) : queue[i] # NewNode
    BY NewNodeFresh
  <1>4. /\ UNCHANGED <<marked, work, pc>> /\ sa' = sa + 1
        /\ next' = [[next EXCEPT ![cp] = NewNode] EXCEPT ![NewNode] = NIL]
        /\ pending' = Tail(pending) /\ cp' = Bucket(Tail(pending))
    BY DEF PendingAttach, PlaceAt
  <1>5. Occupy(NewNode, e.key, e.slot, e.cnt)
    BY DEF PendingAttach, PlaceAt
  <1> HIDE DEF e
  <1>6. /\ key' \in [Nodes -> Keys] /\ slot' \in [Nodes -> Slots \union {0}]
        /\ cnt' \in [Nodes -> Nat] /\ valid' \in [Nodes -> States]
        /\ queue' \in Seq(Nodes)
        /\ Len(queue') = Len(queue) + 1
        /\ \A i \in 1 .. Len(queue) : queue'[i] = queue[i]
        /\ queue'[Len(queue) + 1] = NewNode
        /\ NoRepeat' /\ AllQueued' /\ OnlyInUse'
    BY <1>1, <1>2, <1>3, <1>4, <1>5, OccupyKeeps
  <1>7. /\ cp' \in Nodes \union {NIL} /\ cp' <= Buckets
        /\ pending' # <<>> => cp' # NIL
    BY <1>2, <1>4, BucketOfCopies
  <1>8. Top' = Top + 1 /\ cp' <= Top' /\ NIL <= Top'
    BY <1>4, <1>7, CacheAssumption DEF CacheInv, Shape, Top, Nodes, NIL
  <1>9. Len(queue) \in Nat
    BY DEF CacheInv, Shape
  <1>10. /\ next' \in [Nodes -> Nodes \union {NIL}]
         /\ \A n \in Nodes : \/ next'[n] = NIL
                             \/ next'[n] = next[n]
                             \/ n = cp /\ next'[n] = NewNode
    BY <1>1, <1>3, <1>4 DEF CacheInv, Shape
  <1>11. Shape'
    <2>1. sa' \in Nat /\ marked' \in Nat /\ pc' \in Phases
      BY <1>4 DEF CacheInv, Shape
    <2>2. pending' \in Seq(Copies) /\ work' \in Seq(Insertions)
      BY <1>2, <1>4 DEF CacheInv, Shape
    <2>3. next' \in [Nodes -> Nodes \union {NIL}]
      BY <1>10
    <2> QED
      BY <1>6, <1>7, <2>1, <2>2, <2>3 DEF Shape
  <1>12. Reached'
    <2>1. \A i \in 1 .. Len(queue) : queue[i] \in Int /\ queue[i] <= Top
      BY CacheAssumption DEF CacheInv, Shape, Reached, Nodes
    <2>2. \A i \in 1 .. Len(queue') : queue'[i] <= Top'
      BY <1>3, <1>6, <1>8, <1>9, <2>1
    <2>3. ASSUME NEW n \in Nodes PROVE next'[n] <= Top'
      <3>1. next[n] \in Int /\ next[n] <= Top
        BY CacheAssumption DEF CacheInv, Shape, Reached, Nodes, NIL
      <3> QED
        BY <1>3, <1>8, <1>10, <3>1
    <2> QED
      BY <1>8, <2>2, <2>3 DEF Reached
  <1>13. Linked'
    <2> SUFFICES ASSUME NEW n \in Nodes, next'[n] # NIL
                 PROVE  \E i \in 1 .. Len(queue') : queue'[i] = n
      BY DEF Linked
    <2>1. n = cp \/ next[n] # NIL
      BY <1>10
    <2>2. PICK i \in 1 .. Len(queue) : queue[i] = n
      BY <1>1, <2>1 DEF CacheInv, Linked, AllQueued
    <2> QED
      BY <1>6, <1>9, <2>2
  <1>14. Cursor'
    BY <1>1, <1>4, <1>7 DEF Cursor
  <1> QED
    BY <1>6, <1>11, <1>12, <1>13, <1>14 DEF CacheInv

(* "Pending entries will be lost": the container is dropped.               *)
LEMMA PendingLostKeeps ==
    ASSUME CacheInv, PendingAttach, ~RoomToAttach
    PROVE  CacheInv'
  <1>1. /\ UNCHANGED <<nodes, queue, marked, sa, cp, work, pc>>
        /\ pending' = <<>> /\ pc = "flushed"
    BY DEF PendingAttach, Reinserting
  <1>2. Shape'
    BY <1>1 DEF CacheInv, Shape, nodes
  <1>3. OnlyInUse' /\ Cursor' /\ cp' <= Top
    BY <1>1 DEF CacheInv, OnlyInUse, Cursor, Reached, nodes
  <1> QED
    BY <1>1, <1>2, <1>3, QuietStep

(* Back to work, perhaps to try again.                                     *)
LEMMA ResumeKeeps ==
    ASSUME CacheInv, Resume
    PROVE  CacheInv'
  <1>1. /\ UNCHANGED <<nodes, queue, marked, sa, pending>>
        /\ pc = "flushed" /\ pc' = "run"
        /\ pending = <<>> /\ cp' = Bucket(work)
    BY DEF Resume
  <1>2. /\ cp' \in Nodes \union {NIL} /\ cp' <= Buckets
        /\ work # <<>> => cp' # NIL
    BY <1>1, BucketOfWork DEF CacheInv, Shape
  <1>3. cp' <= Top
    BY <1>2, CacheAssumption DEF CacheInv, Shape, Top, Nodes, NIL
  <1>4. CASE work = <<>>
    <2>1. work' = <<>>
      BY <1>4 DEF Resume
    <2>2. Shape'
      BY <1>1, <1>2, <2>1 DEF CacheInv, Shape, nodes, Phases
    <2>3. OnlyInUse' /\ Cursor'
      BY <1>1, <2>1 DEF CacheInv, OnlyInUse, Cursor, nodes
    <2> QED
      BY <1>1, <1>3, <2>2, <2>3, QuietStep
  <1>5. CASE work # <<>>
    <2> DEFINE i == Head(work)
               a == Insertion(i.key, i.len, i.from, i.to)
               z == Insertion(Zero, i.len, i.from, i.to)
    <2>1. i \in Insertions /\ Tail(work) \in Seq(Insertions)
      BY <1>5 DEF CacheInv, Shape
    <2>2. a \in Insertions /\ z \in Insertions
      <3> HIDE DEF i
      <3> QED
        BY <2>1, CacheAssumption DEF Insertion, Insertions
    <2>3. work' = <<a>> \o (IF SumHost THEN <<z>> ELSE <<>>) \o Tail(work)
      BY <1>5 DEF Resume, Retry
    <2> HIDE DEF a, z
    <2>4. /\ <<a>> \in Seq(Insertions)
          /\ (IF SumHost THEN <<z>> ELSE <<>>) \in Seq(Insertions)
      BY <2>2
    <2>5. work' \in Seq(Insertions)
      BY <2>1, <2>3, <2>4
    <2>6. Shape'
      BY <1>1, <1>2, <2>5 DEF CacheInv, Shape, nodes, Phases
    <2>7. OnlyInUse' /\ Cursor'
      BY <1>1, <1>2, <1>5 DEF CacheInv, OnlyInUse, Cursor, nodes
    <2> QED
      BY <1>1, <1>3, <2>6, <2>7, QuietStep
  <1> QED
    BY <1>4, <1>5

(* The exit handler commits what is queued.                                *)
LEMMA ExitKeeps ==
    ASSUME CacheInv, Exit
    PROVE  CacheInv'
  <1>1. /\ UNCHANGED <<key, slot, cnt, next, queue, marked, sa, pending, work, cp>>
        /\ valid' = [n \in Nodes |-> IF n \in Queued THEN "committed" ELSE valid[n]]
        /\ pc' = "exited"
    BY DEF Exit
  <1>2. /\ valid' \in [Nodes -> States]
        /\ \A n \in Nodes : valid'[n] = "inuse" => valid[n] = "inuse"
    BY <1>1 DEF CacheInv, Shape, States
  <1>3. Shape'
    BY <1>1, <1>2 DEF CacheInv, Shape, Phases
  <1>4. Reached' /\ Linked' /\ NoRepeat'
    BY <1>1 DEF CacheInv, Reached, Top, Linked, NoRepeat
  <1>5. AllQueued'
    BY <1>1, <1>2 DEF CacheInv, AllQueued
  <1>6. OnlyInUse' /\ Cursor'
    BY <1>1 DEF OnlyInUse, Cursor
  <1> QED
    BY <1>3, <1>4, <1>5, <1>6 DEF CacheInv

(* Every step keeps the invariant.                                         *)
LEMMA NextKeeps == CacheInv /\ [Next]_vars => CacheInv'
  <1> SUFFICES ASSUME CacheInv, [Next]_vars PROVE CacheInv'
    OBVIOUS
  <1>1. ASSUME NEW calls \in Calls, NEW from \in Slots, NEW to \in Slots,
               Arrive(calls, from, to)
        PROVE  CacheInv'
    BY <1>1, ArriveKeeps
  <1>2. CASE PluginStep
    BY <1>2, HopKeeps, SumKeeps, TakeFreeKeeps, AttachKeeps, BeginKeeps,
       MarkKeeps, AroundKeeps, FlushKeeps, PendingFreeKeeps,
       PendingAttachKeeps, PendingLostKeeps, ResumeKeeps
    DEF PluginStep
  <1>3. CASE FlushEvent \/ Roll \/ WriterEnds \/ Exit
    BY <1>3, BeginKeeps, AroundKeeps, ExitKeeps
  <1>4. CASE Exited \/ UNCHANGED vars
    BY <1>4 DEF Exited, vars, nodes, CacheInv, Shape, Reached, Top, Linked,
                NoRepeat, AllQueued, OnlyInUse, Cursor
  <1> QED
    BY <1>1, <1>2, <1>3, <1>4 DEF Next

(* queries_queue lists every node in use exactly once, whatever the table, *)
(* the hash, the records, the refreshes and the full-cache purges: a purge *)
(* reaches every entry, and the queue never outgrows its array.            *)
THEOREM QueueIsExact == Spec => []QueueExact
  <1>1. Init => CacheInv
    BY InitInv
  <1>2. CacheInv /\ [Next]_vars => CacheInv'
    BY NextKeeps
  <1>3. CacheInv => QueueExact
    BY InvGivesExact
  <1> QED
    BY <1>1, <1>2, <1>3, PTL DEF Spec

-----------------------------------------------------------------------------

(* The types of the rest, and which variables are at rest in which phase.  *)
Phased ==
    /\ \A i \in 1 .. Len(queue) : slot[queue[i]] \in Slots
    /\ sa # 0 => sa < Scratch
    /\ pending \in Seq(Counted)
    /\ basetime \in Slots /\ newbase \in Slots \union {0}
    /\ writers \in 0 .. MaxWriters /\ arrived \in 0 .. MaxRecords
    /\ given \in [Keys \X Slots -> Nat] /\ written \in [Keys \X Slots -> Nat]
    /\ lost \in [Keys \X Slots -> Nat]
    /\ marked <= Len(queue)
    /\ pc \in {"run", "flushed"} => marked = 0
    /\ pc = "forked" => marked = Len(queue)
    /\ pc = "run" => pending = <<>>

(* A bucket is the first node of its own chain, and the node between the   *)
(* buckets and the scratch nodes that are handed out is not used.          *)
Placed ==
    \A i \in 1 .. Len(queue) :
      /\ queue[i] # Buckets + 1
      /\ queue[i] \in Heads => Hash[key[queue[i]]] = queue[i]

(* The nodes in use of a bucket, in the order of their indices, are its    *)
(* chain: next leads to the least one above.                               *)
ChainAt(n) ==
    IF next[n] = NIL
    THEN \A m \in Nodes : m > n /\ valid[m] = "inuse" => Hash[key[m]] # Hash[key[n]]
    ELSE /\ next[n] > n /\ valid[next[n]] = "inuse"
         /\ Hash[key[next[n]]] = Hash[key[n]]
         /\ \A m \in Nodes : m > n /\ m < next[n] /\ valid[m] = "inuse"
                               => Hash[key[m]] # Hash[key[n]]

Chains ==
    pc \in {"run", "flushed"} =>
      \A n \in Nodes : valid[n] = "inuse" =>
        valid[Hash[key[n]]] = "inuse" /\ ChainAt(n)

(* The cursor is at the bucket of the record or copy, or on its chain.     *)
OnChain(k) == cp = Hash[k] \/ (valid[cp] = "inuse" /\ Hash[key[cp]] = Hash[k])
Walk ==
    /\ pc = "run" /\ work # <<>> => OnChain(Head(work).key)
    /\ pc = "flushed" /\ pending # <<>> => OnChain(Head(pending).key)

(* The queued nodes that have been copied to the container.                *)
Copied == {i \in 1 .. marked : valid[queue[i]] = "free"}

Marks ==
    /\ pc = "marking" =>
         \A i \in 1 .. Len(queue) : i > marked => valid[queue[i]] = "inuse"
    /\ pc \in {"marking", "forked"} =>
         /\ \A i \in 1 .. marked :
              valid[queue[i]] = IF IsPending(queue[i]) THEN "free" ELSE "committed"
         /\ Len(pending) = Cardinality(Copied)
         /\ \A i \in Copied : \E j \in 1 .. Len(pending) : pending[j] = Entry(queue[i])
         /\ \A j \in 1 .. Len(pending) : CommitBase < pending[j].slot + Delay

(* The container fits: the copies that have no bucket of their own find a  *)
(* node of the scratch area.                                               *)
WantedBy(p) == {Hash[p[j].key] : j \in 1 .. Len(p)}
Wanted == WantedBy(pending)
Taken == {n \in Heads : valid[n] = "inuse"}
Spare == IF Scratch = 0 THEN 0 ELSE Scratch - 1
Fits ==
    pc = "flushed" => Len(pending) + sa <= Spare + Cardinality(Wanted \ Taken)

ChainInv == CacheInv /\ Phased /\ Placed /\ Chains /\ Walk /\ Marks /\ Fits

(* Without pro-rating: a record falls in one time-bin.                     *)
OneBin == \A i \in 1 .. Len(work) : work[i].slot = work[i].from /\ work[i].to = work[i].from

(* The search has passed no entry of its key and time-bin.                 *)
Passed ==
    pc = "run" /\ work # <<>> =>
      \A n \in Nodes : n < cp /\ valid[n] = "inuse" => ~Matches(n)

Twins(e, n) == e.key = key[n] /\ e.slot = slot[n]
Distinct ==
    /\ \A i, j \in 1 .. Len(queue) :
         key[queue[i]] = key[queue[j]] /\ slot[queue[i]] = slot[queue[j]] => i = j
    /\ \A i, j \in 1 .. Len(pending) :
         pending[i].key = pending[j].key /\ pending[i].slot = pending[j].slot => i = j
    /\ pc = "marking" => \A i \in 1 .. Len(pending), j \in 1 .. Len(queue) :
                           j > marked => ~Twins(pending[i], queue[j])
    /\ pc = "flushed" => \A i \in 1 .. Len(pending), j \in 1 .. Len(queue) :
                           ~Twins(pending[i], queue[j])
SearchInv == OneBin /\ Passed /\ Distinct

-----------------------------------------------------------------------------
(* While records are inserted or put back, in use is queued.               *)
LEMMA InUseIsQueued ==
    ASSUME CacheInv, pc \in {"run", "flushed"}
    PROVE  /\ \A i \in 1 .. Len(queue) : queue[i] \in Nodes /\ valid[queue[i]] = "inuse"
           /\ \A n \in Nodes : valid[n] = "inuse" =>
                \E i \in 1 .. Len(queue) : queue[i] = n
  BY DEF CacheInv, Shape, OnlyInUse, AllQueued

(* The bucket of a key.                                                    *)
LEMMA HashIsHead ==
    ASSUME NEW k \in Keys
    PROVE  Hash[k] \in Heads /\ Hash[k] \in Nodes /\ Hash[k] \in 1 .. Buckets
  BY CacheAssumption DEF Heads, Nodes

(* A cursor at a node not in use is at a bucket whose chain is empty.      *)
LEMMA EmptyChain ==
    ASSUME ChainInv, pc \in {"run", "flushed"}, NEW k \in Keys, OnChain(k),
           valid[cp] # "inuse"
    PROVE  /\ cp = Hash[k] /\ cp \in Nodes /\ cp \in Heads /\ next[cp] = NIL
           /\ \A m \in Nodes : valid[m] = "inuse" => Hash[key[m]] # Hash[k]
  <1>1. cp = Hash[k] /\ cp \in Nodes /\ cp \in Heads
    BY HashIsHead DEF OnChain
  <1>2. next[cp] = NIL
    BY <1>1, InUseIsQueued DEF ChainInv, CacheInv, Linked
  <1>3. \A m \in Nodes : valid[m] = "inuse" => Hash[key[m]] # Hash[k]
    BY <1>1 DEF ChainInv, Chains
  <1> QED
    BY <1>1, <1>2, <1>3

(* A cursor at a node in use is on the chain of its record's bucket.       *)
LEMMA WithinChain ==
    ASSUME ChainInv, pc \in {"run", "flushed"}, NEW k \in Keys, OnChain(k),
           valid[cp] = "inuse"
    PROVE  cp \in Nodes => Hash[key[cp]] = Hash[k]
  <1> SUFFICES ASSUME cp \in Nodes, cp = Hash[k] PROVE Hash[key[cp]] = Hash[k]
    BY DEF OnChain
  <1>1. cp \in Heads
    BY HashIsHead
  <1> QED
    BY <1>1, InUseIsQueued DEF ChainInv, Placed

(* An entry is put in its bucket.                                          *)
LEMMA TakeHead ==
    ASSUME ChainInv, pc \in {"run", "flushed"}, pc' = pc,
           NEW k \in Keys, NEW s \in Slots, NEW c \in Nat,
           OnChain(k), valid[cp] # "inuse",
           Occupy(cp, k, s, c), \A m \in Nodes : next'[m] = next[m]
    PROVE  /\ Placed' /\ Chains' /\ Taken' = Taken \union {cp}
           /\ \A i \in 1 .. Len(queue') : slot'[queue'[i]] \in Slots
           /\ cp \in Heads /\ cp = Hash[k] /\ cp \notin Taken
           /\ valid'[cp] = "inuse" /\ key'[cp] = k
  <1>1. /\ cp = Hash[k] /\ cp \in Nodes /\ cp \in Heads /\ next[cp] = NIL
        /\ \A m \in Nodes : valid[m] = "inuse" => Hash[key[m]] # Hash[k]
    BY EmptyChain
  <1>2. \A i \in 1 .. Len(queue) : queue[i] # cp /\ queue[i] \in Nodes
    BY InUseIsQueued DEF ChainInv
  <1>3. /\ Len(queue') = Len(queue) + 1 /\ Len(queue) \in Nat
        /\ \A i \in 1 .. Len(queue) : queue'[i] = queue[i]
        /\ queue'[Len(queue) + 1] = cp
    <2>1. CacheInv /\ s \in Slots \union {0}
      BY DEF ChainInv
    <2>2. Len(queue) \in Nat
      BY <2>1 DEF CacheInv, Shape
    <2> QED
      BY <1>1, <1>2, <2>1, <2>2, OccupyKeeps
  <1>4. /\ key'[cp] = k /\ slot'[cp] = s /\ valid'[cp] = "inuse"
        /\ \A m \in Nodes : m # cp => key'[m] = key[m] /\ slot'[m] = slot[m]
                                      /\ valid'[m] = valid[m]
    BY <1>1 DEF Occupy, ChainInv, CacheInv, Shape
  <1>5. \A i \in 1 .. Len(queue') : i \in 1 .. Len(queue) \/ i = Len(queue) + 1
    BY <1>3
  <1>6. cp # Buckets + 1
    BY <1>1, CacheAssumption DEF Heads
  <1>7. Placed'
    BY <1>1, <1>2, <1>3, <1>4, <1>5, <1>6 DEF ChainInv, Placed
  <1>8. \A i \in 1 .. Len(queue') : slot'[queue'[i]] \in Slots
    BY <1>2, <1>3, <1>4, <1>5 DEF ChainInv, Phased
  <1>9. Taken' = Taken \union {cp} /\ cp \notin Taken
    <2>1. \A n \in Heads : n \in Nodes
      BY CacheAssumption DEF Heads, Nodes
    <2> QED
      BY <1>1, <1>4, <2>1 DEF Taken
  <1>10. Chains'
    <2> SUFFICES ASSUME NEW n \in Nodes, valid'[n] = "inuse"
                 PROVE  valid'[Hash[key'[n]]] = "inuse" /\ ChainAt(n)'
      BY DEF Chains
    <2>1. CASE n = cp
      <3>1. next'[n] = NIL /\ key'[n] = k /\ valid'[Hash[k]] = "inuse"
        BY <1>1, <1>4, <2>1
      <3>2. \A m \in Nodes : m > n => m # cp
        BY <2>1, CacheAssumption DEF Nodes
      <3> QED
        BY <1>1, <1>4, <3>1, <3>2 DEF ChainAt
    <2>2. CASE n # cp
      <3>1. /\ valid[n] = "inuse" /\ key'[n] = key[n]
            /\ Hash[key[n]] # cp /\ Hash[key[n]] \in Nodes
        BY <1>1, <1>4, <2>2, HashIsHead DEF ChainInv, CacheInv, Shape
      <3>2. valid[Hash[key[n]]] = "inuse" /\ ChainAt(n)
        BY <3>1 DEF ChainInv, Chains
      <3>3. next[n] # NIL => next[n] \in Nodes /\ next[n] # cp
        BY <1>1, <1>4, <3>1, <3>2 DEF ChainAt, ChainInv, CacheInv, Shape
      <3> QED
        BY <1>1, <1>4, <3>1, <3>2, <3>3 DEF ChainAt
    <2> QED
      BY <2>1, <2>2
  <1> QED
    BY <1>1, <1>4, <1>7, <1>8, <1>9, <1>10

(* An entry is put in a new node at the end of its chain.                  *)
LEMMA TakeNew ==
    ASSUME ChainInv, pc \in {"run", "flushed"}, pc' = pc,
           NEW k \in Keys, NEW s \in Slots, NEW c \in Nat,
           OnChain(k), cp \in Nodes, valid[cp] = "inuse", next[cp] = NIL,
           RoomToAttach, Occupy(NewNode, k, s, c),
           next' \in [Nodes -> Nodes \union {NIL}],
           next'[cp] = NewNode,
           \A m \in Nodes : m # cp => next'[m] = next[m]
    PROVE  /\ Placed' /\ Chains' /\ Taken' = Taken
           /\ \A i \in 1 .. Len(queue') : slot'[queue'[i]] \in Slots
           /\ valid'[NewNode] = "inuse" /\ key'[NewNode] = k
           /\ Hash[k] \in Taken
  <1>1. /\ NewNode \in Nodes /\ NewNode = Top + 1 /\ Top \in Int
        /\ \A i \in 1 .. Len(queue) : queue[i] # NewNode /\ queue[i] \in Nodes
                                      /\ queue[i] <= Top
    BY NewNodeFresh DEF ChainInv, CacheInv, Shape, Reached
  <1>2. /\ Len(queue') = Len(queue) + 1 /\ Len(queue) \in Nat
        /\ \A i \in 1 .. Len(queue) : queue'[i] = queue[i]
        /\ queue'[Len(queue) + 1] = NewNode
    <2>1. CacheInv /\ s \in Slots \union {0}
      BY DEF ChainInv
    <2>2. Len(queue) \in Nat
      BY <2>1 DEF CacheInv, Shape
    <2> QED
      BY <1>1, <2>1, <2>2, OccupyKeeps
  <1>3. /\ key'[NewNode] = k /\ slot'[NewNode] = s /\ valid'[NewNode] = "inuse"
        /\ \A m \in Nodes : m # NewNode => key'[m] = key[m] /\ slot'[m] = slot[m]
                                           /\ valid'[m] = valid[m]
    BY <1>1 DEF Occupy, ChainInv, CacheInv, Shape
  <1>4. \A i \in 1 .. Len(queue') : i \in 1 .. Len(queue) \/ i = Len(queue) + 1
    BY <1>2
  <1>5. NewNode # Buckets + 1 /\ NewNode \notin Heads
    BY CacheAssumption DEF NewNode, Heads, ChainInv, CacheInv, Shape
  <1>6. Placed'
    BY <1>1, <1>2, <1>3, <1>4, <1>5 DEF ChainInv, Placed
  <1>7. \A i \in 1 .. Len(queue') : slot'[queue'[i]] \in Slots
    BY <1>1, <1>2, <1>3, <1>4 DEF ChainInv, Phased
  <1>8. Taken' = Taken
    <2>1. \A n \in Heads : n \in Nodes
      BY CacheAssumption DEF Heads, Nodes
    <2> QED
      BY <1>3, <1>5, <2>1 DEF Taken
  <1>9. \A m \in Nodes : valid[m] = "inuse" => m < NewNode /\ m # NewNode
    <2> SUFFICES ASSUME NEW m \in Nodes, valid[m] = "inuse"
                 PROVE  m < NewNode /\ m # NewNode
      OBVIOUS
    <2>1. PICK i \in 1 .. Len(queue) : queue[i] = m
      BY InUseIsQueued DEF ChainInv
    <2>2. m \in Int
      BY CacheAssumption DEF Nodes
    <2> QED
      BY <1>1, <2>1, <2>2
  <1>10. Hash[key[cp]] = Hash[k] /\ Hash[k] \in Nodes /\ Hash[k] \in Heads
    BY WithinChain, HashIsHead
  <1>11. valid[Hash[k]] = "inuse" /\ ChainAt(cp) /\ Hash[k] \in Taken
    BY <1>10 DEF ChainInv, Chains, Taken
  <1>12. Chains'
    <2> SUFFICES ASSUME NEW n \in Nodes, valid'[n] = "inuse"
                 PROVE  valid'[Hash[key'[n]]] = "inuse" /\ ChainAt(n)'
      BY DEF Chains
    <2>1. \A m \in Nodes : valid'[m] = "inuse" => m <= NewNode
      BY <1>1, <1>3, <1>9, CacheAssumption DEF Nodes
    <2>2. CASE n = NewNode
      <3>1. next'[n] = NIL
        BY <1>1, <1>9, <2>2 DEF ChainInv, CacheInv, Linked
      <3>2. \A m \in Nodes : m > n => valid'[m] # "inuse"
        BY <1>1, <2>1, <2>2, CacheAssumption DEF Nodes
      <3>3. ChainAt(n)'
        BY <3>1, <3>2 DEF ChainAt
      <3>4. valid'[Hash[k]] = "inuse"
        BY <1>3, <1>10, <1>11
      <3> QED
        BY <1>3, <2>2, <3>3, <3>4
    <2>3. CASE n = cp /\ n # NewNode
      <3>1. \A m \in Nodes : m > cp /\ m < NewNode /\ valid'[m] = "inuse"
                               => Hash[key'[m]] # Hash[key[cp]]
        BY <1>3, <1>11, CacheAssumption DEF ChainAt, Nodes
      <3>2. key'[cp] = key[cp] /\ NewNode # NIL /\ NewNode > cp
        BY <1>1, <1>3, <1>9, <2>3, CacheAssumption DEF Nodes, NIL
      <3>3. key'[n] = key[cp] /\ next'[n] = NewNode
        BY <2>3, <3>2
      <3>4. ChainAt(n)'
        BY <1>1, <1>3, <1>10, <2>3, <3>1, <3>2, <3>3 DEF ChainAt
      <3>5. valid'[Hash[key'[n]]] = "inuse"
        BY <1>3, <1>10, <1>11, <3>3
      <3> QED
        BY <3>4, <3>5
    <2>4. CASE n # cp /\ n # NewNode
      <3>1. /\ valid[n] = "inuse" /\ key'[n] = key[n] /\ next'[n] = next[n]
            /\ Hash[key[n]] \in Nodes
        BY <1>3, <2>4, HashIsHead DEF ChainInv, CacheInv, Shape
      <3>2. valid[Hash[key[n]]] = "inuse" /\ ChainAt(n)
        BY <3>1 DEF ChainInv, Chains
      <3>3. valid'[Hash[key'[n]]] = "inuse"
        BY <1>3, <3>1, <3>2
      <3>4. CASE next[n] = NIL
        <4>1. Hash[key[n]] # Hash[k]
          <5>1. CASE cp > n
            BY <1>10, <3>2, <3>4, <5>1 DEF ChainAt
          <5>2. CASE n > cp
            BY <1>10, <1>11, <3>1, <5>2 DEF ChainAt
          <5> QED
            BY <2>4, <5>1, <5>2, CacheAssumption DEF Nodes
        <4> QED
          BY <1>3, <3>1, <3>2, <3>3, <3>4, <4>1 DEF ChainAt
      <3>5. CASE next[n] # NIL
        <4>1. next[n] \in Nodes /\ valid[next[n]] = "inuse" /\ next[n] < NewNode
          BY <1>9, <3>2, <3>5 DEF ChainAt, ChainInv, CacheInv, Shape
        <4>2. key'[next[n]] = key[next[n]] /\ valid'[next[n]] = "inuse"
          BY <1>1, <1>3, <4>1, <1>9
        <4>3. \A m \in Nodes : m > n /\ m < next[n] /\ valid'[m] = "inuse"
                                 => Hash[key'[m]] # Hash[key[n]]
          <5> SUFFICES ASSUME NEW m \in Nodes, m > n, m < next[n], valid'[m] = "inuse"
                       PROVE  Hash[key'[m]] # Hash[key[n]]
            OBVIOUS
          <5>1. m # NewNode
            BY <1>1, <4>1, CacheAssumption DEF Nodes
          <5> QED
            BY <1>3, <3>2, <3>5, <5>1 DEF ChainAt
        <4> QED
          BY <3>1, <3>2, <3>3, <3>5, <4>2, <4>3 DEF ChainAt
      <3> QED
        BY <3>4, <3>5
    <2> QED
      BY <2>2, <2>3, <2>4
  <1> QED
    BY <1>3, <1>6, <1>7, <1>8, <1>11, <1>12

-----------------------------------------------------------------------------
(* The initial state.                                                      *)
LEMMA ChainInit == Init => ChainInv
  <1> SUFFICES ASSUME Init PROVE ChainInv
    OBVIOUS
  <1>1. CacheInv
    BY InitInv
  <1>2. Phased
    BY CacheAssumption DEF Init, Phased, Slots
  <1>3. Placed /\ Chains /\ Walk /\ Marks /\ Fits
    BY DEF Init, Placed, Chains, Walk, Marks, Fits
  <1> QED
    BY <1>1, <1>2, <1>3 DEF ChainInv

(* The entries stay where they are.                                        *)
LEMMA SameTable ==
    ASSUME ChainInv, UNCHANGED <<key, slot, valid, next, queue>>,
           pc' \in {"run", "flushed"} => pc \in {"run", "flushed"}
    PROVE  Placed' /\ Chains' /\ Taken' = Taken
  <1>1. Placed'
    BY DEF ChainInv, Placed
  <1>2. Chains'
    BY DEF ChainInv, Chains, ChainAt
  <1>3. Taken' = Taken
    BY DEF Taken
  <1> QED
    BY <1>1, <1>2, <1>3

(* After an insertion at n the cursor is on n, or at the next record's     *)
(* bucket.                                                                 *)
LEMMA InsertedWalk ==
    ASSUME ChainInv, pc = "run", pc' = pc, work # <<>>, NEW n \in Nodes,
           InsertedAt(n), valid'[n] = "inuse", key'[n] = Head(work).key
    PROVE  Walk'
  <1>1. work \in Seq(Insertions) /\ Tail(work) \in Seq(Insertions)
    BY DEF ChainInv, CacheInv, Shape
  <1>2. CASE Head(work).slot < Head(work).to
    <2> DEFINE h == Head(work)
               i == [h EXCEPT !.len = Share(h), !.slot = h.slot + 1]
    <2>1. work' = <<i>> \o Tail(work) /\ cp' = n
      BY <1>2 DEF InsertedAt
    <2>2. i.key = h.key
      <3>1. h \in Insertions
        BY <1>1
      <3> HIDE DEF h
      <3> QED
        BY <3>1 DEF Insertions
    <2> HIDE DEF i
    <2>3. Head(work') = i
      BY <1>1, <2>1
    <2> QED
      BY <2>1, <2>2, <2>3 DEF Walk, OnChain
  <1>3. CASE ~(Head(work).slot < Head(work).to)
    <2>1. work' = Tail(work) /\ cp' = Bucket(Tail(work))
      BY <1>3 DEF InsertedAt
    <2> QED
      BY <2>1 DEF Walk, OnChain, Bucket
  <1> QED
    BY <1>2, <1>3

(* Nothing is marked and nothing waits while records are inserted.         *)
LEMMA RunIsQuiet ==
    ASSUME pc' = "run" PROVE Marks' /\ Fits'
  BY DEF Marks, Fits

(* The bytes of some nodes under a key and time-bin.                       *)
Bytes(c, k, s, S, ks) == Sum(c, {n \in S : k[n] = ks[1] /\ s[n] = ks[2]})

(* There are finitely many nodes.                                          *)
LEMMA NodesFinite == IsFiniteSet(Nodes)
  BY FS_Interval, CacheAssumption DEF Nodes

(* The bytes of some nodes are a number.                                   *)
LEMMA BytesIsNat ==
    ASSUME NEW c \in [Nodes -> Nat], NEW k, NEW s, NEW S \in SUBSET Nodes, NEW ks
    PROVE  Bytes(c, k, s, S, ks) \in Nat
  <1> DEFINE T == {n \in S : k[n] = ks[1] /\ s[n] = ks[2]}
  <1>1. T \subseteq Nodes
    OBVIOUS
  <1>2. IsFiniteSet(T)
    BY <1>1, NodesFinite, FS_Subset
  <1>3. \A n \in T : c[n] \in Nat
    BY <1>1
  <1> HIDE DEF T
  <1>4. Sum(c, T) \in Nat
    BY <1>2, <1>3, SumIsNat
  <1> QED
    BY <1>4 DEF Bytes, T

(* What the purge function writes is such a sum.                           *)
LEMMA BytesInIsBytes ==
    ASSUME NEW S, NEW ks PROVE BytesIn(S, ks) = Bytes(cnt, key, slot, S, ks)
  BY DEF BytesIn, Bytes, Sum

(* An account credited stays an account.                                   *)
LEMMA CreditType ==
    ASSUME CacheInv, NEW acct \in [Keys \X Slots -> Nat], NEW S \in SUBSET Nodes
    PROVE  Credit(acct, S) \in [Keys \X Slots -> Nat]
  <1>1. \A ks \in Keys \X Slots : BytesIn(S, ks) \in Nat
    BY BytesInIsBytes, BytesIsNat DEF CacheInv, Shape
  <1> QED
    BY <1>1 DEF Credit

(* What is queued is a node.                                               *)
LEMMA QueuedNodes ==
    ASSUME CacheInv PROVE Queued \subseteq Nodes /\ Committed \subseteq Nodes
  BY DEF CacheInv, Shape, Queued, Committed

(* A record arrives.                                                       *)
LEMMA ArriveChain ==
    ASSUME ChainInv, NEW calls \in Calls, NEW from \in Slots, NEW to \in Slots,
           Arrive(calls, from, to), CacheInv'
    PROVE  Phased' /\ Placed' /\ Chains' /\ Walk' /\ Marks' /\ Fits'
  <1>1. PICK m \in {1, 2} : DOMAIN calls = 1 .. m /\ calls \in [1 .. m -> Keys]
    <2>1. CASE SumHost
      <3>1. PICK a \in Keys, b \in Keys : calls = <<a, b>>
        BY <2>1 DEF Calls
      <3> QED
        BY <3>1
    <2>2. CASE ~SumHost
      <3>1. PICK k \in Keys : calls = <<k>>
        BY <2>2 DEF Calls
      <3> QED
        BY <3>1
    <2> QED
      BY <2>1, <2>2
  <1>2. pc = "run" /\ pc' = "run" /\ UNCHANGED <<key, slot, valid, next, queue>>
    BY DEF Arrive, nodes
  <1>3. Placed' /\ Chains' /\ Marks' /\ Fits'
    BY <1>2, SameTable, RunIsQuiet
  <1>4. Walk'
    <2>1. work' # <<>> /\ Head(work') = work'[1] /\ 1 \in DOMAIN calls
      <3>1. work' \in Seq(Insertions) /\ DOMAIN work' = 1 .. m
        BY <1>1 DEF Arrive, CacheInv, Shape
      <3>2. Len(work') = m
        BY <3>1
      <3> QED
        BY <1>1, <3>1, <3>2
    <2> QED
      BY <1>2, <2>1 DEF Arrive, Walk, OnChain, Insertion
  <1>5. given' \in [Keys \X Slots -> Nat]
    <2>1. \A k \in Keys : Cardinality({i \in DOMAIN calls : calls[i] = k}) \in Nat
      <3> SUFFICES ASSUME NEW k \in Keys
                   PROVE  Cardinality({i \in DOMAIN calls : calls[i] = k}) \in Nat
        OBVIOUS
      <3>1. IsFiniteSet(1 .. m) /\ {i \in DOMAIN calls : calls[i] = k} \subseteq 1 .. m
        BY <1>1, FS_Interval
      <3> QED
        BY <3>1, FS_Subset, FS_CardinalityType
    <2>2. \A n \in Nat : Unit * n \in Nat
      BY CacheAssumption
    <2> DEFINE W(k) == Unit * Cardinality({i \in DOMAIN calls : calls[i] = k})
    <2>3. \A k \in Keys : W(k) \in Nat
      BY <2>1, <2>2
    <2>4. given' = [ks \in Keys \X Slots |->
                      IF ks[2] \in from .. to THEN given[ks] + W(ks[1]) ELSE given[ks]]
      BY DEF Arrive
    <2> HIDE DEF W
    <2>5. given \in [Keys \X Slots -> Nat]
      BY DEF ChainInv, Phased
    <2> QED
      BY <2>3, <2>4, <2>5
  <1>6. arrived' \in 0 .. MaxRecords
    BY CacheAssumption DEF Arrive, ChainInv, Phased
  <1>7. Phased'
    BY <1>2, <1>5, <1>6 DEF Arrive, ChainInv, Phased, nodes, clock
  <1> QED
    BY <1>3, <1>4, <1>7

(* The record that is being inserted.                                      *)
LEMMA HeadOfWork ==
    ASSUME CacheInv, work # <<>>
    PROVE  /\ Head(work) \in Insertions /\ Head(work).key \in Keys
           /\ Head(work).slot \in Slots /\ Share(Head(work)) \in Nat
  <1>1. Head(work) \in Insertions
    BY DEF CacheInv, Shape
  <1> QED
    BY <1>1, ShareIsNat DEF Insertions

(* The copy that is being put back.                                        *)
LEMMA HeadOfPending ==
    ASSUME CacheInv, Phased, pending # <<>>
    PROVE  /\ Head(pending) \in Counted /\ Head(pending).key \in Keys
           /\ Head(pending).slot \in Slots /\ Head(pending).cnt \in Nat
           /\ Tail(pending) \in Seq(Counted)
  <1>1. Head(pending) \in Counted /\ Tail(pending) \in Seq(Counted)
    BY DEF Phased
  <1> QED
    BY <1>1 DEF Counted

(* Walking along a chain stays on it.                                      *)
LEMMA HopChain ==
    ASSUME ChainInv, Hop \/ PendingHop
    PROVE  Phased' /\ Placed' /\ Chains' /\ Walk' /\ Marks' /\ Fits'
  <1>1. /\ pc' = pc /\ pc \in {"run", "flushed"} /\ cp' = next[cp] /\ next[cp] # NIL
        /\ valid[cp] = "inuse" /\ cp \in Nodes
        /\ UNCHANGED <<key, slot, valid, next, queue, marked, sa, pending, work>>
        /\ UNCHANGED <<clock, writers, arrived, ledger>>
        /\ pc = "run" => work # <<>>
        /\ pc = "flushed" => pending # <<>>
    BY DEF Hop, PendingHop, Inserting, Reinserting, InUse, nodes, ChainInv, CacheInv,
           Shape, Cursor
  <1>2. Placed' /\ Chains' /\ Taken' = Taken
    BY <1>1, SameTable
  <1>3. Phased'
    BY <1>1 DEF ChainInv, Phased, clock, ledger
  <1>4. ASSUME NEW k \in Keys, OnChain(k) PROVE OnChain(k)'
    <2>1. Hash[key[cp]] = Hash[k]
      BY <1>1, <1>4, WithinChain
    <2>2. valid[next[cp]] = "inuse" /\ Hash[key[next[cp]]] = Hash[key[cp]]
      BY <1>1 DEF ChainInv, Chains, ChainAt
    <2> QED
      BY <1>1, <2>1, <2>2 DEF OnChain
  <1>5. Walk'
    <2>1. CASE pc = "run"
      <3>1. Head(work).key \in Keys
        BY <1>1, <2>1, HeadOfWork DEF ChainInv
      <3>2. OnChain(Head(work).key)
        BY <1>1, <2>1 DEF ChainInv, Walk
      <3>3. OnChain(Head(work).key)'
        BY <1>1, <1>4, <3>1, <3>2 DEF OnChain
      <3> QED
        BY <1>1, <2>1, <3>3 DEF Walk
    <2>2. CASE pc = "flushed"
      <3>1. Head(pending).key \in Keys
        BY <1>1, <2>2, HeadOfPending DEF ChainInv
      <3>2. OnChain(Head(pending).key)
        BY <1>1, <2>2 DEF ChainInv, Walk
      <3>3. OnChain(Head(pending).key)'
        BY <1>1, <1>4, <3>1, <3>2 DEF OnChain
      <3> QED
        BY <1>1, <2>2, <3>3 DEF Walk
    <2> QED
      BY <1>1, <2>1, <2>2
  <1>6. Marks'
    BY <1>1 DEF Marks
  <1>7. Fits'
    <2>1. Wanted' = Wanted
      BY <1>1 DEF Wanted, WantedBy
    <2> QED
      BY <1>1, <1>2, <2>1 DEF ChainInv, Fits
  <1> QED
    BY <1>2, <1>3, <1>5, <1>6, <1>7

(* A counter grows.                                                        *)
LEMMA SumChain ==
    ASSUME ChainInv, SumCounters
    PROVE  Phased' /\ Placed' /\ Chains' /\ Walk' /\ Marks' /\ Fits'
  <1>1. /\ pc' = "run" /\ pc = "run" /\ valid[cp] = "inuse" /\ cp \in Nodes
        /\ work # <<>> /\ key[cp] = Head(work).key /\ InsertedAt(cp)
        /\ UNCHANGED <<key, slot, valid, next, queue, marked, sa, pending>>
        /\ UNCHANGED <<clock, writers, arrived, ledger>>
    BY DEF SumCounters, Inserting, InUse, Matches, ChainInv, CacheInv, Shape, Cursor
  <1>2. Placed' /\ Chains' /\ Marks' /\ Fits'
    BY <1>1, SameTable, RunIsQuiet
  <1>3. Phased'
    BY <1>1 DEF ChainInv, Phased, clock, ledger
  <1>4. Walk'
    BY <1>1, InsertedWalk
  <1> QED
    BY <1>2, <1>3, <1>4

(* An empty bucket is taken.                                               *)
LEMMA TakeFreeChain ==
    ASSUME ChainInv, TakeFree
    PROVE  Phased' /\ Placed' /\ Chains' /\ Walk' /\ Marks' /\ Fits'
  <1> DEFINE h == Head(work)
  <1>1. /\ pc' = "run" /\ pc = "run" /\ valid[cp] # "inuse" /\ cp \in Nodes
        /\ work # <<>> /\ InsertedAt(cp)
        /\ UNCHANGED <<next, marked, sa, pending>>
        /\ UNCHANGED <<clock, writers, arrived, ledger>>
    BY DEF TakeFree, Inserting, InUse, ChainInv, CacheInv, Shape, Cursor
  <1>2. h.key \in Keys /\ h.slot \in Slots /\ Share(h) \in Nat
    BY <1>1, HeadOfWork DEF ChainInv
  <1>3. OnChain(h.key)
    BY <1>1 DEF ChainInv, Walk
  <1>4. Occupy(cp, h.key, h.slot, Share(h))
    BY DEF TakeFree
  <1>5. /\ Placed' /\ Chains'
        /\ \A i \in 1 .. Len(queue') : slot'[queue'[i]] \in Slots
        /\ valid'[cp] = "inuse" /\ key'[cp] = h.key
    <2> HIDE DEF h
    <2> QED
      BY <1>1, <1>2, <1>3, <1>4, TakeHead
  <1>6. Walk' /\ Marks' /\ Fits'
    BY <1>1, <1>5, InsertedWalk, RunIsQuiet
  <1>7. marked = 0 /\ marked' = 0 /\ Len(queue') \in Nat
    BY <1>1, <1>4 DEF ChainInv, CacheInv, Shape, Phased, Occupy
  <1>8. Phased'
    BY <1>1, <1>5, <1>7 DEF ChainInv, Phased, clock, ledger
  <1> QED
    BY <1>5, <1>6, <1>8

(* The chain grows.                                                        *)
LEMMA AttachChain ==
    ASSUME ChainInv, Attach
    PROVE  Phased' /\ Placed' /\ Chains' /\ Walk' /\ Marks' /\ Fits'
  <1> DEFINE h == Head(work)
  <1>1. /\ pc' = "run" /\ pc = "run" /\ valid[cp] = "inuse" /\ cp \in Nodes
        /\ work # <<>> /\ InsertedAt(NewNode) /\ next[cp] = NIL /\ RoomToAttach
        /\ next' = [next EXCEPT ![cp] = NewNode] /\ sa' = sa + 1
        /\ UNCHANGED <<marked, pending>>
        /\ UNCHANGED <<clock, writers, arrived, ledger>>
    BY DEF Attach, Inserting, InUse, ChainInv, CacheInv, Shape, Cursor
  <1>2. h.key \in Keys /\ h.slot \in Slots /\ Share(h) \in Nat
    BY <1>1, HeadOfWork DEF ChainInv
  <1>3. OnChain(h.key)
    BY <1>1 DEF ChainInv, Walk
  <1>4. Occupy(NewNode, h.key, h.slot, Share(h))
    BY DEF Attach
  <1>5. NewNode \in Nodes
    BY <1>1, NewNodeFresh DEF ChainInv
  <1>6. /\ next' \in [Nodes -> Nodes \union {NIL}] /\ next'[cp] = NewNode
        /\ \A m \in Nodes : m # cp => next'[m] = next[m]
    BY <1>1, <1>5 DEF ChainInv, CacheInv, Shape
  <1>7. /\ Placed' /\ Chains'
        /\ \A i \in 1 .. Len(queue') : slot'[queue'[i]] \in Slots
        /\ valid'[NewNode] = "inuse" /\ key'[NewNode] = h.key
    <2> HIDE DEF h
    <2> QED
      BY <1>1, <1>2, <1>3, <1>4, <1>6, TakeNew
  <1>8. Walk' /\ Marks' /\ Fits'
    <2> DEFINE n == NewNode
    <2>1. n \in Nodes /\ InsertedAt(n) /\ valid'[n] = "inuse" /\ key'[n] = Head(work).key
      BY <1>1, <1>5, <1>7
    <2> HIDE DEF n
    <2> QED
      BY <1>1, <2>1, InsertedWalk, RunIsQuiet
  <1>9. marked = 0 /\ marked' = 0 /\ Len(queue') \in Nat
    BY <1>1, <1>4, <1>5 DEF ChainInv, CacheInv, Shape, Phased, Occupy
  <1>10. sa' # 0 => sa' < Scratch
    BY <1>1, CacheAssumption DEF RoomToAttach, ChainInv, CacheInv, Shape
  <1>11. Phased'
    BY <1>1, <1>7, <1>9, <1>10 DEF ChainInv, Phased, clock, ledger
  <1> QED
    BY <1>7, <1>8, <1>11

-----------------------------------------------------------------------------
(* A purge.  Marking begins.                                               *)
LEMMA BeginChain ==
    ASSUME ChainInv, Full \/ FlushEvent
    PROVE  Phased' /\ Placed' /\ Chains' /\ Walk' /\ Marks' /\ Fits'
  <1>1. /\ pc' = "marking" /\ pc = "run"
        /\ UNCHANGED <<key, slot, cnt, valid, next, queue, marked, sa, pending>>
        /\ UNCHANGED <<clock, writers, arrived, ledger>>
    BY DEF Full, FlushEvent, Inserting, nodes
  <1>2. Placed' /\ Chains'
    BY <1>1, SameTable
  <1>3. marked = 0 /\ pending = <<>>
    BY <1>1 DEF ChainInv, Phased
  <1>4. Phased'
    BY <1>1, <1>3 DEF ChainInv, Phased, clock, ledger
  <1>5. Walk' /\ Fits'
    BY <1>1 DEF Walk, Fits
  <1>6. Marks'
    <2>1. Copied' = {}
      BY <1>1, <1>3 DEF Copied
    <2>2. Len(pending') = Cardinality(Copied')
      BY <1>1, <1>3, <2>1, FS_EmptySet
    <2>3. \A i \in 1 .. Len(queue) : valid[queue[i]] = "inuse"
      BY <1>1, InUseIsQueued DEF ChainInv
    <2> QED
      BY <1>1, <1>3, <2>1, <2>2, <2>3 DEF Marks
  <1> QED
    BY <1>2, <1>4, <1>5, <1>6

(* One more node is committed, or copied and freed.                        *)
LEMMA MarkChain ==
    ASSUME ChainInv, MarkFlush
    PROVE  /\ Phased' /\ Placed' /\ Chains' /\ Walk' /\ Marks' /\ Fits'
  <1> DEFINE n == queue[marked + 1]
             v == IF IsPending(n) THEN "free" ELSE "committed"
  <1>1. /\ pc = "marking" /\ pc' = "marking" /\ marked < Len(queue)
        /\ marked' = marked + 1
        /\ UNCHANGED <<key, slot, cnt, next, queue, sa>>
        /\ UNCHANGED <<clock, writers, arrived, ledger>>
    BY DEF MarkFlush
  <1>2. /\ valid' = [valid EXCEPT ![n] = v]
        /\ pending' = IF IsPending(n) THEN Append(pending, Entry(n)) ELSE pending
    BY DEF MarkFlush
  <1>3. /\ marked \in Nat /\ Len(queue) \in Nat /\ marked + 1 \in 1 .. Len(queue)
        /\ n \in Nodes /\ n = queue[marked + 1] /\ n = queue[marked']
    BY <1>1 DEF ChainInv, CacheInv, Shape
  <1>4. \A i \in 1 .. Len(queue) : i # marked + 1 => queue[i] # n /\ queue[i] \in Nodes
    BY <1>3 DEF ChainInv, CacheInv, Shape, NoRepeat
  <1>5. Entry(n) \in Counted
    <2>1. slot[n] \in Slots
      BY <1>3 DEF ChainInv, Phased
    <2> HIDE DEF n
    <2> QED
      BY <1>3, <2>1 DEF Entry, Counted, ChainInv, CacheInv, Shape
  <1>6. (IsPending(n) <=> CommitBase < slot[n] + Delay) /\ Entry(n).slot = slot[n]
    BY DEF IsPending, Entry
  <1> HIDE DEF n
  <1>7. /\ pending' \in Seq(Counted) /\ Len(pending) \in Nat
        /\ Len(pending') = IF IsPending(n) THEN Len(pending) + 1 ELSE Len(pending)
        /\ \A j \in 1 .. Len(pending) : pending'[j] = pending[j]
        /\ IsPending(n) => pending'[Len(pending) + 1] = Entry(n)
    <2>1. pending \in Seq(Counted)
      BY DEF ChainInv, Phased
    <2> QED
      BY <1>2, <1>5, <2>1
  <1>8. /\ valid'[n] = v
        /\ \A m \in Nodes : m # n => valid'[m] = valid[m]
    BY <1>2, <1>3 DEF ChainInv, CacheInv, Shape
  <1>9. /\ CommitBase' = CommitBase /\ \A m \in Nodes : Entry(m)' = Entry(m)
        /\ \A m \in Nodes : IsPending(m)' <=> IsPending(m)
    BY <1>1 DEF CommitBase, Entry, IsPending, clock
  <1>10. Phased'
    BY <1>1, <1>3, <1>7 DEF ChainInv, Phased, clock, ledger
  <1>11. Placed' /\ Chains' /\ Walk' /\ Fits'
    BY <1>1 DEF ChainInv, Placed, Chains, Walk, Fits
  <1>12. \A i \in 1 .. marked : i \in 1 .. Len(queue) /\ i # marked + 1
    BY <1>1, <1>3
  <1>13. Copied' = IF IsPending(n) THEN Copied \union {marked + 1} ELSE Copied
    <2>1. 1 .. marked' = (1 .. marked) \union {marked + 1}
      BY <1>1, <1>3
    <2>2. \A i \in 1 .. marked : valid'[queue'[i]] = valid[queue[i]]
      BY <1>1, <1>4, <1>8, <1>12
    <2>3. (valid'[queue'[marked + 1]] = "free") <=> IsPending(n)
      BY <1>1, <1>3, <1>8
    <2> QED
      BY <2>1, <2>2, <2>3 DEF Copied
  <1>14. Len(pending') = Cardinality(Copied')
    <2>1. Copied \subseteq 1 .. marked
      BY DEF Copied
    <2>2. IsFiniteSet(Copied)
      <3>1. marked \in Int /\ 1 \in Int
        BY <1>3
      <3>2. IsFiniteSet(1 .. marked)
        BY <3>1, FS_Interval
      <3> QED
        BY <2>1, <3>2, FS_Subset
    <2>0. marked + 1 \notin Copied
      BY <1>12, <2>1
    <2>3. Cardinality(Copied \union {marked + 1}) = Cardinality(Copied) + 1
      BY <2>0, <2>2, FS_AddElement
    <2> QED
      BY <1>1, <1>7, <1>13, <2>3 DEF ChainInv, Marks
  <1>15. ASSUME NEW i \in 1 .. Len(queue'), i > marked' PROVE valid'[queue'[i]] = "inuse"
    <2>1. i > marked /\ i # marked + 1 /\ i \in 1 .. Len(queue)
      BY <1>1, <1>3, <1>15
    <2> QED
      BY <1>1, <1>4, <1>8, <2>1 DEF ChainInv, Marks
  <1>16. ASSUME NEW i \in 1 .. marked'
         PROVE  valid'[queue'[i]] = IF IsPending(queue[i]) THEN "free" ELSE "committed"
    <2>1. CASE i = marked + 1
      BY <1>1, <1>3, <1>8, <2>1
    <2>2. CASE i \in 1 .. marked
      BY <1>1, <1>4, <1>8, <1>12, <2>2 DEF ChainInv, Marks
    <2> QED
      BY <1>1, <1>3, <2>1, <2>2
  <1>17. ASSUME NEW i \in Copied'
         PROVE  \E j \in 1 .. Len(pending') : pending'[j] = Entry(queue[i])
    <2>1. CASE i \in Copied
      <3>1. PICK j \in 1 .. Len(pending) : pending[j] = Entry(queue[i])
        BY <1>1, <2>1 DEF ChainInv, Marks
      <3> QED
        BY <1>7, <3>1
    <2>2. CASE IsPending(n) /\ i = marked + 1
      <3>1. Len(pending) + 1 \in 1 .. Len(pending')
        BY <1>7, <2>2
      <3> QED
        BY <1>3, <1>7, <2>2, <3>1
    <2> QED
      BY <1>13, <2>1, <2>2
  <1>18. ASSUME NEW j \in 1 .. Len(pending') PROVE CommitBase < pending'[j].slot + Delay
    <2>1. CASE j \in 1 .. Len(pending)
      BY <1>1, <1>7, <2>1 DEF ChainInv, Marks
    <2>2. CASE IsPending(n) /\ j = Len(pending) + 1
      BY <1>6, <1>7, <2>2
    <2> QED
      BY <1>7, <2>1, <2>2
  <1>19. Marks'
    <2>1. \A i \in 1 .. marked' : queue'[i] = queue[i] /\ queue[i] \in Nodes
      BY <1>1, <1>3, <1>4, <1>12
    <2>2. \A i \in Copied' : i \in 1 .. marked'
      BY DEF Copied
    <2> QED
      BY <1>1, <1>9, <1>14, <1>15, <1>16, <1>17, <1>18, <2>1, <2>2 DEF Marks
  <1> QED
    BY <1>10, <1>11, <1>19

(* The writer is forked, or is not.                                        *)
LEMMA ForkChain ==
    ASSUME ChainInv, Fork \/ NoWriter
    PROVE  Phased' /\ Placed' /\ Chains' /\ Walk' /\ Marks' /\ Fits'
  <1>1. /\ pc = "marking" /\ pc' = "forked" /\ marked = Len(queue)
        /\ UNCHANGED <<key, slot, cnt, valid, next, queue, marked, sa, pending>>
        /\ UNCHANGED <<clock, arrived, given>>
    BY DEF Fork, NoWriter, nodes
  <1>2. Placed' /\ Chains' /\ Walk' /\ Fits'
    BY <1>1 DEF ChainInv, Placed, Chains, Walk, Fits
  <1>3. Marks'
    <2>1. Copied' = Copied
      BY <1>1 DEF Copied
    <2> QED
      BY <1>1, <2>1 DEF ChainInv, Marks, IsPending, CommitBase, Entry, clock
  <1>4. /\ Credit(written, Committed) \in [Keys \X Slots -> Nat]
        /\ Credit(lost, Committed) \in [Keys \X Slots -> Nat]
    BY QueuedNodes, CreditType DEF ChainInv, Phased
  <1>5. /\ written' \in [Keys \X Slots -> Nat] /\ lost' \in [Keys \X Slots -> Nat]
        /\ writers' \in 0 .. MaxWriters
    <2>1. CASE Fork
      BY <1>4, <2>1, CacheAssumption DEF Fork, ChainInv, Phased
    <2>2. CASE NoWriter
      BY <1>4, <2>2 DEF NoWriter, ChainInv, Phased
    <2> QED
      BY <2>1, <2>2
  <1>6. Phased'
    BY <1>1, <1>5 DEF ChainInv, Phased, clock
  <1> QED
    BY <1>2, <1>3, <1>6

(* The buckets that the copies go back to.                                 *)
LEMMA WantedBound ==
    ASSUME NEW p \in Seq(Counted)
    PROVE  /\ IsFiniteSet(WantedBy(p)) /\ Cardinality(WantedBy(p)) \in Nat
           /\ Cardinality(WantedBy(p)) <= Len(p)
  <1> DEFINE f == [j \in 1 .. Len(p) |-> Hash[p[j].key]]
             T == {f[j] : j \in 1 .. Len(p)}
  <1>1. Len(p) \in Nat /\ 1 \in Int /\ Len(p) \in Int
    OBVIOUS
  <1>2. WantedBy(p) = T
    BY DEF WantedBy
  <1>3. IsFiniteSet(1 .. Len(p)) /\ Cardinality(1 .. Len(p)) = Len(p)
    BY <1>1, FS_Interval
  <1> HIDE DEF f
  <1>4. IsFiniteSet(T) /\ Cardinality(T) <= Cardinality(1 .. Len(p))
    BY <1>3, ImageBound
  <1>5. Cardinality(T) \in Nat
    BY <1>4, FS_CardinalityType
  <1> QED
    BY <1>2, <1>3, <1>4, <1>5

(* The buckets of a container are the first copy's and those of the        *)
(* others.                                                                 *)
LEMMA WantedHead ==
    ASSUME NEW p \in Seq(Counted), p # <<>>
    PROVE  WantedBy(p) = WantedBy(Tail(p)) \union {Hash[Head(p).key]}
  <1>1. /\ Len(p) \in Nat \ {0} /\ Len(Tail(p)) = Len(p) - 1 /\ Head(p) = p[1]
        /\ \A j \in 1 .. Len(Tail(p)) : Tail(p)[j] = p[j + 1]
    OBVIOUS
  <1>2. ASSUME NEW b \in WantedBy(p)
        PROVE  b \in WantedBy(Tail(p)) \union {Hash[Head(p).key]}
    <2>1. PICK j \in 1 .. Len(p) : b = Hash[p[j].key]
      BY DEF WantedBy
    <2>2. CASE j = 1
      BY <1>1, <2>1, <2>2
    <2>3. CASE j # 1
      <3>1. j - 1 \in 1 .. Len(Tail(p)) /\ Tail(p)[j - 1] = p[j]
        BY <1>1, <2>1, <2>3
      <3> QED
        BY <2>1, <3>1 DEF WantedBy
    <2> QED
      BY <2>2, <2>3
  <1>3. ASSUME NEW b \in WantedBy(Tail(p)) PROVE b \in WantedBy(p)
    <2>1. PICK j \in 1 .. Len(Tail(p)) : b = Hash[Tail(p)[j].key]
      BY DEF WantedBy
    <2>2. j + 1 \in 1 .. Len(p) /\ Tail(p)[j] = p[j + 1]
      BY <1>1, <2>1
    <2> QED
      BY <2>1, <2>2 DEF WantedBy
  <1>4. Hash[Head(p).key] \in WantedBy(p)
    <2>1. 1 \in 1 .. Len(p)
      BY <1>1
    <2> QED
      BY <1>1, <2>1 DEF WantedBy
  <1> QED
    BY <1>2, <1>3, <1>4

(* When the cache is flushed the container fits in it: the copies of       *)
(* scratch nodes are at most sa.ptr, and the others come from buckets.     *)
LEMMA ContainerFits ==
    ASSUME ChainInv, pc = "forked"
    PROVE  Len(pending) <= Spare + Cardinality(Wanted)
  <1> DEFINE H == {i \in Copied : queue[i] \in Heads}
             E == {i \in Copied : queue[i] \notin Heads}
             A == (Buckets + 2) .. (Buckets + 1 + sa)
  <1>1. /\ marked = Len(queue) /\ Len(queue) \in Nat /\ sa \in Nat /\ Buckets \in Nat
        /\ queue \in Seq(Nodes)
    BY CacheAssumption DEF ChainInv, CacheInv, Shape, Phased
  <1>2. \A i \in Copied : i \in 1 .. Len(queue) /\ queue[i] \in Nodes
    BY <1>1 DEF Copied
  <1>3. \A i, j \in Copied : queue[i] = queue[j] => i = j
    BY <1>2 DEF ChainInv, CacheInv, NoRepeat
  <1>4. IsFiniteSet(E) /\ Cardinality(E) <= sa
    <2>1. IsFiniteSet(A) /\ Cardinality(A) = sa
      <3>1. Buckets + 2 \in Int /\ Buckets + 1 + sa \in Int
        BY <1>1
      <3>2. IsFiniteSet(A) /\ Cardinality(A) = IF Buckets + 2 > Buckets + 1 + sa THEN 0
                               ELSE (Buckets + 1 + sa) - (Buckets + 2) + 1
        BY <3>1, FS_Interval
      <3> QED
        BY <1>1, <3>2
    <2>2. \A i \in E : queue[i] \in A
      <3> SUFFICES ASSUME NEW i \in E PROVE queue[i] \in A
        OBVIOUS
      <3>1. queue[i] \in Nodes /\ queue[i] \notin Heads /\ i \in 1 .. Len(queue)
        BY <1>2
      <3>2. queue[i] # Buckets + 1 /\ queue[i] <= Buckets + 1 + sa
        BY <3>1 DEF ChainInv, Placed, CacheInv, Reached, Top
      <3> QED
        BY <1>1, <3>1, <3>2, CacheAssumption DEF Nodes, Heads
    <2>3. \A i, j \in E : queue[i] = queue[j] => i = j
      BY <1>3
    <2> HIDE DEF A, E
    <2> QED
      BY <2>1, <2>2, <2>3, InjectionBound
  <1>5. IsFiniteSet(H) /\ Cardinality(H) <= Cardinality(Wanted)
    <2>1. IsFiniteSet(Wanted)
      BY WantedBound DEF ChainInv, Phased, Wanted
    <2>2. \A i \in H : queue[i] \in Wanted
      <3> SUFFICES ASSUME NEW i \in H PROVE queue[i] \in Wanted
        OBVIOUS
      <3>1. Hash[key[queue[i]]] = queue[i]
        BY <1>2 DEF ChainInv, Placed
      <3>2. PICK j \in 1 .. Len(pending) : pending[j] = Entry(queue[i])
        BY DEF ChainInv, Marks
      <3>3. Hash[pending[j].key] = queue[i]
        BY <3>1, <3>2 DEF Entry
      <3> QED
        BY <3>3 DEF Wanted, WantedBy
    <2>3. \A i, j \in H : queue[i] = queue[j] => i = j
      BY <1>3
    <2> HIDE DEF H
    <2> QED
      BY <2>1, <2>2, <2>3, InjectionBound
  <1>6. Cardinality(Copied) <= Cardinality(H) + Cardinality(E)
    <2>1. Copied = H \union E /\ H \cap E = {}
      OBVIOUS
    <2> HIDE DEF H, E
    <2>2. Cardinality(H \union E) = Cardinality(H) + Cardinality(E) - Cardinality(H \cap E)
      BY <1>4, <1>5, FS_Union
    <2>3. Cardinality(H \cap E) = 0 /\ Cardinality(H) \in Nat /\ Cardinality(E) \in Nat
      BY <1>4, <1>5, <2>1, FS_EmptySet, FS_CardinalityType
    <2> QED
      BY <2>1, <2>2, <2>3
  <1>7. Cardinality(H) \in Nat /\ Cardinality(E) \in Nat /\ Cardinality(Wanted) \in Nat
    BY <1>4, <1>5, FS_CardinalityType, WantedBound DEF ChainInv, Phased, Wanted
  <1>8. Len(pending) = Cardinality(Copied) /\ Len(pending) \in Nat
    BY DEF ChainInv, Marks, Phased
  <1>9. sa <= Spare /\ Spare \in Nat
    BY <1>1, CacheAssumption DEF ChainInv, Phased, Spare
  <1> HIDE DEF H, E
  <1> QED
    BY <1>1, <1>4, <1>5, <1>6, <1>7, <1>8, <1>9

(* Everything is freed; the container waits.                               *)
LEMMA FlushChain ==
    ASSUME ChainInv, Flush, CacheInv'
    PROVE  Phased' /\ Placed' /\ Chains' /\ Walk' /\ Marks' /\ Fits'
  <1>1. /\ pc = "forked" /\ pc' = "flushed" /\ queue' = <<>> /\ sa' = 0 /\ marked' = 0
        /\ UNCHANGED <<key, slot, cnt, pending, work, basetime, writers, arrived, ledger>>
        /\ cp' = Bucket(pending)
        /\ newbase' \in {0, newbase}
    BY DEF Flush, FlushTo
  <1>2. \A n \in Nodes : valid'[n] # "inuse"
    BY <1>1 DEF CacheInv, AllQueued
  <1>3. Placed' /\ Chains' /\ Marks'
    BY <1>1, <1>2 DEF Placed, Chains, Marks
  <1>4. Phased'
    BY <1>1 DEF ChainInv, Phased, ledger
  <1>5. Walk'
    BY <1>1 DEF Walk, OnChain, Bucket
  <1>6. Taken' = {}
    BY <1>2, CacheAssumption DEF Taken, Heads, Nodes
  <1>7. Fits'
    <2>1. Wanted' \ Taken' = Wanted
      BY <1>1, <1>6 DEF Wanted, WantedBy
    <2>2. Len(pending) <= Spare + Cardinality(Wanted)
      BY <1>1, ContainerFits
    <2>3. Len(pending) \in Nat
      BY DEF ChainInv, Phased
    <2>4. Cardinality(Wanted' \ Taken') = Cardinality(Wanted)
      BY <2>1, Zenon
    <2> QED
      BY <1>1, <2>2, <2>3, <2>4 DEF Fits
  <1> QED
    BY <1>3, <1>4, <1>5, <1>7

(* While the container is not empty, a chain that must grow finds a node   *)
(* in the scratch area: "Pending entries will be lost" does not happen.    *)
LEMMA RoomForPending ==
    ASSUME ChainInv, pc = "flushed", pending # <<>>, cp \in Nodes, valid[cp] = "inuse"
    PROVE  RoomToAttach
  <1> DEFINE k == Head(pending).key
  <1>1. k \in Keys /\ OnChain(k)
    BY HeadOfPending DEF ChainInv, Walk
  <1>2. Hash[k] \in Taken
    <2> HIDE DEF k
    <2>1. Hash[key[cp]] = Hash[k]
      BY <1>1, WithinChain
    <2>2. valid[Hash[key[cp]]] = "inuse"
      BY DEF ChainInv, Chains
    <2> QED
      BY <1>1, <2>1, <2>2, HashIsHead DEF Taken
  <1>3. Hash[k] \in Wanted
    BY WantedHead DEF ChainInv, Phased, Wanted
  <1>4. IsFiniteSet(Wanted) /\ Cardinality(Wanted) <= Len(pending)
    BY WantedBound DEF ChainInv, Phased, Wanted
  <1>5. Wanted \ Taken \subseteq Wanted \ {Hash[k]}
    BY <1>2
  <1>6. Cardinality(Wanted \ {Hash[k]}) = Cardinality(Wanted) - 1 /\ IsFiniteSet(Wanted \ {Hash[k]})
    BY <1>3, <1>4, FS_RemoveElement
  <1>7. /\ Cardinality(Wanted \ Taken) <= Cardinality(Wanted \ {Hash[k]})
        /\ IsFiniteSet(Wanted \ Taken)
    BY <1>5, <1>6, FS_Subset
  <1>8. Cardinality(Wanted \ Taken) \in Nat /\ Cardinality(Wanted) \in Nat
    BY <1>4, <1>7, FS_CardinalityType
  <1>9. Len(pending) + sa <= Spare + Cardinality(Wanted \ Taken)
    BY DEF ChainInv, Fits
  <1>10. sa < Spare /\ sa \in Nat /\ Len(pending) \in Nat
    <2>1. sa \in Nat /\ Len(pending) \in Nat /\ Spare \in Int
      BY CacheAssumption DEF ChainInv, CacheInv, Shape, Phased, Spare
    <2> HIDE DEF k
    <2> QED
      BY <1>4, <1>6, <1>7, <1>8, <1>9, <2>1
  <1> QED
    BY <1>10, CacheAssumption DEF Spare, RoomToAttach

(* The cursor of the next copy.                                            *)
LEMMA PendingWalk ==
    ASSUME pc' = "flushed", pending' = Tail(pending), cp' = Bucket(Tail(pending))
    PROVE  Walk'
  BY DEF Walk, OnChain, Bucket

(* A copy goes back to its bucket.                                         *)
LEMMA PendingFreeChain ==
    ASSUME ChainInv, PendingFree
    PROVE  Phased' /\ Placed' /\ Chains' /\ Walk' /\ Marks' /\ Fits'
  <1> DEFINE e == Head(pending)
  <1>1. /\ pc' = "flushed" /\ pc = "flushed" /\ valid[cp] # "inuse" /\ cp \in Nodes
        /\ pending # <<>> /\ pending' = Tail(pending) /\ cp' = Bucket(Tail(pending))
        /\ next' = [next EXCEPT ![cp] = NIL]
        /\ UNCHANGED <<marked, sa, work>>
        /\ UNCHANGED <<clock, writers, arrived, ledger>>
    BY DEF PendingFree, PlaceAt, Reinserting, InUse, ChainInv, CacheInv, Shape, Cursor
  <1>2. /\ e.key \in Keys /\ e.slot \in Slots /\ e.cnt \in Nat
        /\ Tail(pending) \in Seq(Counted)
    BY <1>1, HeadOfPending DEF ChainInv
  <1>3. OnChain(e.key)
    BY <1>1 DEF ChainInv, Walk
  <1>4. Occupy(cp, e.key, e.slot, e.cnt)
    BY DEF PendingFree, PlaceAt
  <1>5. \A m \in Nodes : next'[m] = next[m]
    <2>1. next[cp] = NIL
      BY <1>1, <1>2, <1>3, EmptyChain
    <2> QED
      BY <1>1, <2>1 DEF ChainInv, CacheInv, Shape
  <1>6. /\ Placed' /\ Chains' /\ Taken' = Taken \union {cp}
        /\ \A i \in 1 .. Len(queue') : slot'[queue'[i]] \in Slots
        /\ cp = Hash[e.key] /\ cp \notin Taken
    <2> HIDE DEF e
    <2> QED
      BY <1>1, <1>2, <1>3, <1>4, <1>5, TakeHead
  <1>7. Walk' /\ Marks'
    BY <1>1, PendingWalk DEF Marks
  <1>8. marked = 0 /\ marked' = 0 /\ Len(queue') \in Nat
    BY <1>1, <1>4 DEF ChainInv, CacheInv, Shape, Phased, Occupy
  <1>9. Phased'
    BY <1>1, <1>2, <1>6, <1>8 DEF ChainInv, Phased, clock, ledger
  <1>10. Fits'
    <2>1. pending \in Seq(Counted)
      BY DEF ChainInv, Phased
    <2>2. Wanted = Wanted' \union {cp}
      BY <1>1, <1>6, <2>1, WantedHead DEF Wanted
    <2>3. Wanted' \ Taken' = (Wanted \ Taken) \ {cp} /\ cp \in Wanted \ Taken
      BY <1>6, <2>2
    <2>4. IsFiniteSet(Wanted \ Taken)
      BY <2>1, WantedBound, FS_Subset DEF Wanted
    <2>5. Cardinality((Wanted \ Taken) \ {cp}) = Cardinality(Wanted \ Taken) - 1
      BY <2>3, <2>4, FS_RemoveElement
    <2>6. Cardinality(Wanted \ Taken) \in Nat
      BY <2>4, FS_CardinalityType
    <2>7. Len(pending') = Len(pending) - 1 /\ Len(pending) \in Nat
      BY <1>1, <2>1
    <2>8. sa \in Nat /\ Spare \in Nat
      BY CacheAssumption DEF ChainInv, CacheInv, Shape, Spare
    <2>9. Len(pending) + sa <= Spare + Cardinality(Wanted \ Taken)
      BY <1>1 DEF ChainInv, Fits
    <2>10. Len(pending') + sa' <= Spare + Cardinality(Wanted' \ Taken')
      <3>1. Cardinality(Wanted' \ Taken') = Cardinality((Wanted \ Taken) \ {cp})
        BY <2>3, Zenon
      <3> QED
        BY <1>1, <2>5, <2>6, <2>7, <2>8, <2>9, <3>1
    <2> QED
      BY <2>10 DEF Fits
  <1> QED
    BY <1>6, <1>7, <1>9, <1>10

(* A copy goes back to the end of its chain.                               *)
LEMMA PendingAttachChain ==
    ASSUME ChainInv, PendingAttach
    PROVE  /\ Phased' /\ Placed' /\ Chains' /\ Walk' /\ Marks' /\ Fits'
           /\ RoomToAttach
  <1> DEFINE e == Head(pending)
  <1>0. /\ pc = "flushed" /\ pending # <<>> /\ valid[cp] = "inuse" /\ cp \in Nodes
        /\ next[cp] = NIL
    BY DEF PendingAttach, Reinserting, InUse, ChainInv, CacheInv, Shape, Cursor
  <1>00. RoomToAttach
    BY <1>0, RoomForPending
  <1>1. /\ pc' = "flushed" /\ sa' = sa + 1
        /\ pending' = Tail(pending) /\ cp' = Bucket(Tail(pending))
        /\ next' = [[next EXCEPT ![cp] = NewNode] EXCEPT ![NewNode] = NIL]
        /\ UNCHANGED <<marked, work>>
        /\ UNCHANGED <<clock, writers, arrived, ledger>>
        /\ Occupy(NewNode, e.key, e.slot, e.cnt)
    BY <1>0, <1>00 DEF PendingAttach, PlaceAt
  <1>2. /\ e.key \in Keys /\ e.slot \in Slots /\ e.cnt \in Nat
        /\ Tail(pending) \in Seq(Counted)
    BY <1>0, HeadOfPending DEF ChainInv
  <1>3. OnChain(e.key)
    BY <1>0 DEF ChainInv, Walk
  <1>4. /\ NewNode \in Nodes
        /\ \A i \in 1 .. Len(queue) : queue[i] # NewNode
    BY <1>00, NewNodeFresh DEF ChainInv
  <1>5. NewNode # cp /\ next[NewNode] = NIL
    BY <1>0, <1>4 DEF ChainInv, CacheInv, Linked, AllQueued
  <1>6. /\ next' \in [Nodes -> Nodes \union {NIL}] /\ next'[cp] = NewNode
        /\ \A m \in Nodes : m # cp => next'[m] = next[m]
    BY <1>0, <1>1, <1>4, <1>5 DEF ChainInv, CacheInv, Shape
  <1>7. /\ Placed' /\ Chains' /\ Taken' = Taken /\ Hash[e.key] \in Taken
        /\ \A i \in 1 .. Len(queue') : slot'[queue'[i]] \in Slots
    <2> HIDE DEF e
    <2> QED
      BY <1>0, <1>00, <1>1, <1>2, <1>3, <1>6, TakeNew
  <1>8. Walk' /\ Marks'
    BY <1>1, PendingWalk DEF Marks
  <1>9. marked = 0 /\ marked' = 0 /\ Len(queue') \in Nat
    BY <1>0, <1>1, <1>4 DEF ChainInv, CacheInv, Shape, Phased, Occupy
  <1>10. sa' # 0 => sa' < Scratch
    BY <1>00, <1>1, CacheAssumption DEF RoomToAttach, ChainInv, CacheInv, Shape
  <1>11. Phased'
    BY <1>1, <1>2, <1>7, <1>9, <1>10 DEF ChainInv, Phased, clock, ledger
  <1>12. Fits'
    <2>1. pending \in Seq(Counted)
      BY DEF ChainInv, Phased
    <2>2. Wanted = Wanted' \union {Hash[e.key]}
      BY <1>0, <1>1, <2>1, WantedHead DEF Wanted
    <2>3. Wanted' \ Taken' = Wanted \ Taken
      BY <1>7, <2>2
    <2>4. IsFiniteSet(Wanted \ Taken)
      BY <2>1, WantedBound, FS_Subset DEF Wanted
    <2>5. Cardinality(Wanted \ Taken) \in Nat
      BY <2>4, FS_CardinalityType
    <2>6. Len(pending') = Len(pending) - 1 /\ Len(pending) \in Nat
      BY <1>0, <1>1, <2>1
    <2>7. sa \in Nat /\ Spare \in Nat
      BY CacheAssumption DEF ChainInv, CacheInv, Shape, Spare
    <2>8. Len(pending) + sa <= Spare + Cardinality(Wanted \ Taken)
      BY <1>0 DEF ChainInv, Fits
    <2>9. Len(pending') + sa' <= Spare + Cardinality(Wanted' \ Taken')
      <3>1. Cardinality(Wanted' \ Taken') = Cardinality(Wanted \ Taken)
        BY <2>3, Zenon
      <3>2. sa' = sa + 1
        BY <1>1
      <3> QED
        BY ONLY <3>2, <2>5, <2>6, <2>7, <2>8, <3>1
    <2> QED
      BY <2>9 DEF Fits
  <1> QED
    BY <1>00, <1>7, <1>8, <1>11, <1>12

(* Back to the records, or to the next one.                                *)
LEMMA ResumeChain ==
    ASSUME ChainInv, Resume
    PROVE  Phased' /\ Placed' /\ Chains' /\ Walk' /\ Marks' /\ Fits'
  <1>1. /\ pc' = "run" /\ pc = "flushed" /\ pending = <<>> /\ cp' = Bucket(work)
        /\ UNCHANGED <<key, slot, valid, next, queue, marked, sa, pending>>
        /\ UNCHANGED <<clock, writers, arrived, ledger>>
        /\ work' = IF work = <<>> THEN <<>> ELSE Retry(work)
    BY DEF Resume, nodes
  <1>2. Placed' /\ Chains' /\ Marks' /\ Fits'
    BY <1>1, SameTable, RunIsQuiet
  <1>3. Phased'
    BY <1>1 DEF ChainInv, Phased, clock, ledger
  <1>4. Walk'
    <2> SUFFICES ASSUME work # <<>> PROVE Head(work').key = Head(work).key
      BY <1>1 DEF Walk, OnChain, Bucket
    <2> DEFINE i == Head(work)
               a == Insertion(i.key, i.len, i.from, i.to)
               z == Insertion(Zero, i.len, i.from, i.to)
               r == IF SumHost THEN <<z>> ELSE <<>>
    <2>1. work' = <<a>> \o r \o Tail(work) /\ a.key = i.key
      BY <1>1 DEF Retry, Insertion
    <2>2. Tail(work) \in Seq(Insertions)
      BY DEF ChainInv, CacheInv, Shape
    <2> HIDE DEF a, z
    <2>0. r \in Seq({z})
      <3>1. <<z>> \in Seq({z}) /\ <<>> \in Seq({z})
        OBVIOUS
      <3> QED
        BY <3>1
    <2> HIDE DEF r
    <2>3. Head(work') = a
      <3>1. Tail(work) \in Seq(Insertions \union {a, z}) /\ r \in Seq(Insertions \union {a, z})
        BY <2>0, <2>2
      <3>2. <<a>> \o r \in Seq(Insertions \union {a, z}) /\ (<<a>> \o r)[1] = a
            /\ Len(<<a>> \o r) >= 1
        BY <3>1
      <3> QED
        BY <2>1, <3>1, <3>2
    <2> QED
      BY <2>1, <2>3
  <1> QED
    BY <1>2, <1>3, <1>4

(* The clock, a writer's end, the exit handler.                            *)
LEMMA OtherChain ==
    ASSUME ChainInv, Roll \/ WriterEnds \/ Exit
    PROVE  Phased' /\ Placed' /\ Chains' /\ Walk' /\ Marks' /\ Fits'
  <1>1. CASE Roll
    <2>1. /\ pc' = "run" /\ pc = "run" /\ work = <<>> /\ work' = <<>>
          /\ UNCHANGED <<key, slot, valid, next, queue, marked, sa, pending>>
          /\ UNCHANGED <<writers, arrived, ledger>>
          /\ newbase' = basetime /\ basetime' \in Slots
      BY <1>1, CacheAssumption DEF Roll, nodes, ChainInv, Phased, Slots
    <2>2. Placed' /\ Chains' /\ Marks' /\ Fits' /\ Walk'
      BY <2>1, SameTable, RunIsQuiet DEF Walk
    <2>3. Phased'
      BY <2>1 DEF ChainInv, Phased, ledger
    <2> QED
      BY <2>2, <2>3
  <1>2. CASE WriterEnds
    <2>1. /\ UNCHANGED <<key, slot, cnt, valid, next, queue, marked, sa, pending, work, cp, pc>>
          /\ UNCHANGED <<clock, arrived, ledger>>
          /\ writers' \in 0 .. MaxWriters
      BY <1>2, CacheAssumption DEF WriterEnds, nodes, ChainInv, Phased
    <2>2. Placed' /\ Chains' /\ Taken' = Taken
      BY <2>1, SameTable
    <2>3. Phased'
      BY <2>1 DEF ChainInv, Phased, ledger, clock
    <2>4. Walk'
      BY <2>1 DEF ChainInv, Walk, OnChain
    <2>5. Marks'
      <3>1. Copied' = Copied
        BY <2>1 DEF Copied
      <3> QED
        BY <2>1, <3>1 DEF ChainInv, Marks, IsPending, CommitBase, Entry, clock
    <2>6. Fits'
      <3>1. Wanted' = Wanted
        BY <2>1 DEF Wanted, WantedBy
      <3> QED
        BY <2>1, <2>2, <3>1 DEF ChainInv, Fits
    <2> QED
      BY <2>2, <2>3, <2>4, <2>5, <2>6
  <1>3. CASE Exit
    <2>1. /\ pc' = "exited" /\ UNCHANGED <<key, slot, cnt, next, queue, marked, sa, pending>>
          /\ UNCHANGED <<clock, writers, arrived, given>>
      BY <1>3 DEF Exit
    <2>2. Placed' /\ Chains' /\ Walk' /\ Marks' /\ Fits'
      BY <2>1 DEF ChainInv, Placed, Chains, Walk, Marks, Fits
    <2>3. /\ Credit(written, Queued) \in [Keys \X Slots -> Nat]
          /\ Credit(lost, Queued) \in [Keys \X Slots -> Nat]
      BY QueuedNodes, CreditType DEF ChainInv, Phased
    <2>4. written' \in [Keys \X Slots -> Nat] /\ lost' \in [Keys \X Slots -> Nat]
      BY <1>3, <2>3 DEF Exit, ChainInv, Phased
    <2>5. Phased'
      BY <2>1, <2>4 DEF ChainInv, Phased, clock
    <2> QED
      BY <2>2, <2>5
  <1> QED
    BY <1>1, <1>2, <1>3

(* Every step keeps the chains.                                            *)
LEMMA ChainStep == ChainInv /\ [Next]_vars => ChainInv'
  <1> SUFFICES ASSUME ChainInv, [Next]_vars PROVE ChainInv'
    OBVIOUS
  <1>1. CacheInv'
    BY NextKeeps DEF ChainInv
  <1>2. ASSUME NEW calls \in Calls, NEW from \in Slots, NEW to \in Slots,
               Arrive(calls, from, to)
        PROVE  ChainInv'
    BY <1>1, <1>2, ArriveChain DEF ChainInv
  <1>3. CASE PluginStep
    <2>1. Phased' /\ Placed' /\ Chains' /\ Walk' /\ Marks' /\ Fits'
      BY <1>1, <1>3, HopChain, SumChain, TakeFreeChain, AttachChain, BeginChain,
         MarkChain, ForkChain, FlushChain, PendingFreeChain, PendingAttachChain,
         ResumeChain
      DEF PluginStep
    <2> QED
      BY <1>1, <2>1 DEF ChainInv
  <1>4. CASE FlushEvent \/ Roll \/ WriterEnds \/ Exit
    <2>1. Phased' /\ Placed' /\ Chains' /\ Walk' /\ Marks' /\ Fits'
      BY <1>4, BeginChain, OtherChain
    <2> QED
      BY <1>1, <2>1 DEF ChainInv
  <1>5. CASE Exited \/ UNCHANGED vars
    <2>1. UNCHANGED vars
      BY <1>5 DEF Exited
    <2>2. Phased' /\ Placed' /\ Chains' /\ Walk'
      BY <2>1 DEF vars, nodes, clock, ledger, ChainInv, Phased, Placed, Chains, ChainAt,
                  Walk, OnChain
    <2>3. Copied' = Copied /\ Wanted' = Wanted /\ Taken' = Taken
      BY <2>1 DEF vars, nodes, Copied, Wanted, WantedBy, Taken
    <2>4. Marks' /\ Fits'
      BY <2>1, <2>3 DEF vars, nodes, clock, ChainInv, Marks, Fits, IsPending, CommitBase,
                        Entry
    <2> QED
      BY <1>1, <2>2, <2>4 DEF ChainInv
  <1> QED
    BY <1>2, <1>3, <1>4, <1>5 DEF Next

-----------------------------------------------------------------------------
(* A search that starts at its bucket has passed nothing.                  *)
LEMMA PassedAtStart ==
    ASSUME CacheInv', Placed', pc' = "run",
           work' # <<>> => Head(work').key \in Keys /\ cp' = Hash[Head(work').key]
    PROVE  Passed'
  <1> SUFFICES ASSUME work' # <<>>, NEW n \in Nodes, n < cp', valid'[n] = "inuse"
               PROVE  key'[n] # Head(work').key
    BY DEF Passed, Matches
  <1>1. cp' \in 1 .. Buckets
    BY HashIsHead
  <1>2. n \in Heads
    BY <1>1, CacheAssumption DEF Nodes, Heads
  <1>3. PICK i \in 1 .. Len(queue') : queue'[i] = n
    BY DEF CacheInv, AllQueued
  <1>4. Hash[key'[n]] = n
    BY <1>2, <1>3 DEF Placed
  <1> QED
    BY <1>4, CacheAssumption, <1>1 DEF Nodes

(* The next record, without pro-rating.                                    *)
LEMMA NextRecord ==
    ASSUME ChainInv, OneBin, work # <<>>, NEW n, InsertedAt(n)
    PROVE  /\ OneBin' /\ work' = Tail(work)
           /\ work' # <<>> => Head(work').key \in Keys /\ cp' = Hash[Head(work').key]
  <1>1. work \in Seq(Insertions) /\ Tail(work) \in Seq(Insertions) /\ Head(work) = work[1]
    BY DEF ChainInv, CacheInv, Shape
  <1>2. Head(work) \in Insertions /\ Len(work) \in Nat \ {0}
    BY <1>1
  <1>3. ~(Head(work).slot < Head(work).to)
    <2>1. Head(work).slot = Head(work).to
      BY <1>1, <1>2 DEF OneBin
    <2>2. Head(work).to \in Int
      BY <1>2, CacheAssumption DEF Insertions, Slots
    <2> QED
      BY <2>1, <2>2
  <1>4. work' = Tail(work) /\ cp' = Bucket(Tail(work))
    BY <1>3 DEF InsertedAt
  <1>5. OneBin'
    <2> SUFFICES ASSUME NEW i \in 1 .. Len(work')
                 PROVE  work'[i].slot = work'[i].from /\ work'[i].to = work'[i].from
      BY DEF OneBin
    <2>1. i + 1 \in 1 .. Len(work) /\ work'[i] = work[i + 1]
      BY <1>1, <1>2, <1>4
    <2> QED
      BY <2>1 DEF OneBin
  <1>6. ASSUME work' # <<>> PROVE Head(work').key \in Keys /\ cp' = Hash[Head(work').key]
    <2>1. Head(work') \in Insertions
      BY <1>1, <1>4, <1>6
    <2> QED
      BY <1>4, <1>6, <2>1 DEF Insertions, Bucket
  <1> QED
    BY <1>4, <1>5, <1>6

(* A new entry is queued where there was none of its key and time-bin.     *)
LEMMA DistinctOccupy ==
    ASSUME ChainInv, Distinct, pc \in {"run", "flushed"}, pc' = pc,
           NEW n \in Nodes, valid[n] # "inuse",
           NEW k \in Keys, NEW s \in Slots, NEW c \in Nat, Occupy(n, k, s, c),
           \A m \in Nodes : valid[m] = "inuse" => ~(key[m] = k /\ slot[m] = s)
    PROVE  /\ \A i, j \in 1 .. Len(queue') :
                key'[queue'[i]] = key'[queue'[j]] /\ slot'[queue'[i]] = slot'[queue'[j]]
                  => i = j
           /\ \A j \in 1 .. Len(queue') :
                \/ j \in 1 .. Len(queue) /\ key'[queue'[j]] = key[queue[j]]
                   /\ slot'[queue'[j]] = slot[queue[j]]
                \/ key'[queue'[j]] = k /\ slot'[queue'[j]] = s
  <1>1. CacheInv /\ s \in Slots \union {0}
    BY DEF ChainInv
  <1>2. \A i \in 1 .. Len(queue) : /\ queue[i] # n /\ queue[i] \in Nodes
                                   /\ ~(key[queue[i]] = k /\ slot[queue[i]] = s)
    BY <1>1, InUseIsQueued
  <1>3. /\ Len(queue') = Len(queue) + 1
        /\ \A i \in 1 .. Len(queue) : queue'[i] = queue[i]
        /\ queue'[Len(queue) + 1] = n
    BY <1>1, <1>2, OccupyKeeps
  <1>4. /\ key'[n] = k /\ slot'[n] = s
        /\ \A m \in Nodes : m # n => key'[m] = key[m] /\ slot'[m] = slot[m]
    BY <1>1 DEF Occupy, CacheInv, Shape
  <1>5. Len(queue) \in Nat
    BY <1>1 DEF CacheInv, Shape
  <1>6. \A j \in 1 .. Len(queue') :
                \/ j \in 1 .. Len(queue) /\ key'[queue'[j]] = key[queue[j]]
                   /\ slot'[queue'[j]] = slot[queue[j]]
                \/ j = Len(queue) + 1 /\ key'[queue'[j]] = k /\ slot'[queue'[j]] = s
    BY <1>2, <1>3, <1>4, <1>5
  <1>7. ASSUME NEW i \in 1 .. Len(queue'), NEW j \in 1 .. Len(queue'),
               key'[queue'[i]] = key'[queue'[j]], slot'[queue'[i]] = slot'[queue'[j]]
        PROVE  i = j
    BY <1>2, <1>6, <1>7 DEF Distinct
  <1> QED
    BY <1>6, <1>7

(* Records arrive and are searched for.                                    *)
LEMMA ArriveSearch ==
    ASSUME ChainInv, ChainInv', SearchInv, ~ProRating,
           NEW calls \in Calls, NEW from \in Slots, NEW to \in Slots,
           Arrive(calls, from, to)
    PROVE  SearchInv'
  <1>1. PICK m \in {1, 2} : DOMAIN calls = 1 .. m /\ calls \in [1 .. m -> Keys]
    <2>1. CASE SumHost
      <3>1. PICK a \in Keys, b \in Keys : calls = <<a, b>>
        BY <2>1 DEF Calls
      <3> QED
        BY <3>1
    <2>2. CASE ~SumHost
      <3>1. PICK k \in Keys : calls = <<k>>
        BY <2>2 DEF Calls
      <3> QED
        BY <3>1
    <2> QED
      BY <2>1, <2>2
  <1>2. /\ pc' = "run" /\ UNCHANGED <<key, slot, queue, pending, marked>>
        /\ cp' = Hash[calls[1]] /\ from = to
        /\ work' = [i \in DOMAIN calls |-> Insertion(calls[i], Unit * (to - from + 1), from, to)]
    BY DEF Arrive, nodes
  <1>3. work' \in Seq(Insertions) /\ Len(work') = m /\ Head(work') = work'[1]
    <2>1. work' \in Seq(Insertions) /\ DOMAIN work' = 1 .. m
      BY <1>1, <1>2 DEF ChainInv, CacheInv, Shape
    <2> QED
      BY <2>1
  <1>4. Head(work').key \in Keys /\ cp' = Hash[Head(work').key]
    BY <1>1, <1>2, <1>3 DEF Insertion
  <1>5. Passed'
    BY <1>2, <1>4, PassedAtStart DEF ChainInv
  <1>6. OneBin'
    BY <1>1, <1>2, <1>3 DEF OneBin, Insertion
  <1>7. Distinct'
    BY <1>2 DEF SearchInv, Distinct, Twins
  <1> QED
    BY <1>5, <1>6, <1>7 DEF SearchInv

(* One node further, and that node was another entry's.                    *)
LEMMA HopSearch ==
    ASSUME ChainInv, SearchInv, Hop
    PROVE  SearchInv'
  <1> DEFINE k == Head(work).key
  <1>1. /\ pc' = "run" /\ pc = "run" /\ work # <<>> /\ cp \in Nodes
        /\ valid[cp] = "inuse" /\ ~Matches(cp) /\ next[cp] # NIL /\ cp' = next[cp]
        /\ UNCHANGED <<key, slot, valid, queue, pending, work, marked>>
    BY DEF Hop, Inserting, InUse, nodes, ChainInv, CacheInv, Shape, Cursor
  <1>2. k \in Keys /\ OnChain(k)
    BY <1>1, HeadOfWork DEF ChainInv, Walk
  <1>3. Hash[key[cp]] = Hash[k]
    <2> HIDE DEF k
    <2> QED
      BY <1>1, <1>2, WithinChain
  <1>4. ChainAt(cp)
    BY <1>1 DEF ChainInv, Chains
  <1>5. ASSUME NEW n \in Nodes, n < cp', valid'[n] = "inuse" PROVE ~Matches(n)'
    <2>1. CASE n < cp
      BY <1>1, <1>5, <2>1 DEF SearchInv, Passed, Matches
    <2>2. CASE n = cp
      BY <1>1, <2>2 DEF Matches
    <2>3. CASE n > cp
      BY <1>1, <1>3, <1>4, <1>5, <2>3 DEF ChainAt, Matches
    <2> QED
      BY <1>1, <2>1, <2>2, <2>3, CacheAssumption DEF Nodes
  <1>6. Passed'
    BY <1>5 DEF Passed
  <1>7. OneBin' /\ Distinct'
    BY <1>1 DEF SearchInv, OneBin, Distinct, Twins
  <1> QED
    BY <1>6, <1>7 DEF SearchInv

(* The record was added to its own entry.                                  *)
LEMMA SumSearch ==
    ASSUME ChainInv, ChainInv', SearchInv, SumCounters
    PROVE  SearchInv'
  <1>1. /\ pc' = "run" /\ work # <<>> /\ InsertedAt(cp)
        /\ UNCHANGED <<key, slot, valid, queue, pending, marked>>
    BY DEF SumCounters, Inserting
  <1>2. /\ OneBin'
        /\ work' # <<>> => Head(work').key \in Keys /\ cp' = Hash[Head(work').key]
    BY <1>1, NextRecord DEF SearchInv
  <1>3. Passed'
    BY <1>1, <1>2, PassedAtStart DEF ChainInv
  <1>4. Distinct'
    BY <1>1 DEF SearchInv, Distinct, Twins
  <1> QED
    BY <1>2, <1>3, <1>4 DEF SearchInv

(* An insertion into a node that was not in use.                           *)
LEMMA InsertSearch ==
    ASSUME ChainInv, ChainInv', SearchInv, pc = "run", pc' = "run", work # <<>>,
           NEW n \in Nodes, valid[n] # "inuse", InsertedAt(n), pending' = pending,
           Occupy(n, Head(work).key, Head(work).slot, Share(Head(work))),
           \A m \in Nodes : valid[m] = "inuse" => ~Matches(m)
    PROVE  SearchInv'
  <1> DEFINE h == Head(work)
  <1>1. /\ OneBin'
        /\ work' # <<>> => Head(work').key \in Keys /\ cp' = Hash[Head(work').key]
    BY NextRecord DEF SearchInv
  <1>2. Passed'
    BY <1>1, PassedAtStart DEF ChainInv
  <1>3. h.key \in Keys /\ h.slot \in Slots /\ Share(h) \in Nat
    BY HeadOfWork DEF ChainInv
  <1>4. \A m \in Nodes : valid[m] = "inuse" => ~(key[m] = h.key /\ slot[m] = h.slot)
    BY DEF Matches
  <1>5. Occupy(n, h.key, h.slot, Share(h))
    OBVIOUS
  <1>6. pending = <<>>
    BY DEF ChainInv, Phased
  <1> HIDE DEF h
  <1>7. \A i, j \in 1 .. Len(queue') :
          key'[queue'[i]] = key'[queue'[j]] /\ slot'[queue'[i]] = slot'[queue'[j]] => i = j
    BY <1>3, <1>4, <1>5, DistinctOccupy DEF SearchInv
  <1>8. Distinct'
    BY <1>6, <1>7 DEF Distinct
  <1> QED
    BY <1>1, <1>2, <1>8 DEF SearchInv

(* The record found no entry of its own and takes its bucket.              *)
LEMMA TakeFreeSearch ==
    ASSUME ChainInv, ChainInv', SearchInv, TakeFree
    PROVE  SearchInv'
  <1> DEFINE k == Head(work).key
  <1>1. /\ pc' = "run" /\ pc = "run" /\ work # <<>> /\ cp \in Nodes
        /\ valid[cp] # "inuse" /\ InsertedAt(cp) /\ pending' = pending
        /\ Occupy(cp, Head(work).key, Head(work).slot, Share(Head(work)))
    BY DEF TakeFree, Inserting, InUse, ChainInv, CacheInv, Shape, Cursor
  <1>2. k \in Keys /\ OnChain(k)
    BY <1>1, HeadOfWork DEF ChainInv, Walk
  <1>3. \A m \in Nodes : valid[m] = "inuse" => Hash[key[m]] # Hash[k]
    <2> HIDE DEF k
    <2> QED
      BY <1>1, <1>2, EmptyChain
  <1>4. \A m \in Nodes : valid[m] = "inuse" => ~Matches(m)
    BY <1>3 DEF Matches
  <1> QED
    BY <1>1, <1>4, InsertSearch

(* The record found no entry of its own on its whole chain.                *)
LEMMA AttachSearch ==
    ASSUME ChainInv, ChainInv', SearchInv, Attach
    PROVE  SearchInv'
  <1> DEFINE k == Head(work).key
             n == NewNode
  <1>1. /\ pc' = "run" /\ pc = "run" /\ work # <<>> /\ cp \in Nodes
        /\ valid[cp] = "inuse" /\ ~Matches(cp) /\ next[cp] = NIL
        /\ InsertedAt(n) /\ pending' = pending
        /\ Occupy(n, Head(work).key, Head(work).slot, Share(Head(work)))
    BY DEF Attach, Inserting, InUse, ChainInv, CacheInv, Shape, Cursor
  <1>2. k \in Keys /\ OnChain(k)
    BY <1>1, HeadOfWork DEF ChainInv, Walk
  <1>3. Hash[key[cp]] = Hash[k]
    <2> HIDE DEF k
    <2> QED
      BY <1>1, <1>2, WithinChain
  <1>4. ChainAt(cp)
    BY <1>1 DEF ChainInv, Chains
  <1>5. ASSUME NEW m \in Nodes, valid[m] = "inuse" PROVE ~Matches(m)
    <2>1. CASE m < cp
      BY <1>1, <1>5, <2>1 DEF SearchInv, Passed
    <2>2. CASE m = cp
      BY <1>1, <2>2
    <2>3. CASE m > cp
      BY <1>1, <1>3, <1>4, <1>5, <2>3 DEF ChainAt, Matches
    <2> QED
      BY <1>1, <2>1, <2>2, <2>3, CacheAssumption DEF Nodes
  <1>6. n \in Nodes /\ valid[n] # "inuse"
    BY NewNodeFresh DEF Attach, ChainInv, CacheInv, AllQueued
  <1> HIDE DEF n
  <1> QED
    BY <1>1, <1>5, <1>6, InsertSearch

(* A purge copies distinct entries.                                        *)
LEMMA BeginSearch ==
    ASSUME ChainInv, SearchInv, Full \/ FlushEvent
    PROVE  SearchInv'
  <1>1. /\ pc' = "marking" /\ pc = "run" /\ UNCHANGED <<key, slot, queue, pending, marked>>
    BY DEF Full, FlushEvent, Inserting, nodes
  <1>2. pending = <<>>
    BY <1>1 DEF ChainInv, Phased
  <1>3. Passed' /\ Distinct'
    BY <1>1, <1>2 DEF SearchInv, Passed, Distinct
  <1>4. OneBin'
    <2>1. CASE FlushEvent
      BY <2>1 DEF FlushEvent, SearchInv, OneBin
    <2>2. CASE Full
      <3> DEFINE h == Head(work)
                 i == [h EXCEPT !.len = Share(h)]
      <3>1. work # <<>> /\ h = work[1] /\ work \in Seq(Insertions)
        BY <2>2 DEF Full, Inserting, ChainInv, CacheInv, Shape
      <3>2. h \in Insertions
        BY <3>1
      <3>3. i.slot = h.slot /\ i.from = h.from /\ i.to = h.to
        <4> HIDE DEF h
        <4> QED
          BY <3>2 DEF Insertions
      <3>4. work' = [work EXCEPT ![1] = i]
        BY <2>2, <3>1 DEF Full
      <3> HIDE DEF i
      <3>5. Len(work') = Len(work) /\ \A j \in 1 .. Len(work) : work'[j] = IF j = 1 THEN i ELSE work[j]
        BY <3>1, <3>4
      <3> QED
        BY <3>1, <3>3, <3>5 DEF SearchInv, OneBin
    <2> QED
      BY <2>1, <2>2
  <1> QED
    BY <1>3, <1>4 DEF SearchInv

(* A copy in the container and a node still to mark are not of the same    *)
(* entry.                                                                  *)
LEMMA MarkSearch ==
    ASSUME ChainInv, SearchInv, MarkFlush
    PROVE  SearchInv'
  <1> DEFINE n == queue[marked + 1]
  <1>1. /\ pc = "marking" /\ pc' = "marking" /\ marked < Len(queue)
        /\ marked' = marked + 1 /\ UNCHANGED <<key, slot, queue, work>>
        /\ pending' = pending \/ pending' = Append(pending, Entry(n))
    BY DEF MarkFlush
  <1>2. /\ marked \in Nat /\ Len(queue) \in Nat /\ marked + 1 \in 1 .. Len(queue)
        /\ pending \in Seq(Counted)
    BY <1>1 DEF ChainInv, CacheInv, Shape, Phased
  <1>3. OneBin' /\ Passed'
    BY <1>1 DEF SearchInv, OneBin, Passed
  <1>4. Entry(n).key = key[n] /\ Entry(n).slot = slot[n]
    BY DEF Entry
  <1>5. CASE pending' = pending
    <2>1. \A j \in 1 .. Len(queue) : j > marked' => j > marked
      BY <1>1, <1>2
    <2> QED
      BY <1>1, <1>3, <1>5, <2>1 DEF SearchInv, Distinct, Twins
  <1>6. CASE pending' = Append(pending, Entry(n))
    <2>1. /\ Len(pending') = Len(pending) + 1 /\ Len(pending) \in Nat
          /\ \A j \in 1 .. Len(pending) : pending'[j] = pending[j]
          /\ pending'[Len(pending) + 1] = Entry(n)
      BY <1>2, <1>6
    <2>2. \A j \in 1 .. Len(pending) : ~(pending[j].key = key[n] /\ pending[j].slot = slot[n])
      <3>1. marked + 1 > marked
        BY <1>2
      <3> QED
        BY <1>1, <1>2, <3>1 DEF SearchInv, Distinct, Twins
    <2>3. ASSUME NEW j \in 1 .. Len(queue'), j > marked'
          PROVE  j \in 1 .. Len(queue) /\ j > marked /\ j # marked + 1
                 /\ ~(key[queue[j]] = key[n] /\ slot[queue[j]] = slot[n])
      <3>1. j \in 1 .. Len(queue) /\ j > marked /\ j # marked + 1
        BY <1>1, <1>2, <2>3
      <3> QED
        BY <1>2, <3>1 DEF SearchInv, Distinct
    <2>4. \A j \in 1 .. Len(pending') : \/ j \in 1 .. Len(pending) /\ pending'[j] = pending[j]
                                        \/ j = Len(pending) + 1 /\ pending'[j] = Entry(n)
      BY <2>1
    <2> HIDE DEF n
    <2>5. ASSUME NEW i \in 1 .. Len(pending'), NEW j \in 1 .. Len(pending'),
                 pending'[i].key = pending'[j].key, pending'[i].slot = pending'[j].slot
          PROVE  i = j
      BY <1>4, <2>2, <2>4, <2>5 DEF SearchInv, Distinct
    <2>6. ASSUME NEW i \in 1 .. Len(pending'), NEW j \in 1 .. Len(queue'), j > marked'
          PROVE  ~Twins(pending[i], queue[j])'
      BY <1>1, <1>4, <2>3, <2>4, <2>6 DEF SearchInv, Distinct, Twins
    <2>7. Distinct'
      BY <1>1, <2>5, <2>6 DEF SearchInv, Distinct
    <2> QED
      BY <1>3, <2>7 DEF SearchInv
  <1> QED
    BY <1>1, <1>5, <1>6

(* A copy that is put back is not in the cache yet.                        *)
LEMMA PlaceSearch ==
    ASSUME ChainInv, SearchInv, pc = "flushed", pc' = "flushed", pending # <<>>,
           NEW n \in Nodes, valid[n] # "inuse", pending' = Tail(pending), work' = work,
           Occupy(n, Head(pending).key, Head(pending).slot, Head(pending).cnt)
    PROVE  SearchInv'
  <1> DEFINE e == Head(pending)
  <1>1. e.key \in Keys /\ e.slot \in Slots /\ e.cnt \in Nat
    BY HeadOfPending DEF ChainInv
  <1>2. /\ pending \in Seq(Counted) /\ e = pending[1] /\ Len(pending) \in Nat \ {0}
        /\ Len(pending') = Len(pending) - 1
        /\ \A j \in 1 .. Len(pending') : pending'[j] = pending[j + 1]
                                         /\ j + 1 \in 1 .. Len(pending) /\ j + 1 # 1
    BY DEF ChainInv, Phased
  <1>3. \A m \in Nodes : valid[m] = "inuse" => ~(key[m] = e.key /\ slot[m] = e.slot)
    <2> SUFFICES ASSUME NEW m \in Nodes, valid[m] = "inuse"
                 PROVE  ~(key[m] = e.key /\ slot[m] = e.slot)
      OBVIOUS
    <2>1. PICK j \in 1 .. Len(queue) : queue[j] = m
      BY InUseIsQueued DEF ChainInv
    <2>2. 1 \in 1 .. Len(pending)
      BY <1>2
    <2> QED
      BY <1>2, <2>1, <2>2 DEF SearchInv, Distinct, Twins
  <1>4. Occupy(n, e.key, e.slot, e.cnt)
    OBVIOUS
  <1> HIDE DEF e
  <1>5. /\ \A i, j \in 1 .. Len(queue') :
             key'[queue'[i]] = key'[queue'[j]] /\ slot'[queue'[i]] = slot'[queue'[j]]
               => i = j
        /\ \A j \in 1 .. Len(queue') :
             \/ j \in 1 .. Len(queue) /\ key'[queue'[j]] = key[queue[j]]
                /\ slot'[queue'[j]] = slot[queue[j]]
             \/ key'[queue'[j]] = e.key /\ slot'[queue'[j]] = e.slot
    <2>1. Distinct /\ pc \in {"run", "flushed"} /\ pc' = pc
      BY DEF SearchInv
    <2> QED
      BY <1>1, <1>3, <1>4, <2>1, DistinctOccupy
  <1>6. ASSUME NEW i \in 1 .. Len(pending'), NEW j \in 1 .. Len(pending'),
               pending'[i].key = pending'[j].key, pending'[i].slot = pending'[j].slot
        PROVE  i = j
    <2>1. i + 1 = j + 1
      BY <1>2, <1>6 DEF SearchInv, Distinct
    <2> QED
      BY <1>2, <2>1
  <1>7. ASSUME NEW i \in 1 .. Len(pending'), NEW j \in 1 .. Len(queue')
        PROVE  ~Twins(pending[i], queue[j])'
    <2>1. pending'[i] = pending[i + 1] /\ i + 1 \in 1 .. Len(pending) /\ i + 1 # 1
      BY <1>2
    <2>2. ~(pending[i + 1].key = e.key /\ pending[i + 1].slot = e.slot)
      <3>1. 1 \in 1 .. Len(pending)
        BY <1>2
      <3> QED
        BY <1>2, <2>1, <3>1 DEF SearchInv, Distinct
    <2>3. CASE j \in 1 .. Len(queue) /\ key'[queue'[j]] = key[queue[j]]
               /\ slot'[queue'[j]] = slot[queue[j]]
      <3>1. ~Twins(pending[i + 1], queue[j])
        BY <2>1, <2>3 DEF SearchInv, Distinct
      <3> QED
        BY <2>1, <2>3, <3>1 DEF Twins
    <2>4. CASE key'[queue'[j]] = e.key /\ slot'[queue'[j]] = e.slot
      BY <2>1, <2>2, <2>4 DEF Twins
    <2> QED
      BY <1>5, <2>3, <2>4
  <1>8. Distinct'
    BY <1>5, <1>6, <1>7 DEF Distinct
  <1>9. OneBin' /\ Passed'
    BY DEF SearchInv, OneBin, Passed
  <1> QED
    BY <1>8, <1>9 DEF SearchInv

(* A copy put back is the only entry of its key and time-bin.              *)
LEMMA PendingSearch ==
    ASSUME ChainInv, SearchInv, PendingFree \/ PendingAttach
    PROVE  SearchInv'
  <1>1. CASE PendingFree
    <2>1. /\ pc = "flushed" /\ pc' = "flushed" /\ pending # <<>> /\ cp \in Nodes
          /\ valid[cp] # "inuse" /\ pending' = Tail(pending) /\ work' = work
          /\ Occupy(cp, Head(pending).key, Head(pending).slot, Head(pending).cnt)
      BY <1>1 DEF PendingFree, PlaceAt, Reinserting, InUse, ChainInv, CacheInv, Shape, Cursor
    <2> QED
      BY <2>1, PlaceSearch
  <1>2. CASE PendingAttach
    <2> DEFINE n == NewNode
    <2>1. RoomToAttach
      BY <1>2, PendingAttachChain
    <2>2. /\ pc = "flushed" /\ pc' = "flushed" /\ pending # <<>>
          /\ pending' = Tail(pending) /\ work' = work
          /\ Occupy(n, Head(pending).key, Head(pending).slot, Head(pending).cnt)
      BY <1>2, <2>1 DEF PendingAttach, PlaceAt, Reinserting
    <2>3. n \in Nodes /\ valid[n] # "inuse"
      BY <2>1, NewNodeFresh DEF ChainInv, CacheInv, AllQueued
    <2> HIDE DEF n
    <2> QED
      BY <2>2, <2>3, PlaceSearch
  <1> QED
    BY <1>1, <1>2

(* A sequence whose elements are in T is a sequence over T.                *)
LEMMA SeqInto ==
    ASSUME NEW S, NEW T, NEW s \in Seq(S), \A i \in 1 .. Len(s) : s[i] \in T
    PROVE  s \in Seq(T)
  <1>1. s \in [1 .. Len(s) -> T] /\ Len(s) \in Nat
    OBVIOUS
  <1> QED
    BY <1>1

(* The retry searches for the same record again.                           *)
LEMMA ResumeSearch ==
    ASSUME ChainInv, ChainInv', SearchInv, Resume
    PROVE  SearchInv'
  <1>1. /\ pc' = "run" /\ pc = "flushed" /\ cp' = Bucket(work)
        /\ UNCHANGED <<key, slot, queue, pending, marked>>
        /\ work' = IF work = <<>> THEN <<>> ELSE Retry(work)
    BY DEF Resume, nodes
  <1>2. Distinct'
    BY <1>1 DEF SearchInv, Distinct
  <1>3. CASE work = <<>>
    <2>1. OneBin' /\ Passed'
      BY <1>1, <1>3 DEF OneBin, Passed
    <2> QED
      BY <1>2, <2>1 DEF SearchInv
  <1>4. CASE work # <<>>
    <2> DEFINE i == Head(work)
               a == Insertion(i.key, i.len, i.from, i.to)
               z == Insertion(Zero, i.len, i.from, i.to)
               r == IF SumHost THEN <<z>> ELSE <<>>
    <2>1. work' = <<a>> \o r \o Tail(work)
      BY <1>1, <1>4 DEF Retry
    <2>2. /\ work \in Seq(Insertions) /\ Tail(work) \in Seq(Insertions) /\ i \in Insertions
          /\ i = work[1] /\ Len(work) \in Nat \ {0}
          /\ Len(Tail(work)) = Len(work) - 1
          /\ \A j \in 1 .. Len(Tail(work)) : Tail(work)[j] = work[j + 1]
      BY <1>4 DEF ChainInv, CacheInv, Shape
    <2>3. i.to = i.from /\ i.key \in Keys
      BY <2>2 DEF SearchInv, OneBin, Insertions
    <2>4. /\ a.slot = a.from /\ a.to = a.from /\ z.slot = z.from /\ z.to = z.from
          /\ a.key = i.key /\ a \in Insertions /\ z \in Insertions
      <3> HIDE DEF i
      <3> QED
        BY <2>2, <2>3, CacheAssumption DEF Insertion, Insertions
    <2> HIDE DEF a, z
    <2> DEFINE G == {x \in Insertions : x.slot = x.from /\ x.to = x.from}
    <2>5. Tail(work) \in Seq(G)
      <3>1. \A j \in 1 .. Len(Tail(work)) : Tail(work)[j] \in G
        BY <2>2 DEF SearchInv, OneBin
      <3> HIDE DEF G
      <3> QED
        BY <2>2, <3>1, SeqInto
    <2>6. a \in G /\ z \in G
      BY <2>4
    <2> HIDE DEF G
    <2>7. <<a>> \in Seq(G) /\ r \in Seq(G)
      <3>1. <<z>> \in Seq(G) /\ <<>> \in Seq(G) /\ <<a>> \in Seq(G)
        BY <2>6
      <3> QED
        BY <3>1
    <2> HIDE DEF r
    <2>8. work' \in Seq(G) /\ Head(work') = a
      <3>1. <<a>> \o r \in Seq(G) /\ (<<a>> \o r)[1] = a /\ Len(<<a>> \o r) >= 1
        BY <2>7
      <3> QED
        BY <2>1, <2>5, <3>1
    <2>9. OneBin'
      <3>1. \A j \in 1 .. Len(work') : work'[j] \in G
        BY <2>8
      <3> QED
        BY <3>1 DEF OneBin, G
    <2>10. Head(work').key \in Keys /\ cp' = Hash[Head(work').key]
      BY <1>1, <1>4, <2>3, <2>4, <2>8 DEF Bucket
    <2>11. Passed'
      BY <1>1, <2>10, PassedAtStart DEF ChainInv
    <2> QED
      BY <1>2, <2>9, <2>11 DEF SearchInv
  <1> QED
    BY <1>3, <1>4

(* The other steps change neither the entries nor the container's, or      *)
(* empty the queue.                                                        *)
LEMMA RestSearch ==
    ASSUME ChainInv, SearchInv,
           \/ Fork \/ NoWriter \/ Flush \/ PendingHop
           \/ Roll \/ WriterEnds \/ Exit \/ UNCHANGED vars
    PROVE  SearchInv'
  <1>1. UNCHANGED <<key, slot, pending, work>>
    BY DEF Fork, NoWriter, Flush, FlushTo, PendingHop, Roll, WriterEnds, Exit, vars, nodes
  <1>2. OneBin'
    BY <1>1 DEF SearchInv, OneBin
  <1>3. CASE Flush
    <2>1. queue' = <<>> /\ pc' = "flushed"
      BY <1>3 DEF Flush, FlushTo
    <2> QED
      BY <1>1, <1>2, <2>1 DEF SearchInv, Distinct, Passed
  <1>4. CASE Fork \/ NoWriter \/ PendingHop \/ Exit
    <2>1. /\ queue' = queue
          /\ pc' # "run" /\ pc' # "marking" /\ (pc' = "flushed" => pc = "flushed")
      <3>1. CASE Fork \/ NoWriter \/ PendingHop
        BY ONLY <3>1 DEF Fork, NoWriter, PendingHop, Reinserting
      <3>2. CASE Exit
        BY ONLY <3>2 DEF Exit
      <3> QED
        BY <1>4, <3>1, <3>2
    <2> QED
      BY <1>1, <1>2, <2>1 DEF SearchInv, Distinct, Passed, Twins
  <1>5. CASE Roll
    <2>1. queue' = queue /\ pc' = "run" /\ work' = <<>>
      BY <1>5 DEF Roll
    <2> QED
      BY <1>1, <1>2, <2>1 DEF SearchInv, Distinct, Passed
  <1>6. CASE WriterEnds \/ UNCHANGED vars
    <2>1. UNCHANGED <<queue, pc, cp, valid, marked>>
      BY <1>6 DEF WriterEnds, vars, nodes
    <2> QED
      BY <1>1, <1>2, <2>1 DEF SearchInv, Distinct, Passed, Matches, Twins
  <1> QED
    BY <1>3, <1>4, <1>5, <1>6

(* Every step keeps entries distinct and the search sound.                 *)
LEMMA SearchStep ==
    ASSUME ~ProRating, ChainInv, SearchInv, [Next]_vars PROVE SearchInv'
  <1>1. ChainInv'
    BY ChainStep
  <1>2. ASSUME NEW calls \in Calls, NEW from \in Slots, NEW to \in Slots,
               Arrive(calls, from, to)
        PROVE  SearchInv'
    BY <1>1, <1>2, ArriveSearch
  <1>3. CASE PluginStep
    BY <1>1, <1>3, HopSearch, SumSearch, TakeFreeSearch, AttachSearch, BeginSearch,
       MarkSearch, RestSearch, PendingSearch, ResumeSearch
    DEF PluginStep
  <1>4. CASE FlushEvent \/ Roll \/ WriterEnds \/ Exit
    BY <1>4, BeginSearch, RestSearch
  <1>5. CASE Exited \/ UNCHANGED vars
    BY <1>5, RestSearch DEF Exited
  <1> QED
    BY <1>2, <1>3, <1>4, <1>5 DEF Next

(* Without pro-rating a key and time-bin never has two entries, whatever   *)
(* the hash and the sizes: P_cache_insert's walk along a chain passes      *)
(* every entry of the bucket, although P_cache_insert_pending rebuilds the *)
(* chains in another order and puts copies in without comparing keys.      *)
THEOREM EntriesAreUnique == ~ProRating => (Spec => []UniqueEntries)
  <1> SUFFICES ASSUME ~ProRating PROVE Spec => []UniqueEntries
    OBVIOUS
  <1>1. Init => ChainInv /\ SearchInv
    <2>1. Init => SearchInv
      BY DEF Init, SearchInv, OneBin, Passed, Distinct
    <2> QED
      BY <2>1, ChainInit
  <1>2. ChainInv /\ SearchInv /\ [Next]_vars => (ChainInv /\ SearchInv)'
    BY ChainStep, SearchStep
  <1>3. ChainInv /\ SearchInv => UniqueEntries
    <2> SUFFICES ASSUME ChainInv, SearchInv, NEW m \in Nodes, NEW n \in Nodes,
                        InUse(m), InUse(n), key[m] = key[n], slot[m] = slot[n]
                 PROVE  m = n
      BY DEF UniqueEntries
    <2>1. PICK i \in 1 .. Len(queue) : queue[i] = m
      BY DEF ChainInv, CacheInv, AllQueued, InUse
    <2>2. PICK j \in 1 .. Len(queue) : queue[j] = n
      BY DEF ChainInv, CacheInv, AllQueued, InUse
    <2> QED
      BY <2>1, <2>2 DEF SearchInv, Distinct
  <1> QED
    BY <1>1, <1>2, <1>3, PTL DEF Spec

-----------------------------------------------------------------------------
(* The ledger.  What a container holds under a key and time-bin.           *)
Amount(p) == [j \in DOMAIN p |-> p[j].cnt]
Of(p, ks) == {j \in DOMAIN p : <<p[j].key, p[j].slot>> = ks}
Held(p, ks) == Sum(Amount(p), Of(p, ks))
Part(k, s, c, ks) == IF <<k, s>> = ks THEN c ELSE 0

(* The model's sum over the container is that one.                         *)
LEMMA ContainerIsHeld ==
    ASSUME NEW p, NEW ks
    PROVE  MapThenSumSet(LAMBDA j : p[j].cnt,
                         {j \in DOMAIN p : <<p[j].key, p[j].slot>> = ks}) = Held(p, ks)
  <1> DEFINE S == Of(p, ks)
             F(g) == [s \in SUBSET S |-> IF s = {} THEN 0
                                         ELSE p[AnyOf(s)].cnt + g[s \ {AnyOf(s)}]]
  <1>1. \A s \in SUBSET S : s # {} => Amount(p)[AnyOf(s)] = p[AnyOf(s)].cnt
    BY DEF AnyOf, Of, Amount
  <1>2. \A g : F(g) = Unfold(Amount(p), S, g)
    BY <1>1 DEF Unfold
  <1>3. MapThenSumSet(LAMBDA j : p[j].cnt, S) = (CHOOSE g : g = F(g))[S]
    BY DEF MapThenSumSet, MapThenFoldSet, AnyOf
  <1>4. MapThenSumSet(LAMBDA j : p[j].cnt, S)
          = MapThenSumSet(LAMBDA j : p[j].cnt,
                          {j \in DOMAIN p : <<p[j].key, p[j].slot>> = ks})
    BY DEF Of
  <1> HIDE DEF F
  <1>5. (CHOOSE g : g = F(g)) = Partial(Amount(p), S)
    BY <1>2 DEF Partial
  <1> QED
    BY <1>3, <1>4, <1>5, SumIsPartial DEF Held

(* It is a sum of finitely many numbers.                                   *)
LEMMA HeldFinite ==
    ASSUME NEW p \in Seq(Counted), NEW ks
    PROVE  /\ IsFiniteSet(Of(p, ks)) /\ Of(p, ks) \subseteq 1 .. Len(p)
           /\ \A j \in 1 .. Len(p) : Amount(p)[j] = p[j].cnt /\ Amount(p)[j] \in Nat
           /\ Held(p, ks) \in Nat
  <1>1. DOMAIN p = 1 .. Len(p) /\ Len(p) \in Int /\ 1 \in Int
    OBVIOUS
  <1>2. Of(p, ks) \subseteq 1 .. Len(p)
    BY <1>1 DEF Of
  <1>3. IsFiniteSet(Of(p, ks))
    <2>1. IsFiniteSet(1 .. Len(p))
      BY <1>1, FS_Interval
    <2> QED
      BY <1>2, <2>1, FS_Subset
  <1>4. \A j \in 1 .. Len(p) : Amount(p)[j] = p[j].cnt /\ Amount(p)[j] \in Nat
    <2> SUFFICES ASSUME NEW j \in 1 .. Len(p)
                 PROVE  Amount(p)[j] = p[j].cnt /\ Amount(p)[j] \in Nat
      OBVIOUS
    <2>1. p[j] \in Counted
      OBVIOUS
    <2> QED
      BY <1>1, <2>1 DEF Amount, Counted
  <1>5. Held(p, ks) \in Nat
    BY <1>2, <1>3, <1>4, SumIsNat DEF Held
  <1> QED
    BY <1>2, <1>3, <1>4, <1>5

(* An empty container holds nothing.                                       *)
LEMMA HeldEmpty == ASSUME NEW ks PROVE Held(<<>>, ks) = 0
  <1>1. Of(<<>>, ks) = {}
    BY DEF Of
  <1> QED
    BY <1>1, SumEmpty DEF Held

(* One copy more adds its bytes.                                           *)
LEMMA HeldAppend ==
    ASSUME NEW p \in Seq(Counted), NEW e \in Counted, NEW ks
    PROVE  Held(Append(p, e), ks) = Held(p, ks) + Part(e.key, e.slot, e.cnt, ks)
  <1> DEFINE q == Append(p, e)
             n == Len(p) + 1
  <1>1. /\ q \in Seq(Counted) /\ Len(q) = n /\ Len(p) \in Nat
        /\ \A j \in 1 .. Len(p) : q[j] = p[j]
        /\ q[n] = e /\ DOMAIN q = 1 .. n /\ DOMAIN p = 1 .. Len(p)
        /\ n \notin 1 .. Len(p) /\ 1 .. n = (1 .. Len(p)) \union {n}
    OBVIOUS
  <1> HIDE DEF q, n
  <1>2. /\ IsFiniteSet(Of(p, ks)) /\ Of(p, ks) \subseteq 1 .. Len(p)
        /\ \A j \in 1 .. Len(p) : Amount(p)[j] = p[j].cnt /\ Amount(p)[j] \in Nat
        /\ \A j \in 1 .. n : Amount(q)[j] = q[j].cnt /\ Amount(q)[j] \in Nat
        /\ Held(p, ks) \in Nat
    BY <1>1, HeldFinite
  <1>3. Sum(Amount(q), Of(p, ks)) = Sum(Amount(p), Of(p, ks))
    <2>1. \A j \in Of(p, ks) : Amount(q)[j] = Amount(p)[j]
      BY <1>1, <1>2
    <2> QED
      BY <1>2, <2>1, SumSame
  <1>4. CASE <<e.key, e.slot>> = ks
    <2>1. Of(q, ks) = Of(p, ks) \union {n}
      BY <1>1, <1>4 DEF Of
    <2>2. /\ n \notin Of(p, ks) /\ Amount(q)[n] = e.cnt
          /\ \A j \in Of(p, ks) \union {n} : Amount(q)[j] \in Nat
      BY <1>1, <1>2
    <2>3. Sum(Amount(q), Of(p, ks) \union {n}) = Sum(Amount(q), Of(p, ks)) + Amount(q)[n]
      BY <1>2, <2>2, SumAdd
    <2>4. Held(q, ks) = Held(p, ks) + e.cnt
      BY <1>3, <2>1, <2>2, <2>3 DEF Held
    <2> QED
      BY <1>4, <2>4 DEF Part, q
  <1>5. CASE <<e.key, e.slot>> # ks
    <2>1. Of(q, ks) = Of(p, ks)
      BY <1>1, <1>5 DEF Of
    <2>2. Held(q, ks) = Held(p, ks)
      BY <1>3, <2>1 DEF Held
    <2> QED
      BY <1>2, <1>5, <2>2 DEF Part, q
  <1> QED
    BY <1>4, <1>5

(* The first copy leaves with its bytes.                                   *)
LEMMA HeldTail ==
    ASSUME NEW p \in Seq(Counted), p # <<>>, NEW ks
    PROVE  Held(p, ks) = Held(Tail(p), ks)
                         + Part(Head(p).key, Head(p).slot, Head(p).cnt, ks)
  <1> DEFINE q == Tail(p)
             b == [j \in 1 .. Len(q) |-> j + 1]
             R == {b[j] : j \in Of(q, ks)}
  <1>1. /\ q \in Seq(Counted) /\ Len(q) = Len(p) - 1 /\ Len(p) \in Nat \ {0}
        /\ \A j \in 1 .. Len(q) : q[j] = p[j + 1] /\ j + 1 \in 1 .. Len(p) /\ b[j] = j + 1
        /\ \A i \in 1 .. Len(p) : i # 1 => i - 1 \in 1 .. Len(q) /\ b[i - 1] = i
        /\ Head(p) = p[1] /\ 1 \in 1 .. Len(p)
        /\ DOMAIN q = 1 .. Len(q) /\ DOMAIN p = 1 .. Len(p)
    OBVIOUS
  <1> HIDE DEF q, b
  <1>2. /\ IsFiniteSet(Of(p, ks)) /\ Of(p, ks) \subseteq 1 .. Len(p)
        /\ IsFiniteSet(Of(q, ks)) /\ Of(q, ks) \subseteq 1 .. Len(q)
        /\ \A j \in 1 .. Len(p) : Amount(p)[j] = p[j].cnt /\ Amount(p)[j] \in Nat
        /\ \A j \in 1 .. Len(q) : Amount(q)[j] = q[j].cnt /\ Amount(q)[j] \in Nat
        /\ Held(q, ks) \in Nat
    BY <1>1, HeldFinite
  <1>3. Sum(Amount(p), R) = Sum(Amount(q), Of(q, ks))
    <2> DEFINE T == Of(q, ks)
               f == Amount(p)
               g == [j \in T |-> f[b[j]]]
    <2>1. \A i, j \in T : b[i] = b[j] => i = j
      <3>1. \A j \in T : j \in Int /\ b[j] = j + 1
        BY <1>1, <1>2
      <3> QED
        BY ONLY <3>1
    <2>2. \A j \in Of(q, ks) : Amount(p)[b[j]] \in Nat /\ Amount(p)[b[j]] = Amount(q)[j]
      BY <1>1, <1>2
    <2>3. Sum(Amount(p), R) = Sum(g, Of(q, ks))
      <3>1. IsFiniteSet(T) /\ \A j \in T : f[b[j]] \in Nat
        BY <1>2, <2>2
      <3>2. R = {b[j] : j \in T}
        OBVIOUS
      <3> HIDE DEF T, f, R
      <3>3. Sum(f, {b[j] : j \in T}) = Sum([j \in T |-> f[b[j]]], T)
        BY ONLY <2>1, <3>1, SumRename
      <3>4. Sum(f, R) = Sum(g, T)
        BY ONLY <3>2, <3>3, Zenon DEF g
      <3> QED
        BY ONLY <3>4 DEF f, T
    <2>4. \A j \in Of(q, ks) : g[j] = Amount(q)[j]
      BY <2>2
    <2> HIDE DEF g
    <2>5. Sum(g, Of(q, ks)) = Sum(Amount(q), Of(q, ks))
      BY <1>2, <2>4, SumSame
    <2> QED
      BY <2>3, <2>5
  <1>4. R = Of(p, ks) \ {1}
    <2>1. ASSUME NEW i \in R PROVE i \in Of(p, ks) \ {1}
      <3>1. PICK j \in Of(q, ks) : i = b[j]
        OBVIOUS
      <3>2. j \in 1 .. Len(q) /\ <<q[j].key, q[j].slot>> = ks
        BY <1>1 DEF Of
      <3>3. i = j + 1 /\ i # 1 /\ i \in 1 .. Len(p) /\ p[i] = q[j]
        BY <1>1, <3>1, <3>2
      <3> QED
        BY <1>1, <3>2, <3>3 DEF Of
    <2>2. ASSUME NEW i \in Of(p, ks) \ {1} PROVE i \in R
      <3>1. i \in 1 .. Len(p) /\ i # 1 /\ <<p[i].key, p[i].slot>> = ks
        BY <1>1 DEF Of
      <3>2. i - 1 \in 1 .. Len(q) /\ b[i - 1] = i /\ q[i - 1] = p[i]
        BY <1>1, <3>1
      <3>3. i - 1 \in Of(q, ks)
        BY <1>1, <3>1, <3>2 DEF Of
      <3> QED
        BY <3>2, <3>3
    <2> QED
      BY <2>1, <2>2
  <1> HIDE DEF R
  <1>5. CASE <<p[1].key, p[1].slot>> = ks
    <2>1. 1 \in Of(p, ks)
      BY <1>1, <1>5 DEF Of
    <2>2. Sum(Amount(p), Of(p, ks)) = Amount(p)[1] + Sum(Amount(p), Of(p, ks) \ {1})
      BY <1>2, <2>1, SumRemove
    <2>3. Amount(p)[1] = p[1].cnt /\ Amount(p)[1] \in Nat
      BY <1>1, <1>2
    <2>4. Held(p, ks) = Held(q, ks) + p[1].cnt
      BY <1>2, <1>3, <1>4, <2>2, <2>3 DEF Held
    <2> QED
      BY <1>1, <1>5, <2>4 DEF Part, q
  <1>6. CASE <<p[1].key, p[1].slot>> # ks
    <2>1. Of(p, ks) \ {1} = Of(p, ks)
      BY <1>6 DEF Of
    <2>2. Held(p, ks) = Held(q, ks)
      BY <1>3, <1>4, <2>1 DEF Held
    <2> QED
      BY <1>1, <1>2, <1>6, <2>2 DEF Part, q
  <1> QED
    BY <1>5, <1>6

(* Bytes of a set of nodes: nothing relevant changes, or a node more.      *)
LEMMA BytesSame ==
    ASSUME NEW S \in SUBSET Nodes, NEW c, NEW k, NEW s, NEW c2, NEW k2, NEW s2, NEW ks,
           \A n \in S : c2[n] = c[n] /\ k2[n] = k[n] /\ s2[n] = s[n]
    PROVE  Bytes(c2, k2, s2, S, ks) = Bytes(c, k, s, S, ks)
  <1> DEFINE T == {n \in S : k[n] = ks[1] /\ s[n] = ks[2]}
  <1>1. {n \in S : k2[n] = ks[1] /\ s2[n] = ks[2]} = T
    OBVIOUS
  <1>2. T \subseteq S /\ IsFiniteSet(T)
    BY NodesFinite, FS_Subset
  <1> HIDE DEF T
  <1>3. Sum(c2, T) = Sum(c, T)
    BY <1>2, SumSame
  <1>4. Bytes(c2, k2, s2, S, ks) = Sum(c2, T)
    BY <1>1 DEF Bytes
  <1>5. Bytes(c, k, s, S, ks) = Sum(c, T)
    BY DEF Bytes, T
  <1> QED
    BY <1>3, <1>4, <1>5

(* A node more adds its bytes to its own key and time-bin.                 *)
LEMMA BytesAdd ==
    ASSUME NEW S \in SUBSET Nodes, NEW n \in Nodes, n \notin S,
           NEW c \in [Nodes -> Nat], NEW k, NEW s,
           NEW ks \in Keys \X Slots
    PROVE  Bytes(c, k, s, S \union {n}, ks) = Bytes(c, k, s, S, ks)
                                              + Part(k[n], s[n], c[n], ks)
  <1> DEFINE T == {m \in S : k[m] = ks[1] /\ s[m] = ks[2]}
             U == {m \in S \union {n} : k[m] = ks[1] /\ s[m] = ks[2]}
  <1>1. T \subseteq Nodes /\ n \notin T
    OBVIOUS
  <1>2. IsFiniteSet(T)
    BY <1>1, NodesFinite, FS_Subset
  <1>3. \A m \in T \union {n} : c[m] \in Nat
    BY <1>1
  <1>4. Bytes(c, k, s, S \union {n}, ks) = Sum(c, U) /\ Bytes(c, k, s, S, ks) = Sum(c, T)
    BY DEF Bytes
  <1>5. (<<k[n], s[n]>> = ks) <=> (k[n] = ks[1] /\ s[n] = ks[2])
    OBVIOUS
  <1>6. U = IF <<k[n], s[n]>> = ks THEN T \union {n} ELSE T
    BY <1>5
  <1> HIDE DEF T, U
  <1>7. Sum(c, T \union {n}) = Sum(c, T) + c[n] /\ Sum(c, T) \in Nat
    BY <1>1, <1>2, <1>3, SumAdd, SumIsNat
  <1>8. CASE <<k[n], s[n]>> = ks
    <2>1. U = T \union {n}
      BY <1>6, <1>8
    <2>2. Sum(c, U) = Sum(c, T \union {n})
      BY <2>1, Zenon
    <2> QED
      BY <1>4, <1>7, <1>8, <2>2 DEF Part
  <1>9. CASE <<k[n], s[n]>> # ks
    <2>1. U = T
      BY <1>6, <1>9
    <2>2. Sum(c, U) = Sum(c, T)
      BY <2>1, Zenon
    <2> QED
      BY <1>4, <1>7, <1>9, <2>2 DEF Part
  <1> QED
    BY <1>8, <1>9

(* Nodes of other keys or time-bins add nothing.                           *)
LEMMA BytesOfNone ==
    ASSUME NEW c, NEW k, NEW s, NEW S, NEW ks,
           \A n \in S : ~(k[n] = ks[1] /\ s[n] = ks[2])
    PROVE  Bytes(c, k, s, S, ks) = 0
  <1>1. {n \in S : k[n] = ks[1] /\ s[n] = ks[2]} = {}
    OBVIOUS
  <1> QED
    BY <1>1, SumEmpty DEF Bytes

(* The nodes whose bytes count as in the cache.                            *)
Counting == {n \in Queued : valid[n] # "free"}

(* InCache and InContainer, and their values after a step, as these sums.  *)
LEMMA InCacheIs ==
    ASSUME NEW ks
    PROVE  InCache(ks) = IF pc \in {"forked", "exited"} THEN 0
                         ELSE Bytes(cnt, key, slot, Counting, ks)
  BY BytesInIsBytes DEF InCache, Counting

LEMMA InCacheIsPrimed ==
    ASSUME NEW ks
    PROVE  InCache(ks)' = IF pc' \in {"forked", "exited"} THEN 0
                          ELSE Bytes(cnt', key', slot', Counting', ks)
  <1>1. InCache(ks) = IF pc \in {"forked", "exited"} THEN 0
                      ELSE Bytes(cnt, key, slot, Counting, ks)
    BY InCacheIs
  <1>2. (InCache(ks) = IF pc \in {"forked", "exited"} THEN 0
                       ELSE Bytes(cnt, key, slot, Counting, ks))'
    BY <1>1, PTL
  <1> QED
    BY <1>2

LEMMA InContainerIs ==
    ASSUME NEW ks
    PROVE  InContainer(ks) = IF pc = "exited" THEN 0 ELSE Held(pending, ks)
  BY ContainerIsHeld DEF InContainer

LEMMA InContainerIsPrimed ==
    ASSUME NEW ks
    PROVE  InContainer(ks)' = IF pc' = "exited" THEN 0 ELSE Held(pending', ks)
  <1>1. InContainer(ks) = IF pc = "exited" THEN 0 ELSE Held(pending, ks)
    BY InContainerIs
  <1>2. (InContainer(ks) = IF pc = "exited" THEN 0 ELSE Held(pending, ks))'
    BY <1>1, PTL
  <1> QED
    BY <1>2

(* What counts while records are inserted: the nodes in use.               *)
LEMMA CountingIs ==
    ASSUME CacheInv, pc \in {"run", "flushed"}
    PROVE  Counting = {n \in Nodes : valid[n] = "inuse"}
  <1>1. \A n : n \in Queued <=> \E i \in 1 .. Len(queue) : queue[i] = n
    BY DEF Queued, CacheInv, Shape
  <1> QED
    BY <1>1, InUseIsQueued DEF Counting

(* The same after a step.                                                  *)
LEMMA CountingIsPrimed ==
    ASSUME CacheInv', pc' \in {"run", "flushed"}
    PROVE  Counting' = {n \in Nodes : valid'[n] = "inuse"}
  <1>1. \A n : n \in Queued' <=> \E i \in 1 .. Len(queue') : queue'[i] = n
    BY DEF Queued, CacheInv, Shape
  <1>2. \A i \in 1 .. Len(queue') : queue'[i] \in Nodes /\ valid'[queue'[i]] = "inuse"
    BY DEF CacheInv, Shape, OnlyInUse
  <1>3. \A n \in Nodes : valid'[n] = "inuse" => \E i \in 1 .. Len(queue') : queue'[i] = n
    BY DEF CacheInv, AllQueued
  <1> QED
    BY <1>1, <1>2, <1>3 DEF Counting

(* Both are numbers.                                                       *)
LEMMA AtIsNat ==
    ASSUME ChainInv, NEW ks
    PROVE  InCache(ks) \in Nat /\ InContainer(ks) \in Nat
  <1>1. Counting \subseteq Nodes
    BY QueuedNodes DEF ChainInv, Counting
  <1>2. Bytes(cnt, key, slot, Counting, ks) \in Nat
    BY <1>1, BytesIsNat DEF ChainInv, CacheInv, Shape
  <1>3. Held(pending, ks) \in Nat
    BY HeldFinite DEF ChainInv, Phased
  <1> QED
    BY <1>2, <1>3, InCacheIs, InContainerIs

(* Nothing that counts changes.                                            *)
LEMMA SameBytes ==
    ASSUME UNCHANGED <<key, slot, cnt, valid, queue, pending>>, NEW ks,
           \/ pc' = pc
           \/ pc \in {"run", "marking", "flushed"} /\ pc' \in {"run", "marking", "flushed"}
    PROVE  InCache(ks)' = InCache(ks) /\ InContainer(ks)' = InContainer(ks)
  <1>1. Counting' = Counting
    BY DEF Counting, Queued
  <1>2. Bytes(cnt', key', slot', Counting', ks) = Bytes(cnt, key, slot, Counting, ks)
    BY <1>1
  <1>3. Held(pending', ks) = Held(pending, ks)
    OBVIOUS
  <1>4. /\ pc' \in {"forked", "exited"} <=> pc \in {"forked", "exited"}
        /\ pc' = "exited" <=> pc = "exited"
    OBVIOUS
  <1> QED
    BY <1>2, <1>3, <1>4, InCacheIs, InCacheIsPrimed, InContainerIs, InContainerIsPrimed

(* A new entry adds its bytes to its own key and time-bin.                 *)
LEMMA OccupyBytes ==
    ASSUME ChainInv, ChainInv', pc \in {"run", "flushed"}, pc' = pc,
           NEW n \in Nodes, valid[n] # "inuse", NEW k, NEW s, NEW c \in Nat,
           Occupy(n, k, s, c), NEW ks \in Keys \X Slots
    PROVE  InCache(ks)' = InCache(ks) + Part(k, s, c, ks)
  <1> DEFINE S == Counting
  <1>0. ks \in Keys \X Slots /\ n \in Nodes
    OBVIOUS
  <1>1. S = {m \in Nodes : valid[m] = "inuse"} /\ S \in SUBSET Nodes
    <2>1. CacheInv
      BY DEF ChainInv
    <2> QED
      BY <2>1, CountingIs
  <1>2. Counting' = {m \in Nodes : valid'[m] = "inuse"}
    <2>1. CacheInv'
      BY DEF ChainInv
    <2> QED
      BY <2>1, CountingIsPrimed
  <1>3. /\ key'[n] = k /\ slot'[n] = s /\ cnt'[n] = c /\ valid'[n] = "inuse"
        /\ \A m \in Nodes : m # n => key'[m] = key[m] /\ slot'[m] = slot[m]
                                     /\ cnt'[m] = cnt[m] /\ valid'[m] = valid[m]
        /\ cnt' \in [Nodes -> Nat]
    BY DEF Occupy, ChainInv, CacheInv, Shape
  <1>4. n \notin S /\ Counting' = S \union {n}
    BY <1>1, <1>2, <1>3
  <1> HIDE DEF S
  <1>5. Bytes(cnt', key', slot', S, ks) = Bytes(cnt, key, slot, S, ks)
    <2>1. \A m \in S : cnt'[m] = cnt[m] /\ key'[m] = key[m] /\ slot'[m] = slot[m]
      BY <1>1, <1>3, <1>4
    <2> QED
      BY <1>1, <2>1, BytesSame
  <1>6. Bytes(cnt', key', slot', S \union {n}, ks)
          = Bytes(cnt', key', slot', S, ks) + Part(key'[n], slot'[n], cnt'[n], ks)
    <2>1. S \in SUBSET Nodes /\ n \notin S /\ cnt' \in [Nodes -> Nat]
      BY <1>1, <1>3, <1>4
    <2> QED
      BY ONLY <1>0, <2>1, BytesAdd
  <1>7. InCache(ks) = Bytes(cnt, key, slot, S, ks)
    BY InCacheIs DEF S
  <1>8. InCache(ks)' = Bytes(cnt', key', slot', S \union {n}, ks)
    BY <1>4, InCacheIsPrimed
  <1> QED
    BY <1>3, <1>5, <1>6, <1>7, <1>8

(* Counters are summed.                                                    *)
LEMMA SumBytes ==
    ASSUME ChainInv, ChainInv', pc = "run", pc' = pc,
           NEW n \in Nodes, valid[n] = "inuse", NEW c \in Nat,
           UNCHANGED <<key, slot, valid, queue>>, cnt' = [cnt EXCEPT ![n] = @ + c],
           NEW ks \in Keys \X Slots
    PROVE  InCache(ks)' = InCache(ks) + Part(key[n], slot[n], c, ks)
  <1> DEFINE S == Counting \ {n}
  <1>0. ks \in Keys \X Slots /\ n \in Nodes
    OBVIOUS
  <1>1. Counting = {m \in Nodes : valid[m] = "inuse"}
    <2>1. CacheInv
      BY DEF ChainInv
    <2> QED
      BY <2>1, CountingIs
  <1>2. Counting' = Counting
    BY DEF Counting, Queued
  <1>3. /\ cnt'[n] = cnt[n] + c /\ cnt[n] \in Nat
        /\ \A m \in Nodes : m # n => cnt'[m] = cnt[m]
        /\ cnt \in [Nodes -> Nat] /\ cnt' \in [Nodes -> Nat]
    BY DEF ChainInv, CacheInv, Shape
  <1>4. n \notin S /\ Counting = S \union {n} /\ S \in SUBSET Nodes
    BY <1>1
  <1> HIDE DEF S
  <1>5. Bytes(cnt', key', slot', S, ks) = Bytes(cnt, key, slot, S, ks)
    <2>1. \A m \in S : cnt'[m] = cnt[m] /\ key'[m] = key[m] /\ slot'[m] = slot[m]
      BY <1>3, <1>4
    <2> QED
      BY ONLY <1>4, <2>1, BytesSame
  <1>6. Bytes(cnt', key', slot', S \union {n}, ks)
          = Bytes(cnt', key', slot', S, ks) + Part(key'[n], slot'[n], cnt'[n], ks)
    BY ONLY <1>0, <1>3, <1>4, BytesAdd
  <1>7. Bytes(cnt, key, slot, S \union {n}, ks)
          = Bytes(cnt, key, slot, S, ks) + Part(key[n], slot[n], cnt[n], ks)
    BY ONLY <1>0, <1>3, <1>4, BytesAdd
  <1>8. Bytes(cnt, key, slot, S, ks) \in Nat
    BY <1>3, <1>4, BytesIsNat
  <1>9. InCache(ks) = Bytes(cnt, key, slot, S \union {n}, ks)
    BY <1>4, InCacheIs
  <1>10. InCache(ks)' = Bytes(cnt', key', slot', S \union {n}, ks)
    BY <1>2, <1>4, InCacheIsPrimed
  <1>11. Part(key[n], slot[n], cnt[n] + c, ks)
           = Part(key[n], slot[n], cnt[n], ks) + Part(key[n], slot[n], c, ks)
    BY <1>3 DEF Part
  <1>12. /\ Part(key[n], slot[n], cnt[n], ks) \in Nat
         /\ Part(key[n], slot[n], c, ks) \in Nat
    BY <1>3 DEF Part
  <1> QED
    BY <1>3, <1>5, <1>6, <1>7, <1>8, <1>9, <1>10, <1>11, <1>12

(* An insertion adds its share to the counter of its key and time-bin.     *)
LEMMA InsertBytes ==
    ASSUME ChainInv, ChainInv', SumCounters \/ TakeFree \/ Attach,
           NEW ks \in Keys \X Slots
    PROVE  /\ InCache(ks)' = InCache(ks) + Part(Head(work).key, Head(work).slot,
                                                Share(Head(work)), ks)
           /\ InContainer(ks)' = InContainer(ks)
  <1>1. /\ pc = "run" /\ pc' = "run" /\ pending' = pending /\ work # <<>>
    BY DEF SumCounters, TakeFree, Attach, Inserting
  <1>2. InContainer(ks)' = InContainer(ks)
    BY <1>1, InContainerIs, InContainerIsPrimed
  <1>3. /\ Share(Head(work)) \in Nat /\ cp \in Nodes
    <2>1. CacheInv
      BY DEF ChainInv
    <2>2. cp \in Nodes
      BY <1>1, <2>1 DEF CacheInv, Shape, Cursor
    <2> QED
      BY <1>1, <2>1, <2>2, HeadOfWork
  <1>4. CASE SumCounters
    <2>1. /\ valid[cp] = "inuse" /\ key[cp] = Head(work).key /\ slot[cp] = Head(work).slot
          /\ UNCHANGED <<key, slot, valid, queue>>
          /\ cnt' = [cnt EXCEPT ![cp] = @ + Share(Head(work))]
      BY <1>4 DEF SumCounters, InUse, Matches
    <2>2. InCache(ks)' = InCache(ks) + Part(key[cp], slot[cp], Share(Head(work)), ks)
      BY <1>1, <1>3, <2>1, SumBytes
    <2> QED
      BY <1>2, <2>1, <2>2
  <1>5. CASE TakeFree
    <2>1. valid[cp] # "inuse" /\ Occupy(cp, Head(work).key, Head(work).slot, Share(Head(work)))
      BY <1>5 DEF TakeFree, InUse
    <2> QED
      BY <1>1, <1>2, <1>3, <2>1, OccupyBytes
  <1>6. CASE Attach
    <2>1. /\ RoomToAttach
          /\ Occupy(NewNode, Head(work).key, Head(work).slot, Share(Head(work)))
      BY <1>6 DEF Attach
    <2>2. NewNode \in Nodes /\ valid[NewNode] # "inuse"
      <3>1. /\ NewNode \in Nodes
            /\ \A i \in 1 .. Len(queue) : queue[i] # NewNode
        BY <2>1, NewNodeFresh DEF ChainInv, CacheInv, Shape, Reached
      <3> QED
        BY <3>1 DEF ChainInv, CacheInv, AllQueued
    <2> QED
      BY <1>1, <1>2, <1>3, <2>1, <2>2, OccupyBytes
  <1> QED
    BY <1>4, <1>5, <1>6

(* A node marked stays counted: as committed, or as its copy.              *)
LEMMA MarkBytes ==
    ASSUME ChainInv, ChainInv', MarkFlush, NEW ks \in Keys \X Slots
    PROVE  InCache(ks)' + InContainer(ks)' = InCache(ks) + InContainer(ks)
  <1> DEFINE n == queue[marked + 1]
  <1>0. ks \in Keys \X Slots
    OBVIOUS
  <1>1. /\ pc = "marking" /\ pc' = "marking" /\ UNCHANGED <<key, slot, cnt, queue>>
        /\ marked < Len(queue)
        /\ IF IsPending(n)
           THEN pending' = Append(pending, Entry(n)) /\ valid' = [valid EXCEPT ![n] = "free"]
           ELSE pending' = pending /\ valid' = [valid EXCEPT ![n] = "committed"]
    BY DEF MarkFlush
  <1>2. /\ marked + 1 \in 1 .. Len(queue) /\ n \in Nodes /\ valid[n] = "inuse"
        /\ key[n] \in Keys /\ slot[n] \in Slots /\ cnt[n] \in Nat
        /\ valid \in [Nodes -> States] /\ cnt \in [Nodes -> Nat]
    <2>1. marked \in Nat /\ Len(queue) \in Nat /\ marked < Len(queue)
      BY <1>1 DEF ChainInv, CacheInv, Shape
    <2>2. marked + 1 \in 1 .. Len(queue) /\ marked + 1 > marked
      BY <2>1
    <2>3. n \in Nodes /\ valid[n] = "inuse" /\ slot[n] \in Slots
      <3>1. n \in Nodes
        BY <2>2 DEF ChainInv, CacheInv, Shape
      <3>2. valid[n] = "inuse"
        BY <1>1, <2>2 DEF ChainInv, Marks
      <3>3. slot[n] \in Slots
        BY <2>2 DEF ChainInv, Phased
      <3> QED
        BY <3>1, <3>2, <3>3
    <2>4. key[n] \in Keys /\ cnt[n] \in Nat
          /\ valid \in [Nodes -> States] /\ cnt \in [Nodes -> Nat]
      BY <2>3 DEF ChainInv, CacheInv, Shape
    <2> QED
      BY <2>2, <2>3, <2>4
  <1>3. DOMAIN queue = 1 .. Len(queue) /\ queue \in Seq(Nodes) /\ pending \in Seq(Counted)
    BY DEF ChainInv, CacheInv, Shape, Phased
  <1>4. n \in Counting /\ Counting \subseteq Nodes
    BY <1>2, <1>3 DEF Counting, Queued
  <1>5. /\ InCache(ks) = Bytes(cnt, key, slot, Counting, ks)
        /\ InCache(ks)' = Bytes(cnt, key, slot, Counting', ks)
        /\ InContainer(ks) = Held(pending, ks) /\ InContainer(ks)' = Held(pending', ks)
    BY <1>1, InCacheIs, InCacheIsPrimed, InContainerIs, InContainerIsPrimed
  <1> HIDE DEF n
  <1>6. CASE IsPending(n)
    <2>1. Counting' = Counting \ {n}
      <3>1. valid'[n] = "free" /\ \A m \in Nodes : m # n => valid'[m] = valid[m]
        BY <1>1, <1>2, <1>6
      <3>2. Queued' = Queued /\ Queued \subseteq Nodes
        BY <1>1, <1>3 DEF Queued
      <3> QED
        BY ONLY <3>1, <3>2 DEF Counting
    <2> DEFINE S == Counting \ {n}
    <2>2. S \in SUBSET Nodes /\ n \notin S /\ Counting = S \union {n}
      BY <1>4
    <2> HIDE DEF S
    <2>3. Bytes(cnt, key, slot, S \union {n}, ks)
            = Bytes(cnt, key, slot, S, ks) + Part(key[n], slot[n], cnt[n], ks)
      BY ONLY <1>0, <1>2, <2>2, BytesAdd
    <2>4. /\ Entry(n) \in Counted /\ Entry(n).key = key[n] /\ Entry(n).slot = slot[n]
          /\ Entry(n).cnt = cnt[n]
      BY <1>2 DEF Entry, Counted
    <2>5. Held(pending', ks) = Held(pending, ks) + Part(key[n], slot[n], cnt[n], ks)
      <3> DEFINE e == Entry(n)
      <3>1. pending' = Append(pending, e) /\ e \in Counted
        BY <1>1, <1>6, <2>4
      <3> HIDE DEF e
      <3>2. Held(Append(pending, e), ks) = Held(pending, ks) + Part(e.key, e.slot, e.cnt, ks)
        BY <1>3, <3>1, HeldAppend
      <3> QED
        BY <2>4, <3>1, <3>2 DEF e
    <2>6. Bytes(cnt, key, slot, S, ks) \in Nat /\ Held(pending, ks) \in Nat
      BY <1>2, <1>3, <2>2, BytesIsNat, HeldFinite
    <2>7. Part(key[n], slot[n], cnt[n], ks) \in Nat
      BY <1>2 DEF Part
    <2>8. InCache(ks)' = Bytes(cnt, key, slot, S, ks)
      BY <1>5, <2>1 DEF S
    <2>9. InCache(ks) = Bytes(cnt, key, slot, S \union {n}, ks)
      BY <1>5, <2>2
    <2> QED
      BY ONLY <1>5, <2>3, <2>5, <2>6, <2>7, <2>8, <2>9
  <1>7. CASE ~IsPending(n)
    <2>1. Counting' = Counting
      <3>1. valid'[n] = "committed" /\ \A m \in Nodes : m # n => valid'[m] = valid[m]
        BY <1>1, <1>2, <1>7
      <3>2. Queued' = Queued /\ Queued \subseteq Nodes
        BY <1>1, <1>3 DEF Queued
      <3> QED
        BY ONLY <1>2, <3>1, <3>2 DEF Counting
    <2> QED
      BY <1>1, <1>5, <1>7, <2>1
  <1> QED
    BY <1>6, <1>7

(* The flush frees what the purge has already handed over.                 *)
LEMMA FlushBytes ==
    ASSUME Flush, NEW ks
    PROVE  InCache(ks)' = InCache(ks) /\ InContainer(ks)' = InContainer(ks)
  <1>1. pc = "forked" /\ pc' = "flushed" /\ queue' = <<>> /\ pending' = pending
    BY DEF Flush, FlushTo
  <1>2. Counting' = {}
    BY <1>1 DEF Counting, Queued
  <1>3. Bytes(cnt', key', slot', Counting', ks) = 0
    BY <1>2, BytesOfNone
  <1> QED
    BY <1>1, <1>3, InCacheIs, InCacheIsPrimed, InContainerIs, InContainerIsPrimed

(* A copy put back moves from the container to the cache.                  *)
LEMMA PlaceBytes ==
    ASSUME ChainInv, ChainInv', PendingFree \/ PendingAttach, NEW ks \in Keys \X Slots
    PROVE  InCache(ks)' + InContainer(ks)' = InCache(ks) + InContainer(ks)
  <1> DEFINE e == Head(pending)
  <1>1. /\ pc = "flushed" /\ pc' = "flushed" /\ pending # <<>>
    BY DEF PendingFree, PendingAttach, Reinserting
  <1>2. CacheInv /\ Phased /\ pending \in Seq(Counted)
    BY DEF ChainInv, Phased
  <1>3. cp \in Nodes
    BY <1>1, <1>2 DEF CacheInv, Shape, Cursor
  <1>4. /\ e.key \in Keys /\ e.slot \in Slots /\ e.cnt \in Nat
        /\ Tail(pending) \in Seq(Counted)
    BY <1>1, <1>2, HeadOfPending
  <1>5. \E n \in Nodes : valid[n] # "inuse" /\ Occupy(n, e.key, e.slot, e.cnt)
                         /\ pending' = Tail(pending)
    <2>1. CASE PendingFree
      BY <1>3, <2>1 DEF PendingFree, PlaceAt, InUse
    <2>2. CASE PendingAttach
      <3>1. RoomToAttach
        BY <1>1, <1>3, <2>2, RoomForPending DEF PendingAttach, InUse
      <3>2. Occupy(NewNode, e.key, e.slot, e.cnt) /\ pending' = Tail(pending)
        BY <2>2, <3>1 DEF PendingAttach, PlaceAt
      <3>3. NewNode \in Nodes /\ \A i \in 1 .. Len(queue) : queue[i] # NewNode
        BY <3>1, NewNodeFresh DEF ChainInv, CacheInv, Shape, Reached
      <3> QED
        BY <3>2, <3>3 DEF ChainInv, CacheInv, AllQueued
    <2> QED
      BY <2>1, <2>2
  <1> HIDE DEF e
  <1>6. InCache(ks)' = InCache(ks) + Part(e.key, e.slot, e.cnt, ks)
    BY <1>1, <1>4, <1>5, OccupyBytes
  <1>7. Held(pending, ks) = Held(Tail(pending), ks) + Part(e.key, e.slot, e.cnt, ks)
    BY <1>1, <1>2, HeldTail DEF e
  <1>8. InContainer(ks) = Held(pending, ks) /\ InContainer(ks)' = Held(Tail(pending), ks)
    BY <1>1, <1>5, InContainerIs, InContainerIsPrimed
  <1>9. InCache(ks) \in Nat /\ Held(Tail(pending), ks) \in Nat
    BY <1>4, AtIsNat, HeldFinite
  <1>10. Part(e.key, e.slot, e.cnt, ks) \in Nat
    BY <1>4 DEF Part
  <1> QED
    BY ONLY <1>6, <1>7, <1>8, <1>9, <1>10

(* The purge: what counts in the cache is what is committed, and it goes.  *)
LEMMA PurgeBytes ==
    ASSUME ChainInv, Fork \/ NoWriter, NEW ks
    PROVE  /\ InCache(ks) = BytesIn(Committed, ks) /\ InCache(ks)' = 0
           /\ InContainer(ks)' = InContainer(ks)
           /\ InContainer(ks) = Held(pending, ks)
  <1>1. /\ pc = "marking" /\ pc' = "forked" /\ pending' = pending /\ marked = Len(queue)
    BY DEF Fork, NoWriter
  <1>2. Counting = Committed
    <2>1. DOMAIN queue = 1 .. Len(queue)
      BY DEF ChainInv, CacheInv, Shape
    <2>2. \A i \in 1 .. Len(queue) : valid[queue[i]] \in {"free", "committed"}
      BY <1>1 DEF ChainInv, Marks
    <2> QED
      BY <2>1, <2>2 DEF Counting, Committed, Queued
  <1>3. InCache(ks) = Bytes(cnt, key, slot, Committed, ks)
    BY <1>1, <1>2, InCacheIs
  <1>4. InCache(ks) = BytesIn(Committed, ks)
    BY <1>3, BytesInIsBytes
  <1> QED
    BY <1>1, <1>4, InCacheIsPrimed, InContainerIs, InContainerIsPrimed

(* The exit handler, between two operations: what is queued is all there is. *)
LEMMA ExitBytes ==
    ASSUME ChainInv, ~ExitAnywhere, Exit, NEW ks
    PROVE  /\ InCache(ks) = BytesIn(Queued, ks) /\ InContainer(ks) = 0
           /\ InCache(ks)' = 0 /\ InContainer(ks)' = 0
  <1>1. pc = "run" /\ pc' = "exited" /\ pending = <<>>
    BY DEF Exit, ChainInv, Phased
  <1>2. Counting = Queued
    <2>1. DOMAIN queue = 1 .. Len(queue)
      BY DEF ChainInv, CacheInv, Shape
    <2>2. \A i \in 1 .. Len(queue) : valid[queue[i]] = "inuse"
      BY <1>1 DEF ChainInv, CacheInv, OnlyInUse
    <2> QED
      BY ONLY <2>1, <2>2 DEF Counting, Queued
  <1>3. InCache(ks) = Bytes(cnt, key, slot, Queued, ks)
    BY <1>1, <1>2, InCacheIs
  <1>4. InCache(ks) = BytesIn(Queued, ks)
    BY <1>3, BytesInIsBytes
  <1>5. Held(pending, ks) = 0
    BY <1>1, HeldEmpty
  <1> QED
    BY <1>1, <1>4, <1>5, InCacheIsPrimed, InContainerIs, InContainerIsPrimed

(* The other steps leave the bytes where they are.                         *)
Idle ==
    \/ Hop \/ PendingHop \/ Full \/ FlushEvent \/ Resume \/ Roll \/ WriterEnds
    \/ UNCHANGED vars
    \/ \E calls \in Calls, from, to \in Slots : Arrive(calls, from, to)

(* Hops, the clock, a writer's end, a record's arrival: no counter         *)
(* changes.                                                                *)
LEMMA IdleBytes ==
    ASSUME Idle, NEW ks
    PROVE  /\ InCache(ks)' = InCache(ks) /\ InContainer(ks)' = InContainer(ks)
           /\ written' = written /\ lost' = lost
  <1>1. /\ UNCHANGED <<key, slot, cnt, valid, queue, pending, written, lost>>
        /\ \/ pc' = pc
           \/ pc \in {"run", "marking", "flushed"} /\ pc' \in {"run", "marking", "flushed"}
    <2>1. CASE Hop \/ PendingHop
      BY ONLY <2>1 DEF Hop, PendingHop, nodes, ledger
    <2>2. CASE Full \/ FlushEvent
      BY ONLY <2>2 DEF Full, FlushEvent, Inserting, nodes, ledger
    <2>3. CASE Resume
      BY ONLY <2>3 DEF Resume, nodes, ledger
    <2>4. CASE Roll \/ WriterEnds
      BY ONLY <2>4 DEF Roll, WriterEnds, nodes, ledger
    <2>5. CASE UNCHANGED vars
      BY ONLY <2>5 DEF vars, nodes, ledger
    <2>6. CASE \E calls \in Calls, from, to \in Slots : Arrive(calls, from, to)
      BY ONLY <2>6 DEF Arrive, nodes, ledger
    <2> QED
      BY <2>1, <2>2, <2>3, <2>4, <2>5, <2>6 DEF Idle
  <1> QED
    BY <1>1, SameBytes

-----------------------------------------------------------------------------
(* The cache implements the table of counters.                             *)

(* What a record can add: at least a byte, at most all the bytes of a flow *)
(* that covers every time-bin.                                             *)
Quanta == 1 .. (Unit * MaxSlot)
Quantified == \A i \in 1 .. Len(work) : work[i].len \in Quanta /\ work[i].tot \in Quanta

(* The share of a flow in a time-bin is such an amount,                    *)
LEMMA ShareIsQuantum ==
    ASSUME NEW i \in Insertions, i.len \in Quanta, i.tot \in Quanta
    PROVE  Share(i) \in Quanta
  <1> DEFINE m == Unit * MaxSlot
             d == i.to - i.from + 1
  <1>1. i.to \in Int /\ i.from \in Int /\ m \in Nat /\ i.tot \in Nat
        /\ i.tot >= 1 /\ i.tot <= m /\ i.len \in Nat /\ i.len >= 1 /\ i.len <= m
    BY CacheAssumption DEF Insertions, Slots, Quanta
  <1>2. CASE i.to > i.from
    <2>1. d \in Nat /\ d >= 2
      BY <1>1, <1>2
    <2> HIDE DEF d, m
    <2>2. (i.tot \div d) \in Nat /\ (i.tot \div d) <= i.tot
      BY <1>1, <2>1
    <2>3. Share(i) = IF (i.tot \div d) > 1 THEN (i.tot \div d) ELSE 1
      BY <1>2 DEF Share, d
    <2> QED
      BY <1>1, <2>2, <2>3 DEF Quanta, m
  <1>3. CASE ~(i.to > i.from)
    BY <1>3 DEF Share
  <1> QED
    BY <1>2, <1>3

(* and so are the bytes a record arrives with.                             *)
LEMMA FlowIsQuantum ==
    ASSUME NEW from \in Slots, NEW to \in Slots, from <= to
    PROVE  Unit * (to - from + 1) \in Quanta
  <1> DEFINE d == to - from + 1
  <1>1. d \in Nat /\ d >= 1 /\ d <= MaxSlot /\ MaxSlot \in Nat /\ Unit \in Nat /\ Unit >= 1
    BY CacheAssumption DEF Slots
  <1> HIDE DEF d
  <1>2. Unit * d \in Nat /\ Unit * d >= 1 /\ Unit * d <= Unit * MaxSlot
    BY <1>1
  <1> QED
    BY <1>2 DEF Quanta, d

(* An insertion done leaves such amounts to insert,                        *)
LEMMA InsertedQuanta ==
    ASSUME CacheInv, CacheInv', Quantified, work # <<>>, NEW n, InsertedAt(n)
    PROVE  Quantified'
  <1> DEFINE h == Head(work)
             a == [h EXCEPT !.len = Share(h), !.slot = h.slot + 1]
  <1>1. /\ h \in Insertions /\ h.len \in Quanta /\ h.tot \in Quanta /\ h = work[1]
        /\ Len(work) \in Nat /\ work \in Seq(Insertions)
        /\ Tail(work) \in Seq(Insertions) /\ Len(Tail(work)) = Len(work) - 1
        /\ \A i \in 1 .. Len(Tail(work)) : Tail(work)[i] = work[i + 1]
                                           /\ i + 1 \in 1 .. Len(work)
    BY DEF CacheInv, Shape, Quantified
  <1>2. \A i \in 1 .. Len(Tail(work)) : Tail(work)[i].len \in Quanta
                                        /\ Tail(work)[i].tot \in Quanta
    BY <1>1 DEF Quantified
  <1>3. CASE h.slot < h.to
    <2>1. work' = <<a>> \o Tail(work)
      BY <1>3 DEF InsertedAt
    <2>2. a.len \in Quanta /\ a.tot \in Quanta
      <3>1. a.len = Share(h) /\ a.tot = h.tot
        BY <1>1 DEF Insertions
      <3> QED
        BY <1>1, <3>1, ShareIsQuantum
    <2> HIDE DEF a, h
    <2>3. Len(work') = Len(Tail(work)) + 1 /\ work'[1] = a
          /\ \A i \in 1 .. Len(work') : i # 1 => work'[i] = Tail(work)[i - 1]
                                                 /\ i - 1 \in 1 .. Len(Tail(work))
      BY <1>1, <2>1
    <2> QED
      BY <1>2, <2>2, <2>3 DEF Quantified
  <1>4. CASE ~(h.slot < h.to)
    <2>1. work' = Tail(work)
      BY <1>4 DEF InsertedAt
    <2> QED
      BY <1>2, <2>1 DEF Quantified
  <1> QED
    BY <1>3, <1>4

(* and so do the record that found no node,                                *)
LEMMA FullQuanta ==
    ASSUME CacheInv, Quantified, Full PROVE Quantified'
  <1>1. /\ work # <<>> /\ work' = [work EXCEPT ![1].len = Share(Head(work))]
        /\ work \in Seq(Insertions) /\ Len(work) \in Nat
    BY DEF Full, Inserting, CacheInv, Shape
  <1>2. /\ Len(work) >= 1 /\ Head(work) = work[1] /\ work[1] \in Insertions
        /\ work[1].len \in Quanta /\ work[1].tot \in Quanta
    BY <1>1 DEF Quantified
  <1>3. Share(work[1]) \in Quanta
    BY <1>2, ShareIsQuantum
  <1>4. /\ Len(work') = Len(work)
        /\ work'[1] = [work[1] EXCEPT !.len = Share(work[1])]
        /\ \A i \in 1 .. Len(work) : i # 1 => work'[i] = work[i]
    BY <1>1, <1>2
  <1>5. work'[1].len = Share(work[1]) /\ work'[1].tot = work[1].tot
    BY <1>2, <1>4 DEF Insertions
  <1> QED
    BY <1>2, <1>3, <1>4, <1>5 DEF Quantified

(* a record that arrives                                                   *)
LEMMA ArriveQuanta ==
    ASSUME ChainInv', NEW calls \in Calls, NEW from \in Slots, NEW to \in Slots,
           Arrive(calls, from, to)
    PROVE  Quantified'
  <1> DEFINE b == Unit * (to - from + 1)
  <1>1. /\ work' = [i \in DOMAIN calls |-> Insertion(calls[i], b, from, to)]
        /\ from <= to /\ work' \in Seq(Insertions)
    BY DEF Arrive, ChainInv, CacheInv, Shape
  <1>2. b \in Quanta
    BY <1>1, FlowIsQuantum
  <1> HIDE DEF b
  <1>3. \A i \in 1 .. Len(work') : i \in DOMAIN calls
    <2>1. DOMAIN work' = DOMAIN calls /\ DOMAIN work' = 1 .. Len(work')
      BY <1>1
    <2> QED
      BY <2>1
  <1> QED
    BY <1>1, <1>2, <1>3 DEF Quantified, Insertion

(* and the retry.                                                          *)
LEMMA ResumeQuanta ==
    ASSUME ChainInv, Quantified, Resume PROVE Quantified'
  <1>1. CASE work = <<>>
    BY <1>1 DEF Resume, Quantified
  <1>2. CASE work # <<>>
    <2> DEFINE i == Head(work)
               a == Insertion(i.key, i.len, i.from, i.to)
               z == Insertion(Zero, i.len, i.from, i.to)
               r == IF SumHost THEN <<z>> ELSE <<>>
    <2>1. work' = <<a>> \o r \o Tail(work)
      BY <1>2 DEF Resume, Retry
    <2>2. /\ work \in Seq(Insertions) /\ Tail(work) \in Seq(Insertions)
          /\ i = work[1] /\ i \in Insertions /\ Len(work) \in Nat \ {0}
          /\ Len(Tail(work)) = Len(work) - 1
          /\ \A j \in 1 .. Len(Tail(work)) : Tail(work)[j] = work[j + 1]
      BY <1>2 DEF ChainInv, CacheInv, Shape
    <2>3. i.len \in Quanta
      BY <2>2 DEF Quantified
    <2> DEFINE G == {x \in Insertions : x.len \in Quanta /\ x.tot \in Quanta}
    <2>4. a \in G /\ z \in G
      <3> HIDE DEF i
      <3> QED
        BY <2>2, <2>3, CacheAssumption DEF Insertion, Insertions
    <2>5. Tail(work) \in Seq(G)
      <3>1. \A j \in 1 .. Len(Tail(work)) : Tail(work)[j] \in G
        BY <2>2 DEF Quantified
      <3> HIDE DEF G
      <3> QED
        BY <2>2, <3>1, SeqInto
    <2> HIDE DEF a, z, G
    <2>6. <<a>> \in Seq(G) /\ r \in Seq(G)
      <3>1. <<z>> \in Seq(G) /\ <<>> \in Seq(G) /\ <<a>> \in Seq(G)
        BY <2>4
      <3> QED
        BY <3>1
    <2> HIDE DEF r
    <2>7. work' \in Seq(G)
      BY <2>1, <2>5, <2>6
    <2>8. \A j \in 1 .. Len(work') : work'[j] \in G
      BY <2>7
    <2> QED
      BY <2>8 DEF Quantified, G
  <1> QED
    BY <1>1, <1>2

(* What there is to insert is always such an amount.                       *)
LEMMA QuantaStep ==
    ASSUME ChainInv, ChainInv', Quantified, [Next]_vars PROVE Quantified'
  <1>1. CacheInv /\ CacheInv'
    BY DEF ChainInv
  <1>2. ASSUME NEW calls \in Calls, NEW from \in Slots, NEW to \in Slots,
               Arrive(calls, from, to)
        PROVE  Quantified'
    BY <1>2, ArriveQuanta
  <1>3. CASE SumCounters \/ TakeFree \/ Attach
    <2>1. work # <<>> /\ (InsertedAt(cp) \/ InsertedAt(NewNode))
      BY <1>3 DEF SumCounters, TakeFree, Attach, Inserting
    <2> QED
      BY <1>1, <2>1, InsertedQuanta
  <1>4. CASE Full
    BY <1>1, <1>4, FullQuanta
  <1>5. CASE Resume
    BY <1>5, ResumeQuanta
  <1>6. CASE work' = work
    BY <1>6 DEF Quantified
  <1>7. Hop \/ MarkFlush \/ Fork \/ NoWriter \/ Flush \/ PendingHop \/ PendingFree
        \/ PendingAttach \/ FlushEvent \/ Roll \/ WriterEnds \/ Exit \/ Exited
        \/ UNCHANGED vars => work' = work
    <2>1. Hop \/ PendingHop \/ Fork \/ NoWriter \/ Exit \/ FlushEvent => work' = work
      BY DEF Hop, PendingHop, Fork, NoWriter, Exit, FlushEvent
    <2>2. MarkFlush \/ Flush \/ PendingFree \/ PendingAttach => work' = work
      BY DEF MarkFlush, Flush, FlushTo, PendingFree, PendingAttach
    <2>3. Roll \/ WriterEnds \/ Exited \/ UNCHANGED vars => work' = work
      BY DEF Roll, WriterEnds, Exited, vars
    <2> QED
      BY <2>1, <2>2, <2>3
  <1> QED
    BY <1>2, <1>3, <1>4, <1>5, <1>6, <1>7 DEF Next, PluginStep

(* The initial table is empty.                                             *)
LEMMA TableInit == Init => Table!Init
  <1> SUFFICES ASSUME Init PROVE Table!Init
    OBVIOUS
  <1>1. Counting = {} /\ pending = <<>>
    BY DEF Init, Counting, Queued
  <1>2. \A ks \in Keys \X Slots : InCache(ks) = 0 /\ InContainer(ks) = 0
    <2> SUFFICES ASSUME NEW ks \in Keys \X Slots PROVE InCache(ks) = 0 /\ InContainer(ks) = 0
      OBVIOUS
    <2>1. Bytes(cnt, key, slot, Counting, ks) = 0
      BY <1>1, BytesOfNone
    <2>2. Held(pending, ks) = 0
      BY <1>1, HeldEmpty
    <2> QED
      BY <2>1, <2>2, InCacheIs, InContainerIs
  <1>3. Counters = [ks \in Keys \X Slots |-> 0]
    BY <1>2 DEF Counters
  <1> QED
    BY <1>3 DEF Table!Init, Table!Bins, Init, Slots

(* No counter changes: a stuttering step of the table.                     *)
LEMMA TableStutters ==
    ASSUME \A ks \in Keys \X Slots :
             InCache(ks)' + InContainer(ks)' = InCache(ks) + InContainer(ks),
           written' = written, lost' = lost
    PROVE  UNCHANGED Table!vars
  <1>1. Counters' = Counters
    BY DEF Counters
  <1> QED
    BY <1>1 DEF Table!vars

(* An insertion is the table's Add.                                        *)
LEMMA TableAdds ==
    ASSUME ChainInv, ChainInv', Quantified, SumCounters \/ TakeFree \/ Attach
    PROVE  Table!Next
  <1> DEFINE h == Head(work)
             b == <<h.key, h.slot>>
             n == Share(h)
  <1>1. work # <<>> /\ written' = written /\ lost' = lost
    BY DEF SumCounters, TakeFree, Attach, Inserting, ledger
  <1>2. h \in Insertions /\ h.key \in Keys /\ h.slot \in Slots /\ n \in Quanta
    <2>1. CacheInv
      BY DEF ChainInv
    <2>2. h \in Insertions /\ h.key \in Keys /\ h.slot \in Slots
      BY <1>1, <2>1, HeadOfWork
    <2>3. h.len \in Quanta /\ h.tot \in Quanta
      BY <1>1, <2>1 DEF CacheInv, Shape, Quantified
    <2> QED
      BY <2>2, <2>3, ShareIsQuantum
  <1>3. b \in Keys \X Slots
    BY <1>2
  <1>4. \A ks \in Keys \X Slots : InCache(ks)' + InContainer(ks)'
          = IF ks = b THEN InCache(ks) + InContainer(ks) + n ELSE InCache(ks) + InContainer(ks)
    <2> SUFFICES ASSUME NEW ks \in Keys \X Slots
                 PROVE  InCache(ks)' + InContainer(ks)'
                          = IF ks = b THEN InCache(ks) + InContainer(ks) + n
                            ELSE InCache(ks) + InContainer(ks)
      OBVIOUS
    <2>1. InCache(ks)' = InCache(ks) + Part(h.key, h.slot, n, ks)
          /\ InContainer(ks)' = InContainer(ks)
      BY InsertBytes
    <2>2. InCache(ks) \in Nat /\ InContainer(ks) \in Nat
      BY AtIsNat
    <2>3. n \in Nat
      BY <1>2, CacheAssumption DEF Quanta
    <2> HIDE DEF n, h
    <2> QED
      BY <2>1, <2>2, <2>3 DEF Part
  <1> HIDE DEF b, n, h
  <1>5. Counters' = [Counters EXCEPT ![b] = @ + n]
    BY <1>3, <1>4 DEF Counters
  <1> QED
    BY <1>1, <1>2, <1>3, <1>5 DEF Table!Next, Table!Add, Table!Bins, Slots, Quanta

(* A purge takes whole time-bins: what is committed is of closed ones and  *)
(* what is kept is not.                                                    *)
LEMMA PurgeIsByBin ==
    ASSUME ChainInv, Fork \/ NoWriter, NEW ks \in Keys \X Slots
    PROVE  /\ ks[2] + Delay > CommitBase => BytesIn(Committed, ks) = 0
           /\ ks[2] + Delay <= CommitBase => Held(pending, ks) = 0
           /\ BytesIn(Committed, ks) \in Nat /\ Held(pending, ks) \in Nat
           /\ CommitBase \in 1 .. MaxSlot
  <1>1. pc = "marking" /\ marked = Len(queue)
    BY DEF Fork, NoWriter
  <1>2. CommitBase \in 1 .. MaxSlot
    BY CacheAssumption DEF ChainInv, Phased, CommitBase, Slots
  <1>3. Queued = {queue[i] : i \in 1 .. Len(queue)}
    BY DEF ChainInv, CacheInv, Shape, Queued
  <1>4. \A n \in Committed : slot[n] + Delay <= CommitBase
    <2> SUFFICES ASSUME NEW n \in Committed PROVE slot[n] + Delay <= CommitBase
      OBVIOUS
    <2>1. PICK i \in 1 .. Len(queue) : queue[i] = n
      BY <1>3 DEF Committed
    <2>2. ~IsPending(n)
      BY <1>1, <2>1 DEF ChainInv, Marks, Committed
    <2>3. slot[n] \in Int
      BY <2>1, CacheAssumption DEF ChainInv, Phased, Slots
    <2> QED
      BY <1>2, <2>2, <2>3, CacheAssumption DEF IsPending
  <1>5. ks[2] \in Int /\ Delay \in Nat
    BY CacheAssumption DEF Slots
  <1>6. ks[2] + Delay > CommitBase => BytesIn(Committed, ks) = 0
    <2>1. ASSUME ks[2] + Delay > CommitBase
          PROVE  \A n \in Committed : ~(key[n] = ks[1] /\ slot[n] = ks[2])
      BY <1>2, <1>4, <1>5, <2>1
    <2> QED
      BY <2>1, BytesOfNone, BytesInIsBytes
  <1>7. ks[2] + Delay <= CommitBase => Held(pending, ks) = 0
    <2> SUFFICES ASSUME ks[2] + Delay <= CommitBase PROVE Held(pending, ks) = 0
      OBVIOUS
    <2>1. \A j \in 1 .. Len(pending) : CommitBase < pending[j].slot + Delay
      BY <1>1 DEF ChainInv, Marks
    <2>2. DOMAIN pending = 1 .. Len(pending)
      BY DEF ChainInv, Phased
    <2>3. \A j \in DOMAIN pending : <<pending[j].key, pending[j].slot>> # ks
      BY <1>2, <1>5, <2>1, <2>2
    <2>4. Of(pending, ks) = {}
      BY <2>3 DEF Of
    <2> QED
      BY <2>4, SumEmpty DEF Held
  <1>8. BytesIn(Committed, ks) \in Nat /\ Held(pending, ks) \in Nat
    <2>1. CacheInv /\ pending \in Seq(Counted)
      BY DEF ChainInv, Phased
    <2>2. cnt \in [Nodes -> Nat] /\ Committed \in SUBSET Nodes
      BY <2>1, QueuedNodes DEF CacheInv, Shape
    <2> QED
      BY <2>1, <2>2, BytesIsNat, BytesInIsBytes, HeldFinite
  <1> QED
    BY <1>2, <1>6, <1>7, <1>8

(* So it is the table's Purge up to the last closed time-bin, if any is.   *)
LEMMA TablePurges ==
    ASSUME ChainInv, Fork \/ NoWriter
    PROVE  Table!Next \/ UNCHANGED Table!vars
  <1> DEFINE t == CommitBase - Delay
             C(ks) == BytesIn(Committed, ks)
  <1>0. CommitBase \in 1 .. MaxSlot /\ Delay \in Nat
    BY CacheAssumption DEF ChainInv, Phased, CommitBase, Slots
  <1>1. \A ks \in Keys \X Slots :
          /\ InCache(ks) = C(ks) /\ InCache(ks)' = 0 /\ InContainer(ks)' = InContainer(ks)
          /\ InCache(ks) \in Nat /\ InContainer(ks) \in Nat /\ ks[2] \in 1 .. MaxSlot
          /\ ks[2] > t => C(ks) = 0
          /\ ks[2] <= t => InContainer(ks) = 0
    <2> SUFFICES ASSUME NEW ks \in Keys \X Slots
                 PROVE  /\ InCache(ks) = C(ks) /\ InCache(ks)' = 0
                        /\ InContainer(ks)' = InContainer(ks)
                        /\ InCache(ks) \in Nat /\ InContainer(ks) \in Nat
                        /\ ks[2] \in 1 .. MaxSlot
                        /\ ks[2] > t => C(ks) = 0
                        /\ ks[2] <= t => InContainer(ks) = 0
      OBVIOUS
    <2>1. ks[2] \in 1 .. MaxSlot
      BY DEF Slots
    <2> QED
      BY <1>0, <2>1, PurgeBytes, PurgeIsByBin, AtIsNat, CacheAssumption
  <1>2. /\ written \in [Keys \X Slots -> Nat] /\ lost \in [Keys \X Slots -> Nat]
        /\ \/ written' = Credit(written, Committed) /\ lost' = lost
           \/ lost' = Credit(lost, Committed) /\ written' = written
    BY DEF ChainInv, Phased, Fork, NoWriter
  <1>3. CASE t < 1
    <2>1. \A ks \in Keys \X Slots : C(ks) = 0
      BY <1>0, <1>1, <1>3, CacheAssumption
    <2>2. \A acct \in [Keys \X Slots -> Nat] : Credit(acct, Committed) = acct
      BY <2>1 DEF Credit
    <2>3. written' = written /\ lost' = lost
      BY <1>2, <2>2
    <2>4. \A ks \in Keys \X Slots :
            InCache(ks)' + InContainer(ks)' = InCache(ks) + InContainer(ks)
      BY <1>1, <2>1
    <2> QED
      BY <2>3, <2>4, TableStutters
  <1>4. CASE t >= 1
    <2>1. t \in 1 .. MaxSlot
      BY <1>0, <1>4, CacheAssumption
    <2> HIDE DEF C, t
    <2>2. \A ks \in Keys \X Slots :
            InCache(ks)' + InContainer(ks)'
              = IF ks[2] <= t THEN 0 ELSE InCache(ks) + InContainer(ks)
      BY <1>1, <2>1, CacheAssumption
    <2>3. Counters' = [ks \in Keys \X Slots |-> IF ks[2] <= t THEN 0 ELSE Counters[ks]]
      BY <2>2 DEF Counters
    <2>4. \A ks \in Keys \X Slots : C(ks) = IF ks[2] <= t THEN Counters[ks] ELSE 0
      <3>1. \A ks \in Keys \X Slots : Counters[ks] = InCache(ks) + InContainer(ks)
        BY DEF Counters
      <3> QED
        BY <1>1, <2>1, <3>1, CacheAssumption
    <2>5. \A acct \in [Keys \X Slots -> Nat] :
            Credit(acct, Committed) = [ks \in Keys \X Slots |->
                IF ks[2] <= t THEN acct[ks] + Counters[ks] ELSE acct[ks]]
      <3> SUFFICES ASSUME NEW acct \in [Keys \X Slots -> Nat]
                   PROVE  Credit(acct, Committed) = [ks \in Keys \X Slots |->
                            IF ks[2] <= t THEN acct[ks] + Counters[ks] ELSE acct[ks]]
        OBVIOUS
      <3>1. Credit(acct, Committed) = [ks \in Keys \X Slots |-> acct[ks] + C(ks)]
        BY DEF Credit, C
      <3>2. \A ks \in Keys \X Slots : acct[ks] + C(ks)
              = IF ks[2] <= t THEN acct[ks] + Counters[ks] ELSE acct[ks]
        BY <2>4
      <3> QED
        BY ONLY <3>1, <3>2
    <2>6. Table!Purge(t)
      BY <1>2, <2>3, <2>5 DEF Table!Purge, Table!Left, Table!Credited, Table!Bins, Slots
    <2> QED
      BY <2>1, <2>6 DEF Table!Next
  <1> QED
    BY <1>0, <1>3, <1>4

(* The exit handler is the table's Purge of everything.                    *)
LEMMA TableExits ==
    ASSUME ChainInv, ~ExitAnywhere, Exit
    PROVE  Table!Next
  <1>1. \A ks \in Keys \X Slots :
          /\ InCache(ks)' + InContainer(ks)' = 0 /\ ks[2] <= MaxSlot
          /\ InCache(ks) + InContainer(ks) = BytesIn(Queued, ks)
    <2> SUFFICES ASSUME NEW ks \in Keys \X Slots
                 PROVE  /\ InCache(ks)' + InContainer(ks)' = 0 /\ ks[2] <= MaxSlot
                        /\ InCache(ks) + InContainer(ks) = BytesIn(Queued, ks)
      OBVIOUS
    <2>1. ks[2] <= MaxSlot
      BY CacheAssumption DEF Slots
    <2>2. InCache(ks) \in Nat
      BY AtIsNat
    <2> QED
      BY <2>1, <2>2, ExitBytes
  <1>2. Counters' = [ks \in Keys \X Slots |-> IF ks[2] <= MaxSlot THEN 0 ELSE Counters[ks]]
    BY <1>1 DEF Counters
  <1>3. \A acct : Credit(acct, Queued) = [ks \in Keys \X Slots |->
            IF ks[2] <= MaxSlot THEN acct[ks] + Counters[ks] ELSE acct[ks]]
    <2> SUFFICES ASSUME NEW acct
                 PROVE  Credit(acct, Queued) = [ks \in Keys \X Slots |->
                          IF ks[2] <= MaxSlot THEN acct[ks] + Counters[ks] ELSE acct[ks]]
      OBVIOUS
    <2>1. \A ks \in Keys \X Slots : acct[ks] + BytesIn(Queued, ks)
            = IF ks[2] <= MaxSlot THEN acct[ks] + Counters[ks] ELSE acct[ks]
      BY <1>1 DEF Counters
    <2> QED
      BY ONLY <2>1 DEF Credit
  <1>4. \/ written' = Credit(written, Queued) /\ lost' = lost
        \/ lost' = Credit(lost, Queued) /\ written' = written
    BY DEF Exit
  <1>5. Table!Purge(MaxSlot)
    BY <1>2, <1>3, <1>4 DEF Table!Purge, Table!Left, Table!Credited, Table!Bins, Slots
  <1>6. MaxSlot \in 1 .. MaxSlot
    BY CacheAssumption
  <1> QED
    BY <1>5, <1>6 DEF Table!Next

(* The memory cache implements the table of counters, as long as SIGINT is *)
(* handled between operations: whatever the hash, the size of the scratch  *)
(* area and the records, a step of plugin_common.c adds one amount to one  *)
(* counter, hands over or drops whole time-bins, or cannot be seen.  No    *)
(* collision, urgent purge (safe_action) or rebuilt chain moves, loses or  *)
(* repeats what was counted.                                               *)
THEOREM CacheImplementsTable == ~ExitAnywhere => (Spec => ImplementsTable)
  <1> SUFFICES ASSUME ~ExitAnywhere PROVE Spec => ImplementsTable
    OBVIOUS
  <1> DEFINE Inv == ChainInv /\ Quantified
  <1>1. Init => Inv
    BY ChainInit DEF Init, Quantified
  <1>2. Inv /\ [Next]_vars => Inv'
    BY ChainStep, QuantaStep
  <1>3. Inv /\ Inv' /\ [Next]_vars => [Table!Next]_(Table!vars)
    <2> SUFFICES ASSUME ChainInv, ChainInv', Quantified, [Next]_vars
                 PROVE  Table!Next \/ UNCHANGED Table!vars
      OBVIOUS
    <2>1. CASE SumCounters \/ TakeFree \/ Attach
      BY <2>1, TableAdds
    <2>2. CASE Fork \/ NoWriter
      BY <2>2, TablePurges
    <2>3. CASE Exit
      BY <2>3, TableExits
    <2>4. CASE MarkFlush \/ PendingFree \/ PendingAttach
      <3>1. written' = written /\ lost' = lost
        BY <2>4 DEF MarkFlush, PendingFree, PendingAttach, ledger
      <3> QED
        BY <2>4, <3>1, MarkBytes, PlaceBytes, TableStutters
    <2>5. CASE Flush
      <3>1. written' = written /\ lost' = lost
        BY <2>5 DEF Flush, FlushTo, ledger
      <3> QED
        BY <2>5, <3>1, FlushBytes, TableStutters
    <2>6. CASE Idle
      BY <2>6, IdleBytes, TableStutters
    <2> QED
      BY <2>1, <2>2, <2>3, <2>4, <2>5, <2>6 DEF Next, PluginStep, Idle, Exited
  <1> HIDE DEF Inv
  <1> QED
    BY <1>1, <1>2, <1>3, TableInit, PTL DEF Spec, ImplementsTable, Table!Spec

-----------------------------------------------------------------------------
(* Conservation.                                                           *)

(* P_cache_insert is called once for a record, with the bytes of one bin.  *)
OneRecord ==
    /\ Len(work) <= 1
    /\ \A i \in 1 .. Len(work) : work[i].len = Unit
Waiting(ks) == IF work = <<>> THEN 0 ELSE Part(work[1].key, work[1].slot, Unit, ks)
Balance ==
    \A ks \in Keys \X Slots :
      given[ks] = written[ks] + lost[ks] + (InCache(ks) + InContainer(ks)) + Waiting(ks)

(* The sum over the records to insert is that of one record.               *)
LEMMA SharesAreSum ==
    ASSUME NEW w, NEW S
    PROVE  MapThenSumSet(LAMBDA i : Share(w[i]), S) = Sum([i \in S |-> Share(w[i])], S)
  <1> DEFINE f == [i \in S |-> Share(w[i])]
             F(g) == [s \in SUBSET S |-> IF s = {} THEN 0
                                         ELSE Share(w[AnyOf(s)]) + g[s \ {AnyOf(s)}]]
  <1>1. \A s \in SUBSET S : s # {} => f[AnyOf(s)] = Share(w[AnyOf(s)])
    BY DEF AnyOf
  <1>2. \A g : F(g) = Unfold(f, S, g)
    BY <1>1 DEF Unfold
  <1>3. MapThenSumSet(LAMBDA i : Share(w[i]), S) = (CHOOSE g : g = F(g))[S]
    BY DEF MapThenSumSet, MapThenFoldSet, AnyOf
  <1> HIDE DEF F, f
  <1>4. (CHOOSE g : g = F(g)) = Partial(f, S)
    BY <1>2 DEF Partial
  <1>5. MapThenSumSet(LAMBDA i : Share(w[i]), S) = Sum(f, S)
    BY <1>3, <1>4, SumIsPartial
  <1> QED
    BY <1>5 DEF f

(* What is to insert is the one record under way.                          *)
LEMMA ToInsertIsWaiting ==
    ASSUME CacheInv, OneBin, OneRecord, NEW ks \in Keys \X Slots
    PROVE  ToInsert(ks) = Waiting(ks)
  <1> DEFINE S == {i \in DOMAIN work : /\ work[i].key = ks[1]
                                       /\ ks[2] \in work[i].slot .. work[i].to}
             f == [i \in S |-> Share(work[i])]
  <1>1. work \in Seq(Insertions) /\ DOMAIN work = 1 .. Len(work) /\ Len(work) \in Nat
    BY DEF CacheInv, Shape
  <1>2. ToInsert(ks) = Sum(f, S)
    BY SharesAreSum DEF ToInsert
  <1>3. CASE work = <<>>
    <2>1. S = {}
      BY <1>1, <1>3
    <2> HIDE DEF f, S
    <2> QED
      BY <1>2, <1>3, <2>1, SumEmpty DEF Waiting
  <1>4. CASE work # <<>>
    <2>1. DOMAIN work = {1} /\ work[1] \in Insertions /\ 1 \in 1 .. Len(work)
      <3>1. Len(work) = 1
        BY <1>1, <1>4 DEF OneRecord
      <3> QED
        BY <1>1, <3>1
    <2>2. /\ work[1].len = Unit /\ work[1].to = work[1].slot /\ work[1].to = work[1].from
          /\ work[1].slot \in Int /\ work[1].key \in Keys
      BY <2>1, CacheAssumption DEF OneRecord, OneBin, Insertions, Slots
    <2>3. Share(work[1]) = Unit
      BY <2>2 DEF Share
    <2>4. ks[2] \in work[1].slot .. work[1].to <=> ks[2] = work[1].slot
      BY <2>2, CacheAssumption DEF Slots
    <2>5. CASE <<work[1].key, work[1].slot>> = ks
      <3>1. S = {} \union {1} /\ 1 \in S
        BY <2>1, <2>4, <2>5
      <3>2. f[1] = Unit /\ Unit \in Nat
        BY <2>3, <3>1, CacheAssumption
      <3> HIDE DEF S, f
      <3>3. IsFiniteSet({}) /\ 1 \notin {}
        BY FS_EmptySet
      <3>4. \A x \in {} \union {1} : f[x] \in Nat
        BY <3>2
      <3>5. Sum(f, {} \union {1}) = Sum(f, {}) + f[1]
        BY ONLY <3>3, <3>4, SumAdd
      <3>6. Sum(f, S) = Sum(f, {} \union {1})
        BY <3>1, Zenon
      <3>7. ToInsert(ks) = Unit
        BY <1>2, <3>2, <3>5, <3>6, SumEmpty
      <3> QED
        BY <1>4, <2>5, <3>7 DEF Waiting, Part
    <2>6. CASE <<work[1].key, work[1].slot>> # ks
      <3>1. S = {}
        BY <2>1, <2>4, <2>6
      <3> HIDE DEF S, f
      <3>2. Sum(f, S) = Sum(f, {})
        BY <3>1, Zenon
      <3> QED
        BY <1>2, <1>4, <2>6, <3>2, SumEmpty DEF Waiting, Part
    <2> QED
      BY <2>5, <2>6
  <1> QED
    BY <1>3, <1>4

(* A record arrives and is counted as given and to insert.                 *)
LEMMA ArriveBalance ==
    ASSUME ChainInv, ChainInv', Balance, ~SumHost, ~ProRating,
           NEW calls \in Calls, NEW from \in Slots, NEW to \in Slots,
           Arrive(calls, from, to)
    PROVE  OneRecord' /\ Balance'
  <1>1. PICK k \in Keys : calls = <<k>>
    BY DEF Calls
  <1>2. DOMAIN calls = {1} /\ calls[1] = k /\ from = to /\ work = <<>> /\ to \in Int
    BY <1>1, CacheAssumption DEF Arrive, Slots
  <1>3. Unit * (to - from + 1) = Unit /\ Unit \in Nat
    <2>1. to - from + 1 = 1
      BY <1>2
    <2>2. Unit * 1 = Unit
      BY CacheAssumption
    <2> QED
      BY <2>1, <2>2, CacheAssumption
  <1>4. work' = [i \in {1} |-> Insertion(k, Unit, from, from)]
    BY <1>2, <1>3 DEF Arrive
  <1>5. Len(work') = 1 /\ work'[1] = Insertion(k, Unit, from, from) /\ work' # <<>>
    <2>1. work' \in Seq(Insertions) /\ DOMAIN work' = {1}
      BY <1>4 DEF ChainInv, CacheInv, Shape
    <2>2. DOMAIN work' = 1 .. Len(work') /\ Len(work') \in Nat
      BY <2>1
    <2>3. Len(work') = 1
      BY <2>1, <2>2
    <2> QED
      BY <1>4, <2>1, <2>3
  <1>6. OneRecord'
    BY <1>5 DEF OneRecord, Insertion
  <1>7. written' = written /\ lost' = lost
    BY DEF Arrive
  <1>8. Balance'
    <2> SUFFICES ASSUME NEW ks \in Keys \X Slots
                 PROVE  given'[ks] = written'[ks] + lost'[ks]
                                     + (InCache(ks)' + InContainer(ks)') + Waiting(ks)'
      BY DEF Balance
    <2>1. InCache(ks)' = InCache(ks) /\ InContainer(ks)' = InContainer(ks)
      BY IdleBytes DEF Idle
    <2>2. Waiting(ks) = 0 /\ Waiting(ks)' = Part(k, from, Unit, ks)
      BY <1>2, <1>5 DEF Waiting, Insertion
    <2>3. given'[ks] = given[ks] + Part(k, from, Unit, ks)
      <3> DEFINE D == {i \in DOMAIN calls : calls[i] = ks[1]}
      <3>1. ks[2] \in from .. to <=> ks[2] = from
        BY <1>2, CacheAssumption DEF Slots
      <3>2. given'[ks] = IF ks[2] \in from .. to THEN given[ks] + Unit * Cardinality(D)
                         ELSE given[ks]
        BY DEF Arrive
      <3>3. given[ks] \in Nat
        BY DEF ChainInv, Phased
      <3>4. CASE ks[1] = k
        <4>1. D = {1}
          BY <1>2, <3>4
        <4>2. Cardinality(D) = 1
          BY <4>1, FS_Singleton
        <4>3. Unit * Cardinality(D) = Unit
          BY <4>2, CacheAssumption
        <4> QED
          BY <1>3, <3>1, <3>2, <3>3, <3>4, <4>3 DEF Part
      <3>5. CASE ks[1] # k
        <4>1. D = {}
          BY <1>2, <3>5
        <4>2. Cardinality(D) = 0
          BY <4>1, FS_EmptySet
        <4>3. Unit * Cardinality(D) = 0
          BY <4>2, CacheAssumption
        <4> QED
          BY <1>3, <3>1, <3>2, <3>3, <3>5, <4>3 DEF Part
      <3> QED
        BY <3>4, <3>5
    <2>4. Part(k, from, Unit, ks) \in Nat
      BY <1>3 DEF Part
    <2>5. InCache(ks) \in Nat /\ InContainer(ks) \in Nat
      BY AtIsNat
    <2>6. written[ks] \in Nat /\ lost[ks] \in Nat
      BY DEF ChainInv, Phased
    <2>7. given[ks] = written[ks] + lost[ks] + (InCache(ks) + InContainer(ks)) + Waiting(ks)
      BY DEF Balance
    <2> QED
      BY ONLY <1>7, <2>1, <2>2, <2>3, <2>4, <2>5, <2>6, <2>7
  <1> QED
    BY <1>6, <1>8

(* A sequence of at most one element that is not empty.                    *)
LEMMA AtMostOne ==
    ASSUME NEW S, NEW s \in Seq(S), Len(s) <= 1, s # <<>>
    PROVE  /\ Len(s) = 1 /\ Head(s) = s[1] /\ s[1] \in S /\ Tail(s) = <<>>
           /\ 1 \in 1 .. Len(s) /\ \A i \in 1 .. Len(s) : i = 1
  <1>1. Len(s) \in Nat /\ Len(s) # 0
    OBVIOUS
  <1>2. ASSUME NEW n \in Nat, n # 0, n <= 1 PROVE n = 1
    BY <1>2
  <1>3. Len(s) = 1
    BY ONLY <1>1, <1>2, Len(s) <= 1, Zenon
  <1>4. Head(s) = s[1] /\ s[1] \in S
    BY <1>3
  <1>5. Tail(s) \in Seq(S) /\ Len(Tail(s)) = 0
    BY <1>3
  <1>6. ASSUME NEW q \in Seq(S), Len(q) = 0 PROVE q = <<>>
    BY <1>6
  <1>7. Tail(s) = <<>>
    BY ONLY <1>5, <1>6, Zenon
  <1>8. 1 \in 1 .. 1 /\ \A i \in 1 .. 1 : i = 1
    OBVIOUS
  <1> QED
    BY ONLY <1>3, <1>4, <1>7, <1>8, Zenon

(* The one record that is being inserted.                                  *)
LEMMA SingleRecord ==
    ASSUME work \in Seq(Insertions), OneBin, OneRecord, work # <<>>
    PROVE  /\ Len(work) = 1 /\ Head(work) = work[1] /\ work[1] \in Insertions
           /\ Tail(work) = <<>>
           /\ work[1].len = Unit /\ work[1].slot = work[1].from
           /\ work[1].to = work[1].from
           /\ Share(work[1]) = Unit
  <1>1. Len(work) <= 1
    BY Zenon DEF OneRecord
  <1>2. /\ Len(work) = 1 /\ Head(work) = work[1] /\ work[1] \in Insertions
        /\ Tail(work) = <<>> /\ 1 \in 1 .. Len(work)
    BY <1>1, AtMostOne, Zenon
  <1>3. work[1].len = Unit /\ work[1].slot = work[1].from /\ work[1].to = work[1].from
    BY <1>2, Zenon DEF OneRecord, OneBin
  <1>4. work[1].to \in Int /\ work[1].from \in Int
    BY <1>2, CacheAssumption DEF Insertions, Slots
  <1>5. Share(work[1]) = Unit
    BY <1>3, <1>4 DEF Share
  <1> QED
    BY <1>2, <1>3, <1>5

(* A record inserted is no longer to insert.                               *)
LEMMA InsertBalance ==
    ASSUME ChainInv, ChainInv', OneBin, OneRecord, Balance,
           SumCounters \/ TakeFree \/ Attach
    PROVE  OneRecord' /\ Balance'
  <1> DEFINE h == Head(work)
  <1>1. /\ work # <<>> /\ given' = given /\ written' = written /\ lost' = lost
        /\ InsertedAt(cp) \/ InsertedAt(NewNode)
    BY DEF SumCounters, TakeFree, Attach, Inserting, ledger
  <1>2. work \in Seq(Insertions)
    BY DEF ChainInv, CacheInv, Shape
  <1>3. /\ Len(work) = 1 /\ h = work[1] /\ h \in Insertions
        /\ h.len = Unit /\ h.slot = h.to /\ h.to = h.from
        /\ Tail(work) = <<>> /\ Share(h) = Unit
    BY <1>1, <1>2, SingleRecord
  <1>4. h.slot \in Int /\ Unit \in Nat
    BY <1>3, CacheAssumption DEF Insertions, Slots
  <1>5. work' = <<>>
    BY <1>1, <1>3, <1>4 DEF InsertedAt
  <1>6. OneRecord'
    BY <1>5 DEF OneRecord
  <1>7. Balance'
    <2> SUFFICES ASSUME NEW ks \in Keys \X Slots
                 PROVE  given'[ks] = written'[ks] + lost'[ks]
                                     + (InCache(ks)' + InContainer(ks)') + Waiting(ks)'
      BY DEF Balance
    <2>1. /\ InCache(ks)' = InCache(ks) + Part(h.key, h.slot, Unit, ks)
          /\ InContainer(ks)' = InContainer(ks)
      BY <1>3, InsertBytes
    <2>2. Waiting(ks)' = 0 /\ Waiting(ks) = Part(h.key, h.slot, Unit, ks)
      BY <1>1, <1>3, <1>5 DEF Waiting
    <2>3. Part(h.key, h.slot, Unit, ks) \in Nat
      BY <1>4 DEF Part
    <2>4. InCache(ks) \in Nat /\ InContainer(ks) \in Nat
      BY AtIsNat
    <2>5. written[ks] \in Nat /\ lost[ks] \in Nat
      BY DEF ChainInv, Phased
    <2>6. given[ks] = written[ks] + lost[ks] + (InCache(ks) + InContainer(ks)) + Waiting(ks)
      BY DEF Balance
    <2> QED
      BY ONLY <1>1, <2>1, <2>2, <2>3, <2>4, <2>5, <2>6
  <1> QED
    BY <1>6, <1>7

(* A purge moves what is committed from the cache to an account.           *)
LEMMA CreditBalance ==
    ASSUME ChainInv, Balance, given' = given, work' = work, NEW S,
           \/ written' = Credit(written, S) /\ lost' = lost
           \/ lost' = Credit(lost, S) /\ written' = written,
           \A ks \in Keys \X Slots :
             /\ BytesIn(S, ks) \in Nat /\ InContainer(ks)' \in Nat
             /\ InCache(ks)' = 0
             /\ InCache(ks) + InContainer(ks) = BytesIn(S, ks) + InContainer(ks)'
    PROVE  Balance'
  <1> SUFFICES ASSUME NEW ks \in Keys \X Slots
               PROVE  given'[ks] = written'[ks] + lost'[ks]
                                   + (InCache(ks)' + InContainer(ks)') + Waiting(ks)'
    BY DEF Balance
  <1>1. Waiting(ks)' = Waiting(ks)
    BY DEF Waiting
  <1>2. \/ written'[ks] = written[ks] + BytesIn(S, ks) /\ lost'[ks] = lost[ks]
        \/ lost'[ks] = lost[ks] + BytesIn(S, ks) /\ written'[ks] = written[ks]
    BY DEF Credit
  <1>3. written[ks] \in Nat /\ lost[ks] \in Nat
    BY DEF ChainInv, Phased
  <1>4. given[ks] = written[ks] + lost[ks] + (InCache(ks) + InContainer(ks)) + Waiting(ks)
    BY DEF Balance
  <1>5. Waiting(ks) \in Nat
    BY CacheAssumption DEF Waiting, Part
  <1>6. /\ BytesIn(S, ks) \in Nat /\ InContainer(ks)' \in Nat /\ InCache(ks)' = 0
        /\ InCache(ks) + InContainer(ks) = BytesIn(S, ks) + InContainer(ks)'
    OBVIOUS
  <1>7. given'[ks] = given[ks]
    OBVIOUS
  <1> QED
    BY ONLY <1>1, <1>2, <1>3, <1>4, <1>5, <1>6, <1>7

(* A writer, or none, takes the committed entries.                         *)
LEMMA PurgeBalance ==
    ASSUME ChainInv, OneRecord, Balance, Fork \/ NoWriter PROVE OneRecord' /\ Balance'
  <1>1. /\ given' = given /\ work' = work
        /\ \/ written' = Credit(written, Committed) /\ lost' = lost
           \/ lost' = Credit(lost, Committed) /\ written' = written
    BY DEF Fork, NoWriter
  <1>2. \A ks \in Keys \X Slots :
          /\ BytesIn(Committed, ks) \in Nat /\ InContainer(ks)' \in Nat /\ InCache(ks)' = 0
          /\ InCache(ks) + InContainer(ks) = BytesIn(Committed, ks) + InContainer(ks)'
    BY PurgeBytes, AtIsNat
  <1> QED
    BY <1>1, <1>2, CreditBalance DEF OneRecord

(* The exit handler takes what is queued.                                  *)
LEMMA ExitBalance ==
    ASSUME ChainInv, OneRecord, Balance, ~ExitAnywhere, Exit PROVE OneRecord' /\ Balance'
  <1>1. /\ given' = given /\ work' = work
        /\ \/ written' = Credit(written, Queued) /\ lost' = lost
           \/ lost' = Credit(lost, Queued) /\ written' = written
    BY DEF Exit
  <1>2. \A ks \in Keys \X Slots :
          /\ BytesIn(Queued, ks) \in Nat /\ InContainer(ks)' \in Nat /\ InCache(ks)' = 0
          /\ InCache(ks) + InContainer(ks) = BytesIn(Queued, ks) + InContainer(ks)'
    BY ExitBytes, AtIsNat
  <1> QED
    BY <1>1, <1>2, CreditBalance DEF OneRecord

(* A step that only moves bytes, and leaves the record to insert the same. *)
LEMMA MoveBalance ==
    ASSUME Balance, UNCHANGED <<given, written, lost>>,
           \A ks \in Keys \X Slots :
             /\ InCache(ks)' + InContainer(ks)' = InCache(ks) + InContainer(ks)
             /\ Waiting(ks)' = Waiting(ks)
    PROVE  Balance'
  BY DEF Balance

(* safe_action interrupts the insertion and begins it again.               *)
LEMMA RetryBalance ==
    ASSUME ChainInv, OneBin, OneRecord, Balance, ~SumHost, Full \/ Resume
    PROVE  OneRecord' /\ Balance'
  <1>1. UNCHANGED <<given, written, lost>>
    BY DEF Full, Resume, ledger
  <1>2. work \in Seq(Insertions)
    BY DEF ChainInv, CacheInv, Shape
  <1>3. OneRecord' /\ (work' = <<>> <=> work = <<>>)
        /\ (work # <<>> => work'[1].key = work[1].key /\ work'[1].slot = work[1].slot)
    <2>1. CASE work = <<>>
      BY <2>1 DEF Full, Inserting, Resume, OneRecord
    <2>2. CASE work # <<>>
      <3> DEFINE i == Head(work)
      <3>1. /\ Len(work) = 1 /\ i = work[1] /\ i \in Insertions /\ Tail(work) = <<>>
            /\ i.len = Unit /\ i.slot = i.from /\ i.to = i.from /\ Share(i) = Unit
        BY <1>2, <2>2, SingleRecord
      <3>2. CASE Full
        <4>2. work' = [work EXCEPT ![1].len = Unit]
          BY <3>1, <3>2 DEF Full
        <4>3. Len(work') = 1 /\ work'[1] = [work[1] EXCEPT !.len = Unit] /\ work' # <<>>
          <5>1. 1 \in DOMAIN work /\ Len(work) = 1
            BY <1>2, <3>1
          <5> QED
            BY ONLY <1>2, <4>2, <5>1
        <4>4. /\ work'[1].key = work[1].key /\ work'[1].slot = work[1].slot
              /\ work'[1].len = Unit
          BY <3>1, <4>3 DEF Insertions
        <4>5. OneRecord'
          <5>1. Len(work') <= 1 /\ \A j \in 1 .. 1 : j = 1
            BY <4>3
          <5>2. \A j \in 1 .. Len(work') : work'[j].len = Unit
            BY ONLY <4>3, <4>4, <5>1, Zenon
          <5> QED
            BY <5>1, <5>2, Zenon DEF OneRecord
        <4> QED
          BY <2>2, <4>3, <4>4, <4>5
      <3>3. CASE Resume
        <4> DEFINE a == Insertion(i.key, i.len, i.from, i.to)
        <4>1. work' = <<a>> \o <<>> \o <<>>
          BY <2>2, <3>1, <3>3 DEF Resume, Retry
        <4>2. a.key = work[1].key /\ a.slot = work[1].slot /\ a.len = Unit
          BY <3>1 DEF Insertion
        <4> HIDE DEF a
        <4>3. Len(work') = 1 /\ work'[1] = a /\ work' # <<>>
          BY <4>1
        <4> QED
          BY <2>2, <4>2, <4>3 DEF OneRecord
      <3> QED
        BY <3>2, <3>3
    <2> QED
      BY <2>1, <2>2
  <1>4. \A ks \in Keys \X Slots : Waiting(ks)' = Waiting(ks)
    BY <1>3 DEF Waiting
  <1>5. \A ks \in Keys \X Slots :
          InCache(ks)' + InContainer(ks)' = InCache(ks) + InContainer(ks)
    BY IdleBytes DEF Idle
  <1> QED
    BY <1>1, <1>3, <1>4, <1>5, MoveBalance

(* What a step of another kind does to the records to insert.              *)
LEMMA OtherBalance ==
    ASSUME ChainInv, ChainInv', OneRecord, Balance,
           \/ Hop \/ PendingHop \/ FlushEvent \/ Roll \/ WriterEnds \/ UNCHANGED vars
           \/ MarkFlush \/ Flush \/ PendingFree \/ PendingAttach
    PROVE  OneRecord' /\ Balance'
  <1>1. UNCHANGED <<given, written, lost, work>>
    <2>1. CASE Hop \/ PendingHop \/ FlushEvent
      BY ONLY <2>1 DEF Hop, PendingHop, FlushEvent, ledger
    <2>2. CASE MarkFlush \/ Flush \/ PendingFree \/ PendingAttach
      BY ONLY <2>2 DEF MarkFlush, Flush, FlushTo, PendingFree, PendingAttach, ledger
    <2>3. CASE Roll \/ WriterEnds \/ UNCHANGED vars
      BY ONLY <2>3 DEF Roll, WriterEnds, ledger, vars
    <2> QED
      BY <2>1, <2>2, <2>3
  <1>2. \A ks \in Keys \X Slots :
          InCache(ks)' + InContainer(ks)' = InCache(ks) + InContainer(ks)
    BY IdleBytes, MarkBytes, FlushBytes, PlaceBytes DEF Idle
  <1>3. \A ks \in Keys \X Slots : Waiting(ks)' = Waiting(ks)
    BY <1>1 DEF Waiting
  <1> QED
    BY <1>1, <1>2, <1>3, MoveBalance DEF OneRecord

(* Every step keeps the balance.                                           *)
LEMMA BalanceStep ==
    ASSUME ~SumHost, ~ProRating, ~ExitAnywhere, ChainInv, ChainInv', SearchInv,
           OneRecord, Balance, [Next]_vars
    PROVE  OneRecord' /\ Balance'
  <1>1. OneBin
    BY DEF SearchInv
  <1>2. ASSUME NEW calls \in Calls, NEW from \in Slots, NEW to \in Slots,
               Arrive(calls, from, to)
        PROVE  OneRecord' /\ Balance'
    BY <1>2, ArriveBalance
  <1>3. CASE PluginStep
    BY <1>1, <1>3, InsertBalance, RetryBalance, PurgeBalance, OtherBalance DEF PluginStep
  <1>4. CASE FlushEvent \/ Roll \/ WriterEnds \/ Exit \/ Exited \/ UNCHANGED vars
    BY <1>4, OtherBalance, ExitBalance DEF Exited
  <1> QED
    BY <1>2, <1>3, <1>4 DEF Next

(* When P_cache_insert is called once for a record and SIGINT is handled   *)
(* between operations, every byte received is accounted for under its own  *)
(* key and time-bin, once, whatever the hash, the sizes and the traffic:   *)
(* in the cache, in the container, to be inserted, handed to a writer or   *)
(* dropped for want of one.                                                *)
THEOREM BytesAreConserved ==
    ~SumHost /\ ~ProRating /\ ~ExitAnywhere => (Spec => []Conservation)
  <1> SUFFICES ASSUME ~SumHost, ~ProRating, ~ExitAnywhere PROVE Spec => []Conservation
    OBVIOUS
  <1> DEFINE Inv == ChainInv /\ SearchInv /\ OneRecord /\ Balance
  <1>1. Init => Inv
    <2> SUFFICES ASSUME Init PROVE Inv
      OBVIOUS
    <2>1. ChainInv /\ SearchInv /\ OneRecord
      BY ChainInit DEF Init, SearchInv, OneBin, Passed, Distinct, OneRecord
    <2>2. \A ks \in Keys \X Slots : InCache(ks) + InContainer(ks) = 0
      <3>1. Counters = [ks \in Keys \X Slots |-> 0]
        BY TableInit DEF Table!Init, Table!Bins, Slots
      <3> QED
        BY <3>1 DEF Counters
    <2>3. Balance
      BY <2>2 DEF Init, Balance, Waiting
    <2> QED
      BY <2>1, <2>3
  <1>2. Inv /\ [Next]_vars => Inv'
    BY ChainStep, SearchStep, BalanceStep
  <1>3. Inv => Conservation
    <2> SUFFICES ASSUME Inv PROVE Conservation
      OBVIOUS
    <2>1. CacheInv /\ OneBin /\ OneRecord
      BY DEF ChainInv, SearchInv
    <2>2. TypeOK
      <3>1. Shape /\ Phased
        BY DEF ChainInv, CacheInv
      <3>2. marked \in 0 .. Len(queue)
        BY <3>1 DEF Shape, Phased
      <3> QED
        BY <3>1, <3>2 DEF Shape, Phased, TypeOK, States
    <2>3. ASSUME NEW ks \in Keys \X Slots
          PROVE  given[ks] = written[ks] + lost[ks] + InCache(ks) + InContainer(ks)
                             + ToInsert(ks)
      <3>1. ToInsert(ks) = Waiting(ks)
        BY <2>1, ToInsertIsWaiting
      <3>2. InCache(ks) \in Nat /\ InContainer(ks) \in Nat
        BY AtIsNat
      <3>3. written[ks] \in Nat /\ lost[ks] \in Nat /\ Waiting(ks) \in Nat
        BY CacheAssumption DEF ChainInv, Phased, Waiting, Part
      <3>4. given[ks] = written[ks] + lost[ks] + (InCache(ks) + InContainer(ks)) + Waiting(ks)
        BY DEF Balance
      <3> QED
        BY ONLY <3>1, <3>2, <3>3, <3>4
    <2> QED
      BY <2>2, <2>3 DEF Conservation
  <1> QED
    BY <1>1, <1>2, <1>3, PTL DEF Spec
=============================================================================
