---------------------------- MODULE FragmentTable ----------------------------
(***************************************************************************)
(* The table in which pmacctd joins the fragments of IP datagrams          *)
(* (ip_frag.c) and what becomes of the packets it holds back (nl.c,        *)
(* pkt_handlers.c).  A hash table of conflict chains; a list of all nodes, *)
(* least recently created first, which prunes walk from its head; a budget *)
(* of nodes.  ip_handler gives every fragment to ip_fragment_handler: one  *)
(* whose first fragment is known is accounted with that fragment's ports;  *)
(* the others are held back in accumulators until the first one comes.     *)
(*                                                                         *)
(* The core process is sequential: a step is the prune that may begin a    *)
(* call, the search and what it ends with, or one second of the clock.     *)
(* The IPv6 half of the file is the same code over another key.            *)
(***************************************************************************)
EXTENDS Integers, Sequences, FiniteSetsExt, Lists

CONSTANTS
    Datagrams,      \* what ip_id, ip_src, ip_dst and ip_p tell apart
    Hash,           \* hash_fragment: the bucket of each datagram
    Nodes,          \* addresses malloc can return; their number is ipft_total_nodes
    NIL,            \* the null pointer
    Plugins,        \* how many plugins account the packet, in list order
    Timeout,        \* IPF_TIMEOUT, 60 s
    PruneInterval,  \* PRUNE_INTERVAL, 7200 s
    EmerInterval,   \* EMER_PRUNE_INTERVAL, 60 s
    PruneOffset,    \* PRUNE_OFFSET, 1800 s
    Sampling,       \* ext_sampling_rate is configured
    MaxTime,        \* seconds the clock runs for (a bound)
    MaxFrags        \* fragments that arrive (a bound, below 2^16)

Buckets == {Hash[d] : d \in Datagrams}
Start == EmerInterval + 1   \* the clock is far beyond the epoch

ASSUME FragmentAssumption ==
    /\ NIL \notin Nodes /\ IsFiniteSet(Nodes)
    /\ Datagrams # {} /\ DOMAIN Hash = Datagrams
    /\ Plugins \in Nat \ {0} /\ Timeout \in Nat \ {0}
    /\ PruneInterval \in Nat /\ EmerInterval \in Nat /\ PruneOffset \in Nat
    /\ Sampling \in BOOLEAN /\ MaxTime \in Nat
    /\ MaxFrags \in 0 .. 65535

ASSUME NilAssumption == NIL \notin [dgram : Datagrams, first : BOOLEAN]

VARIABLES
    chain,       \* ipft: the nodes of each bucket, in chain order
    lru,         \* the nodes reached from lru_list.last by lru_prev, oldest first
    rootNext,    \* lru_list.root->lru_next
    total,       \* ipft_total_nodes: nodes that may still be allocated
    key, gotFirst, tlhdr, a, pa, deadline,  \* the fields of each node
    now,         \* time(NULL)
    pruneAt, emerAt,  \* prune_deadline and emergency_prune
    pkt,         \* the fragment in hand, NIL between calls
    pc,          \* "idle", "find" once the call has pruned, "undefined"
    arrived,     \* fragments received
    counted,     \* packets each plugin accounted
    dropped,     \* packets that were held back or skipped and never accounted
    wrong,       \* fragments accounted with the ports of another datagram
    recycled     \* nodes taken over from another datagram, first fragment not seen

fields == <<key, gotFirst, tlhdr, a, pa, deadline>>
lists  == <<chain, lru, rootNext, total>>
clock  == <<now, pruneAt, emerAt>>
tally  == <<arrived, counted, dropped, wrong, recycled>>
vars   == <<lists, fields, clock, pkt, pc, tally>>

Listed == {lru[i] : i \in DOMAIN lru}

Init ==
    /\ chain = [b \in Buckets |-> <<>>] /\ lru = <<>> /\ rootNext = NIL
    /\ total = Cardinality(Nodes)
    /\ key = [n \in Nodes |-> CHOOSE d \in Datagrams : TRUE]
    /\ gotFirst = [n \in Nodes |-> FALSE]
    /\ tlhdr = [n \in Nodes |-> NIL]
    /\ a = [n \in Nodes |-> 0] /\ pa = a /\ deadline = a
    /\ now = Start /\ pruneAt = Start + PruneInterval /\ emerAt = 0
    /\ pkt = NIL /\ pc = "idle"
    /\ arrived = 0 /\ counted = [p \in 1 .. Plugins |-> 0] /\ dropped = 0
    /\ wrong = 0 /\ recycled = {}

-----------------------------------------------------------------------------
(* prune_old_fragments: the walk from the root's successor frees the nodes *)
(* that expired "off" seconds ago and stops at the first that did not.  It *)
(* follows a dangling pointer if the successor has been freed: from there  *)
(* on the behaviour is undefined.                                          *)
Stale(n, off) == now - off > deadline[n]

StalePrefix(off) == {i \in DOMAIN lru : \A j \in 1 .. i : Stale(lru[j], off)}

HeldIn(S) == MapThenSumSet(LAMBDA n : pa[n], S)

PruneTo(off, skipped, root) ==
    LET k    == Cardinality(StalePrefix(off))
        gone == {lru[i] : i \in 1 .. k}
    IN  /\ rootNext \in Listed \union {NIL}
        /\ chain' = [b \in Buckets |-> Without(chain[b], gone)]
        /\ lru' = SubSeq(lru, k + 1, Len(lru))
        /\ total' = total + k
        /\ rootNext' = root
        /\ dropped' = dropped + skipped + HeldIn(gone)
        /\ recycled' = recycled \ gone

(* Mutant of Prune: the root's successor is not moved past what was freed. *)
PruneKeepsRoot(off, skipped) == PruneTo(off, skipped, rootNext)

(* The root's successor becomes the first node left, if any.               *)
Prune(off, skipped) ==
    LET k == Cardinality(StalePrefix(off))
    IN  PruneTo(off, skipped, IF k < Len(lru) THEN lru[k + 1] ELSE rootNext)

PruneUndefined ==
    /\ rootNext \notin Listed \union {NIL}
    /\ pc' = "undefined"
    /\ UNCHANGED <<lists, fields, clock, pkt, tally>>

(* ip_handler finds a fragment of datagram d and calls                     *)
(* ip_fragment_handler, which begins with the periodic prune.              *)
Arrival(d, first) ==
    /\ pc = "idle" /\ arrived < MaxFrags
    /\ pkt' = [dgram |-> d, first |-> first]
    /\ arrived' = arrived + 1

Receive(d, first) ==
    /\ Arrival(d, first) /\ now <= pruneAt
    /\ pc' = "find"
    /\ UNCHANGED <<lists, fields, clock, counted, dropped, wrong, recycled>>

ReceiveAndPrune(d, first) ==
    /\ Arrival(d, first) /\ now > pruneAt
    /\ Prune(PruneOffset, 0)
    /\ pruneAt' = now + PruneInterval
    /\ pc' = "find"
    /\ UNCHANGED <<fields, now, emerAt, counted, wrong>>

ReceiveUndefined(d, first) ==
    /\ pc = "idle" /\ arrived < MaxFrags /\ now > pruneAt
    /\ PruneUndefined

-----------------------------------------------------------------------------
(* find_fragment: the node of the datagram, or else the node to recycle.   *)

Bucket == chain[Hash[pkt.dgram]]
Own == {i \in DOMAIN Bucket : key[Bucket[i]] = pkt.dgram}
Expired == {i \in DOMAIN Bucket : deadline[Bucket[i]] < now}

Alive(i) == deadline[Bucket[i]] > now
Found == \E i \in Own : Alive(i)
Node == Bucket[Min(Own)]

(* The candidate is the datagram's own node when it has expired, else the  *)
(* first expired one of the bucket.                                        *)
Candidates == IF Own # {} THEN {Min(Own)}
              ELSE IF Expired # {} THEN {Min(Expired)} ELSE {}

(* exec_plugins: counters_handler adds the accumulators to the packet and  *)
(* clears them, so that only the first plugin of the list sees them.       *)
Account(joined) ==
    counted' = [p \in 1 .. Plugins |->
                  counted[p] + 1 + (IF p = 1 THEN joined ELSE 0)]

Done == pc' = "idle" /\ pkt' = NIL

(* The first fragment is known: its ports are copied to this one.          *)
UseKnownFirst ==
    /\ pc = "find" /\ Found /\ gotFirst[Node]
    /\ Account(0)
    /\ wrong' = IF tlhdr[Node] = pkt.dgram THEN wrong ELSE wrong + 1
    /\ Done
    /\ UNCHANGED <<lists, fields, clock, arrived, dropped, recycled>>

(* "we got our first fragment": what was held back is accounted with it.   *)
TakeFirst(left) ==
    /\ pc = "find" /\ Found /\ ~gotFirst[Node] /\ pkt.first
    /\ gotFirst' = [gotFirst EXCEPT ![Node] = TRUE]
    /\ tlhdr' = [tlhdr EXCEPT ![Node] = pkt.dgram]
    /\ a' = [a EXCEPT ![Node] = 0] /\ pa' = [pa EXCEPT ![Node] = left]
    /\ Account(pa[Node])
    /\ recycled' = recycled \ {Node}
    /\ Done
    /\ UNCHANGED <<lists, key, deadline, clock, arrived, dropped, wrong>>

(* Mutant of FirstArrives: the packets accumulator is not cleared.         *)
FirstKeepsPackets == TakeFirst(pa[Node])

FirstArrives == TakeFirst(0)

(* A sampled fragment is accounted at once, without ports; else it is held *)
(* back, or skipped when the table has no node for it.                     *)
WithoutPorts(held) ==
    IF Sampling THEN Account(0) /\ UNCHANGED dropped
    ELSE dropped' = dropped + (IF held THEN 0 ELSE 1) /\ UNCHANGED counted

(* "we still don't have the first fragment; increase accumulators".        *)
Hold(bytes) ==
    /\ pc = "find" /\ Found /\ ~gotFirst[Node] /\ ~pkt.first
    /\ IF Sampling THEN UNCHANGED <<a, pa>>
       ELSE /\ a' = [a EXCEPT ![Node] = bytes]
            /\ pa' = [pa EXCEPT ![Node] = @ + 1]
    /\ WithoutPorts(TRUE)
    /\ Done
    /\ UNCHANGED <<lists, key, gotFirst, tlhdr, deadline, clock, arrived, wrong,
                   recycled>>

(* Mutant of HoldBack: the bytes are assigned, as create_fragment does.    *)
HoldBackAssigns == Hold(1)

HoldBack == Hold(a[Node] + 1)

-----------------------------------------------------------------------------
(* create_fragment.                                                        *)

(* The end of create_fragment.  A new node has been cleared (g, p); one    *)
(* that is recycled keeps got_first, tlhdr and pa of its former datagram,  *)
(* while "a" is assigned.                                                  *)
Fill(n, g, p) ==
    /\ deadline' = [deadline EXCEPT ![n] = now + Timeout]
    /\ key' = [key EXCEPT ![n] = pkt.dgram]
    /\ IF pkt.first
       THEN /\ gotFirst' = [gotFirst EXCEPT ![n] = TRUE]
            /\ tlhdr' = [tlhdr EXCEPT ![n] = pkt.dgram]
            /\ pa' = [pa EXCEPT ![n] = p]
            /\ Account(0) /\ UNCHANGED <<a, dropped>>
       ELSE /\ gotFirst' = [gotFirst EXCEPT ![n] = g]
            /\ pa' = [pa EXCEPT ![n] = IF Sampling THEN p ELSE p + 1]
            /\ a' = IF Sampling THEN a ELSE [a EXCEPT ![n] = 1]
            /\ WithoutPorts(TRUE) /\ UNCHANGED tlhdr

(* A new node becomes the tail of its chain and of the LRU list.           *)
Link(n, root) ==
    /\ pc = "find" /\ ~Found /\ Candidates = {} /\ total > 0
    /\ n \in Nodes \ Listed
    /\ total' = total - 1
    /\ chain' = [chain EXCEPT ![Hash[pkt.dgram]] = Append(@, n)]
    /\ lru' = Append(lru, n)
    /\ rootNext' = root
    /\ Fill(n, FALSE, 0)
    /\ Done
    /\ UNCHANGED <<clock, arrived, wrong, recycled>>

(* Mutant of Create: the node is not linked behind lru_list.last.          *)
CreateUnlinked(n) == Link(n, rootNext)

Create(n) == Link(n, IF lru = <<>> THEN n ELSE rootNext)

(* An expired node of the bucket is taken over where it is in the chain.   *)
Candidate == Bucket[Min(Candidates)]
TakeOver(list, budget) ==
    /\ pc = "find" /\ ~Found /\ Candidates # {} /\ total > 0
    /\ lru' = list /\ rootNext' = Head(list) /\ total' = budget
    /\ Fill(Candidate, gotFirst[Candidate], pa[Candidate])
    /\ recycled' = IF pkt.first THEN recycled \ {Candidate}
                   ELSE recycled \union {Candidate}
    /\ Done
    /\ UNCHANGED <<chain, clock, arrived, wrong>>

MoveToTail(n) == Append(Without(lru, {n}), n)

(* It becomes the tail of the LRU list.                                    *)
Recycle == TakeOver(MoveToTail(Candidate), total)

(* "Fragment buffer full. Skipping fragments": no node may be allocated,   *)
(* or malloc fails when one has to be; at most every EmerInterval seconds  *)
(* everything expired is freed for the fragments to come.                  *)
NoNode ==
    /\ pc = "find" /\ ~Found
    /\ total = 0 \/ Candidates = {}

Emergency == now > emerAt + EmerInterval

Skip ==
    /\ NoNode /\ ~Emergency
    /\ WithoutPorts(FALSE)
    /\ Done
    /\ UNCHANGED <<lists, fields, clock, arrived, wrong, recycled>>

SkipAndPrune ==
    /\ NoNode /\ Emergency
    /\ Prune(0, IF Sampling THEN 0 ELSE 1)
    /\ IF Sampling THEN Account(0) ELSE UNCHANGED counted
    /\ emerAt' = now
    /\ Done
    /\ UNCHANGED <<fields, now, pruneAt, arrived, wrong>>

SkipUndefined == NoNode /\ Emergency /\ PruneUndefined

Tick ==
    /\ pc = "idle" /\ now < Start + MaxTime
    /\ now' = now + 1
    /\ UNCHANGED <<lists, fields, pruneAt, emerAt, pkt, pc, tally>>

-----------------------------------------------------------------------------
Next ==
    \/ \E d \in Datagrams, first \in BOOLEAN :
         \/ Receive(d, first) \/ ReceiveAndPrune(d, first)
         \/ ReceiveUndefined(d, first)
    \/ UseKnownFirst \/ FirstArrives \/ HoldBack
    \/ (\E n \in Nodes : Create(n)) \/ Recycle
    \/ Skip \/ SkipAndPrune \/ SkipUndefined
    \/ Tick

Spec == Init /\ [][Next]_vars

-----------------------------------------------------------------------------
(* Properties.                                                             *)

TypeOK ==
    /\ chain \in [Buckets -> Seq(Nodes)] /\ lru \in Seq(Nodes)
    /\ rootNext \in Nodes \union {NIL} /\ total \in 0 .. Cardinality(Nodes)
    /\ key \in [Nodes -> Datagrams] /\ gotFirst \in [Nodes -> BOOLEAN]
    /\ tlhdr \in [Nodes -> Datagrams \union {NIL}]
    /\ {a, pa, deadline} \subseteq [Nodes -> Nat]
    /\ {now, pruneAt, emerAt, arrived, dropped, wrong} \subseteq Nat
    /\ pkt \in [dgram : Datagrams, first : BOOLEAN] \union {NIL}
    /\ pc \in {"idle", "find", "undefined"}
    /\ counted \in [1 .. Plugins -> Nat] /\ recycled \subseteq Nodes

(* The chains and the LRU list hold the same nodes, each once and in the   *)
(* bucket of its datagram, no datagram has two, ipft_total_nodes counts    *)
(* the rest, and the root's successor is the oldest node: what             *)
(* create_fragment links and prune_old_fragments unlinks in both lists.    *)
(* The LRU list is in the order of the deadlines, so that a prune, which   *)
(* stops at the first node still valid, has freed every expired one.       *)
ListsAgree ==
    /\ TypeOK
    /\ \A n \in Nodes :
         Cardinality({i \in DOMAIN lru : lru[i] = n}) =
         Cardinality({bi \in UNION {{b} \X DOMAIN chain[b] : b \in Buckets} :
                        /\ chain[bi[1]][bi[2]] = n
                        /\ Hash[key[n]] = bi[1]})
    /\ \A m, n \in Listed : key[m] = key[n] => m = n
    /\ Len(lru) = Cardinality(Listed) /\ total + Len(lru) = Cardinality(Nodes)
    /\ lru # <<>> => rootNext = Head(lru)
    /\ \A i, j \in DOMAIN lru : i < j => deadline[lru[i]] <= deadline[lru[j]]

(* Every fragment received was accounted by the first plugin, is held back *)
(* in an accumulator, or was dropped with a node that expired or for want  *)
(* of one, and only once: recycled nodes included, whose count goes to the *)
(* next datagram.                                                          *)
PacketsConserved ==
    arrived = counted[1] + dropped + HeldIn(Listed)
              + (IF pkt # NIL THEN 1 ELSE 0)

(* What create_fragment leaves in a node of its former datagram (ports and *)
(* packets) stays in recycled nodes whose first fragment is still missing: *)
(* any other node that knows its first fragment has its own ports, and any *)
(* other that waits for it has as many bytes as packets.                   *)
LeftoversOnlyInRecycled ==
    \A n \in Listed \ recycled :
      /\ gotFirst[n] => tlhdr[n] = key[n]
      /\ ~gotFirst[n] => a[n] = pa[n]

(* The root's successor is followed after it was freed in two cases only:  *)
(* an emergency prune had emptied the table since the last periodic one    *)
(* (the fragment that triggers it is skipped and links no node), or the    *)
(* periodic prune did and malloc fails in the same call.  The fragment     *)
(* that triggers a periodic prune otherwise replaces the pointer.          *)
UndefinedWhenEmptied ==
    pc = "undefined" =>
      /\ lru = <<>>
      /\ emerAt >= pruneAt - PruneInterval \/ (pkt # NIL /\ pruneAt = now + PruneInterval)
=============================================================================
