------------------------- MODULE FragmentTableProofs -------------------------
(***************************************************************************)
(* Proofs about the table of fragments (FragmentTable), for every number   *)
(* of datagrams, buckets and nodes, every hash and every timeout.          *)
(*                                                                         *)
(* FragInv is inductive: ChainsInv says that the conflict chains and the   *)
(* LRU list hold the same nodes, OrderInv that the LRU list is in the      *)
(* order of the deadlines and the root's successor its head, CallInv what  *)
(* is known inside and outside a call.  ListsAgree follows from it.  The   *)
(* ledger of packets and the ownership of what a node holds are inductive  *)
(* relative to FragInv, and so is TimeInv, which relates the two prune     *)
(* deadlines to the root's successor that a prune may leave dangling.      *)
(***************************************************************************)
EXTENDS FragmentTable, ListsAndSums, SequenceTheorems

(* Every node is once in the LRU list and once in the chain of its         *)
(* datagram's bucket, and a datagram has at most one.                      *)
ChainsInv ==
    /\ OnceEach(lru)
    /\ \A b \in Buckets : OnceEach(chain[b])
    /\ \A b \in Buckets : \A i \in DOMAIN chain[b] :
         chain[b][i] \in Listed /\ Hash[key[chain[b][i]]] = b
    /\ \A n \in Listed : \E i \in DOMAIN chain[Hash[key[n]]] : chain[Hash[key[n]]][i] = n
    /\ \A m, n \in Listed : key[m] = key[n] => m = n
    /\ total + Len(lru) = Cardinality(Nodes)

(* A node gets the latest deadline there is when it becomes the tail.      *)
OrderInv ==
    /\ lru # <<>> => rootNext = Head(lru)
    /\ \A i, j \in DOMAIN lru : i < j => deadline[lru[i]] <= deadline[lru[j]]
    /\ \A n \in Listed : deadline[n] <= now + Timeout

(* A packet is in hand exactly during a call, and nothing is accumulated   *)
(* when the traffic is sampled.                                            *)
CallInv ==
    /\ pc = "idle" => pkt = NIL
    /\ pc = "find" => pkt # NIL
    /\ Sampling => \A n \in Nodes : a[n] = 0 /\ pa[n] = 0

FragInv == TypeOK /\ ChainsInv /\ OrderInv /\ CallInv

(* No node of the table expired before the last emergency prune.  The      *)
(* root's successor dangles only after a prune has emptied the table: an   *)
(* emergency prune since the last periodic one, or the periodic prune of   *)
(* the call in progress, in which an emergency prune is due.               *)
TimeInv ==
    /\ pruneAt <= now + PruneInterval /\ emerAt <= now
    /\ \A n \in Listed : deadline[n] >= emerAt
    /\ lru = <<>> /\ rootNext # NIL =>
         \/ emerAt >= pruneAt - PruneInterval
         \/ pkt # NIL /\ pruneAt = now + PruneInterval /\ now > emerAt + EmerInterval
    /\ pc = "undefined" => lru = <<>> /\ rootNext # NIL

-----------------------------------------------------------------------------
(* A set of places closed downwards is a prefix: the places a prune walks  *)
(* over before it stops.                                                   *)
LEMMA DownwardIsInterval ==
    ASSUME NEW n \in Nat, NEW S \in SUBSET (1 .. n),
           \A i \in S : \A j \in 1 .. i : j \in S
    PROVE  Cardinality(S) \in 0 .. n /\ S = 1 .. Cardinality(S)
<1> DEFINE U == (1 .. n + 1) \ S
<1>1. U \in SUBSET Nat /\ n + 1 \in U
  OBVIOUS
<1>2. PICK x \in U : \A y \in U : x <= y
  BY ONLY <1>1, LeastNatural
<1>3. x \in 1 .. n + 1
  BY <1>2
<1>4. S = 1 .. x - 1
  <2>1. ASSUME NEW i \in S PROVE i \in 1 .. x - 1
    BY <1>2, <1>3
  <2>2. ASSUME NEW i \in 1 .. x - 1 PROVE i \in S
    BY <1>2, <1>3
  <2> QED
    BY <2>1, <2>2
<1>5. Cardinality(1 .. x - 1) = x - 1
  BY <1>3, FS_Interval
<1> QED
  BY <1>3, <1>4, <1>5

(* The times that ip_frag.h sets.                                          *)
LEMMA Durations ==
    /\ PruneInterval \in Nat /\ EmerInterval \in Nat /\ PruneOffset \in Nat
    /\ Timeout \in Nat /\ Timeout # 0
BY ONLY FragmentAssumption

(* The least of a set of places.                                           *)
LEMMA MinIsLeast ==
    ASSUME NEW S \in SUBSET Nat, S # {}
    PROVE  Min(S) \in S /\ \A x \in S : Min(S) <= x
  BY LeastNatural DEF Min

(* The parts of the type invariant.                                        *)
LEMMA Types ==
    ASSUME TypeOK
    PROVE  /\ lru \in Seq(Nodes) /\ Len(lru) \in Nat /\ DOMAIN lru = 1 .. Len(lru)
           /\ Listed \subseteq Nodes
           /\ DOMAIN chain = Buckets
           /\ \A b \in Buckets : /\ chain[b] \in Seq(Nodes) /\ Len(chain[b]) \in Nat
                                 /\ DOMAIN chain[b] = 1 .. Len(chain[b])
           /\ a \in [Nodes -> Nat] /\ pa \in [Nodes -> Nat] /\ deadline \in [Nodes -> Nat]
           /\ now \in Nat /\ pruneAt \in Nat /\ emerAt \in Nat
           /\ arrived \in Nat /\ dropped \in Nat /\ wrong \in Nat
           /\ Cardinality(Nodes) \in Nat /\ total \in Nat
           /\ \A d \in Datagrams : Hash[d] \in Buckets
<1>1. lru \in Seq(Nodes) /\ chain \in [Buckets -> Seq(Nodes)]
  BY DEF TypeOK
<1>2. Listed \subseteq Nodes
  BY <1>1 DEF Listed
<1>3. Cardinality(Nodes) \in Nat
  BY FragmentAssumption, FS_CardinalityType
<1>4. \A d \in Datagrams : Hash[d] \in Buckets
  BY DEF Buckets
<1> QED
  BY <1>1, <1>2, <1>3, <1>4 DEF TypeOK

(* The nodes of the LRU list.                                              *)
LEMMA InListed ==
    ASSUME TypeOK, NEW i \in 1 .. Len(lru) PROVE lru[i] \in Listed
  BY Types DEF Listed

(* find_fragment searches the bucket of the packet's datagram: what it may *)
(* answer is listed, and a datagram without a node in its bucket has none  *)
(* in the table.                                                           *)
LEMMA OwnIsListed ==
    ASSUME FragInv, pc = "find"
    PROVE  /\ pkt.dgram \in Datagrams /\ pkt.first \in BOOLEAN
           /\ Hash[pkt.dgram] \in Buckets /\ Bucket \in Seq(Nodes)
           /\ DOMAIN Bucket = 1 .. Len(Bucket) /\ Len(Bucket) \in Nat
           /\ Own \subseteq Nat /\ Expired \subseteq Nat
           /\ \A i \in Own \union Expired :
                Bucket[i] \in Listed /\ Hash[key[Bucket[i]]] = Hash[pkt.dgram]
           /\ Own = {} => \A n \in Listed : key[n] # pkt.dgram
<1>1. pkt \in [dgram : Datagrams, first : BOOLEAN]
  BY DEF FragInv, CallInv, TypeOK
<1>2. pkt.dgram \in Datagrams /\ pkt.first \in BOOLEAN
  BY <1>1
<1>3. Hash[pkt.dgram] \in Buckets
  BY <1>2 DEF Buckets
<1>4. Bucket \in Seq(Nodes) /\ DOMAIN Bucket = 1 .. Len(Bucket) /\ Len(Bucket) \in Nat
  BY <1>3, Types DEF FragInv, Bucket
<1>5. Own \subseteq DOMAIN Bucket /\ Expired \subseteq DOMAIN Bucket
  BY DEF Own, Expired
<1>6. \A i \in DOMAIN Bucket : Bucket[i] \in Listed /\ Hash[key[Bucket[i]]] = Hash[pkt.dgram]
  BY <1>3 DEF FragInv, ChainsInv, Bucket
<1>7. ASSUME Own = {}, NEW n \in Listed, key[n] = pkt.dgram PROVE FALSE
  <2>1. PICK i \in DOMAIN chain[Hash[key[n]]] : chain[Hash[key[n]]][i] = n
    BY DEF FragInv, ChainsInv
  <2>2. i \in DOMAIN Bucket /\ Bucket[i] = n
    BY <2>1, <1>7 DEF Bucket
  <2>3. i \in Own
    BY <2>2, <1>7 DEF Own
  <2> QED
    BY <2>3, <1>7
<1>8. Own \subseteq Nat /\ Expired \subseteq Nat
  BY <1>4, <1>5
<1> QED
  BY <1>2, <1>3, <1>4, <1>5, <1>6, <1>7, <1>8

(* The node found is the datagram's own.                                   *)
LEMMA NodeListed ==
    ASSUME FragInv, pc = "find", Found
    PROVE  Node \in Listed /\ Node \in Nodes /\ key[Node] = pkt.dgram
<1>1. Own # {}
  BY DEF Found
<1>2. Min(Own) \in Own
  BY <1>1, OwnIsListed, MinIsLeast
<1>3. Node \in Listed
  BY <1>2, OwnIsListed DEF Node
<1>4. key[Node] = pkt.dgram
  BY <1>2 DEF Node, Own
<1> QED
  BY <1>3, <1>4, Types DEF FragInv

(* The candidate is listed in the datagram's bucket; it is the datagram's  *)
(* own node or the datagram has none.                                      *)
LEMMA CandidateListed ==
    ASSUME FragInv, pc = "find", Candidates # {}
    PROVE  /\ Candidate \in Listed /\ Candidate \in Nodes
           /\ Hash[key[Candidate]] = Hash[pkt.dgram]
           /\ key[Candidate] = pkt.dgram \/ \A n \in Listed : key[n] # pkt.dgram
<1>0. Own \subseteq Nat /\ Expired \subseteq Nat
  BY OwnIsListed
<1>1. CASE Own # {}
  <2>1. Min(Own) \in Own
    BY <1>0, <1>1, MinIsLeast
  <2>2. Candidates = {Min(Own)}
    BY <1>1 DEF Candidates
  <2>3. Candidates \subseteq Nat /\ Min(Candidates) \in Candidates
    BY <1>0, <2>1, <2>2, MinIsLeast
  <2>4. Min(Candidates) = Min(Own)
    BY <2>2, <2>3
  <2>5. Candidate = Bucket[Min(Own)]
    BY <2>4 DEF Candidate
  <2>6. key[Candidate] = pkt.dgram
    BY <2>1, <2>5 DEF Own
  <2>7. Candidate \in Listed /\ Hash[key[Candidate]] = Hash[pkt.dgram]
    BY <2>1, <2>5, OwnIsListed
  <2> QED
    BY <2>6, <2>7, Types DEF FragInv
<1>2. CASE Own = {}
  <2>1. Expired # {} /\ Candidates = {Min(Expired)}
    BY <1>2 DEF Candidates
  <2>2. Min(Expired) \in Expired
    BY <1>0, <2>1, MinIsLeast
  <2>3. Candidates \subseteq Nat /\ Min(Candidates) \in Candidates
    BY <1>0, <2>1, <2>2, MinIsLeast
  <2>4. Min(Candidates) = Min(Expired)
    BY <2>1, <2>3
  <2>5. Candidate = Bucket[Min(Expired)]
    BY <2>4 DEF Candidate
  <2>6. Candidate \in Listed /\ Hash[key[Candidate]] = Hash[pkt.dgram]
    BY <2>2, <2>5, OwnIsListed
  <2>7. \A n \in Listed : key[n] # pkt.dgram
    BY <1>2, OwnIsListed
  <2> QED
    BY <2>6, <2>7, Types DEF FragInv
<1> QED
  BY <1>1, <1>2

(* Without a candidate the datagram has no node.                           *)
LEMMA NoCandidate ==
    ASSUME FragInv, pc = "find", Candidates = {}
    PROVE  \A n \in Listed : key[n] # pkt.dgram
<1>1. Own = {}
  BY DEF Candidates
<1> QED
  BY <1>1, OwnIsListed

(* What prune_old_fragments has done to the two lists once it has freed    *)
(* the nodes of gone.                                                      *)
PrunedTo(gone) ==
    /\ Listed' = Listed \ gone
    /\ \A n \in gone : Stale(n, 0)
    /\ lru' \in Seq(Nodes) /\ OnceEach(lru')
    /\ chain' \in [Buckets -> Seq(Nodes)]
    /\ \A b \in Buckets : OnceEach(chain'[b])
    /\ \A b \in Buckets : \A i \in DOMAIN chain'[b] :
         chain'[b][i] \in Listed' /\ Hash[key[chain'[b][i]]] = b
    /\ \A n \in Listed' :
         \E i \in DOMAIN chain'[Hash[key[n]]] : chain'[Hash[key[n]]][i] = n
    /\ total' \in 0 .. Cardinality(Nodes) /\ total' + Len(lru') = Cardinality(Nodes)
    /\ lru' # <<>> => rootNext' = Head(lru')
    /\ lru' = <<>> => rootNext' = rootNext
    /\ \A i, j \in DOMAIN lru' : i < j => deadline[lru'[i]] <= deadline[lru'[j]]
    /\ lru' = <<>> /\ gone = {} => lru = <<>>
    /\ rootNext \in Listed \union {NIL}
    /\ recycled' = recycled \ gone

(* The prune frees exactly the stale nodes: the walk stops at the first    *)
(* valid one, and the list is in the order of the deadlines.               *)
LEMMA PruneFacts ==
    ASSUME FragInv, NEW off \in Nat, NEW skipped \in Nat, Prune(off, skipped)
    PROVE  \E gone \in SUBSET Listed :
             /\ PrunedTo(gone)
             /\ \A n \in gone : Stale(n, off)
             /\ \A n \in Listed \ gone : ~Stale(n, off)
             /\ dropped' = dropped + skipped + HeldIn(gone)
<1> DEFINE k == Cardinality(StalePrefix(off))
           gone == {lru[i] : i \in 1 .. k}
<1>0. TypeOK
  BY DEF FragInv
<1>1. lru \in Seq(Nodes) /\ Len(lru) \in Nat /\ DOMAIN lru = 1 .. Len(lru)
  BY <1>0, Types
<1>2. k \in 0 .. Len(lru) /\ StalePrefix(off) = 1 .. k
  <2>1. StalePrefix(off) \in SUBSET (1 .. Len(lru))
    BY <1>1 DEF StalePrefix
  <2>2. \A i \in StalePrefix(off) : \A j \in 1 .. i : j \in StalePrefix(off)
    BY <1>1 DEF StalePrefix
  <2> QED
    BY ONLY <1>1, <2>1, <2>2, DownwardIsInterval
<1>3. /\ chain' = [b \in Buckets |-> Without(chain[b], gone)]
      /\ lru' = SubSeq(lru, k + 1, Len(lru))
      /\ total' = total + k
      /\ rootNext' = IF k < Len(lru) THEN lru[k + 1] ELSE rootNext
      /\ dropped' = dropped + skipped + HeldIn(gone)
      /\ recycled' = recycled \ gone
      /\ rootNext \in Listed \union {NIL}
  BY DEF Prune, PruneTo
<1>4. \A n \in gone : Stale(n, off)
  BY <1>2 DEF StalePrefix
<1> HIDE DEF k
<1>5. gone \in SUBSET Listed
  BY <1>1, <1>2 DEF Listed
<1>6. /\ lru' \in Seq(Nodes) /\ Len(lru') = Len(lru) - k /\ DOMAIN lru' = 1 .. Len(lru) - k
      /\ \A i \in 1 .. Len(lru) - k : lru'[i] = lru[i + k]
  BY ONLY <1>1, <1>2, <1>3, SubSeqProperties
<1>7. OnceEach(lru)
  BY DEF FragInv, ChainsInv
<1>8. OnceEach(lru')
  <2> SUFFICES ASSUME NEW i \in 1 .. Len(lru) - k, NEW j \in 1 .. Len(lru) - k,
                      lru'[i] = lru'[j]
               PROVE  i = j
    BY <1>6 DEF OnceEach
  <2>1. i + k \in DOMAIN lru /\ j + k \in DOMAIN lru
    BY ONLY <1>1, <1>2, i \in 1 .. Len(lru) - k, j \in 1 .. Len(lru) - k
  <2>2. lru[i + k] = lru[j + k]
    BY <1>6
  <2>3. i + k = j + k
    BY ONLY <1>7, <2>1, <2>2 DEF OnceEach
  <2> QED
    BY ONLY <1>1, <1>2, <2>3, i \in 1 .. Len(lru) - k, j \in 1 .. Len(lru) - k
<1>9. Listed' = Listed \ gone
  <2>1. ASSUME NEW n \in Listed' PROVE n \in Listed \ gone
    <3>1. PICK i \in 1 .. Len(lru) - k : lru'[i] = n
      BY <1>6 DEF Listed
    <3>2. i + k \in 1 .. Len(lru) /\ lru[i + k] = n
      BY <1>1, <1>2, <1>6, <3>1
    <3>3. ASSUME n \in gone PROVE FALSE
      <4>1. PICK j \in 1 .. k : lru[j] = n
        BY <3>3
      <4>2. j = i + k
        BY ONLY <1>1, <1>2, <1>7, <3>2, <4>1 DEF OnceEach
      <4> QED
        BY ONLY <1>2, <3>1, <4>1, <4>2, <1>1
    <3> QED
      BY <3>2, <3>3, <1>1 DEF Listed
  <2>2. ASSUME NEW n \in Listed \ gone PROVE n \in Listed'
    <3>1. PICK i \in 1 .. Len(lru) : lru[i] = n
      BY <1>1 DEF Listed
    <3>2. i > k
      BY <1>2, <2>2, <3>1
    <3>3. i - k \in 1 .. Len(lru) - k /\ lru'[i - k] = n
      BY ONLY <1>1, <1>2, <1>6, <3>1, <3>2
    <3> QED
      BY <1>6, <3>3 DEF Listed
  <2> QED
    BY <2>1, <2>2
<1>10. /\ \A i \in DOMAIN lru : lru[i] \in Nodes
       /\ \A i, j \in DOMAIN lru : i < j => deadline[lru[i]] <= deadline[lru[j]]
       /\ deadline \in [Nodes -> Nat] /\ now \in Nat
  <2>1. \A i \in DOMAIN lru : lru[i] \in Nodes
    BY <1>1
  <2>2. \A i, j \in DOMAIN lru : i < j => deadline[lru[i]] <= deadline[lru[j]]
    BY ONLY FragInv DEF FragInv, OrderInv
  <2>3. deadline \in [Nodes -> Nat] /\ now \in Nat
    BY ONLY <1>0, Types
  <2> QED
    BY ONLY <2>1, <2>2, <2>3
<1>11. \A n \in Listed \ gone : ~Stale(n, off)
  <2> SUFFICES ASSUME NEW n \in Listed \ gone, Stale(n, off) PROVE FALSE
    OBVIOUS
  <2>1. PICK i \in 1 .. Len(lru) : lru[i] = n
    BY <1>1 DEF Listed
  <2>2. \A j \in 1 .. i : Stale(lru[j], off)
    <3> SUFFICES ASSUME NEW j \in 1 .. i PROVE Stale(lru[j], off)
      OBVIOUS
    <3>1. j \in 1 .. Len(lru) /\ (j < i \/ j = i)
      BY <1>1
    <3>2. deadline[lru[j]] <= deadline[lru[i]]
      BY <1>1, <1>10, <2>1, <3>1
    <3>3. deadline[lru[j]] \in Nat /\ deadline[lru[i]] \in Nat
      BY <1>1, <1>10, <3>1
    <3> QED
      BY <1>10, <2>1, <3>2, <3>3 DEF Stale
  <2>3. i \in StalePrefix(off)
    BY <1>1, <2>2 DEF StalePrefix
  <2> QED
    BY <1>2, <2>1, <2>3
<1>12. \A n \in gone : Stale(n, 0)
  <2> SUFFICES ASSUME NEW n \in gone PROVE Stale(n, 0)
    OBVIOUS
  <2>1. n \in Nodes /\ Stale(n, off)
    BY <1>0, <1>4, <1>5, Types
  <2> HIDE DEF gone
  <2> QED
    BY <1>10, <2>1 DEF Stale
<1>13. \A b \in Buckets :
         /\ chain'[b] \in Seq(Nodes) /\ OnceEach(chain'[b])
         /\ \A i \in DOMAIN chain'[b] :
              chain'[b][i] \notin gone /\ \E j \in DOMAIN chain[b] : chain[b][j] = chain'[b][i]
         /\ \A j \in DOMAIN chain[b] : chain[b][j] \notin gone =>
              \E i \in DOMAIN chain'[b] : chain'[b][i] = chain[b][j]
  <2> SUFFICES ASSUME NEW b \in Buckets
               PROVE
         /\ chain'[b] \in Seq(Nodes) /\ OnceEach(chain'[b])
         /\ \A i \in DOMAIN chain'[b] :
              chain'[b][i] \notin gone /\ \E j \in DOMAIN chain[b] : chain[b][j] = chain'[b][i]
         /\ \A j \in DOMAIN chain[b] : chain[b][j] \notin gone =>
              \E i \in DOMAIN chain'[b] : chain'[b][i] = chain[b][j]
    OBVIOUS
  <2>1. chain'[b] = Without(chain[b], gone)
    BY <1>3
  <2>2. chain[b] \in Seq(Nodes) /\ OnceEach(chain[b])
    BY <1>0, Types DEF FragInv, ChainsInv
  <2> HIDE DEF gone
  <2>3. /\ Without(chain[b], gone) \in Seq(Nodes) /\ OnceEach(Without(chain[b], gone))
        /\ \A i \in DOMAIN Without(chain[b], gone) :
             Without(chain[b], gone)[i] \notin gone /\
             \E j \in DOMAIN chain[b] : chain[b][j] = Without(chain[b], gone)[i]
        /\ \A j \in DOMAIN chain[b] : chain[b][j] \notin gone =>
             \E i \in DOMAIN Without(chain[b], gone) : Without(chain[b], gone)[i] = chain[b][j]
    BY ONLY <2>2, WithoutOnce
  <2> QED
    BY ONLY <2>1, <2>3
<1> HIDE DEF gone
<1>14. \A b \in Buckets : \A i \in DOMAIN chain'[b] :
         chain'[b][i] \in Listed' /\ Hash[key[chain'[b][i]]] = b
  BY <1>9, <1>13 DEF FragInv, ChainsInv
<1>15. \A n \in Listed' :
         \E i \in DOMAIN chain'[Hash[key[n]]] : chain'[Hash[key[n]]][i] = n
  <2> SUFFICES ASSUME NEW n \in Listed'
               PROVE  \E i \in DOMAIN chain'[Hash[key[n]]] : chain'[Hash[key[n]]][i] = n
    OBVIOUS
  <2>1. n \in Listed /\ n \notin gone
    BY <1>9
  <2>2. PICK j \in DOMAIN chain[Hash[key[n]]] : chain[Hash[key[n]]][j] = n
    BY <2>1 DEF FragInv, ChainsInv
  <2>3. Hash[key[n]] \in Buckets
    BY <1>0, <2>1, Types DEF TypeOK
  <2> QED
    BY <1>13, <2>1, <2>2, <2>3
<1>16. total' \in 0 .. Cardinality(Nodes) /\ total' + Len(lru') = Cardinality(Nodes)
  <2>1. total \in Nat /\ total + Len(lru) = Cardinality(Nodes)
    BY <1>0, Types DEF FragInv, ChainsInv
  <2>2. total' = total + k /\ Len(lru') = Len(lru) - k
    BY <1>3, <1>6
  <2>3. Len(lru) \in Nat
    BY <1>1
  <2> QED
    BY ONLY <1>2, <2>1, <2>2, <2>3
<1>17. chain' \in [Buckets -> Seq(Nodes)]
  BY <1>3, <1>13
<1>18. /\ lru' # <<>> => rootNext' = Head(lru')
       /\ lru' = <<>> => rootNext' = rootNext
       /\ lru' = <<>> /\ gone = {} => lru = <<>>
  <2>1. CASE k < Len(lru)
    <3>1. Len(lru') > 0 /\ lru' # <<>> /\ Head(lru') = lru'[1] /\ lru'[1] = lru[1 + k]
      BY <1>1, <1>2, <1>6, <2>1
    <3> QED
      BY <1>2, <1>3, <2>1, <3>1
  <2>2. CASE ~(k < Len(lru))
    <3>1. k = Len(lru) /\ Len(lru') = 0 /\ lru' = <<>>
      <4>1. Len(lru) \in Nat /\ Len(lru') = Len(lru) - k /\ lru' \in Seq(Nodes)
        BY <1>1, <1>6
      <4>2. k = Len(lru) /\ Len(lru') = 0
        BY ONLY <1>2, <2>2, <4>1
      <4> QED
        BY ONLY <4>1, <4>2
    <3>2. gone = {} => lru = <<>>
      <4>1. ASSUME lru # <<>> PROVE gone # {}
        <5>1. Len(lru) # 0
          BY ONLY <1>1, <4>1
        <5>2. 1 \in 1 .. k
          BY ONLY <1>1, <1>2, <3>1, <5>1
        <5> QED
          BY ONLY <5>2 DEF gone
      <4> QED
        BY ONLY <4>1
    <3> QED
      BY <1>3, <2>2, <3>1, <3>2
  <2> QED
    BY <2>1, <2>2
<1>19. \A i, j \in DOMAIN lru' : i < j => deadline[lru'[i]] <= deadline[lru'[j]]
  <2> SUFFICES ASSUME NEW i \in DOMAIN lru', NEW j \in DOMAIN lru', i < j
               PROVE  deadline[lru'[i]] <= deadline[lru'[j]]
    OBVIOUS
  <2>0. i \in 1 .. Len(lru) - k /\ j \in 1 .. Len(lru) - k
    BY <1>6
  <2>1. i + k \in DOMAIN lru /\ j + k \in DOMAIN lru /\ i + k < j + k
    BY ONLY <1>1, <1>2, <2>0, i < j
  <2> QED
    BY <1>6, <1>10, <2>0, <2>1
<1>20. PrunedTo(gone)
  BY <1>3, <1>6, <1>8, <1>9, <1>12, <1>13, <1>14, <1>15, <1>16, <1>17, <1>18, <1>19 DEF PrunedTo
<1> QED
  BY <1>3, <1>4, <1>5, <1>11, <1>20

(* A prune keeps both lists consistent.                                    *)
LEMMA PruneKeepsLists ==
    ASSUME FragInv, NEW gone, PrunedTo(gone), UNCHANGED <<key, deadline, now>>
    PROVE  ChainsInv' /\ OrderInv'
<1>1. \A m, n \in Listed' : key[m] = key[n] => m = n
  BY DEF FragInv, ChainsInv, PrunedTo
<1>2. \A n \in Listed' : deadline[n] <= now + Timeout
  BY DEF FragInv, OrderInv, PrunedTo
<1>3. ChainsInv'
  BY <1>1 DEF ChainsInv, PrunedTo
<1>4. OrderInv'
  BY <1>2 DEF OrderInv, PrunedTo
<1> QED
  BY <1>3, <1>4

-----------------------------------------------------------------------------
(* A list without duplicates is as long as it has elements.                *)
LEMMA LengthIsCardinality ==
    ASSUME NEW X, NEW s \in Seq(X), OnceEach(s)
    PROVE  /\ IsFiniteSet({s[i] : i \in DOMAIN s})
           /\ Cardinality({s[i] : i \in DOMAIN s}) = Len(s)
<1> DEFINE R == {s[i] : i \in DOMAIN s}
<1>1. Len(s) \in Nat /\ DOMAIN s = 1 .. Len(s)
  OBVIOUS
<1>2. IsFiniteSet(1 .. Len(s)) /\ Cardinality(1 .. Len(s)) = Len(s)
  BY <1>1, FS_Interval
<1>3. IsFiniteSet(DOMAIN s) /\ Cardinality(DOMAIN s) = Len(s)
  BY ONLY <1>1, <1>2
<1>4. IsFiniteSet(R) /\ Cardinality(R) <= Len(s)
  BY <1>3, ImageBound
<1>5. Len(s) <= Cardinality(R)
  <2>1. \A i \in DOMAIN s : s[i] \in R
    OBVIOUS
  <2>2. \A i, j \in DOMAIN s : s[i] = s[j] => i = j
    BY DEF OnceEach
  <2> HIDE DEF R
  <2> QED
    BY ONLY <1>3, <1>4, <2>1, <2>2, InjectionBound
<1>6. Cardinality(R) \in Nat
  BY <1>4, FS_CardinalityType
<1> QED
  BY <1>1, <1>4, <1>5, <1>6

(* The LRU list counts the listed nodes.                                   *)
LEMMA ListedCount ==
    ASSUME FragInv
    PROVE  IsFiniteSet(Listed) /\ Cardinality(Listed) = Len(lru)
  BY LengthIsCardinality DEF FragInv, TypeOK, ChainsInv, Listed

(* The end of create_fragment: what Fill does to the node.                 *)
LEMMA FillFacts ==
    ASSUME FragInv, pc = "find", NEW n \in Nodes, NEW g \in BOOLEAN, NEW p \in Nat,
           Fill(n, g, p)
    PROVE  /\ deadline' = [deadline EXCEPT ![n] = now + Timeout]
           /\ key' = [key EXCEPT ![n] = pkt.dgram]
           /\ deadline' \in [Nodes -> Nat] /\ key' \in [Nodes -> Datagrams]
           /\ gotFirst' \in [Nodes -> BOOLEAN]
           /\ tlhdr' \in [Nodes -> Datagrams \union {NIL}]
           /\ a' \in [Nodes -> Nat] /\ pa' \in [Nodes -> Nat]
           /\ dropped' = dropped /\ counted' \in [1 .. Plugins -> Nat]
<1>0. pkt.dgram \in Datagrams /\ pkt.first \in BOOLEAN
  BY OwnIsListed
<1>1. TypeOK
  BY DEF FragInv
<1>2. a \in [Nodes -> Nat] /\ pa \in [Nodes -> Nat] /\ deadline \in [Nodes -> Nat]
      /\ now \in Nat /\ dropped \in Nat
  BY <1>1, Types
<1>3. key \in [Nodes -> Datagrams] /\ gotFirst \in [Nodes -> BOOLEAN]
      /\ tlhdr \in [Nodes -> Datagrams \union {NIL}] /\ counted \in [1 .. Plugins -> Nat]
  BY <1>1 DEF TypeOK
<1>4. Timeout \in Nat
  BY ONLY Durations
<1>5. deadline' = [deadline EXCEPT ![n] = now + Timeout] /\ key' = [key EXCEPT ![n] = pkt.dgram]
  BY DEF Fill
<1>6. deadline' \in [Nodes -> Nat]
  BY <1>2, <1>4, <1>5
<1>7. key' \in [Nodes -> Datagrams]
  BY <1>0, <1>3, <1>5
<1>8. gotFirst' \in [Nodes -> BOOLEAN]
  BY <1>3 DEF Fill
<1>9. tlhdr' \in [Nodes -> Datagrams \union {NIL}]
  BY <1>0, <1>3 DEF Fill
<1>10. a' \in [Nodes -> Nat]
  <2>1. a' = a \/ a' = [a EXCEPT ![n] = 1]
    BY DEF Fill
  <2> QED
    BY ONLY <1>2, <2>1
<1>11. pa' \in [Nodes -> Nat]
  <2>1. pa' = [pa EXCEPT ![n] = p] \/ pa' = [pa EXCEPT ![n] = p + 1]
    BY DEF Fill
  <2> QED
    BY ONLY <1>2, <2>1, p \in Nat
<1>12. dropped' = dropped
  BY <1>2 DEF Fill, WithoutPorts
<1>13. counted' \in [1 .. Plugins -> Nat]
  BY <1>3 DEF Fill, WithoutPorts, Account
<1> QED
  BY <1>5, <1>6, <1>7, <1>8, <1>9, <1>10, <1>11, <1>12, <1>13

(* What a step has to show of the lists.                                   *)
ListsKept ==
    /\ ChainsInv' /\ OrderInv'
    /\ chain' \in [Buckets -> Seq(Nodes)] /\ lru' \in Seq(Nodes)
    /\ rootNext' \in Nodes \union {NIL} /\ total' \in 0 .. Cardinality(Nodes)

(* A new node is linked into both lists.                                   *)
LEMMA CreateLists ==
    ASSUME FragInv, NEW n \in Nodes, Create(n)
    PROVE  ListsKept /\ n \notin Listed /\ Listed' = Listed \union {n}
<1> DEFINE d == pkt.dgram
<1>0. TypeOK /\ pc = "find" /\ Candidates = {} /\ total > 0 /\ n \notin Listed
  BY DEF FragInv, Create, Link
<1>1. /\ lru' = Append(lru, n) /\ total' = total - 1
      /\ chain' = [chain EXCEPT ![Hash[d]] = Append(chain[Hash[d]], n)]
      /\ rootNext' = IF lru = <<>> THEN n ELSE rootNext
      /\ now' = now
  BY DEF Create, Link, clock
<1>2. Fill(n, FALSE, 0)
  BY DEF Create, Link
<1>3. deadline' = [deadline EXCEPT ![n] = now + Timeout] /\ key' = [key EXCEPT ![n] = d]
  BY <1>0, <1>2, FillFacts
<1>4. d \in Datagrams /\ Hash[d] \in Buckets
  BY <1>0, OwnIsListed
<1>5. \A m \in Listed : key[m] # d
  BY <1>0, NoCandidate
<1> HIDE DEF d
<1>6. /\ lru \in Seq(Nodes) /\ Len(lru) \in Nat /\ DOMAIN lru = 1 .. Len(lru)
      /\ Listed \subseteq Nodes /\ deadline \in [Nodes -> Nat] /\ now \in Nat
      /\ chain \in [Buckets -> Seq(Nodes)] /\ key \in [Nodes -> Datagrams]
  BY <1>0, Types DEF TypeOK
<1>7. \A i \in DOMAIN lru : lru[i] \in Listed /\ lru[i] # n
  BY <1>0 DEF Listed
<1>8. lru' \in Seq(Nodes) /\ Len(lru') = Len(lru) + 1
      /\ lru' # <<>> /\ Head(lru') = IF lru = <<>> THEN n ELSE Head(lru)
  BY ONLY <1>1, <1>6, n \in Nodes, AppendFacts
<1>9. OnceEach(lru)
  BY DEF FragInv, ChainsInv
<1>10. OnceEach(lru') /\ Elems(lru') = Elems(lru) \union {n}
  <2>1. \A i \in DOMAIN lru : lru[i] # n
    BY <1>7
  <2>2. OnceEach(Append(lru, n)) /\ Elems(Append(lru, n)) = Elems(lru) \union {n}
    <3>1. lru \in Seq(Nodes)
      BY <1>6
    <3> QED
      BY ONLY <1>9, <2>1, <3>1, n \in Nodes, AppendOnce
  <2>3. lru' = Append(lru, n)
    BY <1>1
  <2> QED
    BY ONLY <2>2, <2>3
<1>11. Listed' = Listed \union {n}
  BY <1>10 DEF Listed, Elems
<1>12. \A m \in Listed : key'[m] = key[m]
  BY <1>0, <1>3, <1>6
<1>13. key'[n] = d
  BY <1>3, <1>6
<1>14. \A b \in Buckets : chain'[b] = IF b = Hash[d] THEN Append(chain[b], n) ELSE chain[b]
  BY <1>1, <1>4, <1>6
<1>15. \A b \in Buckets : chain[b] \in Seq(Nodes) /\ OnceEach(chain[b])
         /\ \A i \in DOMAIN chain[b] :
              chain[b][i] \in Listed /\ chain[b][i] # n /\ Hash[key[chain[b][i]]] = b
  BY <1>0, <1>6 DEF FragInv, ChainsInv
<1>16. \A b \in Buckets : /\ chain'[b] \in Seq(Nodes) /\ OnceEach(chain'[b])
         /\ Elems(chain'[b]) = Elems(chain[b]) \union (IF b = Hash[d] THEN {n} ELSE {})
  <2> SUFFICES ASSUME NEW b \in Buckets
               PROVE  /\ chain'[b] \in Seq(Nodes) /\ OnceEach(chain'[b])
                      /\ Elems(chain'[b]) =
                           Elems(chain[b]) \union (IF b = Hash[d] THEN {n} ELSE {})
    OBVIOUS
  <2>1. chain[b] \in Seq(Nodes) /\ OnceEach(chain[b]) /\ \A i \in DOMAIN chain[b] : chain[b][i] # n
    BY <1>15
  <2>2. CASE b = Hash[d]
    <3>1. chain'[b] = Append(chain[b], n)
      BY <1>14, <2>2
    <3>2. /\ OnceEach(Append(chain[b], n))
          /\ Elems(Append(chain[b], n)) = Elems(chain[b]) \union {n}
      BY ONLY <2>1, n \in Nodes, AppendOnce
    <3>3. Append(chain[b], n) \in Seq(Nodes)
      BY ONLY <2>1, n \in Nodes
    <3> QED
      BY ONLY <2>2, <3>1, <3>2, <3>3
  <2>3. CASE b # Hash[d]
    <3>1. chain'[b] = chain[b]
      BY <1>14, <2>3
    <3> QED
      BY ONLY <2>1, <2>3, <3>1
  <2> QED
    BY <2>2, <2>3
<1>17. \A b \in Buckets : \A i \in DOMAIN chain'[b] :
         chain'[b][i] \in Listed' /\ Hash[key'[chain'[b][i]]] = b
  <2> SUFFICES ASSUME NEW b \in Buckets, NEW i \in DOMAIN chain'[b]
               PROVE  chain'[b][i] \in Listed' /\ Hash[key'[chain'[b][i]]] = b
    OBVIOUS
  <2>1. \/ chain'[b][i] \in Elems(chain[b])
        \/ chain'[b][i] = n /\ b = Hash[d]
    <3>1. chain'[b][i] \in Elems(chain'[b])
      BY DEF Elems
    <3> QED
      BY <1>16, <3>1
  <2>2. CASE chain'[b][i] = n /\ b = Hash[d]
    BY <1>11, <1>13, <2>2
  <2>3. CASE chain'[b][i] \in Elems(chain[b])
    <3>1. PICK j \in DOMAIN chain[b] : chain'[b][i] = chain[b][j]
      BY <2>3 DEF Elems
    <3>2. chain[b][j] \in Listed /\ Hash[key[chain[b][j]]] = b
      BY <1>15
    <3> QED
      BY <1>11, <1>12, <3>1, <3>2
  <2> QED
    BY <2>1, <2>2, <2>3
<1>18. \A m \in Listed' :
         \E i \in DOMAIN chain'[Hash[key'[m]]] : chain'[Hash[key'[m]]][i] = m
  <2> SUFFICES ASSUME NEW m \in Listed'
               PROVE  \E i \in DOMAIN chain'[Hash[key'[m]]] : chain'[Hash[key'[m]]][i] = m
    OBVIOUS
  <2> DEFINE b == Hash[key'[m]]
  <2>1. CASE m = n
    <3>1. b = Hash[d]
      BY <1>13, <2>1
    <3>2. m \in Elems(chain'[b])
      BY <1>4, <1>16, <2>1, <3>1
    <3> QED
      BY <3>2 DEF Elems
  <2>2. CASE m # n
    <3>1. m \in Listed /\ key'[m] = key[m]
      BY <1>11, <1>12, <2>2
    <3>2. b \in Buckets
      BY <1>6, <3>1 DEF Buckets
    <3>3. m \in Elems(chain[b])
      BY <3>1 DEF FragInv, ChainsInv, Elems
    <3>4. m \in Elems(chain'[b])
      BY <1>16, <3>2, <3>3
    <3> QED
      BY <3>4 DEF Elems
  <2> QED
    BY <2>1, <2>2
<1>19. \A l, m \in Listed' : key'[l] = key'[m] => l = m
  <2>1. \A l, m \in Listed : key[l] = key[m] => l = m
    BY DEF FragInv, ChainsInv
  <2> QED
    BY ONLY <1>5, <1>11, <1>12, <1>13, <2>1
<1>20. total' \in 0 .. Cardinality(Nodes) /\ total' + Len(lru') = Cardinality(Nodes)
  <2>1. total \in Nat /\ total + Len(lru) = Cardinality(Nodes) /\ Cardinality(Nodes) \in Nat
    BY <1>0, Types DEF FragInv, ChainsInv
  <2>2. total' = total - 1 /\ Len(lru') = Len(lru) + 1 /\ total > 0 /\ Len(lru) \in Nat
    BY <1>0, <1>1, <1>6, <1>8
  <2> QED
    BY ONLY <2>1, <2>2
<1>21. ChainsInv'
  BY ONLY <1>10, <1>16, <1>17, <1>18, <1>19, <1>20 DEF ChainsInv
<1>22. chain' \in [Buckets -> Seq(Nodes)]
  BY ONLY <1>1, <1>6, <1>16
<1>23. lru # <<>> => rootNext = Head(lru)
  BY DEF FragInv, OrderInv
<1>24. rootNext' = Head(lru')
  BY <1>1, <1>8, <1>23
<1>25. Head(lru') \in Nodes
  BY ONLY <1>8
<1>26. /\ \A i, j \in DOMAIN lru' : i < j => deadline'[lru'[i]] <= deadline'[lru'[j]]
       /\ \A i \in DOMAIN lru' : deadline'[lru'[i]] <= now + Timeout
  <2>1. now + Timeout \in Nat
    BY <1>6, Durations
  <2>2. /\ \A i, j \in DOMAIN lru : i < j => deadline[lru[i]] <= deadline[lru[j]]
        /\ \A i \in DOMAIN lru : deadline[lru[i]] <= now + Timeout
    BY <1>7 DEF FragInv, OrderInv
  <2>3. \A i \in DOMAIN lru : lru[i] # n
    BY <1>7
  <2> QED
    BY ONLY <1>1, <1>3, <1>6, <2>1, <2>2, <2>3, n \in Nodes, TailKeepsOrder
<1>27. OrderInv'
  BY <1>1, <1>24, <1>26 DEF OrderInv, Listed
<1> QED
  BY <1>0, <1>8, <1>11, <1>20, <1>21, <1>22, <1>24, <1>25, <1>27 DEF ListsKept

(* A recycled node moves to the tail of the LRU list and stays where it is *)
(* in its chain: its new datagram has the same bucket.                     *)
LEMMA RecycleLists ==
    ASSUME FragInv, Recycle
    PROVE  ListsKept /\ Listed' = Listed
<1> DEFINE d == pkt.dgram
           c == Candidate
           w == Without(lru, {c})
<1>0. TypeOK /\ pc = "find" /\ Candidates # {} /\ total > 0
  BY DEF FragInv, Recycle, TakeOver
<1>1. /\ lru' = Append(w, c) /\ total' = total /\ chain' = chain
      /\ rootNext' = Head(Append(w, c)) /\ now' = now
  BY DEF Recycle, TakeOver, clock, MoveToTail
<1>2. Fill(c, gotFirst[c], pa[c])
  BY DEF Recycle, TakeOver
<1>3. /\ c \in Listed /\ c \in Nodes /\ Hash[key[c]] = Hash[d]
      /\ key[c] = d \/ \A n \in Listed : key[n] # d
  BY <1>0, CandidateListed
<1>4. d \in Datagrams /\ Hash[d] \in Buckets
  BY <1>0, OwnIsListed
<1>5. deadline' = [deadline EXCEPT ![c] = now + Timeout] /\ key' = [key EXCEPT ![c] = d]
  <2>1. gotFirst[c] \in BOOLEAN /\ pa[c] \in Nat
    BY <1>0, <1>3, Types DEF TypeOK
  <2> HIDE DEF c
  <2> QED
    BY <1>0, <1>2, <1>3, <2>1, FillFacts
<1> HIDE DEF d, c
<1>6. /\ lru \in Seq(Nodes) /\ Len(lru) \in Nat /\ DOMAIN lru = 1 .. Len(lru)
      /\ Listed \subseteq Nodes /\ deadline \in [Nodes -> Nat] /\ now \in Nat
      /\ chain \in [Buckets -> Seq(Nodes)] /\ key \in [Nodes -> Datagrams]
  BY <1>0, Types DEF TypeOK
<1>7. OnceEach(lru) /\ Listed = Elems(lru)
  BY DEF FragInv, ChainsInv, Listed, Elems
<1>8. /\ w \in Seq(Nodes) /\ OnceEach(w)
      /\ \A i \in DOMAIN w : w[i] # c /\ \E j \in DOMAIN lru : lru[j] = w[i]
      /\ \A j \in DOMAIN lru : lru[j] # c => \E i \in DOMAIN w : w[i] = lru[j]
  <2> DEFINE C == {c}
  <2>1. lru \in Seq(Nodes) /\ OnceEach(lru)
    BY <1>6, <1>7
  <2> HIDE DEF C
  <2>2. /\ Without(lru, C) \in Seq(Nodes) /\ OnceEach(Without(lru, C))
        /\ \A i \in DOMAIN Without(lru, C) :
             Without(lru, C)[i] \notin C /\ \E j \in DOMAIN lru : lru[j] = Without(lru, C)[i]
        /\ \A j \in DOMAIN lru : lru[j] \notin C =>
             \E i \in DOMAIN Without(lru, C) : Without(lru, C)[i] = lru[j]
    BY ONLY <2>1, WithoutOnce
  <2>3. w = Without(lru, C)
    BY DEF C
  <2>4. \A n : n \in C <=> n = c
    BY DEF C
  <2> HIDE DEF w
  <2> QED
    BY ONLY <2>2, <2>3, <2>4
<1>9. \A i, j \in DOMAIN w : i < j => deadline[w[i]] <= deadline[w[j]]
  <2> SUFFICES ASSUME NEW i \in DOMAIN w, NEW j \in DOMAIN w, i < j
               PROVE  deadline[w[i]] <= deadline[w[j]]
    OBVIOUS
  <2>1. \E f : Embeds(w, f, lru, Len(lru), {c})
    BY ONLY <1>6, WithoutEmbeds
  <2> HIDE DEF w
  <2>2. PICK f : Embeds(w, f, lru, Len(lru), {c})
    BY <2>1
  <2>3. i \in 1 .. Len(w) /\ j \in 1 .. Len(w)
    BY ONLY <1>8, i \in DOMAIN w, j \in DOMAIN w
  <2>4. /\ f[i] \in DOMAIN lru /\ f[j] \in DOMAIN lru /\ f[i] < f[j]
        /\ w[i] = lru[f[i]] /\ w[j] = lru[f[j]]
    BY <1>6, <2>2, <2>3 DEF Embeds
  <2> QED
    BY <2>4 DEF FragInv, OrderInv
<1> HIDE DEF w
<1>10. Elems(w) = Listed \ {c}
  BY <1>7, <1>8 DEF Elems
<1>11. OnceEach(Append(w, c)) /\ Elems(Append(w, c)) = Elems(w) \union {c}
  BY ONLY <1>3, <1>8, AppendOnce
<1>12. Append(w, c) \in Seq(Nodes) /\ Append(w, c) # <<>>
  BY ONLY <1>3, <1>8, AppendFacts
<1>13. lru' \in Seq(Nodes) /\ lru' # <<>> /\ OnceEach(lru') /\ Elems(lru') = Listed
  BY <1>1, <1>3, <1>10, <1>11, <1>12
<1>14. Listed' = Listed
  BY <1>13 DEF Listed, Elems
<1>15. Len(lru') = Len(lru)
  <2>1. Cardinality(Elems(lru')) = Len(lru')
    BY ONLY <1>13, LengthIsCardinality DEF Elems
  <2>2. Cardinality(Elems(lru)) = Len(lru)
    BY ONLY <1>6, <1>7, LengthIsCardinality DEF Elems
  <2> QED
    BY ONLY <1>7, <1>13, <2>1, <2>2
<1>16. \A n \in Nodes : key'[n] = IF n = c THEN d ELSE key[n]
  BY <1>3, <1>5, <1>6
<1>17. \A n \in Listed : Hash[key'[n]] = Hash[key[n]]
  BY <1>3, <1>6, <1>16
<1>18. \A m, n \in Listed : key'[m] = key'[n] => m = n
  <2>1. \A m, n \in Listed : key[m] = key[n] => m = n
    BY DEF FragInv, ChainsInv
  <2> QED
    BY ONLY <1>3, <1>6, <1>16, <2>1
<1>19. ChainsInv'
  BY <1>1, <1>13, <1>14, <1>15, <1>17, <1>18 DEF FragInv, ChainsInv
<1>20. /\ \A i, j \in DOMAIN lru' : i < j => deadline'[lru'[i]] <= deadline'[lru'[j]]
       /\ \A i \in DOMAIN lru' : deadline'[lru'[i]] <= now + Timeout
  <2>1. now + Timeout \in Nat
    BY <1>6, Durations
  <2>2. \A i \in DOMAIN w : deadline[w[i]] <= now + Timeout
    BY <1>7, <1>8 DEF FragInv, OrderInv, Elems
  <2>3. \A i \in DOMAIN w : w[i] # c
    BY <1>8
  <2> QED
    BY ONLY <1>1, <1>3, <1>5, <1>6, <1>8, <1>9, <2>1, <2>2, <2>3, TailKeepsOrder
<1>21. OrderInv'
  BY <1>1, <1>20 DEF OrderInv, Listed
<1>22. rootNext' \in Nodes
  BY ONLY <1>1, <1>13
<1> QED
  BY <1>0, <1>1, <1>6, <1>13, <1>14, <1>19, <1>21, <1>22 DEF ListsKept, TypeOK

-----------------------------------------------------------------------------
(* The packets held back are a sum over nodes.                             *)
LEMMA HeldIsSum ==
    ASSUME NEW S PROVE HeldIn(S) = Sum(pa, S)
  BY DEF HeldIn, Sum

(* The packets held back are a natural number.                             *)
LEMMA HeldIsNat ==
    ASSUME FragInv, NEW S \in SUBSET Listed PROVE HeldIn(S) \in Nat
<1>1. IsFiniteSet(S)
  BY ListedCount, FS_Subset
<1>2. \A n \in S : pa[n] \in Nat
  BY Types DEF FragInv
<1>3. Sum(pa, S) \in Nat
  BY ONLY <1>1, <1>2, SumIsNat
<1> QED
  BY <1>3, HeldIsSum

(* The type of the root's successor after a prune.                         *)
LEMMA PrunedRoot ==
    ASSUME FragInv, NEW gone, PrunedTo(gone) PROVE rootNext' \in Nodes \union {NIL}
<1>1. CASE lru' = <<>>
  BY <1>1 DEF PrunedTo, FragInv, TypeOK
<1>2. CASE lru' # <<>>
  <2>1. lru' \in Seq(Nodes) /\ rootNext' = Head(lru')
    BY <1>2 DEF PrunedTo
  <2> QED
    BY ONLY <1>2, <2>1
<1> QED
  BY <1>1, <1>2

-----------------------------------------------------------------------------
(* Steps that leave the lists alone.                                       *)
LEMMA SameLists ==
    ASSUME FragInv, UNCHANGED <<lists, key, deadline>>, now' \in Nat, now' >= now
    PROVE  ListsKept /\ Listed' = Listed
<1>1. /\ chain' = chain /\ lru' = lru /\ rootNext' = rootNext /\ total' = total
      /\ key' = key /\ deadline' = deadline
  BY DEF lists
<1>2. Listed' = Listed
  BY <1>1 DEF Listed
<1>3. ChainsInv'
  BY <1>1, <1>2 DEF FragInv, ChainsInv
<1>4. \A n \in Listed : deadline[n] <= now' + Timeout
  <2>1. now \in Nat /\ Timeout \in Nat /\ Listed \subseteq Nodes /\ deadline \in [Nodes -> Nat]
    <3>1. TypeOK
      BY DEF FragInv
    <3>2. now \in Nat /\ Listed \subseteq Nodes /\ deadline \in [Nodes -> Nat]
      BY ONLY <3>1, Types
    <3> QED
      BY ONLY <3>2, FragmentAssumption
  <2>2. \A n \in Listed : deadline[n] <= now + Timeout
    BY DEF FragInv, OrderInv
  <2> QED
    BY ONLY <2>1, <2>2, now' \in Nat, now' >= now
<1>5. OrderInv'
  BY <1>1, <1>2, <1>4 DEF FragInv, OrderInv
<1> QED
  BY <1>1, <1>2, <1>3, <1>5 DEF ListsKept, FragInv, TypeOK

(* The variables other than the lists.                                     *)
RestOK ==
    /\ key \in [Nodes -> Datagrams] /\ gotFirst \in [Nodes -> BOOLEAN]
    /\ tlhdr \in [Nodes -> Datagrams \union {NIL}]
    /\ a \in [Nodes -> Nat] /\ pa \in [Nodes -> Nat] /\ deadline \in [Nodes -> Nat]
    /\ now \in Nat /\ pruneAt \in Nat /\ emerAt \in Nat
    /\ arrived \in Nat /\ dropped \in Nat /\ wrong \in Nat
    /\ pkt \in [dgram : Datagrams, first : BOOLEAN] \union {NIL}
    /\ pc \in {"idle", "find", "undefined"}
    /\ counted \in [1 .. Plugins -> Nat] /\ recycled \subseteq Nodes

(* Their types, from the type invariant.                                   *)
LEMMA RestTypes ==
    ASSUME TypeOK PROVE RestOK
  BY DEF TypeOK, RestOK

(* The parts of the inductive invariant.                                   *)
LEMMA Combine ==
    ASSUME ListsKept, RestOK', CallInv' PROVE FragInv'
  BY DEF ListsKept, RestOK, FragInv, TypeOK

(* The empty table.                                                        *)
LEMMA InitInv == Init => FragInv
<1> SUFFICES ASSUME Init PROVE FragInv
  OBVIOUS
<1>1. Cardinality(Nodes) \in Nat
  BY FragmentAssumption, FS_CardinalityType
<1>2. (CHOOSE d \in Datagrams : TRUE) \in Datagrams
  BY ONLY FragmentAssumption
<1>3. a = [n \in Nodes |-> 0] /\ pa = [n \in Nodes |-> 0] /\ deadline = [n \in Nodes |-> 0]
  BY ONLY Init DEF Init
<1>4. a \in [Nodes -> Nat] /\ pa \in [Nodes -> Nat] /\ deadline \in [Nodes -> Nat]
  BY <1>3
<1>5. key \in [Nodes -> Datagrams]
  BY <1>2 DEF Init
<1>6. now \in Nat /\ pruneAt \in Nat /\ emerAt \in Nat
  <2>1. now = EmerInterval + 1 /\ pruneAt = EmerInterval + 1 + PruneInterval /\ emerAt = 0
    BY DEF Init, Start
  <2>2. EmerInterval \in Nat /\ PruneInterval \in Nat
    BY ONLY Durations
  <2> QED
    BY ONLY <2>1, <2>2
<1>7. lru = <<>>
  BY DEF Init
<1>8. lru \in Seq(Nodes) /\ Len(lru) = 0 /\ DOMAIN lru = {}
  BY ONLY <1>7
<1>9. chain = [b \in Buckets |-> <<>>]
  BY DEF Init
<1>10. chain \in [Buckets -> Seq(Nodes)] /\ \A b \in Buckets : DOMAIN chain[b] = {}
  BY ONLY <1>9
<1>11. rootNext = NIL /\ total = Cardinality(Nodes)
  BY DEF Init
<1>12. gotFirst \in [Nodes -> BOOLEAN] /\ tlhdr \in [Nodes -> Datagrams \union {NIL}]
  BY DEF Init
<1>13. arrived = 0 /\ dropped = 0 /\ wrong = 0 /\ pkt = NIL /\ pc = "idle" /\ recycled = {}
  BY DEF Init
<1>14. counted \in [1 .. Plugins -> Nat]
  BY DEF Init
<1>15. TypeOK
  BY ONLY <1>1, <1>4, <1>5, <1>6, <1>8, <1>10, <1>11, <1>12, <1>13, <1>14 DEF TypeOK
<1>16. Listed = {}
  BY <1>8 DEF Listed
<1>17. ChainsInv
  BY ONLY <1>1, <1>8, <1>10, <1>11, <1>16 DEF ChainsInv, OnceEach
<1>18. OrderInv
  BY ONLY <1>7, <1>8, <1>16 DEF OrderInv
<1>19. CallInv
  BY ONLY <1>3, <1>13 DEF CallInv
<1> QED
  BY <1>15, <1>17, <1>18, <1>19 DEF FragInv

(* FragInv after a step: no prune is due.                                  *)
LEMMA ReceiveStep ==
    ASSUME FragInv, NEW d \in Datagrams, NEW first \in BOOLEAN, Receive(d, first)
    PROVE  FragInv'
<1>0. RestOK
  BY RestTypes DEF FragInv
<1>1. UNCHANGED <<lists, key, deadline>> /\ now' = now
  BY DEF Receive, fields, clock
<1>2. ListsKept
  BY <1>0, <1>1, SameLists DEF RestOK
<1>3. pkt' = [dgram |-> d, first |-> first] /\ arrived' = arrived + 1 /\ pc' = "find"
  BY DEF Receive, Arrival
<1>4. RestOK'
  BY <1>0, <1>3 DEF RestOK, Receive, fields, clock
<1>5. pkt' # NIL
  BY <1>3, NilAssumption
<1>6. CallInv'
  BY <1>3, <1>5 DEF FragInv, CallInv, Receive, fields
<1> QED
  BY <1>2, <1>4, <1>6, Combine

(* FragInv after a step: the periodic prune.                               *)
LEMMA ReceiveAndPruneStep ==
    ASSUME FragInv, NEW d \in Datagrams, NEW first \in BOOLEAN, ReceiveAndPrune(d, first)
    PROVE  FragInv'
<1>0. RestOK
  BY RestTypes DEF FragInv
<1>1. Prune(PruneOffset, 0)
  BY DEF ReceiveAndPrune
<1>2. UNCHANGED <<key, deadline, now>>
  BY DEF ReceiveAndPrune, fields
<1>3. PICK gone \in SUBSET Listed : PrunedTo(gone) /\ dropped' = dropped + 0 + HeldIn(gone)
  <2>1. PruneOffset \in Nat /\ 0 \in Nat
    BY ONLY Durations
  <2> QED
    BY ONLY FragInv, <1>1, <2>1, PruneFacts
<1>4. ChainsInv' /\ OrderInv'
  BY <1>2, <1>3, PruneKeepsLists
<1>5. ListsKept
  BY <1>3, <1>4, PrunedRoot DEF ListsKept, PrunedTo
<1>6. dropped' \in Nat
  <2>1. HeldIn(gone) \in Nat /\ dropped \in Nat
    BY <1>0, <1>3, HeldIsNat DEF RestOK
  <2> QED
    BY ONLY <1>3, <2>1
<1>7. pkt' = [dgram |-> d, first |-> first] /\ arrived' = arrived + 1 /\ pc' = "find"
      /\ pruneAt' = now + PruneInterval
  BY DEF ReceiveAndPrune, Arrival
<1>8. recycled' \subseteq Nodes
  BY <1>0, <1>3 DEF PrunedTo, RestOK
<1>9. pruneAt' \in Nat
  <2>1. now \in Nat
    BY ONLY <1>0 DEF RestOK
  <2>2. PruneInterval \in Nat
    BY ONLY Durations
  <2> QED
    BY ONLY <1>7, <2>1, <2>2
<1>10. RestOK'
  BY <1>0, <1>6, <1>7, <1>8, <1>9 DEF RestOK, ReceiveAndPrune, fields
<1>11. pkt' # NIL
  BY <1>7, NilAssumption
<1>12. CallInv'
  BY <1>7, <1>11 DEF FragInv, CallInv, ReceiveAndPrune, fields
<1> QED
  BY <1>5, <1>10, <1>12, Combine

(* FragInv after a step: the emergency prune.                              *)
LEMMA SkipAndPruneStep ==
    ASSUME FragInv, SkipAndPrune
    PROVE  FragInv'
<1> DEFINE sk == IF Sampling THEN 0 ELSE 1
<1>0. RestOK
  BY RestTypes DEF FragInv
<1>1. Prune(0, sk) /\ sk \in Nat
  BY DEF SkipAndPrune
<1> HIDE DEF sk
<1>2. UNCHANGED <<key, deadline, now>>
  BY DEF SkipAndPrune, fields
<1>3. PICK gone \in SUBSET Listed : PrunedTo(gone) /\ dropped' = dropped + sk + HeldIn(gone)
  BY <1>1, PruneFacts
<1>4. ChainsInv' /\ OrderInv'
  BY <1>2, <1>3, PruneKeepsLists
<1>5. ListsKept
  BY <1>3, <1>4, PrunedRoot DEF ListsKept, PrunedTo
<1>6. dropped' \in Nat
  <2>1. HeldIn(gone) \in Nat /\ dropped \in Nat
    BY <1>0, <1>3, HeldIsNat DEF RestOK
  <2> QED
    BY ONLY <1>1, <1>3, <2>1
<1>7. counted' \in [1 .. Plugins -> Nat]
  BY <1>0 DEF RestOK, SkipAndPrune, Account
<1>8. recycled' \subseteq Nodes
  BY <1>0, <1>3 DEF PrunedTo, RestOK
<1>9. RestOK'
  BY <1>0, <1>6, <1>7, <1>8 DEF RestOK, SkipAndPrune, fields, Done
<1>10. CallInv'
  BY DEF FragInv, CallInv, SkipAndPrune, fields, Done
<1> QED
  BY <1>5, <1>9, <1>10, Combine

(* FragInv after a step: the first fragment is known.                      *)
LEMMA UseKnownFirstStep ==
    ASSUME FragInv, UseKnownFirst
    PROVE  FragInv'
<1>0. RestOK
  BY RestTypes DEF FragInv
<1>1. UNCHANGED <<lists, key, deadline>> /\ now' = now
  BY DEF UseKnownFirst, fields, clock
<1>2. ListsKept
  BY <1>0, <1>1, SameLists DEF RestOK
<1>3. counted' \in [1 .. Plugins -> Nat]
  BY <1>0 DEF RestOK, UseKnownFirst, Account
<1>4. wrong' \in Nat
  BY <1>0 DEF RestOK, UseKnownFirst
<1>5. RestOK'
  BY <1>0, <1>3, <1>4 DEF RestOK, UseKnownFirst, fields, clock, Done
<1>6. CallInv'
  BY DEF FragInv, CallInv, UseKnownFirst, fields, Done
<1> QED
  BY <1>2, <1>5, <1>6, Combine

(* FragInv after a step: the first fragment arrives.                       *)
LEMMA FirstArrivesStep ==
    ASSUME FragInv, FirstArrives
    PROVE  FragInv'
<1>0. RestOK
  BY RestTypes DEF FragInv
<1>1. UNCHANGED <<lists, key, deadline>> /\ now' = now
  BY DEF FirstArrives, TakeFirst, clock
<1>2. ListsKept
  BY <1>0, <1>1, SameLists DEF RestOK
<1>3. Node \in Nodes /\ pkt.dgram \in Datagrams
  BY NodeListed, OwnIsListed DEF FirstArrives, TakeFirst
<1>4. counted' \in [1 .. Plugins -> Nat]
  <2>1. pa[Node] \in Nat
    BY <1>0, <1>3 DEF RestOK
  <2> QED
    BY <1>0, <2>1 DEF RestOK, FirstArrives, TakeFirst, Account
<1>5. /\ gotFirst' \in [Nodes -> BOOLEAN] /\ tlhdr' \in [Nodes -> Datagrams \union {NIL}]
      /\ a' \in [Nodes -> Nat] /\ pa' \in [Nodes -> Nat] /\ recycled' \subseteq Nodes
  BY <1>0, <1>3 DEF RestOK, FirstArrives, TakeFirst
<1>6. RestOK'
  BY <1>0, <1>4, <1>5 DEF RestOK, FirstArrives, TakeFirst, clock, Done
<1>7. Sampling => \A n \in Nodes : a'[n] = 0 /\ pa'[n] = 0
  BY <1>0 DEF RestOK, FragInv, CallInv, FirstArrives, TakeFirst
<1>8. CallInv'
  BY <1>7 DEF CallInv, FirstArrives, TakeFirst, Done
<1> QED
  BY <1>2, <1>6, <1>8, Combine

(* FragInv after a step: the fragment is held back.                        *)
LEMMA HoldBackStep ==
    ASSUME FragInv, HoldBack
    PROVE  FragInv'
<1>0. RestOK
  BY RestTypes DEF FragInv
<1>1. UNCHANGED <<lists, key, deadline>> /\ now' = now
  BY DEF HoldBack, Hold, clock
<1>2. ListsKept
  BY <1>0, <1>1, SameLists DEF RestOK
<1>3. Node \in Nodes
  BY NodeListed DEF HoldBack, Hold
<1>4. counted' \in [1 .. Plugins -> Nat] /\ dropped' \in Nat
  <2>1. WithoutPorts(TRUE)
    BY DEF HoldBack, Hold
  <2>2. counted \in [1 .. Plugins -> Nat] /\ dropped \in Nat
    BY <1>0 DEF RestOK
  <2> QED
    BY ONLY <2>1, <2>2 DEF Account, WithoutPorts
<1>5. a' \in [Nodes -> Nat] /\ pa' \in [Nodes -> Nat]
  <2>1. \/ a' = a /\ pa' = pa
        \/ a' = [a EXCEPT ![Node] = a[Node] + 1] /\ pa' = [pa EXCEPT ![Node] = pa[Node] + 1]
    BY DEF HoldBack, Hold
  <2>2. a \in [Nodes -> Nat] /\ pa \in [Nodes -> Nat]
    BY <1>0 DEF RestOK
  <2> QED
    BY ONLY <1>3, <2>1, <2>2
<1>6. RestOK'
  BY <1>0, <1>4, <1>5 DEF RestOK, HoldBack, Hold, clock, Done
<1>7. CallInv'
  BY DEF FragInv, CallInv, HoldBack, Hold, Done
<1> QED
  BY <1>2, <1>6, <1>7, Combine

(* FragInv after a step: a new node.                                       *)
LEMMA CreateStep ==
    ASSUME FragInv, NEW n \in Nodes, Create(n)
    PROVE  FragInv'
<1>0. RestOK
  BY RestTypes DEF FragInv
<1>1. ListsKept
  BY CreateLists
<1>2. pc = "find" /\ Fill(n, FALSE, 0)
  BY DEF Create, Link
<1>3. /\ deadline' \in [Nodes -> Nat] /\ key' \in [Nodes -> Datagrams]
      /\ gotFirst' \in [Nodes -> BOOLEAN]
      /\ tlhdr' \in [Nodes -> Datagrams \union {NIL}]
      /\ a' \in [Nodes -> Nat] /\ pa' \in [Nodes -> Nat]
      /\ dropped' = dropped /\ counted' \in [1 .. Plugins -> Nat]
  BY <1>2, FillFacts
<1>4. RestOK'
  BY <1>0, <1>3 DEF RestOK, Create, Link, clock, Done
<1>5. Sampling => \A m \in Nodes : a'[m] = 0 /\ pa'[m] = 0
  <2> SUFFICES ASSUME Sampling PROVE \A m \in Nodes : a'[m] = 0 /\ pa'[m] = 0
    OBVIOUS
  <2>1. a' = a /\ pa' = [pa EXCEPT ![n] = 0]
    BY <1>2 DEF Fill
  <2> QED
    BY <1>0, <2>1 DEF RestOK, FragInv, CallInv
<1>6. CallInv'
  BY <1>5 DEF CallInv, Create, Link, Done
<1> QED
  BY <1>1, <1>4, <1>6, Combine

(* FragInv after a step: a recycled node.                                  *)
LEMMA RecycleStep ==
    ASSUME FragInv, Recycle
    PROVE  FragInv'
<1> DEFINE n == Candidate
<1>0. RestOK
  BY RestTypes DEF FragInv
<1>1. ListsKept
  BY RecycleLists
<1>2. pc = "find" /\ Fill(n, gotFirst[n], pa[n])
  BY DEF Recycle, TakeOver
<1>3. n \in Nodes
  BY CandidateListed DEF Recycle, TakeOver
<1>4. gotFirst[n] \in BOOLEAN /\ pa[n] \in Nat
  BY <1>0, <1>3 DEF RestOK
<1>5. recycled' \subseteq Nodes
  BY <1>0, <1>3 DEF RestOK, Recycle, TakeOver
<1>6. arrived' = arrived /\ wrong' = wrong /\ pc' = "idle" /\ pkt' = NIL
      /\ now' = now /\ pruneAt' = pruneAt /\ emerAt' = emerAt
  BY DEF Recycle, TakeOver, clock, Done
<1> HIDE DEF n
<1>7. /\ deadline' \in [Nodes -> Nat] /\ key' \in [Nodes -> Datagrams]
      /\ gotFirst' \in [Nodes -> BOOLEAN]
      /\ tlhdr' \in [Nodes -> Datagrams \union {NIL}]
      /\ a' \in [Nodes -> Nat] /\ pa' \in [Nodes -> Nat]
      /\ dropped' = dropped /\ counted' \in [1 .. Plugins -> Nat]
  BY <1>2, <1>3, <1>4, FillFacts
<1>8. RestOK'
  BY <1>0, <1>5, <1>6, <1>7 DEF RestOK
<1>9. Sampling => \A m \in Nodes : a'[m] = 0 /\ pa'[m] = 0
  <2> SUFFICES ASSUME Sampling PROVE \A m \in Nodes : a'[m] = 0 /\ pa'[m] = 0
    OBVIOUS
  <2>1. a' = a /\ pa' = [pa EXCEPT ![n] = pa[n]]
    BY <1>2 DEF Fill
  <2> QED
    BY <1>0, <1>3, <2>1 DEF RestOK, FragInv, CallInv
<1>10. CallInv'
  BY <1>6, <1>9 DEF CallInv
<1> QED
  BY <1>1, <1>8, <1>10, Combine

(* FragInv after a step: no node.                                          *)
LEMMA SkipStep ==
    ASSUME FragInv, Skip
    PROVE  FragInv'
<1>0. RestOK
  BY RestTypes DEF FragInv
<1>1. UNCHANGED <<lists, key, deadline>> /\ now' = now
  BY DEF Skip, fields, clock
<1>2. ListsKept
  BY <1>0, <1>1, SameLists DEF RestOK
<1>3. counted' \in [1 .. Plugins -> Nat] /\ dropped' \in Nat
  BY <1>0 DEF RestOK, Skip, WithoutPorts, Account
<1>4. RestOK'
  BY <1>0, <1>3 DEF RestOK, Skip, fields, clock, Done
<1>5. CallInv'
  BY DEF FragInv, CallInv, Skip, fields, Done
<1> QED
  BY <1>2, <1>4, <1>5, Combine

(* FragInv after a step: the clock.                                        *)
LEMMA TickStep ==
    ASSUME FragInv, Tick
    PROVE  FragInv'
<1>0. RestOK
  BY RestTypes DEF FragInv
<1>1. UNCHANGED <<lists, key, deadline>> /\ now' = now + 1
  BY DEF Tick, fields
<1>2. ListsKept
  BY <1>0, <1>1, SameLists DEF RestOK
<1>3. RestOK'
  BY <1>0, <1>1 DEF RestOK, Tick, fields, tally
<1>4. CallInv'
  BY DEF FragInv, CallInv, Tick, fields
<1> QED
  BY <1>2, <1>3, <1>4, Combine

(* FragInv after a step: the dangling successor.                           *)
LEMMA UndefinedStep ==
    ASSUME FragInv, PruneUndefined
    PROVE  FragInv'
<1>0. RestOK
  BY RestTypes DEF FragInv
<1>1. UNCHANGED <<lists, key, deadline>> /\ now' = now
  BY DEF PruneUndefined, fields, clock
<1>2. ListsKept
  BY <1>0, <1>1, SameLists DEF RestOK
<1>3. RestOK'
  BY <1>0 DEF RestOK, PruneUndefined, fields, clock, tally
<1>4. CallInv'
  BY DEF FragInv, CallInv, PruneUndefined, fields
<1> QED
  BY <1>2, <1>3, <1>4, Combine

(* FragInv after a step: nothing happens.                                  *)
LEMMA StutterStep ==
    ASSUME FragInv, UNCHANGED vars
    PROVE  FragInv'
<1>0. RestOK
  BY RestTypes DEF FragInv
<1>1. UNCHANGED <<lists, key, deadline>> /\ now' = now
  BY DEF vars, fields, clock
<1>2. ListsKept
  BY <1>0, <1>1, SameLists DEF RestOK
<1>3. RestOK'
  BY <1>0 DEF RestOK, vars, fields, clock, tally
<1>4. CallInv'
  BY DEF FragInv, CallInv, vars, fields
<1> QED
  BY <1>2, <1>3, <1>4, Combine

(* FragInv is inductive.                                                   *)
LEMMA NextInv == FragInv /\ [Next]_vars => FragInv'
<1> SUFFICES ASSUME FragInv, [Next]_vars PROVE FragInv'
  OBVIOUS
<1>1. ASSUME NEW d \in Datagrams, NEW first \in BOOLEAN,
             \/ Receive(d, first) \/ ReceiveAndPrune(d, first) \/ ReceiveUndefined(d, first)
      PROVE  FragInv'
  BY <1>1, ReceiveStep, ReceiveAndPruneStep, UndefinedStep DEF ReceiveUndefined
<1>2. CASE UseKnownFirst \/ FirstArrives \/ HoldBack
  BY <1>2, UseKnownFirstStep, FirstArrivesStep, HoldBackStep
<1>3. CASE (\E n \in Nodes : Create(n)) \/ Recycle
  BY <1>3, CreateStep, RecycleStep
<1>4. CASE Skip \/ SkipAndPrune \/ SkipUndefined
  BY <1>4, SkipStep, SkipAndPruneStep, UndefinedStep DEF SkipUndefined
<1>5. CASE Tick
  BY <1>5, TickStep
<1>6. CASE UNCHANGED vars
  BY <1>6, StutterStep
<1> QED
  BY <1>1, <1>2, <1>3, <1>4, <1>5, <1>6 DEF Next

-----------------------------------------------------------------------------
(* An element of a list without duplicates has one place.                  *)
LEMMA OneIndex ==
    ASSUME NEW s, OnceEach(s), NEW i \in DOMAIN s
    PROVE  {j \in DOMAIN s : s[j] = s[i]} = {i}
  BY DEF OnceEach

(* The inductive invariant implies the invariant that the runs check.      *)
LEMMA InvIsListsAgree ==
    ASSUME FragInv PROVE ListsAgree
<1> DEFINE In(n) == {i \in DOMAIN lru : lru[i] = n}
           At(n) == {bi \in UNION {{b} \X DOMAIN chain[b] : b \in Buckets} :
                       /\ chain[bi[1]][bi[2]] = n
                       /\ Hash[key[n]] = bi[1]}
<1>1. ASSUME NEW n \in Nodes PROVE Cardinality(In(n)) = Cardinality(At(n))
  <2>1. CASE n \in Listed
    <3>1. PICK i \in DOMAIN lru : lru[i] = n
      BY <2>1 DEF Listed
    <3>2. OnceEach(lru)
      BY DEF FragInv, ChainsInv
    <3>3. In(n) = {i}
      BY ONLY <3>1, <3>2, OneIndex
    <3> DEFINE c == Hash[key[n]]
    <3>4. c \in Buckets
      BY <1>1, Types DEF FragInv, TypeOK
    <3>5. PICK j \in DOMAIN chain[c] : chain[c][j] = n
      BY <2>1 DEF FragInv, ChainsInv
    <3>6. OnceEach(chain[c])
      BY <3>4 DEF FragInv, ChainsInv
    <3> HIDE DEF c
    <3>7. At(n) = {<<c, j>>}
      <4>1. ASSUME NEW bi \in At(n) PROVE bi = <<c, j>>
        <5>1. PICK b \in Buckets : bi \in {b} \X DOMAIN chain[b]
          BY <4>1
        <5>2. bi = <<bi[1], bi[2]>> /\ bi[1] = b /\ bi[2] \in DOMAIN chain[b]
          BY <5>1
        <5>3. chain[b][bi[2]] = n /\ b = c
          BY <4>1, <5>2 DEF c
        <5>4. bi[2] = j
          BY <3>5, <3>6, <5>2, <5>3 DEF OnceEach
        <5> QED
          BY ONLY <5>2, <5>3, <5>4
      <4>2. <<c, j>> \in At(n)
        <5>1. <<c, j>> \in {c} \X DOMAIN chain[c]
          OBVIOUS
        <5>2. <<c, j>> \in UNION {{b} \X DOMAIN chain[b] : b \in Buckets}
          BY ONLY <3>4, <5>1
        <5>3. <<c, j>>[1] = c /\ <<c, j>>[2] = j
          OBVIOUS
        <5> QED
          BY <3>5, <5>2, <5>3 DEF c
      <4> HIDE DEF At
      <4> QED
        BY ONLY <4>1, <4>2
    <3> HIDE DEF In, At
    <3>8. Cardinality(In(n)) = 1
      BY ONLY <3>3, FS_Singleton
    <3>9. Cardinality(At(n)) = 1
      BY ONLY <3>7, FS_Singleton
    <3> QED
      BY <3>8, <3>9
  <2>2. CASE n \notin Listed
    <3>1. In(n) = {}
      BY <2>2 DEF Listed
    <3>2. At(n) = {}
      <4> SUFFICES ASSUME NEW bi \in At(n) PROVE FALSE
        OBVIOUS
      <4>1. PICK b \in Buckets : bi \in {b} \X DOMAIN chain[b]
        OBVIOUS
      <4>2. bi[1] = b /\ bi[2] \in DOMAIN chain[b]
        BY <4>1
      <4>3. chain[b][bi[2]] = n
        BY <4>2
      <4>4. chain[b][bi[2]] \in Listed
        BY <4>2 DEF FragInv, ChainsInv
      <4> QED
        BY ONLY <2>2, <4>3, <4>4
    <3> HIDE DEF In, At
    <3> QED
      BY ONLY <3>1, <3>2
  <2> QED
    BY <2>1, <2>2
<1>2. Len(lru) = Cardinality(Listed)
  BY ListedCount
<1>3. /\ TypeOK
      /\ \A m, n \in Listed : key[m] = key[n] => m = n
      /\ total + Len(lru) = Cardinality(Nodes)
      /\ lru # <<>> => rootNext = Head(lru)
      /\ \A i, j \in DOMAIN lru : i < j => deadline[lru[i]] <= deadline[lru[j]]
  BY DEF FragInv, ChainsInv, OrderInv
<1>4. \A n \in Nodes : Cardinality(In(n)) = Cardinality(At(n))
  BY <1>1
<1> QED
  BY ONLY <1>2, <1>3, <1>4 DEF ListsAgree

(* In every reachable state the chains and the LRU list hold the same      *)
(* nodes, each once and in the bucket of its datagram, no datagram has     *)
(* two, ipft_total_nodes counts the rest, the list is in the order of the  *)
(* deadlines and the root's successor is its head: what create_fragment    *)
(* links and prune_old_fragments unlinks.                                  *)
THEOREM ListsStayConsistent == Spec => []ListsAgree
<1>1. Init => FragInv
  BY InitInv
<1>2. FragInv /\ [Next]_vars => FragInv'
  BY NextInv
<1>3. FragInv => ListsAgree
  BY InvIsListsAgree
<1> QED
  BY <1>1, <1>2, <1>3, PTL DEF Spec

-----------------------------------------------------------------------------
(* No node, no leftover.                                                   *)
LEMMA LeftoversInit == Init => LeftoversOnlyInRecycled
<1> SUFFICES ASSUME Init PROVE LeftoversOnlyInRecycled
  OBVIOUS
<1>1. Listed = {}
  BY DEF Init, Listed
<1> QED
  BY <1>1 DEF LeftoversOnlyInRecycled

(* The node holds its own datagram's ports, or as many bytes as packets.   *)
OwnData(n) == (gotFirst[n] => tlhdr[n] = key[n]) /\ (~gotFirst[n] => a[n] = pa[n])

(* Every step confines the leftovers to recycled nodes.                    *)
LEMMA LeftoversStep ==
    ASSUME FragInv, LeftoversOnlyInRecycled, [Next]_vars
    PROVE  LeftoversOnlyInRecycled'
<1>0. RestOK
  BY RestTypes DEF FragInv
<1>1. \A n \in Listed \ recycled : OwnData(n)
  BY DEF LeftoversOnlyInRecycled, OwnData
<1>2. SUFFICES \A n \in Listed' \ recycled' : (OwnData(n))'
  BY DEF LeftoversOnlyInRecycled, OwnData
<1>3. Listed \subseteq Nodes
  BY Types DEF FragInv
<1>4. ASSUME UNCHANGED fields, Listed' \ recycled' \subseteq Listed \ recycled
      PROVE  \A n \in Listed' \ recycled' : (OwnData(n))'
  BY <1>1, <1>4 DEF fields, OwnData
<1>5. ASSUME UNCHANGED lists PROVE Listed' = Listed
  BY <1>5 DEF lists, Listed
<1>6. ASSUME NEW d \in Datagrams, NEW first \in BOOLEAN, Receive(d, first)
      PROVE  \A n \in Listed' \ recycled' : (OwnData(n))'
  BY <1>4, <1>5, <1>6 DEF Receive
<1>7. ASSUME NEW d \in Datagrams, NEW first \in BOOLEAN, ReceiveAndPrune(d, first)
      PROVE  \A n \in Listed' \ recycled' : (OwnData(n))'
  <2>1. Prune(PruneOffset, 0) /\ UNCHANGED fields
    BY ONLY <1>7 DEF ReceiveAndPrune
  <2>2. PruneOffset \in Nat /\ 0 \in Nat
    BY ONLY Durations
  <2>3. PICK gone \in SUBSET Listed : PrunedTo(gone)
    BY <2>1, <2>2, PruneFacts
  <2> QED
    BY <1>4, <2>1, <2>3 DEF PrunedTo
<1>8. ASSUME PruneUndefined PROVE \A n \in Listed' \ recycled' : (OwnData(n))'
  BY <1>4, <1>5, <1>8 DEF PruneUndefined, tally
<1>9. CASE UseKnownFirst
  BY <1>4, <1>5, <1>9 DEF UseKnownFirst
<1>10. CASE FirstArrives
  <2>1. /\ gotFirst' = [gotFirst EXCEPT ![Node] = TRUE] /\ tlhdr' = [tlhdr EXCEPT ![Node] = pkt.dgram]
        /\ a' = [a EXCEPT ![Node] = 0] /\ pa' = [pa EXCEPT ![Node] = 0] /\ key' = key
        /\ recycled' = recycled \ {Node} /\ UNCHANGED lists /\ pc = "find" /\ Found
    BY <1>10 DEF FirstArrives, TakeFirst
  <2>2. Listed' = Listed
    BY <1>5, <2>1
  <2>3. Node \in Nodes /\ key[Node] = pkt.dgram
    BY <2>1, NodeListed
  <2>4. SUFFICES ASSUME NEW n \in Listed' \ recycled' PROVE (OwnData(n))'
    OBVIOUS
  <2>5. n \in Listed /\ n \in Nodes
    BY <1>3, <2>2
  <2>6. CASE n = Node
    <3>1. gotFirst'[n] = TRUE /\ tlhdr'[n] = key'[n]
      BY <1>0, <2>1, <2>3, <2>6 DEF RestOK
    <3> QED
      BY <3>1 DEF OwnData
  <2>7. CASE n # Node
    <3>1. OwnData(n)
      BY <1>1, <2>1, <2>5, <2>7
    <3>2. gotFirst'[n] = gotFirst[n] /\ tlhdr'[n] = tlhdr[n] /\ a'[n] = a[n] /\ pa'[n] = pa[n]
          /\ key'[n] = key[n]
      BY <1>0, <2>1, <2>5, <2>7 DEF RestOK
    <3> QED
      BY <3>1, <3>2 DEF OwnData
  <2> QED
    BY <2>6, <2>7
<1>11. CASE HoldBack
  <2>1. /\ UNCHANGED <<lists, key, gotFirst, tlhdr, recycled>> /\ pc = "find" /\ Found
        /\ \/ a' = a /\ pa' = pa
           \/ /\ a' = [a EXCEPT ![Node] = a[Node] + 1]
              /\ pa' = [pa EXCEPT ![Node] = pa[Node] + 1]
    BY <1>11 DEF HoldBack, Hold
  <2>2. Listed' = Listed
    BY <1>5, <2>1
  <2>3. ASSUME NEW n \in Listed' \ recycled' PROVE (OwnData(n))'
    <3>1. n \in Listed \ recycled /\ n \in Nodes
      BY <1>3, <2>1, <2>2
    <3>2. OwnData(n)
      BY <1>1, <3>1
    <3>3. a[n] = pa[n] => a'[n] = pa'[n]
      <4>1. a \in [Nodes -> Nat] /\ pa \in [Nodes -> Nat]
        BY <1>0 DEF RestOK
      <4> QED
        BY ONLY <2>1, <3>1, <4>1
    <3>4. gotFirst' = gotFirst /\ tlhdr' = tlhdr /\ key' = key
      BY <2>1
    <3> QED
      BY ONLY <3>2, <3>3, <3>4 DEF OwnData
  <2> QED
    BY <2>3
<1>12. ASSUME NEW m \in Nodes, NEW g \in BOOLEAN, NEW p \in Nat, Fill(m, g, p), pc = "find",
              pkt.first \/ m \in recycled' \/ (~g /\ p = 0),
              Listed' \subseteq Listed \union {m}, recycled \subseteq recycled' \union {m}
       PROVE  \A n \in Listed' \ recycled' : (OwnData(n))'
  <2>1. key' = [key EXCEPT ![m] = pkt.dgram]
    BY <1>12 DEF Fill
  <2>2. ASSUME NEW n \in Listed' \ recycled', n # m PROVE (OwnData(n))'
    <3>1. n \in Listed \ recycled /\ n \in Nodes
      BY <1>3, <1>12, <2>2
    <3>2. OwnData(n)
      BY <1>1, <3>1
    <3>3. gotFirst'[n] = gotFirst[n] /\ tlhdr'[n] = tlhdr[n] /\ a'[n] = a[n] /\ pa'[n] = pa[n]
      BY <1>0, <1>12, <2>2, <3>1 DEF Fill, RestOK
    <3>4. key'[n] = key[n]
      BY <1>0, <2>1, <2>2, <3>1 DEF RestOK
    <3> QED
      BY <3>2, <3>3, <3>4 DEF OwnData
  <2>3. CASE pkt.first
    <3>1. gotFirst'[m] = TRUE /\ tlhdr'[m] = pkt.dgram /\ key'[m] = pkt.dgram
      BY <1>0, <1>12, <2>1, <2>3 DEF Fill, RestOK
    <3>2. (OwnData(m))'
      BY <3>1 DEF OwnData
    <3> QED
      BY <2>2, <3>2
  <2>4. CASE m \in recycled'
    BY <2>2, <2>4
  <2>5. CASE ~pkt.first /\ ~g /\ p = 0
    <3>1. gotFirst'[m] = FALSE
      BY <1>0, <1>12, <2>5 DEF Fill, RestOK
    <3>2. a'[m] = pa'[m]
      <4>1. CASE Sampling
        <5>1. a' = a /\ pa' = [pa EXCEPT ![m] = 0]
          BY <1>12, <2>5, <4>1 DEF Fill
        <5> QED
          BY <1>0, <4>1, <5>1 DEF RestOK, FragInv, CallInv
      <4>2. CASE ~Sampling
        <5>1. a' = [a EXCEPT ![m] = 1] /\ pa' = [pa EXCEPT ![m] = 0 + 1]
          BY <1>12, <2>5, <4>2 DEF Fill
        <5> QED
          BY <1>0, <5>1 DEF RestOK
      <4> QED
        BY <4>1, <4>2
    <3>3. (OwnData(m))'
      BY <3>1, <3>2 DEF OwnData
    <3> QED
      BY <2>2, <3>3
  <2> QED
    BY <1>12, <2>3, <2>4, <2>5
<1>13. ASSUME NEW n \in Nodes, Create(n)
       PROVE  \A m \in Listed' \ recycled' : (OwnData(m))'
  <2>1. pc = "find" /\ Fill(n, FALSE, 0) /\ recycled' = recycled
    BY <1>13 DEF Create, Link
  <2>2. Listed' = Listed \union {n}
    BY <1>13, CreateLists
  <2> QED
    BY <1>12, <2>1, <2>2
<1>14. CASE Recycle
  <2> DEFINE c == Candidate
  <2>1. pc = "find" /\ Candidates # {} /\ Fill(c, gotFirst[c], pa[c])
        /\ recycled' = IF pkt.first THEN recycled \ {c} ELSE recycled \union {c}
    BY <1>14 DEF Recycle, TakeOver
  <2>2. c \in Nodes
    BY <2>1, CandidateListed
  <2>3. Listed' = Listed
    BY <1>14, RecycleLists
  <2>4. gotFirst[c] \in BOOLEAN /\ pa[c] \in Nat
    BY <1>0, <2>2 DEF RestOK
  <2> HIDE DEF c
  <2>5. pkt.first \/ c \in recycled'
    BY <2>1
  <2>6. recycled \subseteq recycled' \union {c}
    BY <2>1
  <2> QED
    BY <1>12, <2>1, <2>2, <2>3, <2>4, <2>5, <2>6
<1>15. CASE Skip
  BY <1>4, <1>5, <1>15 DEF Skip
<1>16. CASE SkipAndPrune
  <2>1. Prune(0, IF Sampling THEN 0 ELSE 1) /\ (IF Sampling THEN 0 ELSE 1) \in Nat /\ 0 \in Nat
        /\ UNCHANGED fields
    BY <1>16 DEF SkipAndPrune
  <2>2. PICK gone \in SUBSET Listed : PrunedTo(gone)
    BY <2>1, PruneFacts
  <2> QED
    BY <1>4, <2>1, <2>2 DEF PrunedTo
<1>17. CASE Tick
  BY <1>4, <1>5, <1>17 DEF Tick, tally
<1>18. CASE UNCHANGED vars
  BY <1>4, <1>5, <1>18 DEF vars, tally
<1> QED
  BY <1>6, <1>7, <1>8, <1>9, <1>10, <1>11, <1>13, <1>14, <1>15, <1>16, <1>17, <1>18
  DEF Next, ReceiveUndefined, SkipUndefined

(* What create_fragment leaves in a node of its former datagram stays in   *)
(* recycled nodes whose first fragment is still missing.                   *)
THEOREM LeftoversConfined == Spec => []LeftoversOnlyInRecycled
<1>1. Init => FragInv /\ LeftoversOnlyInRecycled
  BY InitInv, LeftoversInit
<1>2. FragInv /\ LeftoversOnlyInRecycled /\ [Next]_vars => (FragInv /\ LeftoversOnlyInRecycled)'
  BY NextInv, LeftoversStep
<1> QED
  BY <1>1, <1>2, PTL DEF Spec

-----------------------------------------------------------------------------
(* A sum after one term has changed.                                       *)
LEMMA SumChange ==
    ASSUME NEW S, IsFiniteSet(S), NEW f, NEW g, \A x \in S : f[x] \in Nat /\ g[x] \in Nat,
           NEW x \in S, \A y \in S \ {x} : g[y] = f[y]
    PROVE  Sum(g, S) + f[x] = Sum(f, S) + g[x]
<1>1. IsFiniteSet(S \ {x})
  BY FS_Subset
<1>2. Sum(f, S) = f[x] + Sum(f, S \ {x})
  BY SumRemove
<1>3. Sum(g, S) = g[x] + Sum(g, S \ {x})
  BY SumRemove
<1>4. Sum(f, S \ {x}) = Sum(g, S \ {x})
  BY <1>1, SumSame
<1>5. Sum(f, S \ {x}) \in Nat
  BY <1>1, SumIsNat
<1>6. f[x] \in Nat /\ g[x] \in Nat
  OBVIOUS
<1> QED
  BY ONLY <1>2, <1>3, <1>4, <1>5, <1>6

(* The fragment the call in progress has not disposed of yet.              *)
InHand == IF pkt # NIL THEN 1 ELSE 0

(* The types the ledger's proof needs.                                     *)
LEMMA LedgerTypes ==
    ASSUME FragInv
    PROVE  /\ IsFiniteSet(Listed) /\ \A n \in Listed : pa[n] \in Nat
           /\ Sum(pa, Listed) \in Nat
           /\ counted \in [1 .. Plugins -> Nat] /\ 1 \in 1 .. Plugins /\ counted[1] \in Nat
           /\ dropped \in Nat /\ arrived \in Nat
           /\ pc = "idle" => InHand = 0
           /\ pc = "find" => InHand = 1
<1>1. RestOK
  BY RestTypes DEF FragInv
<1>2. IsFiniteSet(Listed)
  BY ListedCount
<1>3. \A n \in Listed : pa[n] \in Nat
  BY <1>1, Types DEF RestOK, FragInv
<1>4. Sum(pa, Listed) \in Nat
  BY ONLY <1>2, <1>3, SumIsNat
<1>5. 1 \in 1 .. Plugins
  BY ONLY FragmentAssumption
<1>6. counted \in [1 .. Plugins -> Nat] /\ dropped \in Nat /\ arrived \in Nat
  BY <1>1 DEF RestOK
<1>7. counted[1] \in Nat
  BY ONLY <1>5, <1>6
<1>8. pc = "idle" => InHand = 0
  BY DEF InHand, FragInv, CallInv
<1>9. pc = "find" => InHand = 1
  BY DEF InHand, FragInv, CallInv
<1> QED
  BY ONLY <1>2, <1>3, <1>4, <1>5, <1>6, <1>7, <1>8, <1>9

(* PacketsConserved with its sum in the form of the lemmas.                *)
Ledger == arrived = counted[1] + dropped + Sum(pa, Listed) + InHand

(* The ledger is the property that the runs check.                         *)
LEMMA LedgerIsConservation ==
    ASSUME Ledger PROVE PacketsConserved
<1>1. HeldIn(Listed) = Sum(pa, Listed)
  BY HeldIsSum
<1> QED
  BY <1>1 DEF Ledger, InHand, PacketsConserved

(* Nothing received, nothing to account for.                               *)
LEMMA LedgerInit == Init => Ledger
<1> SUFFICES ASSUME Init PROVE Ledger
  OBVIOUS
<1>1. Listed = {}
  BY DEF Init, Listed
<1>2. Sum(pa, Listed) = 0
  BY <1>1, SumEmpty
<1>3. arrived = 0 /\ dropped = 0 /\ pkt = NIL /\ counted = [p \in 1 .. Plugins |-> 0]
  BY DEF Init
<1>4. 1 \in 1 .. Plugins
  BY ONLY FragmentAssumption
<1>5. counted[1] = 0
  BY <1>3, <1>4
<1> QED
  BY <1>2, <1>3, <1>5 DEF Ledger, InHand

(* What the first plugin accounts of a packet.                             *)
LEMMA AccountOne ==
    ASSUME FragInv, NEW j \in Nat, Account(j) PROVE counted'[1] = counted[1] + 1 + j
<1>1. 1 \in 1 .. Plugins
  BY LedgerTypes
<1> QED
  BY <1>1 DEF Account

(* The call is over.                                                       *)
LEMMA DoneInHand ==
    ASSUME Done PROVE InHand' = 0
  BY DEF Done, InHand

(* A fragment without ports is accounted, held back or dropped.            *)
LEMMA WithoutPortsOne ==
    ASSUME FragInv, NEW held \in BOOLEAN, WithoutPorts(held)
    PROVE  counted'[1] + dropped' =
           counted[1] + dropped + IF Sampling \/ ~held THEN 1 ELSE 0
<1>1. counted[1] \in Nat /\ dropped \in Nat
  BY LedgerTypes
<1>2. CASE Sampling
  <2>1. Account(0) /\ dropped' = dropped
    BY <1>2 DEF WithoutPorts
  <2>2. counted'[1] = counted[1] + 1 + 0
    BY <2>1, AccountOne
  <2> QED
    BY ONLY <1>1, <1>2, <2>1, <2>2
<1>3. CASE ~Sampling
  <2>1. dropped' = dropped + (IF held THEN 0 ELSE 1) /\ counted' = counted
    BY <1>3 DEF WithoutPorts
  <2> QED
    BY ONLY <1>1, <1>3, <2>1
<1> QED
  BY <1>2, <1>3

(* What a prune drops was held back in the nodes it frees.                 *)
LEMMA PruneSum ==
    ASSUME FragInv, NEW off \in Nat, NEW skipped \in Nat, Prune(off, skipped), pa' = pa
    PROVE  /\ dropped' + Sum(pa', Listed') = dropped + skipped + Sum(pa, Listed)
           /\ dropped' \in Nat /\ Sum(pa', Listed') \in Nat
<1>1. PICK gone \in SUBSET Listed : PrunedTo(gone) /\ dropped' = dropped + skipped + HeldIn(gone)
  BY PruneFacts
<1>2. HeldIn(gone) = Sum(pa, gone)
  BY HeldIsSum
<1>3. IsFiniteSet(Listed) /\ (\A n \in Listed : pa[n] \in Nat) /\ dropped \in Nat
  BY LedgerTypes
<1>4. Sum(pa, Listed) = Sum(pa, gone) + Sum(pa, Listed \ gone)
  BY ONLY <1>3, gone \in SUBSET Listed, SumUnion
<1>5. IsFiniteSet(gone) /\ IsFiniteSet(Listed \ gone)
  BY ONLY <1>3, FS_Subset, gone \in SUBSET Listed
<1>6. Sum(pa, gone) \in Nat
  BY ONLY <1>3, <1>5, gone \in SUBSET Listed, SumIsNat
<1>7. Sum(pa, Listed \ gone) \in Nat
  BY ONLY <1>3, <1>5, SumIsNat
<1>8. Sum(pa', Listed') = Sum(pa, Listed \ gone)
  <2>1. Listed' = Listed \ gone
    BY <1>1 DEF PrunedTo
  <2> QED
    BY ONLY <2>1, pa' = pa
<1> QED
  BY ONLY <1>1, <1>2, <1>3, <1>4, <1>6, <1>7, <1>8, skipped \in Nat

(* Every step keeps the ledger.                                            *)
LEMMA LedgerStep ==
    ASSUME FragInv, Ledger, [Next]_vars
    PROVE  Ledger'
<1> DEFINE H == Sum(pa, Listed)
           G == Sum(pa', Listed')
<1>0. /\ IsFiniteSet(Listed) /\ \A n \in Listed : pa[n] \in Nat
      /\ H \in Nat /\ counted[1] \in Nat /\ dropped \in Nat /\ arrived \in Nat
      /\ pc = "idle" => InHand = 0
      /\ pc = "find" => InHand = 1
  BY LedgerTypes
<1>1. arrived = counted[1] + dropped + H + InHand
  BY DEF Ledger
<1>2. SUFFICES arrived' = counted'[1] + dropped' + G + InHand'
  BY DEF Ledger
<1>3. ASSUME UNCHANGED lists, pa' = pa PROVE G = H
  <2>1. Listed' = Listed
    BY <1>3 DEF lists, Listed
  <2> QED
    BY <1>3, <2>1
<1> HIDE DEF H, G
<1>5. ASSUME NEW d \in Datagrams, NEW first \in BOOLEAN, Arrival(d, first)
      PROVE  arrived' = arrived + 1 /\ InHand = 0 /\ InHand' = 1
  BY <1>0, <1>5, NilAssumption DEF Arrival, InHand
<1>6. ASSUME NEW d \in Datagrams, NEW first \in BOOLEAN, Receive(d, first)
      PROVE  arrived' = counted'[1] + dropped' + G + InHand'
  <2>1. UNCHANGED <<lists, pa, counted, dropped>> /\ Arrival(d, first)
    BY <1>6 DEF Receive, fields
  <2>2. G = H
    BY <1>3, <2>1
  <2> QED
    BY <1>0, <1>1, <1>5, <2>1, <2>2
<1>7. ASSUME NEW d \in Datagrams, NEW first \in BOOLEAN, ReceiveAndPrune(d, first)
      PROVE  arrived' = counted'[1] + dropped' + G + InHand'
  <2>1. Prune(PruneOffset, 0) /\ Arrival(d, first) /\ pa' = pa /\ counted' = counted
    BY <1>7 DEF ReceiveAndPrune, fields
  <2>2. PruneOffset \in Nat
    BY ONLY Durations
  <2>3. dropped' + G = dropped + 0 + H /\ dropped' \in Nat /\ G \in Nat
    BY <2>1, <2>2, PruneSum DEF G, H
  <2>4. arrived' = arrived + 1 /\ InHand = 0 /\ InHand' = 1
    BY <1>5, <2>1
  <2>5. counted'[1] = counted[1]
    BY <2>1
  <2>6. H \in Nat /\ counted[1] \in Nat /\ dropped \in Nat /\ arrived \in Nat
    BY <1>0
  <2> DEFINE c == counted[1]
             e == counted'[1]
             left == dropped'
  <2>7. c \in Nat /\ e = c /\ arrived = c + dropped + H + InHand
    BY ONLY <1>1, <2>5, <2>6
  <2>8. left + G = dropped + 0 + H /\ left \in Nat /\ G \in Nat
    BY ONLY <2>3
  <2>9. H \in Nat /\ dropped \in Nat /\ arrived \in Nat
    BY ONLY <2>6
  <2> HIDE DEF c, e, left
  <2>10. arrived' = e + left + G + InHand'
    BY ONLY <2>4, <2>7, <2>8, <2>9
  <2> QED
    BY ONLY <2>10 DEF e, left
<1>8. ASSUME PruneUndefined PROVE arrived' = counted'[1] + dropped' + G + InHand'
  <2>1. UNCHANGED <<lists, pa, counted, dropped, arrived, pkt>>
    BY <1>8 DEF PruneUndefined, fields, tally
  <2>2. G = H /\ InHand' = InHand
    BY <1>3, <2>1 DEF InHand
  <2> QED
    BY <1>1, <2>1, <2>2
<1>9. CASE UseKnownFirst
  <2>1. UNCHANGED <<lists, pa, dropped, arrived>> /\ Account(0) /\ Done /\ pc = "find"
    BY <1>9 DEF UseKnownFirst, fields
  <2>2. G = H /\ InHand' = 0 /\ counted'[1] = counted[1] + 1 + 0
    BY <1>3, <2>1, DoneInHand, AccountOne
  <2> QED
    BY ONLY <1>0, <1>1, <2>1, <2>2
<1>10. CASE FirstArrives
  <2>1. /\ UNCHANGED <<lists, dropped, arrived>> /\ Account(pa[Node]) /\ Done /\ pc = "find" /\ Found
        /\ pa' = [pa EXCEPT ![Node] = 0]
    BY <1>10 DEF FirstArrives, TakeFirst
  <2>2. Node \in Listed
    BY <2>1, NodeListed
  <2>3. Listed' = Listed
    BY <2>1 DEF lists, Listed
  <2>4. pa[Node] \in Nat
    BY <1>0, <2>2
  <2>5. pa \in [Nodes -> Nat] /\ Listed \subseteq Nodes
    BY Types DEF FragInv
  <2>6. (\A n \in Listed : pa[n] \in Nat /\ pa'[n] \in Nat) /\ (\A n \in Listed \ {Node} : pa'[n] = pa[n])
        /\ pa'[Node] = 0
    BY ONLY <2>1, <2>2, <2>5
  <2>7. Sum(pa', Listed) + pa[Node] = Sum(pa, Listed) + pa'[Node]
    BY ONLY <1>0, <2>2, <2>6, SumChange
  <2>8. G + pa[Node] = H + 0
    BY <2>3, <2>6, <2>7 DEF G, H
  <2>9. InHand' = 0 /\ counted'[1] = counted[1] + 1 + pa[Node]
    BY <2>1, <2>4, DoneInHand, AccountOne
  <2>10. G \in Nat
    <3>1. Sum(pa', Listed) \in Nat
      BY ONLY <1>0, <2>6, SumIsNat
    <3> QED
      BY <2>3, <3>1 DEF G
  <2> QED
    BY ONLY <1>0, <1>1, <2>1, <2>4, <2>8, <2>9, <2>10
<1>11. CASE HoldBack
  <2>1. /\ UNCHANGED <<lists, arrived>> /\ WithoutPorts(TRUE) /\ Done /\ pc = "find" /\ Found
        /\ pa' = IF Sampling THEN pa ELSE [pa EXCEPT ![Node] = pa[Node] + 1]
    BY <1>11 DEF HoldBack, Hold
  <2>2. Node \in Listed
    BY <2>1, NodeListed
  <2>3. Listed' = Listed
    BY <2>1 DEF lists, Listed
  <2>4. pa \in [Nodes -> Nat] /\ Listed \subseteq Nodes
    BY Types DEF FragInv
  <2>5. (\A n \in Listed : pa[n] \in Nat /\ pa'[n] \in Nat) /\ (\A n \in Listed \ {Node} : pa'[n] = pa[n])
        /\ pa'[Node] = pa[Node] + IF Sampling THEN 0 ELSE 1
    BY ONLY <2>1, <2>2, <2>4
  <2>6. Sum(pa', Listed) + pa[Node] = Sum(pa, Listed) + pa'[Node]
    BY ONLY <1>0, <2>2, <2>5, SumChange
  <2>7. Sum(pa', Listed) \in Nat
    BY ONLY <1>0, <2>5, SumIsNat
  <2>8. G = H + IF Sampling THEN 0 ELSE 1
    <3>1. G = Sum(pa', Listed)
      BY <2>3 DEF G
    <3>2. pa[Node] \in Nat
      BY ONLY <2>2, <2>5
    <3> QED
      BY ONLY <1>0, <2>5, <2>6, <2>7, <3>1, <3>2 DEF H
  <2>9. InHand' = 0 /\ counted'[1] + dropped' = counted[1] + dropped + IF Sampling THEN 1 ELSE 0
    <3>1. counted'[1] + dropped' = counted[1] + dropped + IF Sampling \/ ~TRUE THEN 1 ELSE 0
      BY <2>1, WithoutPortsOne
    <3> QED
      BY <2>1, <3>1, DoneInHand
  <2> QED
    BY ONLY <1>0, <1>1, <2>1, <2>8, <2>9
<1>12. ASSUME NEW g \in BOOLEAN, NEW p \in Nat, NEW n \in Nodes, Fill(n, g, p), pc = "find", Done,
              arrived' = arrived, G = H + pa'[n] - p
       PROVE  arrived' = counted'[1] + dropped' + G + InHand'
  <2>1. InHand' = 0
    BY <1>12, DoneInHand
  <2>2. pa \in [Nodes -> Nat]
    BY Types DEF FragInv
  <2>3. CASE pkt.first
    <3>1. pa' = [pa EXCEPT ![n] = p] /\ Account(0) /\ dropped' = dropped
      BY <1>12, <2>3 DEF Fill
    <3>2. pa'[n] = p
      BY ONLY <2>2, <3>1, n \in Nodes
    <3>3. counted'[1] = counted[1] + 1 + 0
      BY <3>1, AccountOne
    <3> QED
      BY ONLY <1>0, <1>1, <1>12, <2>1, <3>1, <3>2, <3>3, p \in Nat
  <2>4. CASE ~pkt.first
    <3>1. pa' = [pa EXCEPT ![n] = IF Sampling THEN p ELSE p + 1] /\ WithoutPorts(TRUE)
      BY <1>12, <2>4 DEF Fill
    <3>2. pa'[n] = IF Sampling THEN p ELSE p + 1
      BY ONLY <2>2, <3>1, n \in Nodes
    <3>3. counted'[1] + dropped' = counted[1] + dropped + IF Sampling \/ ~TRUE THEN 1 ELSE 0
      BY <3>1, WithoutPortsOne
    <3> QED
      BY ONLY <1>0, <1>1, <1>12, <2>1, <3>2, <3>3, p \in Nat
  <2> QED
    BY <2>3, <2>4
<1>13. ASSUME NEW g \in BOOLEAN, NEW p \in Nat, NEW n \in Nodes, Fill(n, g, p), pc = "find"
       PROVE  /\ \A m \in Nodes : pa[m] \in Nat /\ pa'[m] \in Nat
              /\ \A m \in Nodes \ {n} : pa'[m] = pa[m]
  <2>1. pa' \in [Nodes -> Nat]
    BY <1>13, FillFacts
  <2>2. pa \in [Nodes -> Nat]
    BY Types DEF FragInv
  <2>3. \E v : pa' = [pa EXCEPT ![n] = v]
    BY <1>13 DEF Fill
  <2> QED
    BY ONLY <2>1, <2>2, <2>3
<1>14. Listed \subseteq Nodes
  BY Types DEF FragInv
<1>15. ASSUME NEW n \in Nodes, Create(n)
       PROVE  arrived' = counted'[1] + dropped' + G + InHand'
  <2>1. pc = "find" /\ Fill(n, FALSE, 0) /\ Done /\ arrived' = arrived
    BY <1>15 DEF Create, Link
  <2>2. n \notin Listed /\ Listed' = Listed \union {n}
    BY <1>15, CreateLists
  <2>3. (\A m \in Nodes : pa[m] \in Nat /\ pa'[m] \in Nat) /\ (\A m \in Nodes \ {n} : pa'[m] = pa[m])
    BY <1>13, <2>1
  <2>4. \A m \in Listed \union {n} : pa'[m] \in Nat
    BY ONLY <1>14, <2>3, n \in Nodes
  <2>5. Sum(pa', Listed \union {n}) = Sum(pa', Listed) + pa'[n]
    BY ONLY <1>0, <2>2, <2>4, SumAdd
  <2>6. \A m \in Listed : pa'[m] = pa[m]
    BY ONLY <1>14, <2>2, <2>3
  <2>7. Sum(pa', Listed) = Sum(pa, Listed)
    BY ONLY <1>0, <2>6, SumSame
  <2>8. pa'[n] \in Nat
    BY <2>3
  <2>9. G = H + pa'[n]
    BY <2>2, <2>5, <2>7 DEF G, H
  <2>10. G = H + pa'[n] - 0
    BY ONLY <1>0, <2>8, <2>9
  <2> QED
    BY <1>12, <2>1, <2>10
<1>16. CASE Recycle
  <2> DEFINE c == Candidate
  <2>1. pc = "find" /\ Candidates # {} /\ Fill(c, gotFirst[c], pa[c]) /\ Done /\ arrived' = arrived
    BY <1>16 DEF Recycle, TakeOver
  <2>2. c \in Nodes /\ c \in Listed
    BY <2>1, CandidateListed
  <2>3. Listed' = Listed
    BY <1>16, RecycleLists
  <2>4. gotFirst[c] \in BOOLEAN /\ pa[c] \in Nat
    BY <2>2, RestTypes DEF RestOK, FragInv
  <2>5. PICK x \in Nodes : x = c
    BY <2>2
  <2> HIDE DEF c
  <2>6. (\A m \in Nodes : pa[m] \in Nat /\ pa'[m] \in Nat) /\ (\A m \in Nodes \ {x} : pa'[m] = pa[m])
    BY <1>13, <2>1, <2>4, <2>5
  <2>7. \A m \in Listed : pa[m] \in Nat /\ pa'[m] \in Nat
    BY ONLY <1>14, <2>6
  <2>8. \A m \in Listed \ {x} : pa'[m] = pa[m]
    BY ONLY <1>14, <2>6
  <2>9. Sum(pa', Listed) + pa[x] = Sum(pa, Listed) + pa'[x]
    BY ONLY <1>0, <2>2, <2>5, <2>7, <2>8, SumChange
  <2>10. Sum(pa', Listed) \in Nat
    BY ONLY <1>0, <2>7, SumIsNat
  <2>11. G = H + pa'[x] - pa[x]
    <3>1. G = Sum(pa', Listed)
      BY <2>3 DEF G
    <3>2. pa[x] \in Nat /\ pa'[x] \in Nat
      BY ONLY <2>6
    <3> QED
      BY ONLY <1>0, <2>9, <2>10, <3>1, <3>2 DEF H
  <2> QED
    BY <1>12, <2>1, <2>4, <2>5, <2>11
<1>17. CASE Skip
  <2>1. UNCHANGED <<lists, pa, arrived>> /\ WithoutPorts(FALSE) /\ Done /\ pc = "find"
    BY <1>17 DEF Skip, NoNode, fields
  <2>2. G = H /\ InHand' = 0
    BY <1>3, <2>1, DoneInHand
  <2>3. counted'[1] + dropped' = counted[1] + dropped + IF Sampling \/ ~FALSE THEN 1 ELSE 0
    BY <2>1, WithoutPortsOne
  <2> QED
    BY ONLY <1>0, <1>1, <2>1, <2>2, <2>3
<1>18. CASE SkipAndPrune
  <2> DEFINE sk == IF Sampling THEN 0 ELSE 1
  <2>1. /\ Prune(0, sk) /\ pa' = pa /\ Done /\ arrived' = arrived /\ pc = "find"
        /\ IF Sampling THEN Account(0) ELSE counted' = counted
    BY <1>18 DEF SkipAndPrune, NoNode, fields
  <2>2. sk \in Nat
    OBVIOUS
  <2>3. counted'[1] + sk = counted[1] + 1
    BY <1>0, <2>1, AccountOne
  <2>4. counted'[1] \in Nat
    BY <1>0, <2>1, AccountOne
  <2> HIDE DEF sk
  <2>5. dropped' + G = dropped + sk + H /\ dropped' \in Nat /\ G \in Nat
    BY <2>1, <2>2, PruneSum DEF G, H
  <2>6. InHand' = 0
    BY <2>1, DoneInHand
  <2>7. InHand = 1 /\ arrived' = arrived
    BY <1>0, <2>1
  <2>8. H \in Nat /\ counted[1] \in Nat /\ dropped \in Nat /\ arrived \in Nat
    BY <1>0
  <2> DEFINE c == counted[1]
             e == counted'[1]
             left == dropped'
  <2>9. c \in Nat /\ e \in Nat /\ e + sk = c + 1 /\ arrived = c + dropped + H + InHand
    BY ONLY <1>1, <2>3, <2>4, <2>8
  <2>10. left + G = dropped + sk + H /\ left \in Nat /\ G \in Nat
    BY ONLY <2>5
  <2>11. H \in Nat /\ dropped \in Nat /\ arrived \in Nat
    BY ONLY <2>8
  <2> HIDE DEF c, e, left
  <2>12. arrived' = e + left + G + InHand'
    BY ONLY <2>2, <2>6, <2>7, <2>9, <2>10, <2>11
  <2> QED
    BY ONLY <2>12 DEF e, left
<1>19. CASE Tick \/ UNCHANGED vars
  <2>1. UNCHANGED <<lists, pa, counted, dropped, arrived, pkt>>
    BY <1>19 DEF Tick, vars, fields, tally
  <2>2. G = H /\ InHand' = InHand
    BY <1>3, <2>1 DEF InHand
  <2> QED
    BY <1>1, <2>1, <2>2
<1> QED
  BY <1>6, <1>7, <1>8, <1>9, <1>10, <1>11, <1>15, <1>16, <1>17, <1>18, <1>19
  DEF Next, ReceiveUndefined, SkipUndefined

(* Every fragment received was accounted by the first plugin, is held back *)
(* in an accumulator or was dropped, and only once, whatever nodes are     *)
(* recycled, pruned and allocated again.                                   *)
THEOREM FragmentsAreConserved == Spec => []PacketsConserved
<1>1. Init => FragInv /\ Ledger
  BY InitInv, LedgerInit
<1>2. FragInv /\ Ledger /\ [Next]_vars => (FragInv /\ Ledger)'
  BY NextInv, LedgerStep
<1>3. Ledger => PacketsConserved
  BY LedgerIsConservation
<1> QED
  BY <1>1, <1>2, <1>3, PTL DEF Spec

-----------------------------------------------------------------------------
(* The root has no successor yet.                                          *)
LEMMA TimeInit == Init => TimeInv
<1> SUFFICES ASSUME Init PROVE TimeInv
  OBVIOUS
<1>1. Listed = {} /\ rootNext = NIL /\ pc = "idle"
  BY DEF Init, Listed
<1>2. now = Start /\ pruneAt = Start + PruneInterval /\ emerAt = 0 /\ Start = EmerInterval + 1
  BY DEF Init, Start
<1>3. PruneInterval \in Nat /\ EmerInterval \in Nat
  BY ONLY Durations
<1>4. pruneAt <= now + PruneInterval /\ emerAt <= now
  BY ONLY <1>2, <1>3
<1> QED
  BY <1>1, <1>4 DEF TimeInv

(* The root's successor was freed and nothing has replaced it.             *)
Dangling == lru = <<>> /\ rootNext # NIL

(* An empty table finds nothing.                                           *)
LEMMA EmptyFindsNothing ==
    ASSUME FragInv, pc = "find", lru = <<>>
    PROVE  ~Found /\ Candidates = {}
<1>1. Listed = {}
  BY DEF Listed
<1>2. Own = {} /\ Expired = {}
  BY <1>1, OwnIsListed
<1> QED
  BY <1>2 DEF Found, Candidates

(* TimeInv is inductive relative to FragInv.  An emergency prune cannot    *)
(* follow a periodic prune that emptied the table within EmerInterval      *)
(* seconds: what the periodic prune frees expired PruneOffset seconds ago, *)
(* after the last emergency.                                               *)
LEMMA TimeStep ==
    ASSUME EmerInterval <= PruneOffset, FragInv, TimeInv, [Next]_vars
    PROVE  TimeInv'
<1>0. /\ now \in Nat /\ pruneAt \in Nat /\ emerAt \in Nat
      /\ Listed \subseteq Nodes /\ deadline \in [Nodes -> Nat]
  BY Types DEF FragInv
<1>1. PruneInterval \in Nat /\ EmerInterval \in Nat /\ PruneOffset \in Nat /\ Timeout \in Nat
  BY ONLY Durations
<1>2. pruneAt <= now + PruneInterval /\ emerAt <= now
  BY DEF TimeInv
<1>3. \A n \in Listed : deadline[n] >= emerAt
  BY DEF TimeInv
<1>4. Dangling => \/ emerAt >= pruneAt - PruneInterval
                  \/ pkt # NIL /\ pruneAt = now + PruneInterval /\ now > emerAt + EmerInterval
  BY DEF TimeInv, Dangling
<1>5. Dangling => rootNext \notin Listed \union {NIL}
  BY DEF Dangling, Listed
<1>6. rootNext \notin Listed \union {NIL} => Dangling
  <2>1. lru # <<>> => rootNext = Head(lru)
    BY DEF FragInv, OrderInv
  <2>2. lru # <<>> => Head(lru) \in Listed
    <3>1. lru \in Seq(Nodes) /\ (lru # <<>> => Head(lru) = lru[1] /\ 1 \in 1 .. Len(lru))
      BY DEF FragInv, TypeOK
    <3>2. TypeOK
      BY DEF FragInv
    <3> QED
      BY <3>1, <3>2, InListed
  <2> QED
    BY <2>1, <2>2 DEF Dangling
<1>7. pc = "undefined" => Dangling
  BY DEF TimeInv, Dangling
<1>8. ASSUME pruneAt' <= now' + PruneInterval, emerAt' <= now',
             \A n \in Listed' : deadline'[n] >= emerAt',
             Dangling' =>
                \/ emerAt' >= pruneAt' - PruneInterval
                \/ pkt' # NIL /\ pruneAt' = now' + PruneInterval /\ now' > emerAt' + EmerInterval,
             pc' = "undefined" => Dangling'
      PROVE  TimeInv'
  BY <1>8 DEF TimeInv, Dangling
<1>9. ASSUME UNCHANGED <<lists, deadline, now, pruneAt, emerAt>>,
             Dangling => \/ emerAt >= pruneAt - PruneInterval
                         \/ pkt' # NIL /\ pruneAt = now + PruneInterval
                            /\ now > emerAt + EmerInterval,
             pc' = "undefined" => Dangling
      PROVE  TimeInv'
  <2>1. Listed' = Listed /\ Dangling' = Dangling
    BY <1>9 DEF lists, Listed, Dangling
  <2> QED
    BY <1>2, <1>3, <1>8, <1>9, <2>1
<1>10. ASSUME NEW d \in Datagrams, NEW first \in BOOLEAN, Receive(d, first) PROVE TimeInv'
  <2>1. UNCHANGED <<lists, deadline, now, pruneAt, emerAt>> /\ pc' = "find" /\ pc = "idle"
    BY <1>10 DEF Receive, Arrival, fields, clock
  <2>2. pkt = NIL
    BY <2>1 DEF FragInv, CallInv
  <2> QED
    BY <1>4, <1>9, <2>1, <2>2
<1>11. ASSUME NEW d \in Datagrams, NEW first \in BOOLEAN, ReceiveAndPrune(d, first) PROVE TimeInv'
  <2>1. /\ Prune(PruneOffset, 0) /\ UNCHANGED <<deadline, now, emerAt>> /\ pc' = "find"
        /\ pruneAt' = now + PruneInterval /\ pkt' = [dgram |-> d, first |-> first]
    BY <1>11 DEF ReceiveAndPrune, Arrival, fields
  <2>2. PICK gone \in SUBSET Listed : PrunedTo(gone) /\ \A n \in gone : Stale(n, PruneOffset)
    <3>1. Prune(PruneOffset, 0) /\ PruneOffset \in Nat /\ 0 \in Nat
      BY <1>1, <2>1
    <3> QED
      BY <3>1, PruneFacts
  <2>3. ~Dangling
    BY <1>5, <2>2 DEF PrunedTo
  <2>4. pkt' # NIL
    BY <2>1, NilAssumption
  <2>5. Dangling' => now > emerAt + EmerInterval
    <3> SUFFICES ASSUME Dangling' PROVE now > emerAt + EmerInterval
      OBVIOUS
    <3>1. lru' = <<>> /\ rootNext' # NIL /\ rootNext' = rootNext
      BY <2>2 DEF Dangling, PrunedTo
    <3>2. lru # <<>>
      BY <2>3, <3>1 DEF Dangling
    <3>3. gone # {}
      BY <2>2, <3>1, <3>2 DEF PrunedTo
    <3>4. PICK n \in gone : TRUE
      BY <3>3
    <3>5. now - PruneOffset > deadline[n] /\ deadline[n] >= emerAt /\ deadline[n] \in Nat
      BY <1>0, <1>3, <2>2 DEF Stale
    <3> QED
      BY ONLY <1>0, <1>1, <3>5, EmerInterval <= PruneOffset
  <2>6. \A n \in Listed' : deadline'[n] >= emerAt'
    BY <1>3, <2>1, <2>2 DEF PrunedTo
  <2>7. pruneAt' <= now' + PruneInterval /\ emerAt' <= now'
    BY <1>0, <1>1, <1>2, <2>1
  <2> QED
    BY <1>8, <2>1, <2>4, <2>5, <2>6, <2>7
<1>12. ASSUME PruneUndefined PROVE TimeInv'
  <2>1. UNCHANGED <<lists, deadline, now, pruneAt, emerAt, pkt>> /\ rootNext \notin Listed \union {NIL}
    BY <1>12 DEF PruneUndefined, fields, clock
  <2> QED
    BY <1>4, <1>6, <1>9, <2>1
<1>13. ASSUME pc = "find", Found, UNCHANGED <<lists, deadline, now, pruneAt, emerAt>>, pc' = "idle"
       PROVE  TimeInv'
  <2>1. ~Dangling
    BY <1>13, EmptyFindsNothing DEF Dangling
  <2> QED
    BY <1>9, <1>13, <2>1
<1>14. CASE UseKnownFirst
  BY <1>13, <1>14 DEF UseKnownFirst, fields, clock, Done
<1>15. CASE FirstArrives
  BY <1>13, <1>15 DEF FirstArrives, TakeFirst, clock, Done
<1>16. CASE HoldBack
  BY <1>13, <1>16 DEF HoldBack, Hold, clock, Done
<1>17. ASSUME NEW n \in Nodes, deadline' = [deadline EXCEPT ![n] = now + Timeout],
              Listed' \subseteq Listed \union {n}, lru' # <<>>,
              UNCHANGED <<now, pruneAt, emerAt>>, pc' = "idle"
       PROVE  TimeInv'
  <2>1. \A m \in Listed' : deadline'[m] >= emerAt'
    <3> SUFFICES ASSUME NEW m \in Listed' PROVE deadline'[m] >= emerAt
      BY <1>17
    <3>1. m \in Nodes /\ deadline'[m] = IF m = n THEN now + Timeout ELSE deadline[m]
      BY <1>0, <1>17
    <3>2. m # n => deadline[m] >= emerAt
      BY <1>3, <1>17
    <3> QED
      BY <1>0, <1>1, <1>2, <3>1, <3>2
  <2>2. ~Dangling'
    BY <1>17 DEF Dangling
  <2> QED
    BY <1>2, <1>8, <1>17, <2>1, <2>2
<1>18. ASSUME NEW n \in Nodes, Create(n) PROVE TimeInv'
  <2>1. pc = "find" /\ Fill(n, FALSE, 0) /\ UNCHANGED <<now, pruneAt, emerAt>> /\ pc' = "idle"
        /\ lru' = Append(lru, n)
    BY <1>18 DEF Create, Link, clock, Done
  <2>2. Listed' = Listed \union {n}
    BY <1>18, CreateLists
  <2>3. deadline' = [deadline EXCEPT ![n] = now + Timeout]
    BY <2>1 DEF Fill
  <2>4. lru' # <<>>
    <3>1. lru \in Seq(Nodes)
      BY DEF FragInv, TypeOK
    <3> QED
      BY <2>1, <3>1, AppendFacts
  <2> QED
    BY <1>17, <2>1, <2>2, <2>3, <2>4
<1>19. CASE Recycle
  <2>1. pc = "find" /\ Candidates # {} /\ UNCHANGED <<now, pruneAt, emerAt>> /\ pc' = "idle"
        /\ Fill(Candidate, gotFirst[Candidate], pa[Candidate])
    BY <1>19 DEF Recycle, TakeOver, clock, Done
  <2>2. PICK x \in Nodes : x = Candidate /\ x \in Listed
    BY <2>1, CandidateListed
  <2>3. Listed' = Listed
    BY <1>19, RecycleLists
  <2>4. deadline' = [deadline EXCEPT ![x] = now + Timeout]
    BY <2>1, <2>2 DEF Fill
  <2>5. lru' # <<>>
    <3> SUFFICES ASSUME lru' = <<>> PROVE FALSE
      OBVIOUS
    <3>1. Listed' = {}
      BY DEF Listed
    <3> QED
      BY <2>2, <2>3, <3>1
  <2> QED
    BY <1>17, <2>1, <2>2, <2>3, <2>4, <2>5
<1>20. CASE Skip
  <2>1. UNCHANGED <<lists, deadline, now, pruneAt, emerAt>> /\ pc' = "idle" /\ ~Emergency
    BY <1>20 DEF Skip, fields, clock, Done
  <2>2. ~(now > emerAt + EmerInterval)
    BY <2>1 DEF Emergency
  <2> QED
    BY <1>4, <1>9, <2>1, <2>2
<1>21. CASE SkipAndPrune
  <2> DEFINE sk == IF Sampling THEN 0 ELSE 1
  <2>1. /\ Prune(0, sk) /\ UNCHANGED <<deadline, now, pruneAt>> /\ pc' = "idle" /\ emerAt' = now
    BY <1>21 DEF SkipAndPrune, fields, Done
  <2>2. sk \in Nat
    OBVIOUS
  <2> HIDE DEF sk
  <2>3. PICK gone \in SUBSET Listed : PrunedTo(gone) /\ \A n \in Listed \ gone : ~Stale(n, 0)
    BY <2>1, <2>2, PruneFacts
  <2>4. \A n \in Listed' : deadline'[n] >= emerAt'
    <3> SUFFICES ASSUME NEW n \in Listed' PROVE deadline[n] >= now
      BY <2>1
    <3>1. n \in Nodes /\ ~Stale(n, 0)
      BY <1>0, <2>3 DEF PrunedTo
    <3> QED
      BY <1>0, <3>1 DEF Stale
  <2>5. emerAt' >= pruneAt' - PruneInterval /\ pruneAt' <= now' + PruneInterval /\ emerAt' <= now'
    BY <1>0, <1>1, <1>2, <2>1
  <2> QED
    BY <1>8, <2>1, <2>4, <2>5
<1>22. CASE Tick
  <2>1. UNCHANGED <<lists, deadline, pruneAt, emerAt, pkt, pc>> /\ now' = now + 1 /\ pc = "idle"
    BY <1>22 DEF Tick, fields
  <2>2. pkt = NIL
    BY <2>1 DEF FragInv, CallInv
  <2>3. Listed' = Listed /\ Dangling' = Dangling
    BY <2>1 DEF lists, Listed, Dangling
  <2>4. pruneAt' <= now' + PruneInterval /\ emerAt' <= now'
    BY <1>0, <1>1, <1>2, <2>1
  <2> QED
    BY <1>3, <1>4, <1>8, <2>1, <2>2, <2>3, <2>4
<1>23. CASE UNCHANGED vars
  <2>1. UNCHANGED <<lists, deadline, now, pruneAt, emerAt, pkt, pc>>
    BY <1>23 DEF vars, fields, clock
  <2> QED
    BY <1>4, <1>7, <1>9, <2>1
<1> QED
  BY <1>10, <1>11, <1>12, <1>14, <1>15, <1>16, <1>18, <1>19, <1>20, <1>21, <1>22, <1>23
  DEF Next, ReceiveUndefined, SkipUndefined

(* With an emergency interval no longer than the prune offset (60 s and    *)
(* 1800 s in ip_frag.h), the freed successor of the root is followed in    *)
(* the two documented cases only: after an emergency prune emptied the     *)
(* table, or when the periodic prune did and no node can be allocated in   *)
(* the same call.                                                          *)
THEOREM UndefinedOnlyAfterEmptying ==
    EmerInterval <= PruneOffset => (Spec => []UndefinedWhenEmptied)
<1> SUFFICES ASSUME EmerInterval <= PruneOffset PROVE Spec => []UndefinedWhenEmptied
  OBVIOUS
<1>1. Init => FragInv /\ TimeInv
  BY InitInv, TimeInit
<1>2. FragInv /\ TimeInv /\ [Next]_vars => (FragInv /\ TimeInv)'
  BY NextInv, TimeStep
<1>3. TimeInv => UndefinedWhenEmptied
  BY DEF TimeInv, UndefinedWhenEmptied
<1> QED
  BY <1>1, <1>2, <1>3, PTL DEF Spec
=============================================================================
