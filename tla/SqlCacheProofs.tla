-------------------------- MODULE SqlCacheProofs ---------------------------
(***************************************************************************)
(* What holds of SqlCache for every table, every hash, every queue and     *)
(* every bound.                                                            *)
(*                                                                         *)
(* Types, ListInv, QueueInv and HandInv are inductive together (CacheInv): *)
(* the chains and the LRU list are what ListsSound says, and an element in *)
(* use is in the chain of its key's bucket (ListInv); the queue, or during *)
(* a regular purge the pending entries, list the elements in use, once     *)
(* (Exact), until an urgent purge leaves another queue, and neither is     *)
(* ever longer than its array (QueueInv); a record in hand is either still *)
(* a record or the entry that found the queue full (HandInv).  SearchInv,  *)
(* the ledger and the refinement are inductive relative to CacheInv.       *)
(***************************************************************************)
EXTENDS SqlCache, ListsAndSums

(* The types of the state.                                                 *)
Types ==
    /\ key \in [Nodes -> Keys \union {NoKey}] /\ slot \in [Nodes -> Slots]
    /\ cnt \in [Nodes -> Nat] /\ tag \in [Nodes -> Slots]
    /\ valid \in [Nodes -> {"free", "inuse", "committed"}]
    /\ lru \in Seq(Nodes)
    /\ queue \in Seq(Nodes) /\ pend \in Seq(Nodes) /\ moved \in Nat
    /\ rec \in Bins \union {NoRec} /\ safe \in Nodes \union {NIL}
    /\ basetime \in Slots /\ newbase \in Slots \union {0}
    /\ committed \in Slots \union {0}
    /\ writers \in 0 .. MaxWriters /\ arrived \in 0 .. MaxRecords /\ pc \in Phases
    /\ given \in [Bins -> Nat] /\ written \in [Bins -> Nat] /\ lost \in [Bins -> Nat]
    /\ urged \in {"never", "past", "now", "wrong"}

(* The chains: the fixed element first, an element in one place of one.    *)
Chains(ch) ==
    /\ ch \in [Heads -> Seq(Nodes)]
    /\ \A b \in Heads : ch[b] # <<>> /\ ch[b][1] = b /\ OnceEach(ch[b])
    /\ \A b, c \in Heads : \A n \in Elems(ch[b]) : n \in Elems(ch[c]) => b = c

(* The elements of all chains.                                             *)
Linked(ch) == {n \in Nodes : \E b \in Heads : n \in Elems(ch[b])}

(* The LRU list is in the order of the tags.                               *)
InOrder(s, t) == \A i, j \in DOMAIN s : i < j => t[s[i]] <= t[s[j]]

ListInv ==
    /\ Chains(chain)
    /\ OnceEach(lru) /\ Elems(lru) = Linked(chain) \ Heads
    /\ InOrder(lru, tag)
    /\ \A n \in Nodes : tag[n] <= basetime
    /\ \A n \in Nodes : InUse(n) => key[n] \in Keys /\ n \in Elems(chain[Hash[key[n]]])

Used == {n \in Nodes : InUse(n)}

(* The queue lists what is in use, and so does what a purge keeps of it.   *)
Exact ==
    /\ pc \in {"run", "insert", "urgent", "resume"} =>
         OnceEach(queue) /\ Elems(queue) = Used \ {safe}
    /\ pc = "move" => OnceEach(pend) /\ Elems(pend) = Used
    /\ safe # NIL => InUse(safe) /\ cnt[safe] = 1

QueueInv ==
    /\ urged # "wrong" => Exact
    /\ pc # "mangled" => Len(queue) <= QSize /\ Len(pend) <= QSize
    /\ moved <= Len(pend)
    /\ pc \notin {"move", "mangled"} => moved = 0 /\ Len(pend) <= Len(queue)

HandInv ==
    /\ pc = "insert" => rec \in Bins /\ safe = NIL
    /\ pc \in {"run", "move", "exited"} => rec = NoRec /\ safe = NIL
    /\ pc \in {"urgent", "resume"} /\ safe = NIL => rec \in Bins
    /\ safe # NIL => rec = NoRec
    /\ \A n \in Nodes : cnt[n] <= arrived /\ (rec # NoRec => cnt[n] < arrived)
    /\ rec # NoRec => 0 < arrived

CacheInv == Types /\ ListInv /\ QueueInv /\ HandInv

(* m is ahead of n in a list.                                              *)
Ahead(s, m, n) == \E i, j \in DOMAIN s : i < j /\ s[i] = m /\ s[j] = n

(* No free element is ahead of n in its chain.                             *)
Behind(ch, v, n) ==
    \A b \in Heads : \A m \in Nodes : Ahead(ch[b], m, n) => v[m] = "inuse"
NoneAhead(n) == Behind(chain, valid, n)

(* There is one entry that a record can be added to.                       *)
OneEntry ==
    \A m, n \in Nodes :
      (/\ InUse(m) /\ InUse(n) /\ key[m] = key[n] /\ slot[m] = slot[n]
       /\ cnt[m] <= Threshold /\ cnt[n] <= Threshold)
         => m = n

SearchInv ==
  urged # "wrong" =>
    /\ pc = "resume" => urged = "now"
    /\ pc \in {"run", "insert"} /\ urged # "now" => \A n \in Used : NoneAhead(n)
    /\ pc = "move" => \A i \in 1 .. moved : NoneAhead(pend[i])
    /\ pc \in {"run", "insert", "move"} /\ urged = "never" => OneEntry

-----------------------------------------------------------------------------
(* The constants.                                                          *)
LEMMA Constants ==
    /\ NIL \notin Nodes /\ Heads \subseteq Nodes /\ Nodes \subseteq Nat
    /\ IsFiniteSet(Nodes) /\ IsFiniteSet(Heads)
    /\ NoRec \notin Bins /\ Slots \subseteq Nat \ {0} /\ 1 \in Slots
    /\ \A k \in Keys : Hash[k] \in Heads
    /\ Bins = Keys \X Slots
    /\ QSize \in Nat /\ Threshold \in Nat /\ MaxWriters \in Nat /\ Delay \in Nat
    /\ MaxSlot \in Nat \ {0} /\ MaxRecords \in Nat
<1> USE SqlCacheAssumption DEF Nodes, Heads, NIL, Slots
<1>1. IsFiniteSet(Nodes) /\ IsFiniteSet(Heads)
  BY FS_Interval
<1>2. NoRec \notin Bins
  BY DEF NoRec, Bins
<1> QED
  BY <1>1, <1>2 DEF Bins

(* A list and its places.                                                  *)
LEMMA ListFacts ==
    ASSUME NEW X, NEW s \in Seq(X)
    PROVE  /\ Len(s) \in Nat /\ DOMAIN s = 1 .. Len(s)
           /\ \A i \in DOMAIN s : s[i] \in X
           /\ Elems(s) \subseteq X
           /\ s = <<>> <=> Len(s) = 0
           /\ s # <<>> => 1 \in DOMAIN s
BY DEF Elems

(* The places of a list are as many as it is long.                         *)
LEMMA IntervalSize ==
    ASSUME NEW n \in Nat
    PROVE  IsFiniteSet(1 .. n) /\ Cardinality(1 .. n) = n
<1>1. CASE n = 0
  <2>1. 1 .. n = {}
    BY <1>1
  <2> QED
    BY <1>1, <2>1, FS_EmptySet
<1>2. CASE n # 0
  <2>1. Cardinality(1 .. n) = n - 1 + 1 /\ IsFiniteSet(1 .. n)
    BY <1>2, FS_Interval
  <2> QED
    BY <2>1
<1> QED
  BY <1>1, <1>2

(* Unlinking makes no list longer.                                         *)
LEMMA UnlinkLength ==
    ASSUME NEW X, NEW s \in Seq(X), NEW S
    PROVE  Without(s, S) \in Seq(X) /\ Len(Without(s, S)) <= Len(s)
<1> DEFINE w == Without(s, S)
<1>1. w \in Seq(X) /\ \E f : Embeds(w, f, s, Len(s), S)
  BY WithoutEmbeds
<1> HIDE DEF w
<1>2. PICK f : Embeds(w, f, s, Len(s), S)
  BY <1>1
<1>3. DOMAIN w = 1 .. Len(w) /\ DOMAIN s = 1 .. Len(s) /\ Len(w) \in Nat /\ Len(s) \in Nat
  BY <1>1
<1>4. \A i \in 1 .. Len(w) : f[i] \in 1 .. Len(s)
  BY <1>2 DEF Embeds
<1>5. \A i, j \in 1 .. Len(w) : f[i] = f[j] => i = j
  <2> SUFFICES ASSUME NEW i \in 1 .. Len(w), NEW j \in 1 .. Len(w), f[i] = f[j], i < j
               PROVE  FALSE
    BY <1>3
  <2>1. f[i] < f[j]
    BY <1>2 DEF Embeds
  <2> QED
    BY <1>3, <1>4, <2>1
<1>6. IsFiniteSet(1 .. Len(s)) /\ Cardinality(1 .. Len(s)) = Len(s)
      /\ Cardinality(1 .. Len(w)) = Len(w)
  BY <1>3, IntervalSize
<1>7. Cardinality(1 .. Len(w)) <= Cardinality(1 .. Len(s))
  BY <1>4, <1>5, <1>6, InjectionBound
<1> QED
  BY <1>1, <1>6, <1>7 DEF w

(* What unlinking does to the elements and their order.                    *)
LEMMA UnlinkFacts ==
    ASSUME NEW X, NEW s \in Seq(X), NEW S, OnceEach(s)
    PROVE  LET w == Without(s, S)
           IN  /\ w \in Seq(X) /\ OnceEach(w) /\ Elems(w) = Elems(s) \ S
               /\ \A m, n : Ahead(w, m, n) => Ahead(s, m, n)
               /\ Len(w) <= Len(s)
<1> DEFINE w == Without(s, S)
<1>1. w \in Seq(X) /\ \E f : Embeds(w, f, s, Len(s), S)
  BY WithoutEmbeds
<1>2. /\ OnceEach(w)
      /\ \A i \in DOMAIN w : w[i] \notin S /\ \E j \in DOMAIN s : s[j] = w[i]
      /\ \A j \in DOMAIN s : s[j] \notin S => \E i \in DOMAIN w : w[i] = s[j]
  BY WithoutOnce
<1> HIDE DEF w
<1>3. Elems(w) = Elems(s) \ S
  BY <1>2 DEF Elems
<1>4. PICK f : Embeds(w, f, s, Len(s), S)
  BY <1>1
<1>5. DOMAIN w = 1 .. Len(w) /\ DOMAIN s = 1 .. Len(s) /\ Len(w) \in Nat /\ Len(s) \in Nat
  BY <1>1
<1>6. ASSUME NEW m, NEW n, Ahead(w, m, n) PROVE Ahead(s, m, n)
  <2>1. PICK i, j \in DOMAIN w : i < j /\ w[i] = m /\ w[j] = n
    BY <1>6 DEF Ahead
  <2>2. f[i] \in DOMAIN s /\ f[j] \in DOMAIN s /\ f[i] < f[j] /\ s[f[i]] = m /\ s[f[j]] = n
    BY <1>4, <1>5, <2>1 DEF Embeds
  <2> QED
    BY <2>2 DEF Ahead
<1>7. Len(w) <= Len(s)
  BY UnlinkLength DEF w
<1> QED
  BY <1>1, <1>2, <1>3, <1>6, <1>7 DEF w

(* Unlinking keeps the order of the tags, and a first element that stays.  *)
LEMMA UnlinkKeepsOrder ==
    ASSUME NEW X, NEW s \in Seq(X), NEW S, NEW t, InOrder(s, t)
    PROVE  InOrder(Without(s, S), t)
<1> DEFINE w == Without(s, S)
<1>1. w \in Seq(X) /\ \E f : Embeds(w, f, s, Len(s), S)
  BY WithoutEmbeds
<1> HIDE DEF w
<1>2. PICK f : Embeds(w, f, s, Len(s), S)
  BY <1>1
<1>3. DOMAIN w = 1 .. Len(w) /\ DOMAIN s = 1 .. Len(s)
  BY <1>1
<1> SUFFICES ASSUME NEW i \in DOMAIN w, NEW j \in DOMAIN w, i < j
             PROVE  t[w[i]] <= t[w[j]]
  BY DEF w, InOrder
<1>4. f[i] \in DOMAIN s /\ f[j] \in DOMAIN s /\ f[i] < f[j] /\ w[i] = s[f[i]] /\ w[j] = s[f[j]]
  BY <1>2, <1>3 DEF Embeds
<1> QED
  BY <1>4 DEF InOrder

LEMMA UnlinkKeepsFirst ==
    ASSUME NEW X, NEW s \in Seq(X), NEW S, s # <<>>, s[1] \notin S
    PROVE  Without(s, S) # <<>> /\ Without(s, S)[1] = s[1]
<1> DEFINE w == Without(s, S)
<1>1. w \in Seq(X) /\ \E f : Embeds(w, f, s, Len(s), S)
  BY WithoutEmbeds
<1> HIDE DEF w
<1>2. PICK f : Embeds(w, f, s, Len(s), S)
  BY <1>1
<1>3. DOMAIN w = 1 .. Len(w) /\ DOMAIN s = 1 .. Len(s) /\ Len(w) \in Nat /\ Len(s) \in Nat
  BY <1>1
<1>4. 1 \in 1 .. Len(s)
  <2>1. Len(s) # 0
    OBVIOUS
  <2> QED
    BY <1>3, <2>1
<1>5. PICK i \in 1 .. Len(w) : f[i] = 1
  BY <1>2, <1>4 DEF Embeds
<1>6. 1 \in 1 .. Len(w) /\ (1 < i => f[1] < f[i]) /\ f[1] \in 1 .. Len(s)
  BY <1>2, <1>3, <1>5 DEF Embeds
<1>7. i = 1
  BY <1>3, <1>5, <1>6
<1>8. w[1] = s[1]
  BY <1>2, <1>5, <1>6, <1>7 DEF Embeds
<1>9. w # <<>>
  BY <1>6
<1> QED
  BY <1>8, <1>9 DEF w

(* Linking a node at the end.                                              *)
LEMMA LinkFacts ==
    ASSUME NEW X, NEW s \in Seq(X), NEW x \in X, OnceEach(s), x \notin Elems(s)
    PROVE  LET t == Append(s, x)
           IN  /\ t \in Seq(X) /\ OnceEach(t) /\ Elems(t) = Elems(s) \union {x}
               /\ \A m, n : Ahead(t, m, n) => (Ahead(s, m, n) \/ (n = x /\ m \in Elems(s)))
               /\ Len(t) = Len(s) + 1 /\ t # <<>>
               /\ s # <<>> => t[1] = s[1]
<1> DEFINE t == Append(s, x)
<1>1. Len(s) \in Nat /\ DOMAIN s = 1 .. Len(s)
  OBVIOUS
<1>2. /\ t \in Seq(X) /\ t # <<>> /\ Len(t) = Len(s) + 1 /\ DOMAIN t = 1 .. Len(s) + 1
      /\ \A i \in 1 .. Len(s) : t[i] = s[i]
      /\ t[Len(s) + 1] = x
  BY AppendFacts
<1>3. OnceEach(t) /\ Elems(t) = Elems(s) \union {x}
  BY AppendOnce DEF Elems
<1> HIDE DEF t
<1>4. ASSUME NEW m, NEW n, Ahead(t, m, n), ~Ahead(s, m, n)
      PROVE  n = x /\ m \in Elems(s)
  <2>1. PICK i, j \in DOMAIN t : i < j /\ t[i] = m /\ t[j] = n
    BY <1>4 DEF Ahead
  <2>2. i \in 1 .. Len(s) /\ m = s[i]
    BY <1>1, <1>2, <2>1
  <2>3. CASE j = Len(s) + 1
    BY <1>1, <1>2, <2>1, <2>2, <2>3 DEF Elems
  <2>4. CASE j \in 1 .. Len(s)
    BY <1>1, <1>2, <1>4, <2>1, <2>2, <2>4 DEF Ahead
  <2> QED
    BY <1>1, <1>2, <2>3, <2>4
<1>5. s # <<>> => t[1] = s[1]
  <2>1. s # <<>> => 1 \in 1 .. Len(s)
    OBVIOUS
  <2> QED
    BY <1>2, <2>1
<1> QED
  BY <1>2, <1>3, <1>4, <1>5 DEF t

-----------------------------------------------------------------------------
(* The chains, after an element behind the first is unlinked from its own. *)
LEMMA UnlinkChains ==
    ASSUME Chains(chain), NEW n \in Nodes \ Heads
    PROVE  LET u == Unlinked(n)
           IN  /\ Chains(u)
               /\ \A b \in Heads : Elems(u[b]) = Elems(chain[b]) \ {n}
               /\ \A b \in Heads : \A x, y : Ahead(u[b], x, y) => Ahead(chain[b], x, y)
               /\ Linked(u) = Linked(chain) \ {n}
<1> DEFINE u == Unlinked(n)
<1>1. \A b \in Heads : chain[b] \in Seq(Nodes) /\ chain[b] # <<>> /\ chain[b][1] = b
                       /\ OnceEach(chain[b])
  BY DEF Chains
<1>2. DOMAIN u = Heads /\ \A b \in Heads : u[b] = Without(chain[b], {n})
  BY DEF Unlinked
<1>3. u = [b \in Heads |-> u[b]]
  BY DEF Unlinked
<1> HIDE DEF u
<1>4. ASSUME NEW b \in Heads
      PROVE  /\ u[b] \in Seq(Nodes) /\ u[b] # <<>> /\ u[b][1] = b /\ OnceEach(u[b])
             /\ Elems(u[b]) = Elems(chain[b]) \ {n}
             /\ \A x, y : Ahead(u[b], x, y) => Ahead(chain[b], x, y)
  <2>1. /\ u[b] \in Seq(Nodes) /\ OnceEach(u[b]) /\ Elems(u[b]) = Elems(chain[b]) \ {n}
        /\ \A x, y : Ahead(u[b], x, y) => Ahead(chain[b], x, y)
    BY <1>1, <1>2, UnlinkFacts
  <2>2. chain[b][1] \notin {n}
    BY <1>1
  <2>3. u[b] # <<>> /\ u[b][1] = b
    BY <1>1, <1>2, <2>2, UnlinkKeepsFirst
  <2> QED
    BY <2>1, <2>3
<1>5. Chains(u)
  <2>1. u \in [Heads -> Seq(Nodes)]
    BY <1>3, <1>4
  <2>2. \A b, c \in Heads : \A m \in Elems(u[b]) : m \in Elems(u[c]) => b = c
    BY <1>4 DEF Chains
  <2> QED
    BY <1>4, <2>1, <2>2 DEF Chains
<1>6. Linked(u) = Linked(chain) \ {n}
  BY <1>4 DEF Linked
<1> QED
  BY <1>4, <1>5, <1>6 DEF u

(* The chains, after an element of none is linked at the end of one.       *)
Link(ch, c, n) == [ch EXCEPT ![c] = Append(@, n)]

LEMMA LinkChains ==
    ASSUME NEW ch, Chains(ch), NEW c \in Heads, NEW n \in Nodes, n \notin Linked(ch)
    PROVE  /\ Chains(Link(ch, c, n))
           /\ Elems(Link(ch, c, n)[c]) = Elems(ch[c]) \union {n}
           /\ \A b \in Heads \ {c} : Link(ch, c, n)[b] = ch[b]
           /\ \A x, y : Ahead(Link(ch, c, n)[c], x, y) =>
                (Ahead(ch[c], x, y) \/ (y = n /\ x \in Elems(ch[c])))
           /\ Linked(Link(ch, c, n)) = Linked(ch) \union {n}
<1> DEFINE u == Link(ch, c, n)
<1>0. u = [ch EXCEPT ![c] = Append(@, n)]
  BY DEF Link
<1> HIDE DEF u
<1>1. ch \in [Heads -> Seq(Nodes)]
      /\ \A b \in Heads : ch[b] \in Seq(Nodes) /\ ch[b] # <<>> /\ ch[b][1] = b
                          /\ OnceEach(ch[b])
  BY DEF Chains
<1>2. \A b \in Heads : n \notin Elems(ch[b])
  BY DEF Linked
<1>3. /\ Append(ch[c], n) \in Seq(Nodes) /\ OnceEach(Append(ch[c], n))
      /\ Elems(Append(ch[c], n)) = Elems(ch[c]) \union {n}
      /\ Append(ch[c], n) # <<>> /\ Append(ch[c], n)[1] = c
      /\ \A x, y : Ahead(Append(ch[c], n), x, y) =>
           (Ahead(ch[c], x, y) \/ (y = n /\ x \in Elems(ch[c])))
  <2>1. n \in Nodes /\ n \notin Elems(ch[c])
    BY <1>2
  <2> QED
    BY <1>1, <2>1, LinkFacts
<1>4. u[c] = Append(ch[c], n) /\ \A b \in Heads \ {c} : u[b] = ch[b]
  BY <1>0, <1>1
<1>5. u \in [Heads -> Seq(Nodes)]
  BY <1>0, <1>1, <1>3
<1>6. \A b, d \in Heads : \A m \in Elems(u[b]) : m \in Elems(u[d]) => b = d
  <2> SUFFICES ASSUME NEW b \in Heads, NEW d \in Heads, b # d,
                      NEW m \in Elems(u[b]), m \in Elems(u[d])
               PROVE  FALSE
    OBVIOUS
  <2>0. \A x, y \in Heads : \A l \in Elems(ch[x]) : l \in Elems(ch[y]) => x = y
    BY DEF Chains
  <2>1. CASE b = c
    <3>1. m \in Elems(ch[c]) \union {n} /\ m \in Elems(ch[d])
      BY <1>3, <1>4, <2>1
    <3> QED
      BY <1>2, <2>0, <2>1, <3>1
  <2>2. CASE d = c
    <3>1. m \in Elems(ch[c]) \union {n} /\ m \in Elems(ch[b])
      BY <1>3, <1>4, <2>2
    <3> QED
      BY <1>2, <2>0, <2>2, <3>1
  <2>3. CASE b # c /\ d # c
    <3>1. m \in Elems(ch[b]) /\ m \in Elems(ch[d])
      BY <1>4, <2>3
    <3> QED
      BY <2>0, <3>1
  <2> QED
    BY <2>1, <2>2, <2>3
<1>7. Chains(u)
  <2>1. \A b \in Heads : u[b] # <<>> /\ u[b][1] = b /\ OnceEach(u[b])
    BY <1>1, <1>3, <1>4
  <2> QED
    BY <1>5, <1>6, <2>1 DEF Chains
<1>8. Linked(u) = Linked(ch) \union {n}
  BY <1>3, <1>4 DEF Linked
<1> QED
  BY <1>3, <1>4, <1>7, <1>8 DEF u

(* Two places of a list exchanged.                                         *)
LEMMA ExchangeFacts ==
    ASSUME NEW X, NEW s \in Seq(X), OnceEach(s),
           NEW i \in DOMAIN s, NEW j \in DOMAIN s, i < j
    PROVE  LET t == Exchange(s, i, j)
           IN  /\ t \in Seq(X) /\ OnceEach(t) /\ Elems(t) = Elems(s)
               /\ Len(t) = Len(s) /\ DOMAIN t = DOMAIN s
               /\ t[i] = s[j] /\ t[j] = s[i]
               /\ \A k \in DOMAIN s \ {i, j} : t[k] = s[k]
<1> DEFINE t == Exchange(s, i, j)
<1>1. Len(s) \in Nat /\ DOMAIN s = 1 .. Len(s) /\ \A k \in DOMAIN s : s[k] \in X
  OBVIOUS
<1>2. t \in Seq(X) /\ Len(t) = Len(s) /\ DOMAIN t = DOMAIN s
  BY <1>1 DEF Exchange
<1>3. t[i] = s[j] /\ t[j] = s[i] /\ \A k \in DOMAIN s \ {i, j} : t[k] = s[k]
  BY <1>1 DEF Exchange
<1> HIDE DEF t
<1>4. OnceEach(t)
  <2> SUFFICES ASSUME NEW k \in DOMAIN s, NEW l \in DOMAIN s, t[k] = t[l] PROVE k = l
    BY <1>2 DEF OnceEach
  <2> DEFINE p(x) == IF x = i THEN j ELSE IF x = j THEN i ELSE x
  <2>1. \A x \in DOMAIN s : p(x) \in DOMAIN s /\ t[x] = s[p(x)]
    BY <1>3
  <2>2. p(k) = p(l)
    BY <2>1 DEF OnceEach
  <2> QED
    BY <2>2
<1>5. Elems(t) = Elems(s)
  <2>1. \A k \in DOMAIN s : \E l \in DOMAIN s : t[l] = s[k]
    BY <1>3
  <2>2. \A k \in DOMAIN s : \E l \in DOMAIN s : s[l] = t[k]
    BY <1>3
  <2>3. \A x \in Elems(t) : x \in Elems(s)
    BY <1>2, <2>2 DEF Elems
  <2>4. \A x \in Elems(s) : x \in Elems(t)
    BY <1>2, <2>1 DEF Elems
  <2> QED
    BY <2>3, <2>4
<1> QED
  BY <1>2, <1>3, <1>4, <1>5 DEF t

(* The LRU list after an element is unlinked, or used again: it becomes    *)
(* the last one, under the latest tag.                                     *)
LEMMA UsedAgain ==
    ASSUME NEW s \in Seq(Nodes), OnceEach(s), NEW t \in [Nodes -> Slots], InOrder(s, t),
           NEW now \in Slots, \A m \in Nodes : t[m] <= now, NEW n \in Nodes
    PROVE  LET r == Append(Without(s, {n}), n)
           IN  /\ r \in Seq(Nodes) /\ OnceEach(r) /\ Elems(r) = Elems(s) \union {n}
               /\ InOrder(r, [t EXCEPT ![n] = now])
<1> DEFINE w == Without(s, {n})
           r == Append(w, n)
<1>1. w \in Seq(Nodes) /\ OnceEach(w) /\ Elems(w) = Elems(s) \ {n}
  BY UnlinkFacts
<1>2. InOrder(w, t)
  BY UnlinkKeepsOrder
<1> HIDE DEF w
<1>3. r \in Seq(Nodes) /\ OnceEach(r) /\ Elems(r) = Elems(s) \union {n}
  <2>1. n \notin Elems(w)
    BY <1>1
  <2>2. r \in Seq(Nodes) /\ OnceEach(r) /\ Elems(r) = Elems(w) \union {n}
    BY <1>1, <2>1, LinkFacts
  <2> QED
    BY <1>1, <2>2
<1>4. InOrder(r, [t EXCEPT ![n] = now])
  <2>0. \A i \in DOMAIN w : w[i] \in Elems(w)
    BY DEF Elems
  <2>1. \A i \in DOMAIN w : w[i] # n /\ w[i] \in Nodes
    BY <1>1, <2>0, ListFacts
  <2>2. t \in [Nodes -> Nat] /\ now \in Nat
    BY Constants
  <2>3. \A i \in DOMAIN w : t[w[i]] <= now
    BY <2>1
  <2>4. \A i, j \in DOMAIN w : i < j => t[w[i]] <= t[w[j]]
    BY <1>2 DEF InOrder
  <2> QED
    BY <1>1, <2>1, <2>2, <2>3, <2>4, TailKeepsOrder DEF InOrder
<1> QED
  BY <1>3, <1>4 DEF r, w

(* The first element of a list is taken off.                               *)
LEMMA TailFacts ==
    ASSUME NEW s \in Seq(Nodes), s # <<>>, OnceEach(s), NEW t, InOrder(s, t)
    PROVE  /\ Tail(s) \in Seq(Nodes) /\ OnceEach(Tail(s))
           /\ Elems(Tail(s)) = Elems(s) \ {s[1]} /\ InOrder(Tail(s), t)
           /\ s[1] \in Elems(s)
<1> DEFINE w == Tail(s)
<1>1. /\ w \in Seq(Nodes) /\ Len(s) \in Nat \ {0} /\ Len(w) = Len(s) - 1
      /\ DOMAIN s = 1 .. Len(s) /\ DOMAIN w = 1 .. Len(s) - 1
      /\ \A i \in DOMAIN w : w[i] = s[i + 1]
  OBVIOUS
<1> HIDE DEF w
<1>2. \A i \in DOMAIN w : i + 1 \in DOMAIN s
  BY <1>1
<1>3. OnceEach(w)
  <2> SUFFICES ASSUME NEW i \in DOMAIN w, NEW j \in DOMAIN w, w[i] = w[j] PROVE i = j
    BY DEF OnceEach
  <2>1. i + 1 = j + 1
    BY <1>1, <1>2 DEF OnceEach
  <2> QED
    BY <1>1, <2>1
<1>4. Elems(w) = Elems(s) \ {s[1]}
  <2>1. 1 \in DOMAIN s
    BY <1>1
  <2>2. \A i \in DOMAIN w : w[i] # s[1]
    <3> SUFFICES ASSUME NEW i \in DOMAIN w, w[i] = s[1] PROVE FALSE
      OBVIOUS
    <3>1. i + 1 = 1
      BY <1>1, <1>2, <2>1 DEF OnceEach
    <3> QED
      BY <1>1, <3>1
  <2>3. \A i \in DOMAIN s : s[i] # s[1] => \E j \in DOMAIN w : w[j] = s[i]
    <3> SUFFICES ASSUME NEW i \in DOMAIN s, s[i] # s[1] PROVE \E j \in DOMAIN w : w[j] = s[i]
      OBVIOUS
    <3>1. i - 1 \in DOMAIN w /\ (i - 1) + 1 = i
      BY <1>1
    <3> QED
      BY <1>1, <3>1
  <2> QED
    BY <1>1, <1>2, <2>2, <2>3 DEF Elems
<1>5. InOrder(w, t)
  <2> SUFFICES ASSUME NEW i \in DOMAIN w, NEW j \in DOMAIN w, i < j
               PROVE  t[w[i]] <= t[w[j]]
    BY DEF InOrder
  <2>1. i + 1 < j + 1
    BY <1>1
  <2> QED
    BY <1>1, <1>2, <2>1 DEF InOrder
<1>6. s[1] \in Elems(s)
  BY <1>1 DEF Elems
<1> QED
  BY <1>1, <1>3, <1>4, <1>5, <1>6 DEF w

-----------------------------------------------------------------------------
(* What a set of entries counts under a key and time-bin.                  *)
Under(k, s, S, b) == {n \in S : <<k[n], s[n]>> = b}
Total(c, k, s, S, b) == Sum(c, Under(k, s, S, b))

LEMMA TotalIsNat ==
    ASSUME NEW c \in [Nodes -> Nat], NEW k, NEW s, NEW S \in SUBSET Nodes, NEW b
    PROVE  /\ Under(k, s, S, b) \in SUBSET Nodes /\ IsFiniteSet(Under(k, s, S, b))
           /\ Total(c, k, s, S, b) \in Nat
<1>1. Under(k, s, S, b) \in SUBSET Nodes
  BY DEF Under
<1>2. IsFiniteSet(Under(k, s, S, b))
  BY <1>1, Constants, FS_Subset
<1>3. \A n \in Under(k, s, S, b) : c[n] \in Nat
  BY <1>1
<1> QED
  BY <1>1, <1>2, <1>3, SumIsNat DEF Total

LEMMA TotalSame ==
    ASSUME NEW S \in SUBSET Nodes, NEW c, NEW k, NEW s, NEW c2, NEW k2, NEW s2, NEW b,
           \A n \in S : c2[n] = c[n] /\ k2[n] = k[n] /\ s2[n] = s[n]
    PROVE  Total(c2, k2, s2, S, b) = Total(c, k, s, S, b)
<1>1. Under(k2, s2, S, b) = Under(k, s, S, b)
  BY DEF Under
<1>2. Under(k, s, S, b) \subseteq S /\ IsFiniteSet(Under(k, s, S, b))
  <2>1. Under(k, s, S, b) \subseteq S
    BY DEF Under
  <2> QED
    BY <2>1, Constants, FS_Subset
<1>3. Sum(c2, Under(k, s, S, b)) = Sum(c, Under(k, s, S, b))
  BY <1>2, SumSame
<1> QED
  BY <1>1, <1>3 DEF Total

Share(c, k, s, n, b) == IF <<k[n], s[n]>> = b THEN c[n] ELSE 0

LEMMA TotalAdd ==
    ASSUME NEW S \in SUBSET Nodes, NEW n \in Nodes, n \notin S, NEW A, A = S \union {n},
           NEW c \in [Nodes -> Nat], NEW k, NEW s, NEW b
    PROVE  Total(c, k, s, A, b) = Total(c, k, s, S, b) + Share(c, k, s, n, b)
<1> DEFINE T == Under(k, s, S, b)
<1>1. T \in SUBSET Nodes /\ IsFiniteSet(T) /\ Sum(c, T) \in Nat
  BY TotalIsNat DEF Total
<1>2. n \notin T /\ \A m \in T \union {n} : c[m] \in Nat
  BY <1>1 DEF Under
<1>3. Under(k, s, A, b) = IF <<k[n], s[n]>> = b THEN T \union {n} ELSE T
  BY DEF Under
<1> HIDE DEF T
<1>4. Sum(c, T \union {n}) = Sum(c, T) + c[n]
  BY <1>1, <1>2, SumAdd
<1>5. Total(c, k, s, S, b) = Sum(c, T)
  BY DEF Total, T
<1>6. CASE <<k[n], s[n]>> = b
  <2>1. Total(c, k, s, A, b) = Sum(c, T \union {n})
    BY <1>3, <1>6 DEF Total
  <2> QED
    BY <1>4, <1>5, <1>6, <2>1 DEF Share
<1>7. CASE <<k[n], s[n]>> # b
  <2>1. Total(c, k, s, A, b) = Sum(c, T)
    BY <1>3, <1>7 DEF Total
  <2> QED
    BY <1>1, <1>5, <1>7, <2>1 DEF Share
<1> QED
  BY <1>6, <1>7

Parts(S, A, R) == A \subseteq S /\ R = S \ A

LEMMA TotalSplit ==
    ASSUME NEW S \in SUBSET Nodes, NEW A, NEW R, Parts(S, A, R),
           NEW c \in [Nodes -> Nat], NEW k, NEW s, NEW b
    PROVE  Total(c, k, s, S, b) = Total(c, k, s, A, b) + Total(c, k, s, R, b)
<1> DEFINE T == Under(k, s, S, b)
<1>1. T \in SUBSET Nodes /\ IsFiniteSet(T) /\ \A n \in T : c[n] \in Nat
  <2>1. T \in SUBSET Nodes /\ IsFiniteSet(T)
    BY TotalIsNat
  <2> QED
    BY <2>1
<1>2. Under(k, s, A, b) \in SUBSET T
  BY DEF Under, Parts
<1>3. T \ Under(k, s, A, b) = Under(k, s, R, b)
  BY DEF Under, Parts
<1> HIDE DEF T
<1>4. Sum(c, T) = Sum(c, Under(k, s, A, b)) + Sum(c, T \ Under(k, s, A, b))
  BY <1>1, <1>2, SumUnion
<1> QED
  BY <1>3, <1>4 DEF Total, T

LEMMA TotalOfNone ==
    ASSUME NEW S, NEW c, NEW k, NEW s, NEW b, \A n \in S : <<k[n], s[n]>> # b
    PROVE  Total(c, k, s, S, b) = 0
<1>1. Under(k, s, S, b) = {}
  BY DEF Under
<1> QED
  BY <1>1, SumEmpty DEF Total

(* What the model counts along a list is a sum over its places, and if no  *)
(* element is there twice the total of its elements.                       *)
Places(seq, b) == {i \in DOMAIN seq : key[seq[i]] = b[1] /\ slot[seq[i]] = b[2]}

LEMMA CountIsSum ==
    ASSUME cnt \in [Nodes -> Nat], NEW seq \in Seq(Nodes), NEW b \in Bins
    PROVE  /\ Count(seq, b) = Sum([i \in Places(seq, b) |-> cnt[seq[i]]], Places(seq, b))
           /\ IsFiniteSet(Places(seq, b))
           /\ \A i \in Places(seq, b) : seq[i] \in Nodes /\ cnt[seq[i]] \in Nat
<1> DEFINE I == Places(seq, b)
           f == [i \in I |-> cnt[seq[i]]]
           F(g) == [s \in SUBSET I |-> IF s = {} THEN 0
                                       ELSE cnt[seq[AnyOf(s)]] + g[s \ {AnyOf(s)}]]
<1>1. Count(seq, b) = Sum(f, I)
  <2>1. \A s \in SUBSET I : s # {} => f[AnyOf(s)] = cnt[seq[AnyOf(s)]]
    BY DEF AnyOf
  <2>2. \A g : F(g) = Unfold(f, I, g)
    <3> HIDE DEF f, I
    <3> QED
      BY <2>1 DEF Unfold
  <2>3. Count(seq, b) = (CHOOSE g : g = F(g))[I]
    BY DEF Count, MapThenSumSet, MapThenFoldSet, AnyOf, Places
  <2> HIDE DEF F
  <2>4. (CHOOSE g : g = F(g)) = Partial(f, I)
    BY <2>2 DEF Partial
  <2> HIDE DEF f, I
  <2> QED
    BY <2>3, <2>4, SumIsPartial
<1>2. I \subseteq 1 .. Len(seq) /\ IsFiniteSet(I) /\ \A i \in I : seq[i] \in Nodes
  <2>1. DOMAIN seq = 1 .. Len(seq) /\ Len(seq) \in Nat /\ \A i \in DOMAIN seq : seq[i] \in Nodes
    OBVIOUS
  <2>2. IsFiniteSet(1 .. Len(seq))
    BY <2>1, IntervalSize
  <2> QED
    BY <2>1, <2>2, FS_Subset DEF Places
<1>3. \A i \in I : cnt[seq[i]] \in Nat
  BY <1>2
<1> HIDE DEF I
<1> QED
  BY <1>1, <1>2, <1>3 DEF I

LEMMA CountIsTotal ==
    ASSUME cnt \in [Nodes -> Nat], NEW seq \in Seq(Nodes), OnceEach(seq), NEW b \in Bins
    PROVE  Count(seq, b) = Total(cnt, key, slot, Elems(seq), b)
<1> DEFINE I == Places(seq, b)
<1>1. /\ Count(seq, b) = Sum([i \in I |-> cnt[seq[i]]], I) /\ IsFiniteSet(I)
      /\ \A i \in I : seq[i] \in Nodes /\ cnt[seq[i]] \in Nat
  BY CountIsSum
<1>2. \A i, j \in I : seq[i] = seq[j] => i = j
  BY DEF OnceEach, Places
<1>3. {seq[i] : i \in I} = Under(key, slot, Elems(seq), b)
  <2>1. \A n : <<key[n], slot[n]>> = b <=> (key[n] = b[1] /\ slot[n] = b[2])
    BY Constants
  <2> QED
    BY <2>1 DEF Under, Elems, Places
<1> HIDE DEF I
<1>4. Sum(cnt, {seq[i] : i \in I}) = Sum([i \in I |-> cnt[seq[i]]], I)
  BY <1>1, <1>2, SumRename
<1> QED
  BY <1>1, <1>3, <1>4 DEF Total

(* An account that is credited stays an account.                           *)
LEMMA CreditType ==
    ASSUME Types, NEW seq \in Seq(Nodes), NEW acct \in [Bins -> Nat]
    PROVE  Credit(acct, seq) \in [Bins -> Nat]
<1>1. \A b \in Bins : Count(seq, b) \in Nat
  <2> SUFFICES ASSUME NEW b \in Bins PROVE Count(seq, b) \in Nat
    OBVIOUS
  <2> DEFINE I == Places(seq, b)
             f == [i \in I |-> cnt[seq[i]]]
  <2>1. /\ Count(seq, b) = Sum(f, I) /\ IsFiniteSet(I)
        /\ \A i \in I : cnt[seq[i]] \in Nat
    BY CountIsSum DEF Types
  <2> HIDE DEF I
  <2>2. f \in [I -> Nat]
    BY <2>1
  <2> HIDE DEF f
  <2>3. Sum(f, I) \in Nat
    BY <2>1, <2>2, SumIsNat
  <2> QED
    BY <2>1, <2>3
<1> QED
  BY <1>1 DEF Credit

LEMMA ElemsIsToSet == ASSUME NEW s PROVE ToSet(s) = Elems(s)
BY DEF ToSet, Elems

(* The entries on the queue that a purge keeps, and those that it commits. *)
LEMMA PurgeFacts ==
    ASSUME CacheInv, pc \in {"run", "urgent"}
    PROVE  /\ Pending \in Seq(Nodes) /\ Len(Pending) <= Len(queue)
           /\ Closed \in Seq(Nodes) /\ ToSet(Closed) = Elems(Closed)
           /\ urged # "wrong" =>
                /\ OnceEach(Pending) /\ Elems(Pending) = {n \in Used \ {safe} : Open(n)}
                /\ OnceEach(Closed) /\ Elems(Closed) = {n \in Used \ {safe} : ~Open(n)}
<1>1. /\ queue \in Seq(Nodes) /\ pend \in Seq(Nodes) /\ Len(pend) <= Len(queue)
      /\ urged # "wrong" => OnceEach(queue) /\ Elems(queue) = Used \ {safe}
  BY DEF CacheInv, Types, QueueInv, Exact
<1>2. Used \subseteq Nodes
  BY DEF Used
<1>3. /\ Closed \in Seq(Nodes) /\ ToSet(Closed) = Elems(Closed)
      /\ OnceEach(queue) => OnceEach(Closed)
                            /\ Elems(Closed) = Elems(queue) \ {n \in Nodes : Open(n)}
  BY <1>1, UnlinkLength, UnlinkFacts, ElemsIsToSet DEF Closed
<1>4. CASE queue # <<>>
  <2>1. /\ Pending \in Seq(Nodes) /\ Len(Pending) <= Len(queue)
        /\ OnceEach(queue) => OnceEach(Pending)
                              /\ Elems(Pending) = Elems(queue) \ {n \in Nodes : ~Open(n)}
    BY <1>1, <1>4, UnlinkLength, UnlinkFacts DEF Pending
  <2> QED
    BY <1>1, <1>2, <1>3, <2>1
<1>5. CASE queue = <<>>
  <2>1. Pending = <<>>
    <3>1. Len(queue) = 0 /\ Len(pend) \in Nat
      BY <1>1, <1>5
    <3>2. Len(pend) = 0
      BY <1>1, <3>1
    <3> QED
      BY <1>1, <1>5, <3>2 DEF Pending
  <2>2. Elems(<<>>) = {} /\ OnceEach(<<>>) /\ <<>> \in Seq(Nodes) /\ Len(<<>>) = 0
    BY DEF Elems, OnceEach
  <2>3. Elems(queue) = {}
    BY <1>5, <2>2
  <2>4. urged # "wrong" => Elems(Pending) = {n \in Used \ {safe} : Open(n)}
    BY <1>1, <2>1, <2>2, <2>3
  <2> QED
    BY <1>1, <1>2, <1>3, <1>5, <2>1, <2>2, <2>4
<1> QED
  BY <1>4, <1>5

-----------------------------------------------------------------------------
(* Every step keeps CacheInv.                                              *)
LEMMA InitInv == Init => CacheInv
<1> SUFFICES ASSUME Init PROVE CacheInv
  OBVIOUS
<1> USE DEF Init
<1>1. Types
  BY Constants, SqlCacheAssumption DEF Types, Phases, NIL
<1>0. \A b \in Heads : chain[b] \in Seq(Nodes) /\ chain[b] # <<>> /\ chain[b][1] = b
                       /\ OnceEach(chain[b]) /\ Elems(chain[b]) = {b}
  BY Constants DEF OnceEach, Elems
<1>2. Chains(chain)
  BY <1>0 DEF Chains
<1>3. ListInv
  <2>1. Linked(chain) = Heads
    <3>1. \A b \in Heads : Elems(chain[b]) = {b}
      BY <1>0
    <3> HIDE DEF Init
    <3>2. \A n : n \in Heads => n \in Linked(chain)
      BY <3>1, Constants DEF Linked
    <3>3. \A n : n \in Linked(chain) => n \in Heads
      BY <3>1 DEF Linked
    <3> QED
      BY <3>2, <3>3
  <2>2. OnceEach(lru) /\ Elems(lru) = {} /\ InOrder(lru, tag)
    BY DEF OnceEach, Elems, InOrder
  <2> QED
    BY <1>2, <2>1, <2>2 DEF ListInv, InUse
<1>4. QueueInv
  <2>1. OnceEach(queue) /\ Elems(queue) = {} /\ Used = {} /\ Len(queue) = 0 /\ Len(pend) = 0
    BY DEF OnceEach, Elems, Used, InUse
  <2> QED
    BY <2>1, SqlCacheAssumption DEF QueueInv, Exact
<1>5. HandInv
  BY DEF HandInv
<1> QED
  BY <1>1, <1>3, <1>4, <1>5 DEF CacheInv

(* Nothing is linked or used anew.                                         *)
LEMMA ListsStay ==
    ASSUME Types, ListInv, UNCHANGED <<key, tag, chain, lru>>,
           \A n \in Nodes : valid'[n] = "inuse" => valid[n] = "inuse",
           basetime' \in Slots, basetime <= basetime'
    PROVE  ListInv'
<1>1. \A n \in Nodes : tag'[n] <= basetime'
  <2>1. \A n \in Nodes : tag[n] \in Nat /\ tag[n] <= basetime
    BY Constants DEF Types, ListInv
  <2>2. basetime \in Nat /\ basetime' \in Nat
    BY Constants DEF Types
  <2> QED
    BY <2>1, <2>2
<1>2. \A n \in Nodes : InUse(n)' => key'[n] \in Keys /\ n \in Elems(chain'[Hash[key'[n]]])
  BY DEF ListInv, InUse
<1>3. Chains(chain') /\ OnceEach(lru') /\ Elems(lru') = Linked(chain') \ Heads
      /\ InOrder(lru', tag')
  BY DEF ListInv
<1> QED
  BY <1>1, <1>2, <1>3 DEF ListInv

(* An element of the LRU list is in a chain behind its first element.      *)
LEMMA ListedFacts ==
    ASSUME CacheInv, lru # <<>>
    PROVE  lru[1] \in Nodes \ Heads /\ lru[1] \in Linked(chain)
<1>1. lru \in Seq(Nodes) /\ Elems(lru) = Linked(chain) \ Heads
  BY DEF CacheInv, Types, ListInv
<1>2. lru[1] \in Elems(lru) /\ lru[1] \in Nodes
  BY <1>1, ListFacts DEF Elems
<1> QED
  BY <1>1, <1>2

LEMMA ArriveStep ==
    ASSUME CacheInv, NEW k \in Keys, NEW s \in Slots, Arrive(k, s)
    PROVE  CacheInv'
<1> USE DEF elems, lists, ledger, clock
<1>0. /\ pc = "run" /\ pc' = "insert" /\ arrived' = arrived + 1 /\ arrived < MaxRecords
      /\ rec' = <<k, s>>
      /\ given' = [given EXCEPT ![<<k, s>>] = @ + 1]
      /\ UNCHANGED <<elems, queue, pend, moved, safe, clock, writers, written, lost, urged>>
  BY DEF Arrive
<1>1. Types /\ ListInv /\ QueueInv /\ HandInv
  BY DEF CacheInv
<1>2. rec' \in Bins /\ rec' # NoRec /\ given' \in [Bins -> Nat]
  <2>1. <<k, s>> \in Bins /\ NoRec \notin Bins
    BY Constants
  <2>2. given \in [Bins -> Nat]
    BY <1>1 DEF Types
  <2>3. given' \in [Bins -> Nat]
    BY ONLY <1>0, <2>1, <2>2
  <2> QED
    BY <1>0, <2>1, <2>3
<1>3. arrived' \in 0 .. MaxRecords /\ arrived \in Nat
  BY <1>0, <1>1, SqlCacheAssumption DEF Types
<1>4. Chains(chain') /\ lru' \in Seq(Nodes) /\ OnceEach(lru')
      /\ Elems(lru') = Linked(chain') \ Heads /\ InOrder(lru', tag)
      /\ \A n \in Nodes : InUse(n) => n \in Elems(chain'[Hash[key[n]]])
  <2>1. CASE Retirable
    <3>0. /\ lru # <<>> /\ ~InUse(lru[1]) /\ chain' = Unlinked(lru[1]) /\ lru' = Tail(lru)
          /\ lru \in Seq(Nodes) /\ OnceEach(lru) /\ InOrder(lru, tag)
          /\ Elems(lru) = Linked(chain) \ Heads
      BY <1>1, <2>1 DEF Arrive, Retirable, Types, ListInv
    <3>1. lru[1] \in Nodes \ Heads
      BY <3>0, ListedFacts
    <3>2. /\ Chains(chain') /\ Linked(chain') = Linked(chain) \ {lru[1]}
          /\ \A b \in Heads : Elems(chain'[b]) = Elems(chain[b]) \ {lru[1]}
      BY <1>1, <3>0, <3>1, UnlinkChains DEF ListInv
    <3>3. /\ lru' \in Seq(Nodes) /\ OnceEach(lru') /\ Elems(lru') = Elems(lru) \ {lru[1]}
          /\ InOrder(lru', tag)
      BY <3>0, TailFacts
    <3>4. \A n \in Nodes : InUse(n) => n \in Elems(chain'[Hash[key[n]]])
      <4> SUFFICES ASSUME NEW n \in Nodes, InUse(n) PROVE n \in Elems(chain'[Hash[key[n]]])
        OBVIOUS
      <4>1. key[n] \in Keys /\ n \in Elems(chain[Hash[key[n]]]) /\ n # lru[1]
        BY <1>1, <3>0 DEF ListInv
      <4> QED
        BY <3>2, <4>1, Constants
    <3> QED
      BY <3>0, <3>2, <3>3, <3>4
  <2>2. CASE ~Retirable
    BY <1>1, <2>2 DEF Arrive, Types, ListInv
  <2> QED
    BY <2>1, <2>2
<1>5. Types'
  BY <1>0, <1>1, <1>2, <1>3, <1>4 DEF Types, Phases
<1>6. ListInv'
  BY <1>0, <1>1, <1>4 DEF ListInv, InUse
<1>7. QueueInv'
  BY <1>0, <1>1 DEF QueueInv, Exact, Used, InUse
<1>8. HandInv'
  <2>1. \A n \in Nodes : cnt[n] \in Nat /\ cnt[n] <= arrived
    BY <1>1 DEF Types, HandInv
  <2> QED
    BY <1>0, <1>1, <1>2, <1>3, <2>1 DEF HandInv
<1> QED
  BY <1>5, <1>6, <1>7, <1>8 DEF CacheInv

(* The search along the chain of the record's bucket.                      *)
LEMMA FoundFacts ==
    ASSUME CacheInv, pc = "insert"
    PROVE  /\ Bucket \in Heads /\ Line \in Seq(Nodes) /\ OnceEach(Line)
           /\ rec \in Bins /\ rec[1] \in Keys /\ rec[2] \in Slots /\ rec # NoRec
           /\ rec = <<rec[1], rec[2]>>
           /\ Found # 0 => /\ Found \in DOMAIN Line
                           /\ Line[Found] \in Nodes /\ Line[Found] \in Elems(Line)
                           /\ ~InUse(Line[Found]) \/ Matches(Line[Found])
                           /\ \A i \in DOMAIN Line : i < Found =>
                                InUse(Line[i]) /\ ~Matches(Line[i])
           /\ Found = 0 => \A n \in Elems(Line) : InUse(n) /\ ~Matches(n)
<1>1. rec \in Bins /\ NoRec \notin Bins /\ Chains(chain)
  BY Constants DEF CacheInv, HandInv, ListInv
<1>2. rec[1] \in Keys /\ rec[2] \in Slots /\ rec = <<rec[1], rec[2]>>
  BY <1>1, Constants
<1>3. Bucket \in Heads
  BY <1>2, Constants DEF Bucket
<1>4. Line \in Seq(Nodes) /\ OnceEach(Line)
  BY <1>1, <1>3 DEF Line, Chains
<1>5. DOMAIN Line = 1 .. Len(Line) /\ \A i \in DOMAIN Line : Line[i] \in Nodes
  BY <1>4
<1> DEFINE I == {i \in 1 .. Len(Line) : ~InUse(Line[i]) \/ Matches(Line[i])}
<1>6. Found = IF I # {} THEN Min(I) ELSE 0
  BY DEF Found, SelectInSeq
<1>7. CASE I = {}
  <2>1. Found = 0
    BY <1>6, <1>7
  <2>2. \A n \in Elems(Line) : InUse(n) /\ ~Matches(n)
    BY <1>5, <1>7 DEF Elems
  <2> QED
    BY <1>1, <1>2, <1>3, <1>4, <2>1, <2>2
<1>8. CASE I # {}
  <2>1. I \in SUBSET Nat
    OBVIOUS
  <2>2. PICK x \in I : \A y \in I : x <= y
    BY <1>8, <2>1, LeastNatural
  <2>3. Found = Min(I)
    BY <1>6, <1>8
  <2>4. Found \in I /\ \A y \in I : Found <= y
    BY <2>2, <2>3 DEF Min
  <2>5. Found \in DOMAIN Line /\ Found # 0 /\ (~InUse(Line[Found]) \/ Matches(Line[Found]))
    BY <1>5, <2>4
  <2>6. \A i \in DOMAIN Line : i < Found => InUse(Line[i]) /\ ~Matches(Line[i])
    BY <1>5, <2>4
  <2>7. Line[Found] \in Nodes /\ Line[Found] \in Elems(Line)
    BY <1>5, <2>5 DEF Elems
  <2> QED
    BY <1>1, <1>2, <1>3, <1>4, <2>5, <2>6, <2>7
<1> QED
  BY <1>7, <1>8

LEMMA UpdateStep ==
    ASSUME CacheInv, Update PROVE CacheInv'
<1> USE DEF elems, lists, ledger, clock
<1> DEFINE n == Line[Found]
<1>0. /\ pc = "insert" /\ pc' = "run" /\ rec' = NoRec
      /\ cnt' = [cnt EXCEPT ![n] = @ + 1]
      /\ UNCHANGED <<key, slot, valid, tag, lists, queue, pend, moved, safe, clock,
                     writers, arrived, ledger, urged>>
  BY DEF Update, Inserting
<1>1. Types /\ ListInv /\ QueueInv /\ HandInv
  BY DEF CacheInv
<1>2. n \in Nodes /\ rec # NoRec /\ safe = NIL
  BY <1>0, <1>1, FoundFacts DEF Update, HandInv
<1> HIDE DEF n
<1>3. cnt' \in [Nodes -> Nat] /\ \A m \in Nodes : cnt'[m] <= arrived
  <2>1. cnt \in [Nodes -> Nat] /\ arrived \in Nat /\ \A m \in Nodes : cnt[m] < arrived
    BY <1>1, <1>2, SqlCacheAssumption DEF Types, HandInv
  <2> QED
    BY <1>0, <1>2, <2>1
<1>4. Types'
  BY <1>0, <1>1, <1>3 DEF Types, Phases
<1>5. ListInv'
  <2>1. basetime \in Nat
    BY <1>1, Constants DEF Types
  <2> QED
    BY <1>0, <1>1, <2>1, ListsStay DEF Types
<1>6. QueueInv'
  BY <1>0, <1>1, <1>2 DEF QueueInv, Exact, Used, InUse
<1>7. HandInv'
  BY <1>0, <1>1, <1>2, <1>3 DEF HandInv
<1> QED
  BY <1>4, <1>5, <1>6, <1>7 DEF CacheInv

(* The record becomes the entry at a free element n, which is then linked. *)
LEMMA EnterStep ==
    ASSUME CacheInv, pc = "insert", NEW n \in Nodes, ~InUse(n),
           NEW linked, EnterAt(n, linked), Chains(linked),
           n \in Elems(linked[Bucket]), Linked(linked) = Linked(chain) \union {n},
           \A b \in Heads : Elems(chain[b]) \ {n} \subseteq Elems(linked[b])
    PROVE  CacheInv'
<1> USE DEF elems, lists, ledger, clock
<1>0. /\ key' = [key EXCEPT ![n] = rec[1]] /\ slot' = [slot EXCEPT ![n] = rec[2]]
      /\ cnt' = [cnt EXCEPT ![n] = 1] /\ valid' = [valid EXCEPT ![n] = "inuse"]
      /\ tag' = [tag EXCEPT ![n] = basetime]
      /\ chain' = linked
      /\ lru' = IF n \in Heads THEN lru ELSE Append(Without(lru, {n}), n)
      /\ rec' = NoRec
      /\ \/ Room /\ queue' = Append(queue, n) /\ pc' = "run" /\ safe' = safe
         \/ ~Room /\ safe' = n /\ pc' = "urgent" /\ queue' = queue
      /\ UNCHANGED <<pend, moved, clock, writers, arrived, ledger, urged>>
  BY DEF EnterAt
<1>1. Types /\ ListInv /\ QueueInv /\ HandInv
  BY DEF CacheInv
<1>2. rec[1] \in Keys /\ rec[2] \in Slots /\ rec # NoRec /\ safe = NIL /\ Bucket \in Heads
      /\ Bucket = Hash[rec[1]]
  BY <1>1, FoundFacts DEF HandInv, Bucket
<1>3. /\ key'[n] = rec[1] /\ slot'[n] = rec[2] /\ cnt'[n] = 1 /\ valid'[n] = "inuse"
      /\ \A m \in Nodes \ {n} : key'[m] = key[m] /\ cnt'[m] = cnt[m] /\ valid'[m] = valid[m]
  BY <1>0, <1>1 DEF Types
<1>4. Used' = Used \union {n} /\ n \notin Used /\ Used \subseteq Nodes
  BY <1>3 DEF Used, InUse
<1>5. /\ lru' \in Seq(Nodes) /\ OnceEach(lru') /\ Elems(lru') = Linked(chain') \ Heads
      /\ InOrder(lru', tag')
  <2>1. lru \in Seq(Nodes) /\ OnceEach(lru) /\ Elems(lru) = Linked(chain) \ Heads
        /\ InOrder(lru, tag) /\ tag \in [Nodes -> Slots] /\ basetime \in Slots
        /\ \A m \in Nodes : tag[m] <= basetime
    BY <1>1 DEF Types, ListInv
  <2>2. CASE n \in Heads
    <3>1. \A i \in DOMAIN lru : lru[i] \in Nodes \ {n}
      <4>1. \A i \in DOMAIN lru : lru[i] \in Elems(lru)
        BY DEF Elems
      <4> QED
        BY <2>1, <2>2, <4>1, ListFacts
    <3>2. \A i \in DOMAIN lru : tag'[lru[i]] = tag[lru[i]]
      BY <1>0, <2>1, <3>1
    <3>3. InOrder(lru, tag')
      BY <2>1, <3>2 DEF InOrder
    <3>4. lru' = lru
      BY <1>0, <2>2
    <3> QED
      BY <1>0, <2>1, <2>2, <3>3, <3>4
  <2>3. CASE n \notin Heads
    <3>1. lru' = Append(Without(lru, {n}), n)
      BY <1>0, <2>3
    <3>2. /\ lru' \in Seq(Nodes) /\ OnceEach(lru') /\ Elems(lru') = Elems(lru) \union {n}
          /\ InOrder(lru', [tag EXCEPT ![n] = basetime])
      BY <2>1, <3>1, UsedAgain
    <3> QED
      BY <1>0, <2>1, <2>3, <3>2
  <2> QED
    BY <2>2, <2>3
<1>6. \A m \in Nodes : tag'[m] <= basetime'
  <2>1. tag \in [Nodes -> Slots] /\ basetime \in Nat /\ \A m \in Nodes : tag[m] <= basetime
    BY <1>1, Constants DEF Types, ListInv
  <2> QED
    BY <1>0, <2>1
<1>7. ListInv'
  <2>1. \A m \in Nodes : InUse(m)' => key'[m] \in Keys /\ m \in Elems(chain'[Hash[key'[m]]])
    <3> SUFFICES ASSUME NEW m \in Nodes, InUse(m)'
                 PROVE  key'[m] \in Keys /\ m \in Elems(chain'[Hash[key'[m]]])
      OBVIOUS
    <3>1. CASE m = n
      BY <1>0, <1>2, <1>3, <3>1
    <3>2. CASE m # n
      <4>1. InUse(m) /\ key'[m] = key[m]
        BY <1>3, <3>2 DEF InUse
      <4>2. key[m] \in Keys /\ m \in Elems(chain[Hash[key[m]]]) /\ Hash[key[m]] \in Heads
        BY <1>1, <4>1, Constants DEF ListInv
      <4> QED
        BY <1>0, <3>2, <4>1, <4>2
    <3> QED
      BY <3>1, <3>2
  <2>2. Chains(chain')
    BY <1>0
  <2> QED
    BY <1>5, <1>6, <2>1, <2>2 DEF ListInv
<1>8. arrived \in Nat /\ 0 < arrived /\ QSize \in Nat /\ queue \in Seq(Nodes)
      /\ Len(queue) \in Nat /\ Len(pend) \in Nat
  <2>1. arrived \in 0 .. MaxRecords /\ queue \in Seq(Nodes) /\ pend \in Seq(Nodes)
    BY <1>1 DEF Types
  <2>2. 0 < arrived
    BY <1>1, <1>2 DEF HandInv
  <2> QED
    BY <2>1, <2>2, Constants
<1>9. \A m \in Nodes : cnt'[m] \in Nat /\ cnt'[m] <= arrived
  <2>1. cnt \in [Nodes -> Nat] /\ \A m \in Nodes : cnt[m] < arrived
    BY <1>1, <1>2 DEF Types, HandInv
  <2> QED
    BY <1>3, <1>8, <2>1
<1>10. /\ urged # "wrong" => OnceEach(queue) /\ Elems(queue) = Used
       /\ Len(queue) <= QSize /\ Len(pend) <= QSize
       /\ moved = 0 /\ Len(pend) <= Len(queue) /\ moved <= Len(pend)
  <2>1. Used \ {safe} = Used
    BY <1>2, <1>4, Constants
  <2> QED
    BY <1>1, <2>1 DEF QueueInv, Exact
<1>11. NIL \notin Nodes
  BY Constants
<1>12. /\ key' \in [Nodes -> Keys \union {NoKey}] /\ slot' \in [Nodes -> Slots]
       /\ cnt' \in [Nodes -> Nat] /\ tag' \in [Nodes -> Slots]
       /\ valid' \in [Nodes -> {"free", "inuse", "committed"}]
  BY <1>0, <1>1, <1>2 DEF Types
<1>13. CASE Room /\ queue' = Append(queue, n) /\ pc' = "run" /\ safe' = safe
  <2>1. /\ queue' \in Seq(Nodes) /\ Len(queue') = Len(queue) + 1
        /\ urged # "wrong" => OnceEach(queue') /\ Elems(queue') = Used \union {n}
    BY <1>4, <1>8, <1>10, <1>13, LinkFacts, AppendFacts
  <2>2. Types'
    BY <1>0, <1>1, <1>5, <1>12, <1>13, <2>1 DEF Types, Phases
  <2>3. QueueInv'
    BY <1>0, <1>2, <1>4, <1>8, <1>10, <1>11, <1>13, <2>1 DEF QueueInv, Exact, Room
  <2>4. HandInv'
    BY <1>0, <1>2, <1>9, <1>13 DEF HandInv
  <2> QED
    BY <1>7, <2>2, <2>3, <2>4 DEF CacheInv
<1>14. CASE ~Room /\ safe' = n /\ pc' = "urgent" /\ queue' = queue
  <2>2. Types'
    BY <1>0, <1>1, <1>5, <1>12, <1>14 DEF Types, Phases
  <2>3. QueueInv'
    BY <1>0, <1>3, <1>4, <1>10, <1>14 DEF QueueInv, Exact, InUse
  <2>4. HandInv'
    BY <1>0, <1>9, <1>11, <1>14 DEF HandInv
  <2> QED
    BY <1>7, <2>2, <2>3, <2>4 DEF CacheInv
<1> QED
  BY <1>0, <1>13, <1>14

LEMMA TakeFreeStep ==
    ASSUME CacheInv, TakeFree PROVE CacheInv'
<1> DEFINE n == Line[Found]
<1>1. pc = "insert" /\ n \in Nodes /\ ~InUse(n) /\ EnterAt(n, chain)
      /\ n \in Elems(Line) /\ Bucket \in Heads
  BY FoundFacts DEF TakeFree, Inserting
<1> HIDE DEF n
<1>2. Chains(chain)
  BY DEF CacheInv, ListInv
<1>3. n \in Elems(chain[Bucket]) /\ Linked(chain) = Linked(chain) \union {n}
  BY <1>1 DEF Line, Linked
<1> QED
  BY <1>1, <1>2, <1>3, EnterStep

(* The stale element that is moved to the record's bucket.                 *)
LEMMA ReuseFacts ==
    ASSUME CacheInv, Reuse
    PROVE  LET n == lru[1]
               d == [Unlinked(n) EXCEPT ![Bucket] = Append(@, n)]
           IN  /\ pc = "insert" /\ Found = 0 /\ Bucket \in Heads
               /\ n \in Nodes \ Heads /\ ~InUse(n) /\ EnterAt(n, d)
               /\ Chains(d) /\ Elems(d[Bucket]) = (Elems(Line) \ {n}) \union {n}
               /\ \A b \in Heads \ {Bucket} : Elems(d[b]) = Elems(chain[b]) \ {n}
               /\ Linked(d) = Linked(chain) \union {n}
               /\ \A b \in Heads : \A x, y : Ahead(d[b], x, y) =>
                    (Ahead(chain[b], x, y) \/ (b = Bucket /\ y = n /\ x \in Elems(Line)))
<1> DEFINE n == lru[1]
           u == Unlinked(n)
           d == [u EXCEPT ![Bucket] = Append(@, n)]
<1>1. pc = "insert" /\ Found = 0 /\ lru # <<>> /\ ~InUse(n) /\ EnterAt(n, d)
  BY DEF Reuse, Inserting, StaleHead
<1>2. n \in Nodes \ Heads /\ Chains(chain) /\ Bucket \in Heads
  BY <1>1, ListedFacts, FoundFacts DEF CacheInv, ListInv
<1> HIDE DEF n
<1>3. /\ Chains(u) /\ \A b \in Heads : Elems(u[b]) = Elems(chain[b]) \ {n}
      /\ \A b \in Heads : \A x, y : Ahead(u[b], x, y) => Ahead(chain[b], x, y)
      /\ Linked(u) = Linked(chain) \ {n}
  BY <1>2, UnlinkChains
<1> HIDE DEF u
<1>4. n \in Nodes \ Linked(u)
  BY <1>2, <1>3
<1>5. /\ Chains(d) /\ Elems(d[Bucket]) = Elems(u[Bucket]) \union {n}
      /\ \A b \in Heads \ {Bucket} : d[b] = u[b]
      /\ \A x, y : Ahead(d[Bucket], x, y) =>
           (Ahead(u[Bucket], x, y) \/ (y = n /\ x \in Elems(u[Bucket])))
      /\ Linked(d) = Linked(u) \union {n}
  <2>1. d = Link(u, Bucket, n)
    BY DEF Link
  <2> HIDE DEF d
  <2> QED
    BY <1>2, <1>3, <1>4, <2>1, LinkChains
<1> HIDE DEF d
<1>6. Elems(d[Bucket]) = (Elems(Line) \ {n}) \union {n}
  BY <1>2, <1>3, <1>5 DEF Line
<1>7. \A b \in Heads \ {Bucket} : Elems(d[b]) = Elems(chain[b]) \ {n}
  BY <1>3, <1>5
<1>8. Linked(d) = Linked(chain) \union {n}
  BY <1>3, <1>5
<1>9. ASSUME NEW b \in Heads, NEW x, NEW y, Ahead(d[b], x, y)
      PROVE  Ahead(chain[b], x, y) \/ (b = Bucket /\ y = n /\ x \in Elems(Line))
  <2>1. CASE b = Bucket
    BY <1>2, <1>3, <1>5, <1>9, <2>1 DEF Line
  <2>2. CASE b # Bucket
    BY <1>3, <1>5, <1>9, <2>2
  <2> QED
    BY <2>1, <2>2
<1> QED
  BY <1>1, <1>2, <1>5, <1>6, <1>7, <1>8, <1>9 DEF d, u, n

LEMMA ReuseStep ==
    ASSUME CacheInv, Reuse PROVE CacheInv'
<1> DEFINE n == lru[1]
           d == [Unlinked(n) EXCEPT ![Bucket] = Append(@, n)]
<1>1. /\ pc = "insert" /\ Bucket \in Heads
      /\ n \in Nodes \ Heads /\ ~InUse(n) /\ EnterAt(n, d)
      /\ Chains(d) /\ Elems(d[Bucket]) = (Elems(Line) \ {n}) \union {n}
      /\ \A b \in Heads \ {Bucket} : Elems(d[b]) = Elems(chain[b]) \ {n}
      /\ Linked(d) = Linked(chain) \union {n}
  BY ReuseFacts
<1> HIDE DEF n, d
<1>2. \A b \in Heads : Elems(chain[b]) \ {n} \subseteq Elems(d[b])
  BY <1>1 DEF Line
<1> QED
  BY <1>1, <1>2, EnterStep

(* The element that malloc() gives.                                        *)
LEMMA MallocFacts ==
    ASSUME CacheInv, Malloc
    PROVE  \E n \in Nodes \ Linked(chain) :
             LET d == [chain EXCEPT ![Bucket] = Append(@, n)]
             IN  /\ pc = "insert" /\ Found = 0 /\ Bucket \in Heads
                 /\ n \notin Heads /\ ~InUse(n) /\ EnterAt(n, d)
                 /\ Chains(d) /\ Elems(d[Bucket]) = Elems(Line) \union {n}
                 /\ \A b \in Heads \ {Bucket} : d[b] = chain[b]
                 /\ Linked(d) = Linked(chain) \union {n}
                 /\ \A x, y : Ahead(d[Bucket], x, y) =>
                      (Ahead(Line, x, y) \/ (y = n /\ x \in Elems(Line)))
<1>0. PICK n \in Nodes \ Allocated : EnterAt(n, [chain EXCEPT ![Bucket] = Append(@, n)])
  BY DEF Malloc
<1> DEFINE d == [chain EXCEPT ![Bucket] = Append(@, n)]
<1>1. pc = "insert" /\ Found = 0 /\ n \in Nodes \ Allocated /\ EnterAt(n, d)
  BY <1>0 DEF Malloc, Inserting
<1>2. Chains(chain) /\ Bucket \in Heads
  BY <1>1, FoundFacts DEF CacheInv, ListInv
<1>3. \A b \in Heads : n \notin Elems(chain[b])
  BY <1>1, ElemsIsToSet DEF Allocated
<1>4. n \in Nodes \ Linked(chain)
  BY <1>1, <1>3 DEF Linked
<1>5. n \notin Heads
  <2>1. \A b \in Heads : b \in Elems(chain[b])
    BY <1>2, ListFacts DEF Chains, Elems
  <2> QED
    BY <1>3, <2>1
<1>6. ~InUse(n)
  BY <1>1, <1>3, Constants DEF CacheInv, ListInv
<1>7. /\ Chains(d) /\ Elems(d[Bucket]) = Elems(chain[Bucket]) \union {n}
      /\ \A b \in Heads \ {Bucket} : d[b] = chain[b]
      /\ \A x, y : Ahead(d[Bucket], x, y) =>
           (Ahead(chain[Bucket], x, y) \/ (y = n /\ x \in Elems(chain[Bucket])))
      /\ Linked(d) = Linked(chain) \union {n}
  <2>1. d = Link(chain, Bucket, n)
    BY DEF Link
  <2> HIDE DEF d
  <2> QED
    BY <1>2, <1>4, <2>1, LinkChains
<1> QED
  BY <1>1, <1>2, <1>4, <1>5, <1>6, <1>7 DEF Line

LEMMA MallocStep ==
    ASSUME CacheInv, Malloc PROVE CacheInv'
<1>1. PICK n \in Nodes \ Linked(chain) :
             LET d == [chain EXCEPT ![Bucket] = Append(@, n)]
             IN  /\ pc = "insert" /\ Found = 0 /\ Bucket \in Heads
                 /\ n \notin Heads /\ ~InUse(n) /\ EnterAt(n, d)
                 /\ Chains(d) /\ Elems(d[Bucket]) = Elems(Line) \union {n}
                 /\ \A b \in Heads \ {Bucket} : d[b] = chain[b]
                 /\ Linked(d) = Linked(chain) \union {n}
  BY MallocFacts
<1> DEFINE d == [chain EXCEPT ![Bucket] = Append(@, n)]
<1>2. /\ pc = "insert" /\ Bucket \in Heads /\ ~InUse(n) /\ EnterAt(n, d)
      /\ Chains(d) /\ Elems(d[Bucket]) = Elems(Line) \union {n}
      /\ \A b \in Heads \ {Bucket} : d[b] = chain[b]
      /\ Linked(d) = Linked(chain) \union {n}
  BY <1>1
<1> HIDE DEF d
<1>3. \A b \in Heads : Elems(chain[b]) \ {n} \subseteq Elems(d[b])
  <2> SUFFICES ASSUME NEW b \in Heads PROVE Elems(chain[b]) \ {n} \subseteq Elems(d[b])
    OBVIOUS
  <2>1. CASE b = Bucket
    BY <1>2, <2>1 DEF Line
  <2>2. CASE b # Bucket
    BY <1>2, <2>2
  <2> QED
    BY <2>1, <2>2
<1> QED
  BY <1>2, <1>3, EnterStep

(* The steps after which the entries and lists are what they were, but for *)
(* pc: no memory, a retry, the clock, the end of a writer, the reading of  *)
(* a freed element.                                                        *)
LEMMA IdleStep ==
    ASSUME CacheInv, NoMemory \/ Retry \/ Roll \/ WriterEnds \/ Dangling \/ Stopped
                       \/ UNCHANGED vars
    PROVE  CacheInv'
<1> USE DEF elems, lists, ledger, clock
<1>1. Types /\ ListInv /\ QueueInv /\ HandInv
  BY DEF CacheInv
<1>2. UNCHANGED <<elems, lists, queue, pend, moved, rec, safe, committed, arrived,
                  ledger, urged>>
  BY DEF NoMemory, Retry, Roll, WriterEnds, Dangling, Stopped, vars
<1>3. basetime' \in Slots /\ newbase' \in Slots \union {0} /\ basetime <= basetime'
      /\ writers' \in 0 .. MaxWriters
  <2>1. basetime \in Slots /\ newbase \in Slots \union {0} /\ writers \in 0 .. MaxWriters
    BY <1>1 DEF Types
  <2>2. CASE Roll
    BY <2>1, <2>2, Constants DEF Roll, Slots
  <2>3. CASE WriterEnds
    BY <2>1, <2>3, Constants DEF WriterEnds
  <2>4. CASE NoMemory \/ Retry \/ Dangling \/ Stopped \/ UNCHANGED vars
    BY <2>1, <2>4, Constants DEF NoMemory, Retry, Dangling, Stopped, vars
  <2> QED
    BY <2>2, <2>3, <2>4
<1>4. \/ pc' = pc
      \/ pc = "insert" /\ pc' = "urgent" /\ rec \in Bins
      \/ pc = "resume" /\ pc' = "insert" /\ safe = NIL
      \/ pc' = "mangled"
  BY <1>1 DEF NoMemory, Retry, Roll, WriterEnds, Dangling, Stopped, vars, Inserting, HandInv
<1>5. Types'
  BY <1>1, <1>2, <1>3, <1>4 DEF Types, Phases
<1>6. ListInv'
  BY <1>1, <1>2, <1>3, ListsStay
<1>7. QueueInv'
  BY <1>1, <1>2, <1>4 DEF QueueInv, Exact, Used, InUse
<1>8. HandInv'
  BY <1>1, <1>2, <1>4 DEF HandInv
<1> QED
  BY <1>5, <1>6, <1>7, <1>8 DEF CacheInv

-----------------------------------------------------------------------------
(* The purges.  What a purge commits is no longer in use; the rest is.     *)
LEMMA ForkFacts ==
    ASSUME CacheInv, pc \in {"run", "urgent"}, FlushAndFork
    PROVE  /\ valid' \in [Nodes -> {"free", "inuse", "committed"}]
           /\ \A n \in Nodes : valid'[n] = "inuse" => valid[n] = "inuse"
           /\ Used' = Used \ Elems(Closed) /\ Used \subseteq Nodes
           /\ committed' \in Slots \union {0} /\ writers' \in 0 .. MaxWriters
           /\ written' \in [Bins -> Nat] /\ lost' \in [Bins -> Nat]
           /\ UNCHANGED <<key, slot, cnt, tag, basetime, arrived, given>>
<1>1. Types
  BY DEF CacheInv
<1>2. Closed \in Seq(Nodes) /\ ToSet(Closed) = Elems(Closed)
  BY PurgeFacts
<1>3. valid' = [n \in Nodes |-> IF n \in Elems(Closed) THEN "committed" ELSE valid[n]]
  BY <1>2 DEF FlushAndFork
<1>4. valid' \in [Nodes -> {"free", "inuse", "committed"}]
  BY <1>1, <1>3 DEF Types
<1>5. Used' = Used \ Elems(Closed) /\ Used \subseteq Nodes
      /\ \A n \in Nodes : valid'[n] = "inuse" => valid[n] = "inuse"
  BY <1>3 DEF Used, InUse
<1>6. committed' \in Slots \union {0}
  <2>1. committed' \in {committed, newbase, basetime}
    BY DEF FlushAndFork
  <2> QED
    BY <1>1, <2>1 DEF Types
<1>7. writers' \in 0 .. MaxWriters
  <2>1. writers' = writers \/ (writers < MaxWriters /\ writers' = writers + 1)
    BY DEF FlushAndFork
  <2> QED
    BY <1>1, <2>1, Constants DEF Types
<1>8. written' \in [Bins -> Nat] /\ lost' \in [Bins -> Nat]
  <2>1. written \in [Bins -> Nat] /\ lost \in [Bins -> Nat]
    BY <1>1 DEF Types
  <2>2. Credit(written, Closed) \in [Bins -> Nat] /\ Credit(lost, Closed) \in [Bins -> Nat]
    BY <1>1, <1>2, <2>1, CreditType
  <2> QED
    BY <2>1, <2>2 DEF FlushAndFork
<1>9. UNCHANGED <<key, slot, cnt, tag, basetime, arrived, given>>
  BY DEF FlushAndFork
<1> QED
  BY <1>4, <1>5, <1>6, <1>7, <1>8, <1>9

LEMMA FlushEventStep ==
    ASSUME CacheInv, FlushEvent PROVE CacheInv'
<1> USE DEF lists
<1>0. /\ pc = "run" /\ FlushAndFork /\ pend' = Pending /\ moved' = 0 /\ pc' = "move"
      /\ UNCHANGED <<lists, queue, rec, safe, newbase, urged>>
  BY DEF FlushEvent
<1>1. Types /\ ListInv /\ QueueInv /\ HandInv
  BY DEF CacheInv
<1>2. /\ valid' \in [Nodes -> {"free", "inuse", "committed"}]
      /\ \A n \in Nodes : valid'[n] = "inuse" => valid[n] = "inuse"
      /\ Used' = Used \ Elems(Closed) /\ Used \subseteq Nodes
      /\ committed' \in Slots \union {0} /\ writers' \in 0 .. MaxWriters
      /\ written' \in [Bins -> Nat] /\ lost' \in [Bins -> Nat]
      /\ UNCHANGED <<key, slot, cnt, tag, basetime, arrived, given>>
  BY <1>0, ForkFacts
<1>3. /\ Pending \in Seq(Nodes) /\ Len(Pending) <= Len(queue)
      /\ urged # "wrong" =>
           /\ OnceEach(Pending) /\ Elems(Pending) = {n \in Used \ {safe} : Open(n)}
           /\ Elems(Closed) = {n \in Used \ {safe} : ~Open(n)}
  BY <1>0, PurgeFacts
<1>4. safe = NIL /\ NIL \notin Nodes /\ Len(queue) <= QSize
  BY <1>0, <1>1, Constants DEF HandInv, QueueInv
<1>5. urged # "wrong" => Elems(Pending) = Used'
  BY <1>2, <1>3, <1>4
<1>6. Len(Pending) \in Nat /\ Len(queue) \in Nat /\ QSize \in Nat
  BY <1>1, <1>3, Constants DEF Types
<1>7. Types'
  BY <1>0, <1>1, <1>2, <1>3 DEF Types, Phases
<1>8. ListInv'
  <2>1. basetime \in Nat /\ basetime \in Slots
    BY <1>1, Constants DEF Types
  <2> QED
    BY <1>0, <1>1, <1>2, <2>1, ListsStay
<1>9. QueueInv'
  BY <1>0, <1>3, <1>4, <1>5, <1>6 DEF QueueInv, Exact
<1>10. HandInv'
  BY <1>0, <1>1, <1>2, <1>4 DEF HandInv
<1> QED
  BY <1>7, <1>8, <1>9, <1>10 DEF CacheInv

LEMMA UrgentPurgeStep ==
    ASSUME CacheInv, UrgentPurge PROVE CacheInv'
<1> USE DEF lists
<1>0. /\ pc = "urgent" /\ FlushAndFork /\ pend' = Pending /\ queue' = Shortened
      /\ pc' = "resume" /\ urged' \in {"now", "wrong"}
      /\ urged' # "wrong" => urged # "wrong" /\ Shortened = Pending
      /\ UNCHANGED <<lists, moved, rec, safe, newbase>>
  BY DEF UrgentPurge
<1>1. Types /\ ListInv /\ QueueInv /\ HandInv
  BY DEF CacheInv
<1>2. /\ valid' \in [Nodes -> {"free", "inuse", "committed"}]
      /\ \A n \in Nodes : valid'[n] = "inuse" => valid[n] = "inuse"
      /\ Used' = Used \ Elems(Closed) /\ Used \subseteq Nodes
      /\ committed' \in Slots \union {0} /\ writers' \in 0 .. MaxWriters
      /\ written' \in [Bins -> Nat] /\ lost' \in [Bins -> Nat]
      /\ UNCHANGED <<key, slot, cnt, tag, basetime, arrived, given>>
  BY <1>0, ForkFacts
<1>3. /\ Pending \in Seq(Nodes) /\ Len(Pending) <= Len(queue)
      /\ urged # "wrong" =>
           /\ OnceEach(Pending) /\ Elems(Pending) = {n \in Used \ {safe} : Open(n)}
           /\ Elems(Closed) = {n \in Used \ {safe} : ~Open(n)}
  BY <1>0, PurgeFacts
<1>4. moved = 0 /\ Len(queue) <= QSize /\ queue \in Seq(Nodes)
      /\ Len(Pending) \in Nat /\ Len(queue) \in Nat /\ QSize \in Nat
  BY <1>0, <1>1, <1>3, Constants DEF QueueInv, Types
<1>5. urged # "wrong" => Elems(Pending) = Used' \ {safe}
  BY <1>2, <1>3
<1>6. Shortened \in Seq(Nodes) /\ Len(Shortened) = Len(Pending)
  <2>1. DOMAIN Pending = 1 .. Len(Pending)
        /\ \A i \in 1 .. Len(Pending) : Pending[i] \in Nodes /\ queue[i] \in Nodes
    BY <1>3, <1>4
  <2>2. Shortened \in [1 .. Len(Pending) -> Nodes]
    BY <2>1 DEF Shortened
  <2> QED
    BY <1>4, <2>2
<1>7. Types'
  BY <1>0, <1>1, <1>2, <1>3, <1>6 DEF Types, Phases
<1>8. ListInv'
  <2>1. basetime \in Nat /\ basetime \in Slots
    BY <1>1, Constants DEF Types
  <2> QED
    BY <1>0, <1>1, <1>2, <2>1, ListsStay
<1>9. QueueInv'
  <2>1. ASSUME urged' # "wrong" PROVE Exact'
    <3>1. urged # "wrong" /\ queue' = Pending /\ Exact
      BY <1>0, <1>1, <2>1 DEF QueueInv
    <3>2. safe # NIL => safe \in Used' /\ cnt[safe] = 1
      <4>1. safe # NIL => safe \in Used /\ cnt[safe] = 1
        BY <1>1, <3>1 DEF Exact, Types, Used
      <4> QED
        BY <1>2, <1>3, <3>1, <4>1
    <3>3. safe # NIL => valid'[safe] = "inuse" /\ cnt'[safe] = 1
      BY <1>2, <3>2 DEF Used, InUse
    <3> QED
      BY <1>0, <1>3, <1>5, <3>1, <3>3 DEF Exact, InUse
  <2> QED
    BY <1>0, <1>3, <1>4, <1>6, <2>1 DEF QueueInv
<1>10. HandInv'
  BY <1>0, <1>1, <1>2 DEF HandInv
<1> QED
  BY <1>7, <1>8, <1>9, <1>10 DEF CacheInv

LEMMA QueueSafeStep ==
    ASSUME CacheInv, QueueSafe PROVE CacheInv'
<1> USE DEF elems, lists, ledger, clock
<1>0. /\ pc = "resume" /\ safe # NIL /\ queue' = Append(queue, safe) /\ safe' = NIL
      /\ \/ Room /\ pc' = "run"
         \/ pc' = "mangled"
      /\ UNCHANGED <<elems, lists, pend, moved, rec, clock, writers, arrived, ledger, urged>>
  BY DEF QueueSafe
<1>1. Types /\ ListInv /\ QueueInv /\ HandInv
  BY DEF CacheInv
<1>2. safe \in Nodes /\ rec = NoRec /\ NIL \notin Nodes /\ Used \subseteq Nodes
      /\ (urged # "wrong" => safe \in Used)
  BY <1>0, <1>1, Constants DEF HandInv, QueueInv, Exact, Types, Used
<1>3. /\ urged # "wrong" => OnceEach(queue) /\ Elems(queue) = Used \ {safe}
      /\ queue \in Seq(Nodes)
      /\ Len(queue) \in Nat /\ moved = 0 /\ Len(pend) <= Len(queue) /\ Len(pend) \in Nat
      /\ Len(pend) <= QSize /\ QSize \in Nat /\ moved <= Len(pend)
  BY <1>0, <1>1, Constants DEF QueueInv, Exact, Types
<1>4. /\ queue' \in Seq(Nodes) /\ Len(queue') = Len(queue) + 1
      /\ urged # "wrong" => OnceEach(queue') /\ Elems(queue') = Used
  <2>1. /\ queue' \in Seq(Nodes) /\ Len(queue') = Len(queue) + 1
        /\ urged # "wrong" =>
             OnceEach(queue') /\ Elems(queue') = Elems(queue) \union {safe}
    BY <1>0, <1>2, <1>3, LinkFacts, AppendFacts
  <2> QED
    BY <1>2, <1>3, <2>1
<1>5. Types'
  BY <1>0, <1>1, <1>4 DEF Types, Phases
<1>6. ListInv'
  <2>1. basetime \in Nat /\ basetime \in Slots
    BY <1>1, Constants DEF Types
  <2> QED
    BY <1>0, <1>1, <2>1, ListsStay
<1>7. QueueInv'
  <2>1. Used' = Used
    BY <1>0 DEF Used, InUse
  <2>2. Used \ {NIL} = Used
    BY <1>2
  <2> QED
    BY <1>0, <1>3, <1>4, <2>1, <2>2 DEF QueueInv, Exact, Room
<1>8. HandInv'
  BY <1>0, <1>1, <1>2 DEF HandInv
<1> QED
  BY <1>5, <1>6, <1>7, <1>8 DEF CacheInv

LEMMA FlushEndsStep ==
    ASSUME CacheInv, FlushEnds PROVE CacheInv'
<1> USE DEF elems, lists, ledger
<1>0. /\ pc = "move" /\ queue' = pend /\ newbase' = 0 /\ pc' = "run" /\ moved' = 0
      /\ urged' \in {urged, "past"} /\ (urged' # "wrong" => urged # "wrong")
      /\ UNCHANGED <<elems, lists, pend, rec, safe, basetime, committed, writers,
                     arrived, ledger>>
  BY DEF FlushEnds, Settled
<1>1. Types /\ ListInv /\ QueueInv /\ HandInv
  BY DEF CacheInv
<1>2. /\ urged # "wrong" => OnceEach(pend) /\ Elems(pend) = Used
      /\ Len(pend) <= QSize /\ Len(pend) \in Nat
      /\ Used = Used \ {safe} /\ safe = NIL
  BY <1>0, <1>1, Constants DEF QueueInv, Exact, HandInv, Types, Used
<1>3. Used' = Used
  BY <1>0 DEF Used, InUse
<1>4. Types'
  BY <1>0, <1>1 DEF Types, Phases
<1>5. ListInv'
  <2>1. basetime \in Nat /\ basetime \in Slots
    BY <1>1, Constants DEF Types
  <2> QED
    BY <1>0, <1>1, <2>1, ListsStay
<1>6. QueueInv'
  BY <1>0, <1>2, <1>3 DEF QueueInv, Exact
<1>7. HandInv'
  BY <1>0, <1>1, <1>2 DEF HandInv
<1> QED
  BY <1>4, <1>5, <1>6, <1>7 DEF CacheInv

LEMMA ExitStep ==
    ASSUME CacheInv, Exit PROVE CacheInv'
<1> USE DEF lists, clock
<1>0. /\ pc = "run" /\ pc' = "exited"
      /\ valid' = [n \in Nodes |-> IF n \in ToSet(queue) THEN "committed" ELSE valid[n]]
      /\ written' \in {written, Credit(written, queue)}
      /\ lost' \in {lost, Credit(lost, queue)}
      /\ UNCHANGED <<key, slot, cnt, tag, lists, queue, pend, moved, rec, safe, clock,
                     writers, arrived, given, urged>>
  BY DEF Exit
<1>1. Types /\ ListInv /\ QueueInv /\ HandInv
  BY DEF CacheInv
<1>2. /\ valid' \in [Nodes -> {"free", "inuse", "committed"}]
      /\ \A n \in Nodes : valid'[n] = "inuse" => valid[n] = "inuse"
  BY <1>0, <1>1 DEF Types
<1>3. written' \in [Bins -> Nat] /\ lost' \in [Bins -> Nat]
  <2>1. written \in [Bins -> Nat] /\ lost \in [Bins -> Nat] /\ queue \in Seq(Nodes)
    BY <1>0, <1>1 DEF Types
  <2>2. Credit(written, queue) \in [Bins -> Nat] /\ Credit(lost, queue) \in [Bins -> Nat]
    BY <1>1, <2>1, CreditType
  <2> QED
    BY <1>0, <2>1, <2>2
<1>4. Types'
  BY <1>0, <1>1, <1>2, <1>3 DEF Types, Phases
<1>5. ListInv'
  <2>1. basetime \in Nat /\ basetime \in Slots
    BY <1>1, Constants DEF Types
  <2> QED
    BY <1>0, <1>1, <1>2, <2>1, ListsStay
<1>6. QueueInv'
  BY <1>0, <1>1 DEF QueueInv, Exact, HandInv
<1>7. HandInv'
  BY <1>0, <1>1 DEF HandInv
<1> QED
  BY <1>4, <1>5, <1>6, <1>7 DEF CacheInv

-----------------------------------------------------------------------------
(* The moving of the pending entries.                                      *)
LEMMA MovingFacts ==
    ASSUME CacheInv, MovingOn
    PROVE  LET n == Moving
               s == chain[Place(n)]
           IN  /\ n \in Nodes /\ Place(n) \in Heads
               /\ InUse(n) => key[n] \in Keys /\ Place(n) = Hash[key[n]]
               /\ urged # "wrong" => n \in Used
               /\ s \in Seq(Nodes) /\ OnceEach(s) /\ n \in Elems(s) /\ s[1] = Place(n)
               /\ Hole(n) \in DOMAIN s
               /\ s[Hole(n)] # n => ~InUse(s[Hole(n)])
               /\ \A i \in DOMAIN s : i < Hole(n) => InUse(s[i]) /\ s[i] # n
               /\ pc = "move" /\ moved + 1 \in DOMAIN pend /\ pend[moved + 1] = n
<1> DEFINE n == Moving
           s == chain[Place(n)]
<1>0. pc = "move" /\ moved + 1 \in DOMAIN pend /\ pend[moved + 1] = n
      /\ pend \in Seq(Nodes) /\ moved \in Nat
  BY DEF MovingOn, Moving, CacheInv, Types
<1>1. Types /\ ListInv /\ QueueInv
  BY DEF CacheInv
<1>2. n \in Nodes /\ (urged # "wrong" => n \in Used)
  <2>1. n \in Elems(pend) /\ n \in Nodes
    BY <1>0 DEF Elems
  <2> QED
    BY <1>0, <1>1, <2>1 DEF QueueInv, Exact
<1>3. Chains(chain) /\ (InUse(n) => key[n] \in Keys /\ n \in Elems(chain[Hash[key[n]]]))
  BY <1>1, <1>2 DEF ListInv
<1>4. Place(n) \in Heads /\ n \in Elems(s)
  <2>1. n \in Allocated
    BY DEF MovingOn
  <2>2. Place(n) \in Heads /\ n \in ToSet(chain[Place(n)])
    BY <2>1 DEF Place, Allocated
  <2> QED
    BY <2>2, ElemsIsToSet
<1>5. InUse(n) => Place(n) = Hash[key[n]]
  BY <1>3, <1>4, Constants DEF Chains
<1>6. s \in Seq(Nodes) /\ OnceEach(s) /\ s[1] = Place(n)
  BY <1>3, <1>4 DEF Chains
<1> DEFINE I == {i \in 1 .. Len(s) : s[i] = n \/ ~InUse(s[i])}
<1>7. Hole(n) = IF I # {} THEN Min(I) ELSE 0
  BY DEF Hole, SelectInSeq
<1> HIDE DEF s
<1>8. DOMAIN s = 1 .. Len(s)
  BY <1>6
<1>9. I \in SUBSET Nat /\ I # {}
  <2>1. PICK i \in DOMAIN s : s[i] = n
    BY <1>4 DEF Elems
  <2> QED
    BY <1>8, <2>1
<1>10. Hole(n) \in I /\ \A j \in I : Hole(n) <= j
  <2>1. PICK x \in I : \A y \in I : x <= y
    BY <1>9, LeastNatural
  <2>2. Hole(n) = Min(I)
    BY <1>7, <1>9
  <2> HIDE DEF I
  <2> QED
    BY <2>1, <2>2 DEF Min
<1>11. /\ Hole(n) \in DOMAIN s /\ (s[Hole(n)] # n => ~InUse(s[Hole(n)]))
       /\ \A i \in DOMAIN s : i < Hole(n) => InUse(s[i]) /\ s[i] # n
  BY <1>8, <1>10
<1> HIDE DEF n
<1> QED
  BY <1>0, <1>2, <1>3, <1>4, <1>5, <1>6, <1>11 DEF n, s

LEMMA StayStep ==
    ASSUME CacheInv, Stay PROVE CacheInv'
<1> USE DEF elems, lists, ledger, clock
<1>0. /\ pc = "move" /\ moved < Len(pend) /\ moved' = moved + 1
      /\ UNCHANGED <<elems, lists, pend, queue, rec, safe, clock, writers, arrived, pc,
                     ledger, urged>>
  BY DEF Stay, MovingOn
<1>1. Types /\ ListInv /\ QueueInv /\ HandInv
  BY DEF CacheInv
<1>2. moved' \in Nat /\ moved' <= Len(pend)
  BY <1>0, <1>1 DEF Types
<1>3. Types'
  BY <1>0, <1>1, <1>2 DEF Types
<1>4. ListInv'
  <2>1. basetime \in Nat /\ basetime \in Slots
    BY <1>1, Constants DEF Types
  <2> QED
    BY <1>0, <1>1, <2>1, ListsStay
<1>5. QueueInv'
  BY <1>0, <1>1, <1>2 DEF QueueInv, Exact, Used, InUse
<1>6. HandInv'
  BY <1>0, <1>1 DEF HandInv
<1> QED
  BY <1>3, <1>4, <1>5, <1>6 DEF CacheInv

(* One element of a list is replaced by one that is not in it.             *)
Replaced(s, i, x) == [s EXCEPT ![i] = x]

LEMMA ReplaceFacts ==
    ASSUME NEW X, NEW s \in Seq(X), OnceEach(s), NEW i \in DOMAIN s,
           NEW x \in X, x \notin Elems(s)
    PROVE  LET t == Replaced(s, i, x)
           IN  /\ t \in Seq(X) /\ OnceEach(t) /\ Len(t) = Len(s)
               /\ Elems(t) = (Elems(s) \ {s[i]}) \union {x}
<1> DEFINE t == Replaced(s, i, x)
<1>1. /\ t \in Seq(X) /\ Len(t) = Len(s) /\ DOMAIN t = DOMAIN s /\ t[i] = x
      /\ \A j \in DOMAIN s \ {i} : t[j] = s[j]
  BY DEF Replaced
<1>2. \A j \in DOMAIN s : s[j] # x
  BY DEF Elems
<1> HIDE DEF t
<1>3. OnceEach(t)
  <2> SUFFICES ASSUME NEW j \in DOMAIN s, NEW k \in DOMAIN s, t[j] = t[k] PROVE j = k
    BY <1>1 DEF OnceEach
  <2> QED
    BY <1>1, <1>2 DEF OnceEach
<1>4. \A y \in Elems(t) : y \in (Elems(s) \ {s[i]}) \union {x}
  <2> SUFFICES ASSUME NEW j \in DOMAIN s PROVE t[j] \in (Elems(s) \ {s[i]}) \union {x}
    BY <1>1 DEF Elems
  <2>1. CASE j = i
    BY <1>1, <2>1
  <2>2. CASE j # i
    BY <1>1, <2>2 DEF Elems, OnceEach
  <2> QED
    BY <2>1, <2>2
<1>5. \A y \in (Elems(s) \ {s[i]}) \union {x} : y \in Elems(t)
  <2>1. x \in Elems(t)
    BY <1>1 DEF Elems
  <2>2. ASSUME NEW y \in Elems(s), y # s[i] PROVE y \in Elems(t)
    <3>1. PICK j \in DOMAIN s : s[j] = y
      BY DEF Elems
    <3>2. j # i
      BY <2>2, <3>1
    <3> QED
      BY <1>1, <3>1, <3>2 DEF Elems
  <2> QED
    BY <2>1, <2>2
<1> QED
  BY <1>1, <1>3, <1>4, <1>5 DEF t

(* The element n that is copied to the first one of its bucket, b.         *)
LEMMA CopyFacts ==
    ASSUME CacheInv, CopyToHead
    PROVE  LET n == Moving
               b == Place(n)
           IN  /\ b \in Heads /\ b \in Nodes /\ n \in Nodes \ Heads /\ b \notin Used
               /\ InUse(n) => b = Hash[key[n]] /\ key[n] \in Keys
               /\ urged # "wrong" => InUse(n)
               /\ key' = [key EXCEPT ![b] = key[n]] /\ slot' = [slot EXCEPT ![b] = slot[n]]
               /\ cnt' = [cnt EXCEPT ![b] = cnt[n]] /\ tag' = [tag EXCEPT ![b] = tag[n]]
               /\ valid' = [valid EXCEPT ![b] = valid[n], ![n] = "free"]
               /\ pend' = [pend EXCEPT ![moved + 1] = b] /\ pend[moved + 1] = n
               /\ moved + 1 \in DOMAIN pend /\ moved' = moved + 1 /\ moved < Len(pend)
               /\ chain' = Unlinked(n) /\ lru' = Without(lru, {n})
               /\ pc = "move" /\ Used' \subseteq (Used \ {n}) \union {b}
               /\ b \in Used' <=> InUse(n)
               /\ InUse(n) => Used' = (Used \ {n}) \union {b}
               /\ chain[b][1] = b /\ ~InUse(b) /\ n \in Elems(chain[b])
               /\ UNCHANGED <<queue, rec, safe, clock, writers, arrived, pc, ledger, urged>>
<1> DEFINE n == Moving
           b == Place(n)
<1>0. MovingOn /\ Hole(n) = 1 /\ chain[b][1] # n
  BY DEF CopyToHead
<1>1. /\ n \in Nodes /\ b \in Heads /\ (urged # "wrong" => n \in Used)
      /\ InUse(n) => b = Hash[key[n]] /\ key[n] \in Keys
      /\ n \in Elems(chain[b]) /\ chain[b][1] = b
      /\ (chain[b][Hole(n)] # n => ~InUse(chain[b][Hole(n)]))
      /\ pc = "move" /\ moved + 1 \in DOMAIN pend /\ pend[moved + 1] = n
  BY <1>0, MovingFacts
<1>2. /\ key' = [key EXCEPT ![b] = key[n]] /\ slot' = [slot EXCEPT ![b] = slot[n]]
      /\ cnt' = [cnt EXCEPT ![b] = cnt[n]] /\ tag' = [tag EXCEPT ![b] = tag[n]]
      /\ valid' = [valid EXCEPT ![b] = valid[n], ![n] = "free"]
      /\ pend' = [pend EXCEPT ![moved + 1] = b]
      /\ chain' = Unlinked(n) /\ lru' = Without(lru, {n})
  BY DEF CopyToHead
<1>3. /\ moved' = moved + 1 /\ moved < Len(pend)
      /\ UNCHANGED <<queue, rec, safe, clock, writers, arrived, pc, ledger, urged>>
  BY <1>0 DEF MovingOn
<1> HIDE DEF n, b
<1>4. ~InUse(b) /\ n # b
  BY <1>0, <1>1
<1>5. n \notin Heads
  <2>1. Chains(chain)
    BY DEF CacheInv, ListInv
  <2>2. n \in Heads => n \in Elems(chain[n])
    BY <2>1, ListFacts DEF Chains, Elems
  <2> QED
    BY <1>1, <1>4, <2>1, <2>2 DEF Chains
<1>6. b \in Nodes /\ b \notin Used
  BY <1>1, <1>4, Constants DEF Used
<1>7. /\ Used' \subseteq (Used \ {n}) \union {b} /\ (b \in Used' <=> InUse(n))
      /\ InUse(n) => Used' = (Used \ {n}) \union {b}
  <2>1. valid \in [Nodes -> {"free", "inuse", "committed"}]
    BY <1>1 DEF CacheInv, Types
  <2>2. valid'[n] = "free" /\ valid'[b] = valid[n]
        /\ \A m \in Nodes \ {n, b} : valid'[m] = valid[m]
    BY <1>1, <1>2, <1>4, <1>6, <2>1
  <2> QED
    BY <1>1, <1>4, <1>6, <2>2 DEF Used, InUse
<1> QED
  BY <1>1, <1>2, <1>3, <1>4, <1>5, <1>6, <1>7 DEF n, b, Used

LEMMA CopyToHeadStep ==
    ASSUME CacheInv, CopyToHead PROVE CacheInv'
<1> USE DEF ledger, clock
<1> DEFINE n == Moving
           b == Place(n)
<1>0. /\ b \in Heads /\ b \in Nodes /\ n \in Nodes \ Heads /\ b \notin Used
      /\ InUse(n) => b = Hash[key[n]] /\ key[n] \in Keys
      /\ urged # "wrong" => InUse(n)
      /\ key' = [key EXCEPT ![b] = key[n]] /\ slot' = [slot EXCEPT ![b] = slot[n]]
      /\ cnt' = [cnt EXCEPT ![b] = cnt[n]] /\ tag' = [tag EXCEPT ![b] = tag[n]]
      /\ valid' = [valid EXCEPT ![b] = valid[n], ![n] = "free"]
      /\ pend' = [pend EXCEPT ![moved + 1] = b] /\ pend[moved + 1] = n
      /\ moved + 1 \in DOMAIN pend /\ moved' = moved + 1 /\ moved < Len(pend)
      /\ chain' = Unlinked(n) /\ lru' = Without(lru, {n})
      /\ pc = "move" /\ Used' \subseteq (Used \ {n}) \union {b}
      /\ b \in Used' <=> InUse(n)
      /\ InUse(n) => Used' = (Used \ {n}) \union {b}
      /\ chain[b][1] = b
      /\ UNCHANGED <<queue, rec, safe, clock, writers, arrived, pc, ledger, urged>>
  BY CopyFacts
<1> HIDE DEF n, b
<1>1. Types /\ ListInv /\ QueueInv /\ HandInv
  BY DEF CacheInv
<1>2. /\ key' \in [Nodes -> Keys \union {NoKey}] /\ slot' \in [Nodes -> Slots]
      /\ cnt' \in [Nodes -> Nat] /\ tag' \in [Nodes -> Slots]
      /\ valid' \in [Nodes -> {"free", "inuse", "committed"}]
  BY <1>0, <1>1 DEF Types
<1>3. /\ lru \in Seq(Nodes) /\ OnceEach(lru) /\ Elems(lru) = Linked(chain) \ Heads
      /\ InOrder(lru, tag) /\ Chains(chain)
      /\ pend \in Seq(Nodes)
      /\ urged # "wrong" => OnceEach(pend) /\ Elems(pend) = Used
  BY <1>0, <1>1 DEF Types, ListInv, QueueInv, Exact
<1>4. /\ Chains(chain') /\ Linked(chain') = Linked(chain) \ {n}
      /\ \A c \in Heads : Elems(chain'[c]) = Elems(chain[c]) \ {n}
  BY <1>0, <1>3, UnlinkChains
<1>5. /\ lru' \in Seq(Nodes) /\ OnceEach(lru') /\ Elems(lru') = Elems(lru) \ {n}
  BY <1>0, <1>3, UnlinkFacts
<1>6. InOrder(lru', tag')
  <2>1. InOrder(lru', tag)
    BY <1>0, <1>3, UnlinkKeepsOrder
  <2>2. \A i \in DOMAIN lru' : lru'[i] \in Elems(lru')
    BY DEF Elems
  <2>3. \A i \in DOMAIN lru' : lru'[i] \in Nodes /\ lru'[i] # b
    <3>1. Elems(lru') \subseteq Nodes
      BY <1>5, ListFacts
    <3>2. b \in Heads
      BY <1>0
    <3>3. b \notin Elems(lru')
      BY <1>3, <1>5, <3>2
    <3> QED
      BY <2>2, <3>1, <3>3
  <2>4. \A i \in DOMAIN lru' : tag'[lru'[i]] = tag[lru'[i]]
    BY <1>0, <1>1, <2>3 DEF Types
  <2> QED
    BY <2>1, <2>4 DEF InOrder
<1>7. /\ pend' \in Seq(Nodes) /\ Len(pend') = Len(pend)
      /\ urged # "wrong" => OnceEach(pend') /\ Elems(pend') = Used'
  <2>1. urged # "wrong" => b \notin Elems(pend)
    BY <1>0, <1>3
  <2> DEFINE p == moved + 1
             q == Replaced(pend, p, b)
  <2>2. pend' = q /\ p \in DOMAIN pend
    BY <1>0 DEF Replaced
  <2> HIDE DEF p
  <2>3. q \in Seq(Nodes) /\ Len(q) = Len(pend)
    BY <1>0, <1>3, <2>2 DEF Replaced
  <2>4. urged # "wrong" => OnceEach(q) /\ Elems(q) = (Elems(pend) \ {pend[p]}) \union {b}
    BY <1>0, <1>3, <2>1, <2>2, ReplaceFacts
  <2> HIDE DEF q
  <2> QED
    BY <1>0, <1>3, <2>2, <2>3, <2>4 DEF p
<1>8. moved' \in Nat /\ moved' <= Len(pend)
  BY <1>0, <1>1 DEF Types
<1>9. Types'
  BY <1>0, <1>1, <1>2, <1>5, <1>7, <1>8 DEF Types
<1>10. ListInv'
  <2>1. \A m \in Nodes : tag'[m] <= basetime'
    <3>1. tag \in [Nodes -> Slots] /\ \A m \in Nodes : tag[m] <= basetime
      BY <1>1 DEF Types, ListInv
    <3> QED
      BY <1>0, <3>1
  <2>2. ASSUME NEW m \in Nodes, InUse(m)'
        PROVE  key'[m] \in Keys /\ m \in Elems(chain'[Hash[key'[m]]])
    <3>1. m \in Used'
      BY <2>2 DEF Used
    <3>2. CASE m = b
      <4>1. key'[m] = key[n] /\ key[n] \in Keys /\ b = Hash[key[n]]
        BY <1>0, <1>1, <3>1, <3>2 DEF Types
      <4>2. b \in Elems(chain'[b])
        <5>1. chain'[b] \in Seq(Nodes) /\ chain'[b] # <<>> /\ chain'[b][1] = b
          BY <1>0, <1>4 DEF Chains
        <5> QED
          BY <5>1, ListFacts DEF Elems
      <4> QED
        BY <1>0, <3>2, <4>1, <4>2
    <3>3. CASE m # b
      <4>1. m \in Used /\ m # n
        BY <1>0, <3>1, <3>3
      <4>2. key'[m] = key[m]
        BY <1>0, <1>1, <3>3 DEF Types
      <4>3. key[m] \in Keys /\ m \in Elems(chain[Hash[key[m]]]) /\ Hash[key[m]] \in Heads
        BY <1>1, <4>1, Constants DEF ListInv, Used
      <4> QED
        BY <1>4, <4>1, <4>2, <4>3
    <3> QED
      BY <3>2, <3>3
  <2>3. Elems(lru') = Linked(chain') \ Heads
    BY <1>3, <1>4, <1>5
  <2> QED
    BY <1>4, <1>5, <1>6, <2>1, <2>2, <2>3 DEF ListInv
<1>11. QueueInv'
  BY <1>0, <1>1, <1>7, <1>8 DEF QueueInv, Exact, HandInv
<1>12. HandInv'
  <2>1. cnt \in [Nodes -> Nat] /\ \A m \in Nodes : cnt[m] <= arrived
    BY <1>1 DEF Types, HandInv
  <2>2. \A m \in Nodes : cnt'[m] <= arrived
    BY <1>0, <2>1
  <2> QED
    BY <1>0, <1>1, <2>2 DEF HandInv
<1> QED
  BY <1>9, <1>10, <1>11, <1>12 DEF CacheInv

(* The places h and i of the bucket b that are exchanged, i being that of  *)
(* the pending entry.                                                      *)
LEMMA SwapFacts ==
    ASSUME CacheInv, Swap
    PROVE  LET n == Moving
               b == Place(n)
               s == chain[b]
           IN  \E h, i \in DOMAIN s :
                 /\ 1 < h /\ h < i /\ s[i] = n /\ ~InUse(s[h])
                 /\ \A j \in DOMAIN s : j < h => InUse(s[j]) /\ s[j] # n
                 /\ chain' = [chain EXCEPT ![b] = Exchange(@, h, i)]
                 /\ b \in Heads /\ s \in Seq(Nodes) /\ OnceEach(s)
                 /\ urged # "wrong" => n \in Used
                 /\ pc = "move" /\ moved + 1 \in DOMAIN pend /\ pend[moved + 1] = n
                 /\ moved' = moved + 1 /\ moved < Len(pend)
                 /\ UNCHANGED <<elems, lru, pend, queue, rec, safe, clock, writers,
                                arrived, pc, ledger, urged>>
<1> DEFINE n == Moving
           b == Place(n)
           s == chain[b]
           h == Hole(n)
           I == {i \in 1 .. Len(s) : s[i] = n}
           i == IF I # {} THEN Min(I) ELSE 0
<1>0. MovingOn /\ h # 1 /\ s[h] # n
  BY DEF Swap
<1>1. /\ b \in Heads /\ s \in Seq(Nodes) /\ OnceEach(s) /\ n \in Elems(s)
      /\ urged # "wrong" => n \in Used
      /\ h \in DOMAIN s /\ (s[h] # n => ~InUse(s[h]))
      /\ \A j \in DOMAIN s : j < h => InUse(s[j]) /\ s[j] # n
      /\ pc = "move" /\ moved + 1 \in DOMAIN pend /\ pend[moved + 1] = n
  BY <1>0, MovingFacts
<1>2. chain' = [chain EXCEPT ![b] = Exchange(@, h, i)]
  BY DEF Swap, SelectInSeq
<1>3. /\ moved' = moved + 1 /\ moved < Len(pend)
      /\ UNCHANGED <<elems, lru, pend, queue, rec, safe, clock, writers, arrived, pc,
                     ledger, urged>>
  BY <1>0 DEF MovingOn, Swap
<1> HIDE DEF n, s, h
<1>4. DOMAIN s = 1 .. Len(s) /\ Len(s) \in Nat
  BY <1>1
<1>5. i \in I
  <2>1. PICK j \in DOMAIN s : s[j] = n
    BY <1>1 DEF Elems
  <2>2. j \in I /\ I \in SUBSET Nat
    BY <1>4, <2>1
  <2>3. PICK x \in I : \A y \in I : x <= y
    BY <2>2, LeastNatural
  <2> HIDE DEF I
  <2>4. Min(I) \in I
    BY <2>3 DEF Min
  <2> QED
    BY <2>2, <2>4
<1> HIDE DEF i
<1>6. i \in DOMAIN s /\ s[i] = n
  BY <1>4, <1>5
<1>7. 1 < h /\ h < i
  BY <1>0, <1>1, <1>4, <1>6
<1>8. ~InUse(s[h])
  BY <1>0, <1>1
<1> HIDE DEF b
<1>9. \E x, y \in DOMAIN s :
        /\ 1 < x /\ x < y /\ s[y] = n /\ ~InUse(s[x])
        /\ \A j \in DOMAIN s : j < x => InUse(s[j]) /\ s[j] # n
        /\ chain' = [chain EXCEPT ![b] = Exchange(@, x, y)]
  BY <1>1, <1>2, <1>6, <1>7, <1>8
<1> QED
  BY <1>1, <1>3, <1>9 DEF n, b, s

LEMMA SwapStep ==
    ASSUME CacheInv, Swap PROVE CacheInv'
<1> USE DEF elems, ledger, clock
<1> DEFINE n == Moving
           b == Place(n)
           s == chain[b]
<1>0. PICK h, i \in DOMAIN s :
        /\ 1 < h /\ h < i /\ s[i] = n /\ ~InUse(s[h])
        /\ \A j \in DOMAIN s : j < h => InUse(s[j]) /\ s[j] # n
        /\ chain' = [chain EXCEPT ![b] = Exchange(@, h, i)]
        /\ b \in Heads /\ s \in Seq(Nodes) /\ OnceEach(s)
        /\ pc = "move" /\ moved + 1 \in DOMAIN pend /\ pend[moved + 1] = n
        /\ moved' = moved + 1 /\ moved < Len(pend)
        /\ UNCHANGED <<elems, lru, pend, queue, rec, safe, clock, writers,
                       arrived, pc, ledger, urged>>
  BY SwapFacts
<1> DEFINE t == Exchange(s, h, i)
<1>1. Types /\ ListInv /\ QueueInv /\ HandInv /\ Chains(chain)
  BY DEF CacheInv, ListInv
<1>2. chain' = [chain EXCEPT ![b] = t]
  BY <1>0
<1> HIDE DEF n, b
<1>3. /\ t \in Seq(Nodes) /\ OnceEach(t) /\ Elems(t) = Elems(s) /\ Len(t) = Len(s)
      /\ \A k \in DOMAIN s \ {h, i} : t[k] = s[k]
  BY <1>0, ExchangeFacts
<1>4. s # <<>> /\ s[1] = b
  BY <1>0, <1>1 DEF Chains
<1>5. 1 \in DOMAIN s \ {h, i}
  BY <1>0
<1>6. t # <<>> /\ t[1] = b
  <2>1. Len(s) # 0
    BY <1>0, <1>4
  <2> QED
    BY <1>3, <1>4, <1>5, <2>1
<1>7. chain \in [Heads -> Seq(Nodes)] /\ b \in Heads
  BY <1>0, <1>1 DEF Chains
<1> HIDE DEF t
<1>8. chain'[b] = t /\ \A c \in Heads \ {b} : chain'[c] = chain[c]
  BY <1>2, <1>7
<1>9. \A c \in Heads : Elems(chain'[c]) = Elems(chain[c])
  BY <1>3, <1>8
<1>10. Chains(chain')
  <2>1. chain' \in [Heads -> Seq(Nodes)]
    BY <1>2, <1>3, <1>7
  <2>2. \A c \in Heads : chain'[c] # <<>> /\ chain'[c][1] = c /\ OnceEach(chain'[c])
    BY <1>1, <1>3, <1>6, <1>8 DEF Chains
  <2>3. \A c, d \in Heads : \A m \in Elems(chain'[c]) : m \in Elems(chain'[d]) => c = d
    BY <1>1, <1>9 DEF Chains
  <2> QED
    BY <2>1, <2>2, <2>3 DEF Chains
<1>11. Linked(chain') = Linked(chain)
  BY <1>9 DEF Linked
<1>12. moved' \in Nat /\ moved' <= Len(pend)
  BY <1>0, <1>1 DEF Types
<1>13. Types'
  BY <1>0, <1>1, <1>12 DEF Types
<1>14. ListInv'
  <2>1. \A m \in Nodes : InUse(m)' => key'[m] \in Keys /\ m \in Elems(chain'[Hash[key'[m]]])
    <3> SUFFICES ASSUME NEW m \in Nodes, InUse(m)
                 PROVE  key[m] \in Keys /\ m \in Elems(chain'[Hash[key[m]]])
      BY <1>0 DEF InUse
    <3>1. key[m] \in Keys /\ m \in Elems(chain[Hash[key[m]]])
      BY <1>1 DEF ListInv
    <3> QED
      BY <1>9, <3>1, Constants
  <2>2. /\ OnceEach(lru') /\ Elems(lru') = Linked(chain') \ Heads /\ InOrder(lru', tag')
        /\ \A m \in Nodes : tag'[m] <= basetime'
    BY <1>0, <1>1, <1>11 DEF ListInv
  <2> QED
    BY <1>10, <2>1, <2>2 DEF ListInv
<1>15. QueueInv'
  BY <1>0, <1>1, <1>12 DEF QueueInv, Exact, Used, InUse
<1>16. HandInv'
  BY <1>0, <1>1 DEF HandInv
<1> QED
  BY <1>13, <1>14, <1>15, <1>16 DEF CacheInv

LEMMA NextInv == CacheInv /\ [Next]_vars => CacheInv'
  BY ArriveStep, UpdateStep, TakeFreeStep, ReuseStep, MallocStep, IdleStep, FlushEventStep,
     UrgentPurgeStep, QueueSafeStep, FlushEndsStep, ExitStep, StayStep, CopyToHeadStep,
     SwapStep DEF Next

(* The shape of the cache at every moment, in the middle of a purge too:   *)
(* which elements are in a bucket's list, in the queue of pending entries, *)
(* in the hands of insert_func or of the writer, and what each of these    *)
(* may be.  The theorems below rest on it.                                 *)
THEOREM CacheInvHolds == Spec => []CacheInv
<1>1. Init => CacheInv
  BY InitInv
<1>2. CacheInv /\ [Next]_vars => CacheInv'
  BY NextInv
<1> QED
  BY <1>1, <1>2, PTL DEF Spec

(* Nothing is allocated but what is linked.                                *)
LEMMA AllocatedIsLinked == ASSUME Chains(chain) PROVE Allocated = Linked(chain)
<1>1. \A b \in Heads : ToSet(chain[b]) = Elems(chain[b]) /\ Elems(chain[b]) \subseteq Nodes
  BY ElemsIsToSet, ListFacts DEF Chains
<1>2. \A n : n \in Allocated => n \in Linked(chain)
  BY <1>1 DEF Allocated, Linked
<1>3. \A n : n \in Linked(chain) => n \in Allocated
  BY <1>1 DEF Allocated, Linked
<1> QED
  BY <1>2, <1>3

LEMMA CacheIsSound == ASSUME CacheInv PROVE ListsSound
<1>1. Types /\ ListInv /\ QueueInv /\ HandInv /\ Chains(chain)
  BY DEF CacheInv, ListInv
<1>2. TypeOK
  <2>1. cnt \in [Nodes -> 0 .. MaxRecords]
    <3>1. arrived \in Nat /\ arrived <= MaxRecords /\ cnt \in [Nodes -> Nat]
          /\ \A n \in Nodes : cnt[n] <= arrived
      BY <1>1, Constants DEF Types, HandInv
    <3>2. \A n \in Nodes : cnt[n] \in 0 .. MaxRecords
      BY <3>1, Constants
    <3> QED
      BY <3>1, <3>2
  <2>2. moved \in 0 .. Len(pend)
    BY <1>1 DEF Types, QueueInv
  <2> QED
    BY <1>1, <2>1, <2>2 DEF TypeOK, Types, QueueInv
<1>3. \A b \in Heads : chain[b] # <<>> /\ chain[b][1] = b
  BY <1>1 DEF Chains
<1>4. ASSUME NEW b \in Heads, NEW c \in Heads, NEW i \in DOMAIN chain[b],
             NEW j \in DOMAIN chain[c], chain[b][i] = chain[c][j]
      PROVE  b = c /\ i = j
  <2>1. b = c
    <3>1. chain[b][i] \in Elems(chain[b]) /\ chain[b][i] \in Elems(chain[c])
      BY <1>4 DEF Elems
    <3> QED
      BY <1>1, <3>1 DEF Chains
  <2> QED
    BY <1>1, <1>4, <2>1 DEF Chains, OnceEach
<1>5. IsInjective(lru)
  BY <1>1 DEF ListInv, OnceEach, IsInjective
<1>6. ToSet(lru) = Allocated \ Heads
  BY <1>1, ElemsIsToSet, AllocatedIsLinked DEF ListInv
<1>7. \A i, j \in DOMAIN lru : i < j => tag[lru[i]] <= tag[lru[j]]
  BY <1>1 DEF ListInv, InOrder
<1>8. \A n \in Nodes : InUse(n) => n \in Allocated
  <2>1. \A n \in Nodes : InUse(n) => n \in Linked(chain)
    BY <1>1, Constants DEF ListInv, Linked
  <2> QED
    BY <1>1, <2>1, AllocatedIsLinked
<1> QED
  BY <1>2, <1>3, <1>4, <1>5, <1>6, <1>7, <1>8 DEF ListsSound

(* The chains and the LRU list stay lists, each element in one place; none *)
(* in use is freed, and the queue is never longer than its array: whatever *)
(* RetireElem, ReBuildChain, BuildChain and sql_cache_flush_pending do, in *)
(* any order and for every hash.                                           *)
THEOREM ListsStaySound == Spec => []ListsSound
<1>1. CacheInv => ListsSound
  BY CacheIsSound
<1> QED
  BY <1>1, CacheInvHolds, PTL

-----------------------------------------------------------------------------
(* What a search finds: SearchInv, given CacheInv.                         *)
LEMMA SearchInit == Init => SearchInv
BY DEF Init, SearchInv, Used, InUse, OneEntry

(* The chains and entries are what they were, or some elements were freed. *)
LEMMA SearchStays ==
    ASSUME CacheInv, SearchInv, urged # "wrong",
           NoMemory \/ Retry \/ Roll \/ WriterEnds \/ Stopped \/ UNCHANGED vars \/ QueueSafe
             \/ UrgentPurge \/ Exit \/ Dangling
    PROVE  SearchInv'
<1> USE DEF elems, lists, ledger, clock
<1>1. CASE Retry \/ QueueSafe \/ UrgentPurge \/ Exit \/ NoMemory \/ Dangling
  <2>1. \/ pc' \in {"exited", "mangled", "urgent"}
        \/ pc' = "resume" /\ urged' \in {"now", "wrong"}
        \/ pc' \in {"insert", "run"} /\ pc = "resume" /\ urged' = urged
    BY <1>1 DEF Retry, QueueSafe, UrgentPurge, Exit, NoMemory, Dangling
  <2> QED
    BY <2>1 DEF SearchInv
<1>2. CASE Roll \/ WriterEnds \/ Stopped \/ UNCHANGED vars
  <2>1. UNCHANGED <<elems, lists, pend, moved, pc, urged>>
    BY <1>2 DEF Roll, WriterEnds, Stopped, vars
  <2> QED
    BY <2>1 DEF SearchInv, Used, InUse, OneEntry, NoneAhead, Behind
<1> QED
  BY <1>1, <1>2

LEMMA SearchArrive ==
    ASSUME CacheInv, SearchInv, urged # "wrong", NEW k \in Keys, NEW s \in Slots, Arrive(k, s)
    PROVE  SearchInv'
<1> USE DEF elems, lists, ledger, clock
<1>1. /\ pc = "run" /\ pc' = "insert"
      /\ UNCHANGED <<elems, pend, moved, urged>>
  BY DEF Arrive
<1>2. \A b \in Heads : \A x, y : Ahead(chain'[b], x, y) => Ahead(chain[b], x, y)
  <2>1. CASE Retirable
    <3>1. lru # <<>> /\ chain' = Unlinked(lru[1]) /\ lru[1] \in Nodes \ Heads
      BY <2>1, ListedFacts DEF Arrive, Retirable
    <3> QED
      BY <3>1, UnlinkChains DEF CacheInv, ListInv
  <2>2. CASE ~Retirable
    BY <2>2 DEF Arrive
  <2> QED
    BY <2>1, <2>2
<1>3. Used' = Used /\ \A n \in Nodes : InUse(n)' = InUse(n)
  BY <1>1 DEF Used, InUse
<1>4. \A n : NoneAhead(n) => NoneAhead(n)'
  BY <1>2, <1>3 DEF NoneAhead, Behind, InUse
<1>5. OneEntry => OneEntry'
  BY <1>1, <1>3 DEF OneEntry
<1> QED
  BY <1>1, <1>3, <1>4, <1>5 DEF SearchInv

LEMMA SearchUpdate ==
    ASSUME CacheInv, SearchInv, urged # "wrong", Update PROVE SearchInv'
<1> USE DEF elems, lists, ledger, clock
<1> DEFINE e == Line[Found]
<1>1. /\ pc = "insert" /\ pc' = "run" /\ cnt' = [cnt EXCEPT ![e] = @ + 1]
      /\ UNCHANGED <<key, slot, valid, chain, pend, moved, urged>>
  BY DEF Update, Inserting
<1>2. e \in Nodes
  BY <1>1, FoundFacts DEF Update
<1> HIDE DEF e
<1>3. Used' = Used /\ \A n \in Nodes : InUse(n)' = InUse(n)
  BY <1>1 DEF Used, InUse
<1>4. \A n : NoneAhead(n) => NoneAhead(n)'
  BY <1>1, <1>3 DEF NoneAhead, Behind, InUse
<1>5. OneEntry => OneEntry'
  <2>1. cnt \in [Nodes -> Nat] /\ Threshold \in Nat
    BY Constants DEF CacheInv, Types
  <2>2. \A n \in Nodes : cnt'[n] <= Threshold => cnt[n] <= Threshold
    BY <1>1, <1>2, <2>1
  <2> QED
    BY <1>1, <1>3, <2>2 DEF OneEntry
<1> QED
  BY <1>1, <1>3, <1>4, <1>5 DEF SearchInv

(* The entry at n is new: nothing free is ahead of it, and, while there    *)
(* was no urgent purge, no entry of its chain matched the record.          *)
LEMMA SearchEnter ==
    ASSUME CacheInv, SearchInv, urged # "wrong", pc = "insert", NEW n \in Nodes, ~InUse(n),
           NEW linked, EnterAt(n, linked),
           \A b \in Heads : \A x, y : y # n /\ Ahead(linked[b], x, y) => Ahead(chain[b], x, y),
           \A b \in Heads : \A x \in Nodes : Ahead(linked[b], x, n) => InUse(x),
           urged = "never" => \A m \in Elems(Line) : ~Matches(m)
    PROVE  SearchInv'
<1> USE DEF elems, lists, ledger, clock
<1>0. /\ key' = [key EXCEPT ![n] = rec[1]] /\ slot' = [slot EXCEPT ![n] = rec[2]]
      /\ cnt' = [cnt EXCEPT ![n] = 1] /\ valid' = [valid EXCEPT ![n] = "inuse"]
      /\ chain' = linked /\ pc' \in {"run", "urgent"}
      /\ UNCHANGED <<pend, moved, urged>>
  BY DEF EnterAt
<1>1. Types /\ ListInv
  BY DEF CacheInv
<1>2. /\ key'[n] = rec[1] /\ slot'[n] = rec[2] /\ cnt'[n] = 1 /\ InUse(n)'
      /\ \A m \in Nodes \ {n} : /\ key'[m] = key[m] /\ slot'[m] = slot[m]
                                /\ cnt'[m] = cnt[m] /\ InUse(m)' = InUse(m)
  BY <1>0, <1>1 DEF Types, InUse
<1>3. ASSUME urged # "now", NEW m \in Used' PROVE NoneAhead(m)'
  <2> SUFFICES ASSUME NEW b \in Heads, NEW x \in Nodes, Ahead(linked[b], x, m)
               PROVE  InUse(x)'
    BY <1>0 DEF NoneAhead, Behind, InUse
  <2>1. CASE m = n
    BY <1>2, <2>1
  <2>2. CASE m # n
    <3>1. m \in Used
      BY <1>2, <2>2 DEF Used
    <3>2. NoneAhead(m) /\ Ahead(chain[b], x, m)
      BY <1>3, <2>2, <3>1 DEF SearchInv
    <3> QED
      BY <1>2, <3>2 DEF NoneAhead, Behind, InUse
  <2> QED
    BY <2>1, <2>2
<1>4. ASSUME urged = "never" PROVE OneEntry'
  <2>1. OneEntry
    BY <1>4 DEF SearchInv
  <2>2. ASSUME NEW m \in Nodes \ {n}, InUse(m), key[m] = rec[1], slot[m] = rec[2],
               cnt[m] <= Threshold
        PROVE  FALSE
    <3>1. m \in Elems(Line)
      BY <1>1, <2>2 DEF ListInv, Line, Bucket
    <3> QED
      BY <1>4, <2>2, <3>1 DEF Matches
  <2> SUFFICES ASSUME NEW l \in Nodes, NEW m \in Nodes, InUse(l)', InUse(m)',
                      key'[l] = key'[m], slot'[l] = slot'[m],
                      cnt'[l] <= Threshold, cnt'[m] <= Threshold, l # m
               PROVE  FALSE
    BY DEF OneEntry
  <2>3. CASE l = n
    BY <1>2, <2>2, <2>3
  <2>4. CASE m = n
    BY <1>2, <2>2, <2>4
  <2>5. CASE l # n /\ m # n
    BY <1>2, <2>1, <2>5 DEF OneEntry
  <2> QED
    BY <2>3, <2>4, <2>5
<1> QED
  BY <1>0, <1>3, <1>4 DEF SearchInv

(* Who is ahead of an element is in its chain, which is the only one.      *)
LEMMA AheadFacts ==
    ASSUME NEW s, NEW x, NEW y, Ahead(s, x, y)
    PROVE  x \in Elems(s) /\ y \in Elems(s)
BY DEF Ahead, Elems

LEMMA SearchTakeFree ==
    ASSUME CacheInv, SearchInv, urged # "wrong", TakeFree PROVE SearchInv'
<1> DEFINE n == Line[Found]
<1>1. /\ pc = "insert" /\ n \in Nodes /\ ~InUse(n) /\ EnterAt(n, chain)
      /\ n \in Elems(Line) /\ Bucket \in Heads /\ Found \in DOMAIN Line
      /\ \A i \in DOMAIN Line : i < Found => InUse(Line[i]) /\ ~Matches(Line[i])
      /\ OnceEach(Line) /\ Line \in Seq(Nodes)
  BY FoundFacts DEF TakeFree, Inserting
<1>2. n = Line[Found]
  OBVIOUS
<1> HIDE DEF n
<1>3. DOMAIN Line \subseteq Nat
  BY <1>1
<1>4. ASSUME NEW b \in Heads, NEW x \in Nodes, Ahead(chain[b], x, n)
      PROVE  InUse(x)
  <2>1. b = Bucket
    <3>1. n \in Elems(chain[b]) /\ n \in Elems(chain[Bucket])
      BY <1>1, <1>4, AheadFacts DEF Line
    <3> QED
      BY <1>1, <3>1 DEF CacheInv, ListInv, Chains
  <2>2. PICK i, j \in DOMAIN Line : i < j /\ Line[i] = x /\ Line[j] = n
    BY <1>4, <2>1 DEF Ahead, Line
  <2>3. j = Found
    BY <1>1, <1>2, <2>2 DEF OnceEach
  <2> QED
    BY <1>1, <2>2, <2>3
<1>5. ASSUME urged = "never", NEW m \in Elems(Line), Matches(m) PROVE FALSE
  <2>1. PICK j \in DOMAIN Line : Line[j] = m
    BY DEF Elems
  <2>2. InUse(m) /\ m \in Nodes /\ m \in Used
    BY <1>1, <1>5, <2>1 DEF Matches, Used
  <2>3. Found < j
    <3>1. ~(j < Found) /\ j # Found
      BY <1>1, <1>2, <1>5, <2>1, <2>2
    <3> QED
      BY <1>1, <1>3, <3>1
  <2>4. Ahead(chain[Bucket], n, m)
    BY <1>1, <1>2, <2>1, <2>3 DEF Ahead, Line
  <2>5. NoneAhead(m)
    BY <1>1, <1>5, <2>2 DEF SearchInv
  <2> QED
    BY <1>1, <2>4, <2>5 DEF NoneAhead, Behind, InUse
<1> QED
  BY <1>1, <1>4, <1>5, SearchEnter

LEMMA SearchReuse ==
    ASSUME CacheInv, SearchInv, urged # "wrong", Reuse PROVE SearchInv'
<1> DEFINE n == lru[1]
           d == [Unlinked(n) EXCEPT ![Bucket] = Append(@, n)]
<1>1. /\ pc = "insert" /\ Found = 0 /\ Bucket \in Heads
      /\ n \in Nodes \ Heads /\ ~InUse(n) /\ EnterAt(n, d)
      /\ \A b \in Heads \ {Bucket} : Elems(d[b]) = Elems(chain[b]) \ {n}
      /\ \A b \in Heads : \A x, y : Ahead(d[b], x, y) =>
           (Ahead(chain[b], x, y) \/ (b = Bucket /\ y = n /\ x \in Elems(Line)))
  BY ReuseFacts
<1> HIDE DEF n, d
<1>2. \A m \in Elems(Line) : InUse(m) /\ ~Matches(m)
  BY <1>1, FoundFacts
<1>3. ASSUME NEW b \in Heads, NEW x \in Nodes, Ahead(d[b], x, n)
      PROVE  InUse(x)
  <2>1. b = Bucket
    BY <1>1, <1>3, AheadFacts
  <2>2. x \in Elems(Line)
    BY <1>1, <1>3, <2>1, AheadFacts DEF Line
  <2> QED
    BY <1>2, <2>2
<1> QED
  BY <1>1, <1>2, <1>3, SearchEnter

LEMMA SearchMalloc ==
    ASSUME CacheInv, SearchInv, urged # "wrong", Malloc PROVE SearchInv'
<1>1. PICK n \in Nodes \ Linked(chain) :
             LET d == [chain EXCEPT ![Bucket] = Append(@, n)]
             IN  /\ pc = "insert" /\ Found = 0 /\ Bucket \in Heads
                 /\ n \notin Heads /\ ~InUse(n) /\ EnterAt(n, d)
                 /\ \A b \in Heads \ {Bucket} : d[b] = chain[b]
                 /\ \A x, y : Ahead(d[Bucket], x, y) =>
                      (Ahead(Line, x, y) \/ (y = n /\ x \in Elems(Line)))
  BY MallocFacts
<1> DEFINE d == [chain EXCEPT ![Bucket] = Append(@, n)]
<1>2. /\ pc = "insert" /\ Found = 0 /\ Bucket \in Heads /\ ~InUse(n) /\ EnterAt(n, d)
      /\ \A b \in Heads \ {Bucket} : d[b] = chain[b]
      /\ \A x, y : Ahead(d[Bucket], x, y) =>
           (Ahead(Line, x, y) \/ (y = n /\ x \in Elems(Line)))
  BY <1>1
<1> HIDE DEF d
<1>3. \A m \in Elems(Line) : InUse(m) /\ ~Matches(m)
  BY <1>2, FoundFacts
<1>4. ASSUME NEW b \in Heads, NEW x, NEW y, Ahead(d[b], x, y)
      PROVE  Ahead(chain[b], x, y) \/ (b = Bucket /\ y = n /\ x \in Elems(Line))
  <2>1. CASE b = Bucket
    BY <1>2, <1>4, <2>1 DEF Line
  <2>2. CASE b # Bucket
    BY <1>2, <1>4, <2>2
  <2> QED
    BY <2>1, <2>2
<1>5. \A b \in Heads : n \notin Elems(chain[b])
  BY DEF Linked
<1>6. ASSUME NEW b \in Heads, NEW x \in Nodes, Ahead(d[b], x, n)
      PROVE  InUse(x)
  BY <1>3, <1>4, <1>5, <1>6, AheadFacts
<1> QED
  BY <1>2, <1>3, <1>4, <1>6, SearchEnter

LEMMA SearchFlushEvent ==
    ASSUME CacheInv, SearchInv, urged # "wrong", FlushEvent PROVE SearchInv'
<1>1. /\ pc = "run" /\ pc' = "move" /\ moved' = 0 /\ FlushAndFork /\ urged' = urged
  BY DEF FlushEvent
<1>2. /\ \A n \in Nodes : valid'[n] = "inuse" => valid[n] = "inuse"
      /\ UNCHANGED <<key, slot, cnt>>
  BY <1>1, ForkFacts
<1>3. OneEntry => OneEntry'
  BY <1>2 DEF OneEntry, InUse
<1> QED
  BY <1>1, <1>3 DEF SearchInv

(* The entry that is moved now has no free element ahead of it, nor have   *)
(* those moved before.                                                     *)
LEMMA SearchMoved ==
    ASSUME SearchInv, MovingOn, CacheInv, urged # "wrong",
           \A i \in 1 .. moved : Behind(chain', valid', pend'[i]),
           Behind(chain', valid', pend'[moved + 1]), OneEntry => OneEntry'
    PROVE  SearchInv'
<1>1. /\ pc = "move" /\ moved' = moved + 1 /\ moved \in Nat
      /\ UNCHANGED <<urged, pc>>
  BY DEF MovingOn, CacheInv, Types
<1>2. \A i \in 1 .. moved' : i \in 1 .. moved \/ i = moved + 1
  BY <1>1
<1> QED
  BY <1>1, <1>2 DEF SearchInv, NoneAhead

LEMMA SearchStay ==
    ASSUME CacheInv, SearchInv, urged # "wrong", Stay PROVE SearchInv'
<1> USE DEF elems, lists
<1> DEFINE n == Moving
           s == chain[Place(n)]
<1>1. MovingOn /\ s[Hole(n)] = n /\ UNCHANGED <<elems, lists, pend>>
  BY DEF Stay
<1>2. /\ n \in Nodes /\ Place(n) \in Heads /\ s \in Seq(Nodes) /\ OnceEach(s)
      /\ n \in Elems(s) /\ Hole(n) \in DOMAIN s
      /\ \A i \in DOMAIN s : i < Hole(n) => InUse(s[i]) /\ s[i] # n
      /\ pc = "move" /\ pend[moved + 1] = n
  BY <1>1, MovingFacts
<1>3. \A m : NoneAhead(m) => NoneAhead(m)'
  BY <1>1 DEF NoneAhead, Behind, InUse
<1>4. NoneAhead(n)
  <2> SUFFICES ASSUME NEW b \in Heads, NEW x \in Nodes, Ahead(chain[b], x, n)
               PROVE  InUse(x)
    BY DEF NoneAhead, Behind, InUse
  <2>1. b = Place(n)
    BY <1>2, AheadFacts DEF CacheInv, ListInv, Chains
  <2>2. PICK i, j \in DOMAIN s : i < j /\ s[i] = x /\ s[j] = n
    BY <2>1 DEF Ahead
  <2>3. j = Hole(n)
    BY <1>1, <1>2, <2>2 DEF OnceEach
  <2> QED
    BY <1>2, <2>2, <2>3
<1>5. OneEntry => OneEntry'
  BY <1>1 DEF OneEntry, InUse
<1> HIDE DEF n
<1>6. \A i \in 1 .. moved : Behind(chain', valid', pend'[i])
  BY <1>1, <1>2, <1>3 DEF SearchInv, NoneAhead
<1>7. Behind(chain', valid', pend'[moved + 1])
  BY <1>1, <1>2, <1>3, <1>4 DEF NoneAhead
<1> QED
  BY <1>1, <1>5, <1>6, <1>7, SearchMoved

LEMMA SearchCopyToHead ==
    ASSUME CacheInv, SearchInv, urged # "wrong", CopyToHead PROVE SearchInv'
<1> DEFINE n == Moving
           b == Place(n)
<1>0. /\ b \in Heads /\ b \in Nodes
      /\ n \in Nodes \ Heads /\ InUse(n) /\ n \in Used /\ b \notin Used
      /\ key' = [key EXCEPT ![b] = key[n]] /\ slot' = [slot EXCEPT ![b] = slot[n]]
      /\ cnt' = [cnt EXCEPT ![b] = cnt[n]]
      /\ pend' = [pend EXCEPT ![moved + 1] = b] /\ pend[moved + 1] = n
      /\ moved + 1 \in DOMAIN pend
      /\ chain' = Unlinked(n) /\ pc = "move" /\ Used' = (Used \ {n}) \union {b}
  BY CopyFacts DEF Used
<1>1. MovingOn
  BY DEF CopyToHead
<1> HIDE DEF n, b
<1>2. Types /\ ListInv /\ Chains(chain)
  BY DEF CacheInv, ListInv
<1>3. /\ Chains(chain')
      /\ \A c \in Heads : Elems(chain'[c]) = Elems(chain[c]) \ {n}
      /\ \A c \in Heads : \A x, y : Ahead(chain'[c], x, y) => Ahead(chain[c], x, y)
  BY <1>0, <1>2, UnlinkChains
<1>4. pend \in Seq(Nodes) /\ OnceEach(pend) /\ moved \in Nat /\ moved + 1 \in 1 .. Len(pend)
      /\ DOMAIN pend = 1 .. Len(pend) /\ Len(pend) \in Nat
  BY <1>0 DEF CacheInv, Types, QueueInv, Exact
<1>5. ASSUME NEW i \in 1 .. moved PROVE Behind(chain', valid', pend'[i])
  <2>1. i \in DOMAIN pend /\ i # moved + 1
    BY <1>4
  <2>2. pend'[i] = pend[i]
    BY <1>0, <1>4, <2>1
  <2>3. NoneAhead(pend[i])
    BY <1>0 DEF SearchInv
  <2> SUFFICES ASSUME NEW c \in Heads, NEW x \in Nodes, Ahead(chain'[c], x, pend[i])
               PROVE  InUse(x)'
    BY <2>2 DEF NoneAhead, Behind, InUse
  <2>4. x \in Elems(chain'[c]) /\ Ahead(chain[c], x, pend[i])
    BY <1>3, AheadFacts
  <2>5. x # n /\ InUse(x)
    BY <1>3, <2>3, <2>4 DEF NoneAhead, Behind, InUse
  <2>6. x \in Used'
    BY <1>0, <2>5 DEF Used
  <2> QED
    BY <2>6 DEF Used
<1>6. Behind(chain', valid', pend'[moved + 1])
  <2>1. pend'[moved + 1] = b
    BY <1>0, <1>4
  <2> SUFFICES ASSUME NEW c \in Heads, NEW x \in Nodes, Ahead(chain'[c], x, b)
               PROVE  FALSE
    BY <2>1 DEF NoneAhead, Behind, InUse
  <2>2. chain'[b] \in Seq(Nodes) /\ chain'[b] # <<>> /\ chain'[b][1] = b /\ OnceEach(chain'[b])
    BY <1>0, <1>3 DEF Chains
  <2>3. 1 \in DOMAIN chain'[b] /\ DOMAIN chain'[b] = 1 .. Len(chain'[b])
    BY <2>2, ListFacts
  <2>4. b \in Elems(chain'[b]) /\ b \in Elems(chain'[c])
    BY <2>2, <2>3, AheadFacts DEF Elems
  <2>5. c = b
    BY <1>0, <1>3, <2>4 DEF Chains
  <2>6. PICK i, j \in DOMAIN chain'[b] : i < j /\ chain'[b][j] = b
    BY <2>5 DEF Ahead
  <2>7. j = 1
    BY <2>2, <2>3, <2>6 DEF OnceEach
  <2> QED
    BY <2>3, <2>6, <2>7
<1>7. ASSUME OneEntry PROVE OneEntry'
  <2>1. \A m \in Nodes \ {b} : key'[m] = key[m] /\ slot'[m] = slot[m] /\ cnt'[m] = cnt[m]
    BY <1>0, <1>2 DEF Types
  <2>2. key'[b] = key[n] /\ slot'[b] = slot[n] /\ cnt'[b] = cnt[n]
    BY <1>0, <1>2 DEF Types
  <2> SUFFICES ASSUME NEW l \in Nodes, NEW m \in Nodes, InUse(l)', InUse(m)',
                      key'[l] = key'[m], slot'[l] = slot'[m],
                      cnt'[l] <= Threshold, cnt'[m] <= Threshold
               PROVE  l = m
    BY DEF OneEntry
  <2>3. l \in (Used \ {n}) \union {b} /\ m \in (Used \ {n}) \union {b}
    BY <1>0 DEF Used
  <2>4. InUse(n) /\ n \in Nodes /\ \A x \in Used : InUse(x) /\ x # b
    BY <1>0 DEF Used
  <2>5. CASE l # b /\ m # b
    BY <1>7, <2>1, <2>3, <2>4, <2>5 DEF OneEntry
  <2>6. CASE l = b /\ m # b
    <3>1. m \in Used \ {n} /\ key[n] = key[m] /\ slot[n] = slot[m]
          /\ cnt[n] <= Threshold /\ cnt[m] <= Threshold
      BY <2>1, <2>2, <2>3, <2>6
    <3>2. m = n
      BY <1>7, <2>4, <3>1 DEF OneEntry
    <3> QED
      BY <3>1, <3>2
  <2>7. CASE l # b /\ m = b
    <3>1. l \in Used \ {n} /\ key[n] = key[l] /\ slot[n] = slot[l]
          /\ cnt[n] <= Threshold /\ cnt[l] <= Threshold
      BY <2>1, <2>2, <2>3, <2>7
    <3>2. l = n
      BY <1>7, <2>4, <3>1 DEF OneEntry
    <3> QED
      BY <3>1, <3>2
  <2> QED
    BY <2>5, <2>6, <2>7
<1> QED
  BY <1>1, <1>5, <1>6, <1>7, SearchMoved

LEMMA SearchSwap ==
    ASSUME CacheInv, SearchInv, urged # "wrong", Swap PROVE SearchInv'
<1> USE DEF elems
<1> DEFINE n == Moving
           b == Place(n)
           s == chain[b]
<1>0. PICK h, i \in DOMAIN s :
        /\ 1 < h /\ h < i /\ s[i] = n /\ ~InUse(s[h])
        /\ \A j \in DOMAIN s : j < h => InUse(s[j]) /\ s[j] # n
        /\ chain' = [chain EXCEPT ![b] = Exchange(@, h, i)]
        /\ b \in Heads /\ s \in Seq(Nodes) /\ OnceEach(s) /\ n \in Used
        /\ pc = "move" /\ moved + 1 \in DOMAIN pend /\ pend[moved + 1] = n
        /\ UNCHANGED <<elems, pend>>
  BY SwapFacts
<1> DEFINE t == Exchange(s, h, i)
<1>1. MovingOn
  BY DEF Swap
<1>2. chain' = [chain EXCEPT ![b] = t]
  BY <1>0
<1> HIDE DEF n, b
<1>3. Chains(chain) /\ b \in Heads /\ chain \in [Heads -> Seq(Nodes)]
  BY <1>0 DEF CacheInv, ListInv, Chains
<1>4. /\ t \in Seq(Nodes) /\ OnceEach(t) /\ Elems(t) = Elems(s) /\ DOMAIN t = DOMAIN s
      /\ t[h] = n /\ t[i] = s[h]
      /\ \A k \in DOMAIN s \ {h, i} : t[k] = s[k]
  BY <1>0, ExchangeFacts
<1> HIDE DEF t
<1>5. chain'[b] = t /\ \A c \in Heads \ {b} : chain'[c] = chain[c]
  BY <1>2, <1>3
<1>6. DOMAIN s \subseteq Nat
  BY <1>0
<1>7. \A m \in Nodes : InUse(m)' = InUse(m)
  BY <1>0 DEF InUse
<1>8. pend \in Seq(Nodes) /\ OnceEach(pend) /\ moved \in Nat /\ moved + 1 \in 1 .. Len(pend)
      /\ DOMAIN pend = 1 .. Len(pend) /\ Elems(pend) = Used /\ Len(pend) \in Nat
  <2>1. pend \in Seq(Nodes) /\ moved \in Nat
    BY DEF CacheInv, Types
  <2>2. OnceEach(pend) /\ Elems(pend) = Used
    BY <1>0 DEF CacheInv, QueueInv, Exact
  <2> QED
    BY <1>0, <2>1, <2>2
<1>9. ASSUME NEW p \in 1 .. moved PROVE Behind(chain', valid', pend'[p])
  <2> DEFINE e == pend[p]
  <2>1. p \in DOMAIN pend /\ p # moved + 1
    BY <1>8
  <2>2. e # n
    BY <1>0, <1>8, <2>1 DEF OnceEach
  <2>3. InUse(e)
    <3>1. e \in Elems(pend)
      BY <2>1 DEF Elems
    <3> QED
      BY <1>8, <3>1 DEF Used
  <2>4. NoneAhead(e)
    BY <1>0 DEF SearchInv
  <2>5. pend'[p] = e
    BY <1>0
  <2> HIDE DEF e
  <2> SUFFICES ASSUME NEW c \in Heads, NEW x \in Nodes, Ahead(chain'[c], x, e)
               PROVE  InUse(x)
    BY <1>7, <2>5 DEF NoneAhead, Behind, InUse
  <2>6. CASE c # b
    BY <1>5, <2>4, <2>6 DEF NoneAhead, Behind, InUse
  <2>7. CASE c = b
    <3>1. PICK k, l \in DOMAIN s : k < l /\ t[k] = x /\ t[l] = e
      BY <1>4, <1>5, <2>7 DEF Ahead
    <3>2. l # h /\ l # i
      BY <1>0, <1>4, <2>2, <2>3, <3>1
    <3>3. s[l] = e
      BY <1>4, <3>1, <3>2
    <3>4. ~(h < l)
      <4> SUFFICES ASSUME h < l PROVE FALSE
        OBVIOUS
      <4>1. Ahead(chain[b], s[h], e) /\ s[h] \in Nodes
        BY <1>0, <3>1, <3>3 DEF Ahead
      <4> QED
        BY <1>0, <1>3, <2>4, <4>1 DEF NoneAhead, Behind, InUse
    <3>5. k < h /\ k # h /\ k # i
      BY <1>0, <1>6, <3>1, <3>2, <3>4
    <3>6. s[k] = x
      BY <1>4, <3>1, <3>5
    <3> QED
      BY <1>0, <3>5, <3>6
  <2> QED
    BY <2>6, <2>7
<1>10. Behind(chain', valid', pend'[moved + 1])
  <2>1. pend'[moved + 1] = n
    BY <1>0
  <2> SUFFICES ASSUME NEW c \in Heads, NEW x \in Nodes, Ahead(chain'[c], x, n)
               PROVE  InUse(x)
    BY <1>7, <2>1 DEF NoneAhead, Behind, InUse
  <2>2. c = b
    <3>1. n \in Elems(s)
      BY <1>0 DEF Elems
    <3>2. n \in Elems(chain[c])
      BY <1>4, <1>5, AheadFacts
    <3> QED
      BY <1>3, <3>1, <3>2 DEF Chains
  <2>3. PICK k, l \in DOMAIN s : k < l /\ t[k] = x /\ t[l] = n
    BY <1>4, <1>5, <2>2 DEF Ahead
  <2>4. l = h
    BY <1>4, <2>3 DEF OnceEach
  <2>5. k < h /\ k # h /\ k # i
    BY <1>0, <1>6, <2>3, <2>4
  <2>6. s[k] = x
    BY <1>4, <2>3, <2>5
  <2> QED
    BY <1>0, <2>5, <2>6
<1>11. OneEntry => OneEntry'
  BY <1>0 DEF OneEntry, InUse
<1> QED
  BY <1>1, <1>9, <1>10, <1>11, SearchMoved

LEMMA SearchFlushEnds ==
    ASSUME CacheInv, SearchInv, urged # "wrong", FlushEnds PROVE SearchInv'
<1> USE DEF elems, lists, ledger
<1>1. /\ pc = "move" /\ pc' = "run" /\ moved = Len(pend)
      /\ UNCHANGED <<elems, lists>> /\ (urged' = "never" => urged = "never")
  BY DEF FlushEnds, Settled
<1>2. Elems(pend) = Used /\ pend \in Seq(Nodes)
  BY <1>1 DEF CacheInv, QueueInv, Exact, Types
<1>3. Used' = Used /\ \A n : NoneAhead(n) => NoneAhead(n)'
  BY <1>1 DEF Used, InUse, NoneAhead, Behind
<1>4. \A n \in Used : NoneAhead(n)
  <2> SUFFICES ASSUME NEW n \in Elems(pend) PROVE NoneAhead(n)
    BY <1>2
  <2>1. PICK i \in DOMAIN pend : pend[i] = n
    BY DEF Elems
  <2>2. i \in 1 .. moved
    BY <1>1, <1>2, <2>1
  <2> QED
    BY <1>1, <2>1, <2>2 DEF SearchInv
<1>5. OneEntry => OneEntry'
  BY <1>1 DEF OneEntry, InUse
<1> QED
  BY <1>1, <1>3, <1>4, <1>5 DEF SearchInv

(* A wrong queue is never made good.                                       *)
LEMMA WrongStays == ASSUME urged = "wrong", [Next]_vars PROVE urged' = "wrong"
BY DEF Next, vars, Arrive, Update, TakeFree, Reuse, Malloc, EnterAt, NoMemory, FlushEvent, Stay,
       CopyToHead, Swap, MovingOn, FlushEnds, Settled, UrgentPurge, QueueSafe, Retry, Roll,
       WriterEnds, Exit, Dangling, Stopped

LEMMA NextSearch == CacheInv /\ SearchInv /\ [Next]_vars => SearchInv'
<1> SUFFICES ASSUME CacheInv, SearchInv, [Next]_vars PROVE SearchInv'
  OBVIOUS
<1>1. CASE urged = "wrong"
  BY <1>1, WrongStays DEF SearchInv
<1>2. CASE urged # "wrong"
  BY <1>2, SearchStays, SearchArrive, SearchUpdate, SearchTakeFree, SearchReuse, SearchMalloc,
     SearchFlushEvent, SearchStay, SearchCopyToHead, SearchSwap, SearchFlushEnds DEF Next
<1> QED
  BY <1>1, <1>2

(* A regular purge leaves no free element ahead of an entry in use, so the *)
(* next record of its key and time-bin finds it; and until the first       *)
(* urgent purge there is one entry that a record can be added to: what     *)
(* sql_cache_flush_pending is for, whatever it swapped or copied, and      *)
(* whatever was reused, retired or linked since.                           *)
THEOREM SearchesFindAll == Spec => []SearchFindsAll
<1>1. CacheInv /\ SearchInv => SearchFindsAll
  <2> SUFFICES ASSUME CacheInv, SearchInv PROVE SearchFindsAll
    OBVIOUS
  <2>1. ASSUME pc = "run", urged \in {"never", "past"}, NEW b \in Heads, NEW i \in DOMAIN chain[b],
               NEW j \in DOMAIN chain[b], i < j, InUse(chain[b][j])
        PROVE  InUse(chain[b][i])
    <3>1. chain[b][i] \in Nodes /\ chain[b][j] \in Nodes
      BY ListFacts DEF CacheInv, ListInv, Chains
    <3>2. NoneAhead(chain[b][j])
      BY <2>1, <3>1 DEF SearchInv, Used
    <3>3. Ahead(chain[b], chain[b][i], chain[b][j])
      BY <2>1 DEF Ahead
    <3> QED
      BY <3>1, <3>2, <3>3 DEF NoneAhead, Behind, InUse
  <2>2. pc = "run" /\ urged = "never" => OneEntry
    BY DEF SearchInv
  <2> QED
    BY <2>1, <2>2 DEF SearchFindsAll, OneEntry
<1>2. CacheInv /\ SearchInv /\ [Next]_vars => SearchInv'
  BY NextSearch
<1>3. Init => SearchInv
  BY SearchInit
<1> QED
  BY <1>1, <1>2, <1>3, CacheInvHolds, PTL DEF Spec

-----------------------------------------------------------------------------
(* The ledger, given CacheInv.                                             *)
Held(b) == Total(cnt, key, slot, Used \ {safe}, b)
Hand(b) == IF rec = b \/ (safe # NIL /\ <<key[safe], slot[safe]>> = b) THEN 1 ELSE 0
One(b) == IF rec = b THEN 1 ELSE 0
Ledger ==
  urged # "wrong" =>
    \A b \in Bins : given[b] = written[b] + lost[b] + Held(b) + Hand(b)

(* What the properties count in the cache is the total of its entries.     *)
LEMMA InCacheIs == InCache = [b \in Bins |-> Held(b)]
<1>1. ASSUME NEW b \in Bins PROVE InCache[b] = Held(b)
  <2> DEFINE I == {n \in Nodes : InUse(n) /\ n # safe /\ <<key[n], slot[n]>> = b}
             F(g) == [s \in SUBSET I |-> IF s = {} THEN 0
                                         ELSE cnt[AnyOf(s)] + g[s \ {AnyOf(s)}]]
  <2>1. I = Under(key, slot, Used \ {safe}, b)
    BY DEF Under, Used
  <2>2. \A g : F(g) = Unfold(cnt, I, g)
    <3> HIDE DEF I
    <3> QED
      BY DEF Unfold
  <2>3. InCache[b] = (CHOOSE g : g = F(g))[I]
    BY DEF InCache, MapThenSumSet, MapThenFoldSet, AnyOf
  <2> HIDE DEF F
  <2>4. (CHOOSE g : g = F(g)) = Partial(cnt, I)
    BY <2>2 DEF Partial
  <2> HIDE DEF I
  <2>5. InCache[b] = Sum(cnt, I)
    BY <2>3, <2>4, SumIsPartial
  <2> QED
    BY <2>1, <2>5 DEF Held, Total
<1>2. InCache = [b \in Bins |-> InCache[b]]
  BY DEF InCache
<1> QED
  BY ONLY <1>1, <1>2

LEMMA InCacheIsPrimed == InCache' = [b \in Bins |-> Held(b)']
<1>1. InCache = [b \in Bins |-> Held(b)]
  BY InCacheIs
<1>2. (InCache = [b \in Bins |-> Held(b)])'
  BY <1>1, PTL
<1> QED
  BY <1>2

LEMMA HeldIsNat == ASSUME CacheInv, NEW b \in Bins PROVE Held(b) \in Nat
BY TotalIsNat DEF CacheInv, Types, Used, Held

(* An account is credited with the total of what is on a list.             *)
LEMMA CreditFacts ==
    ASSUME CacheInv, NEW seq \in Seq(Nodes), OnceEach(seq), NEW acct \in [Bins -> Nat],
           NEW b \in Bins
    PROVE  /\ Credit(acct, seq)[b] = acct[b] + Total(cnt, key, slot, Elems(seq), b)
           /\ Total(cnt, key, slot, Elems(seq), b) \in Nat /\ acct[b] \in Nat
<1>1. cnt \in [Nodes -> Nat] /\ Elems(seq) \in SUBSET Nodes
  BY ListFacts DEF CacheInv, Types
<1>2. Count(seq, b) = Total(cnt, key, slot, Elems(seq), b)
  BY <1>1, CountIsTotal
<1>3. Total(cnt, key, slot, Elems(seq), b) \in Nat
  BY <1>1, TotalIsNat
<1> QED
  BY <1>2, <1>3 DEF Credit

(* The numbers of the ledger.                                              *)
LEMMA LedgerNumbers ==
    ASSUME CacheInv, NEW b \in Bins
    PROVE  /\ given[b] \in Nat /\ written[b] \in Nat /\ lost[b] \in Nat
           /\ Held(b) \in Nat /\ Hand(b) \in Nat
BY HeldIsNat DEF CacheInv, Types, Hand

LEMMA LedgerInit == Init => Ledger
<1> SUFFICES ASSUME Init, NEW b \in Bins
             PROVE  given[b] = written[b] + lost[b] + Held(b) + Hand(b)
  BY DEF Ledger
<1>1. given[b] = 0 /\ written[b] = 0 /\ lost[b] = 0 /\ Hand(b) = 0
  BY Constants DEF Init, Hand
<1>2. Used \ {safe} = {}
  BY DEF Init, Used, InUse
<1>3. Held(b) = 0
  BY <1>2, TotalOfNone DEF Held
<1> QED
  BY <1>1, <1>3

(* Neither the entries nor the record in hand change.                      *)
LEMMA HeldStays ==
    ASSUME UNCHANGED <<key, slot, cnt, valid, rec, safe>>, NEW b \in Bins
    PROVE  Held(b)' = Held(b) /\ Hand(b)' = Hand(b)
BY DEF Held, Hand, Total, Under, Used, InUse

(* A record arrives.                                                       *)
LEMMA HeldArrive ==
    ASSUME CacheInv, NEW k \in Keys, NEW s \in Slots, Arrive(k, s), NEW b \in Bins
    PROVE  LET d == IF <<k, s>> = b THEN 1 ELSE 0
           IN  /\ Held(b)' = Held(b) /\ Hand(b) = 0 /\ Hand(b)' = d
               /\ given'[b] = given[b] + d /\ UNCHANGED <<written, lost>>
<1> USE DEF elems, lists, ledger, clock
<1>0. /\ pc = "run" /\ rec' = <<k, s>> /\ given' = [given EXCEPT ![<<k, s>>] = @ + 1]
      /\ UNCHANGED <<key, slot, cnt, valid, safe, written, lost>>
  BY DEF Arrive
<1>1. rec = NoRec /\ safe = NIL /\ NoRec \notin Bins /\ given \in [Bins -> Nat]
  BY <1>0, Constants DEF CacheInv, HandInv, Types
<1>2. Used' = Used
  BY <1>0 DEF Used, InUse
<1>3. Held(b)' = Held(b)
  BY <1>0, <1>2 DEF Held, Total, Under
<1>4. Hand(b) = 0 /\ Hand(b)' = IF <<k, s>> = b THEN 1 ELSE 0
  BY <1>0, <1>1 DEF Hand
<1>5. given'[b] = given[b] + IF <<k, s>> = b THEN 1 ELSE 0
  BY <1>0, <1>1
<1> QED
  BY <1>0, <1>3, <1>4, <1>5

(* A record is added to an entry.                                          *)
LEMMA HeldUpdate ==
    ASSUME CacheInv, Update, NEW b \in Bins
    PROVE  /\ Held(b)' = Held(b) + One(b) /\ Hand(b) = One(b) /\ Hand(b)' = 0
           /\ rec \in Bins /\ UNCHANGED <<given, written, lost>>
<1> USE DEF elems, lists, ledger, clock
<1> DEFINE n == Line[Found]
<1>0. /\ pc = "insert" /\ rec' = NoRec /\ cnt' = [cnt EXCEPT ![n] = @ + 1]
      /\ UNCHANGED <<key, slot, valid, safe, given, written, lost>>
      /\ Matches(n)
  BY DEF Update, Inserting
<1>1. n \in Nodes /\ rec = <<rec[1], rec[2]>> /\ rec \in Bins
  BY <1>0, FoundFacts DEF Update
<1> HIDE DEF n
<1>2. /\ n \in Used /\ <<key[n], slot[n]>> = rec /\ cnt \in [Nodes -> Nat]
      /\ safe = NIL /\ NIL \notin Nodes /\ NoRec \notin Bins /\ Used \subseteq Nodes
  BY <1>0, <1>1, Constants DEF Matches, Used, CacheInv, Types, HandInv
<1> DEFINE S == Used \ {n}
<1>3. Used' = Used /\ Used \ {safe} = S \union {n} /\ Used' \ {safe'} = S \union {n}
  BY <1>0, <1>2 DEF Used, InUse
<1>4. S \in SUBSET Nodes /\ n \notin S
  BY <1>2
<1>5. cnt' \in [Nodes -> Nat] /\ cnt'[n] = cnt[n] + 1 /\ \A m \in S : cnt'[m] = cnt[m]
  BY <1>0, <1>1, <1>2, <1>4
<1> HIDE DEF S
<1>6. Held(b) = Total(cnt, key, slot, S, b) + (IF rec = b THEN cnt[n] ELSE 0)
  <2>1. Held(b) = Total(cnt, key, slot, S, b) + Share(cnt, key, slot, n, b)
    BY <1>1, <1>2, <1>3, <1>4, TotalAdd DEF Held
  <2> QED
    BY <1>2, <2>1 DEF Share
<1>7. Held(b)' = Total(cnt', key, slot, S, b) + (IF rec = b THEN cnt[n] + 1 ELSE 0)
  <2> DEFINE A == Used' \ {safe'}
  <2>1. Held(b)' = Total(cnt', key, slot, A, b) /\ A = S \union {n}
    BY <1>0, <1>3 DEF Held
  <2> HIDE DEF A
  <2>2. Total(cnt', key, slot, A, b)
          = Total(cnt', key, slot, S, b) + Share(cnt', key, slot, n, b)
    BY <1>1, <1>4, <1>5, <2>1, TotalAdd
  <2> QED
    BY <1>2, <1>5, <2>1, <2>2 DEF Share
<1>8. Total(cnt', key, slot, S, b) = Total(cnt, key, slot, S, b)
  BY <1>4, <1>5, TotalSame
<1>9. Total(cnt, key, slot, S, b) \in Nat /\ cnt[n] \in Nat
  BY <1>1, <1>2, <1>4, TotalIsNat
<1>10. Hand(b) = One(b) /\ Hand(b)' = 0
  BY <1>0, <1>2 DEF Hand, One
<1> DEFINE T == Total(cnt, key, slot, S, b)
<1>11. Held(b)' = Held(b) + One(b)
  <2>1. T \in Nat /\ Held(b) = T + (IF rec = b THEN cnt[n] ELSE 0)
        /\ Held(b)' = T + (IF rec = b THEN cnt[n] + 1 ELSE 0)
    BY <1>6, <1>7, <1>8, <1>9
  <2> HIDE DEF T
  <2> QED
    BY <1>9, <2>1 DEF One
<1> QED
  BY <1>0, <1>1, <1>10, <1>11

(* A record becomes an entry, which is queued or in hand.                  *)
LEMMA HeldEnter ==
    ASSUME CacheInv, pc = "insert", NEW n \in Nodes, ~InUse(n),
           NEW linked, EnterAt(n, linked), NEW b \in Bins
    PROVE  /\ \/ Held(b)' = Held(b) + One(b) /\ Hand(b)' = 0 /\ Room
              \/ Held(b)' = Held(b) /\ Hand(b)' = One(b) /\ ~Room
           /\ Hand(b) = One(b) /\ rec \in Bins /\ UNCHANGED <<given, written, lost>>
<1> USE DEF elems, lists, ledger, clock
<1>0. /\ key' = [key EXCEPT ![n] = rec[1]] /\ slot' = [slot EXCEPT ![n] = rec[2]]
      /\ cnt' = [cnt EXCEPT ![n] = 1] /\ valid' = [valid EXCEPT ![n] = "inuse"]
      /\ rec' = NoRec /\ ((Room /\ safe' = safe) \/ (~Room /\ safe' = n))
      /\ UNCHANGED <<given, written, lost>>
  BY DEF EnterAt
<1>1. Types
  BY DEF CacheInv
<1>2. /\ rec = <<rec[1], rec[2]>> /\ rec \in Bins /\ rec[1] \in Keys /\ rec[2] \in Slots
      /\ safe = NIL /\ NIL \notin Nodes /\ NoRec \notin Bins
  BY FoundFacts, Constants DEF CacheInv, HandInv
<1>3. /\ cnt' \in [Nodes -> Nat] /\ cnt'[n] = 1 /\ <<key'[n], slot'[n]>> = rec
      /\ \A m \in Nodes \ {n} : cnt'[m] = cnt[m] /\ key'[m] = key[m] /\ slot'[m] = slot[m]
      /\ Used' = Used \union {n} /\ n \notin Used /\ Used \in SUBSET Nodes
  BY <1>0, <1>1, <1>2 DEF Types, Used, InUse
<1> DEFINE T == Total(cnt, key, slot, Used, b)
<1>4. Held(b) = T /\ Hand(b) = One(b) /\ T \in Nat
  <2>1. Used \ {safe} = Used
    BY <1>2, <1>3
  <2> QED
    BY <1>2, <2>1, HeldIsNat DEF Held, Hand, One
<1>5. Total(cnt', key', slot', Used, b) = T
  BY <1>3, TotalSame
<1>7. CASE Room /\ safe' = safe
  <2> DEFINE A == Used' \ {safe'}
  <2>1. A = Used \union {n}
    BY <1>2, <1>3, <1>7
  <2>2. Held(b)' = Total(cnt', key', slot', A, b)
    BY DEF Held
  <2> HIDE DEF A
  <2>3. Total(cnt', key', slot', A, b)
          = Total(cnt', key', slot', Used, b) + Share(cnt', key', slot', n, b)
    BY <1>3, <2>1, TotalAdd
  <2>4. Held(b)' = T + One(b)
    BY <1>3, <1>5, <2>2, <2>3 DEF Share, One
  <2>5. Hand(b)' = 0
    BY <1>0, <1>2, <1>7 DEF Hand
  <2> QED
    BY <1>0, <1>2, <1>4, <1>7, <2>4, <2>5
<1>8. CASE ~Room /\ safe' = n
  <2>1. Used' \ {safe'} = Used
    BY <1>3, <1>8
  <2>2. Held(b)' = T
    BY <1>5, <2>1 DEF Held
  <2>3. Hand(b)' = One(b)
    BY <1>0, <1>2, <1>3, <1>8 DEF Hand, One
  <2> QED
    BY <1>0, <1>2, <1>4, <1>8, <2>2, <2>3
<1> QED
  BY <1>0, <1>7, <1>8

(* A list of entries is committed, and credited to one account or another. *)
LEMMA HeldCommits ==
    ASSUME CacheInv, NEW seq \in Seq(Nodes), OnceEach(seq),
           Elems(seq) \subseteq Used \ {safe}, Used' = Used \ Elems(seq),
           UNCHANGED <<key, slot, cnt, rec, safe, given>>,
           \/ written' = Credit(written, seq) /\ lost' = lost
           \/ lost' = Credit(lost, seq) /\ written' = written,
           NEW b \in Bins
    PROVE  LET C == Total(cnt, key, slot, Elems(seq), b)
               R == Total(cnt, key, slot, (Used \ {safe}) \ Elems(seq), b)
           IN  /\ Held(b) = C + R /\ Held(b)' = R /\ Hand(b)' = Hand(b)
               /\ C \in Nat /\ R \in Nat
               /\ \/ written'[b] = written[b] + C /\ lost'[b] = lost[b]
                  \/ lost'[b] = lost[b] + C /\ written'[b] = written[b]
<1> DEFINE S == Used \ {safe}
           Q == S \ Elems(seq)
           C == Total(cnt, key, slot, Elems(seq), b)
           R == Total(cnt, key, slot, Q, b)
<1>1. S \in SUBSET Nodes /\ Elems(seq) \in SUBSET S /\ cnt \in [Nodes -> Nat]
      /\ written \in [Bins -> Nat] /\ lost \in [Bins -> Nat]
  BY DEF Used, CacheInv, Types
<1>2. Held(b) = C + R
  <2>1. Total(cnt, key, slot, S, b) = C + R
    <3>1. Parts(S, Elems(seq), Q)
      BY DEF Parts
    <3> HIDE DEF S, Q
    <3> QED
      BY <1>1, <3>1, TotalSplit
  <2> QED
    BY <2>1 DEF Held
<1>3. Held(b)' = R
  <2>1. Used' \ {safe'} = Q
    OBVIOUS
  <2> QED
    BY <2>1 DEF Held
<1>4. C \in Nat /\ R \in Nat
  BY <1>1, TotalIsNat
<1>5. Hand(b)' = Hand(b)
  BY DEF Hand
<1>7. Credit(written, seq)[b] = written[b] + C /\ Credit(lost, seq)[b] = lost[b] + C
  BY <1>1, CreditFacts
<1> QED
  BY <1>2, <1>3, <1>4, <1>5, <1>7

LEMMA PurgeCommits ==
    ASSUME CacheInv, urged # "wrong", FlushEvent \/ UrgentPurge
    PROVE  /\ Closed \in Seq(Nodes) /\ OnceEach(Closed) /\ Elems(Closed) \subseteq Used \ {safe}
           /\ Used' = Used \ Elems(Closed) /\ UNCHANGED <<key, slot, cnt, rec, safe, given>>
           /\ \/ written' = Credit(written, Closed) /\ lost' = lost
              \/ lost' = Credit(lost, Closed) /\ written' = written
<1> USE DEF elems, lists, ledger, clock
<1>1. pc \in {"run", "urgent"} /\ FlushAndFork /\ UNCHANGED <<rec, safe>>
  BY DEF FlushEvent, UrgentPurge
<1>2. /\ Used' = Used \ Elems(Closed) /\ UNCHANGED <<key, slot, cnt, given>>
  BY <1>1, ForkFacts
<1>3. /\ Closed \in Seq(Nodes) /\ OnceEach(Closed) /\ Elems(Closed) \subseteq Used \ {safe}
  BY <1>1, PurgeFacts
<1>4. \/ written' = Credit(written, Closed) /\ lost' = lost
      \/ lost' = Credit(lost, Closed) /\ written' = written
  BY <1>1 DEF FlushAndFork
<1> QED
  BY <1>1, <1>2, <1>3, <1>4

LEMMA ExitCommits ==
    ASSUME CacheInv, urged # "wrong", Exit
    PROVE  /\ queue \in Seq(Nodes) /\ OnceEach(queue) /\ Elems(queue) \subseteq Used \ {safe}
           /\ Used \ {safe} \subseteq Elems(queue)
           /\ Used' = Used \ Elems(queue) /\ UNCHANGED <<key, slot, cnt, rec, safe, given>>
           /\ \/ written' = Credit(written, queue) /\ lost' = lost
              \/ lost' = Credit(lost, queue) /\ written' = written
<1> USE DEF elems, lists, ledger, clock
<1>1. /\ pc = "run" /\ UNCHANGED <<key, slot, cnt, rec, safe, given>>
      /\ valid' = [n \in Nodes |-> IF n \in Elems(queue) THEN "committed" ELSE valid[n]]
      /\ \/ written' = Credit(written, queue) /\ lost' = lost
         \/ lost' = Credit(lost, queue) /\ written' = written
  BY ElemsIsToSet DEF Exit
<1>2. queue \in Seq(Nodes) /\ OnceEach(queue) /\ Elems(queue) = Used \ {safe}
  BY <1>1 DEF CacheInv, Types, QueueInv, Exact
<1>3. Used' = Used \ Elems(queue)
  BY <1>1 DEF Used, InUse
<1> QED
  BY <1>1, <1>2, <1>3

(* The entry in hand is queued.                                            *)
LEMMA HeldQueueSafe ==
    ASSUME CacheInv, urged # "wrong", QueueSafe, NEW b \in Bins
    PROVE  LET d == IF <<key[safe], slot[safe]>> = b THEN 1 ELSE 0
           IN  /\ Held(b)' = Held(b) + d /\ Hand(b) = d /\ Hand(b)' = 0
               /\ <<key[safe], slot[safe]>> \in Bins /\ UNCHANGED <<given, written, lost>>
<1> USE DEF elems, lists, ledger, clock
<1>0. /\ safe # NIL /\ safe' = NIL /\ UNCHANGED <<key, slot, cnt, valid, rec, given, written, lost>>
  BY DEF QueueSafe
<1>1. /\ safe \in Used /\ safe \in Nodes /\ rec = NoRec /\ cnt[safe] = 1 /\ NIL \notin Nodes
      /\ Used \in SUBSET Nodes /\ cnt \in [Nodes -> Nat] /\ NoRec \notin Bins
  BY <1>0, Constants DEF CacheInv, QueueInv, Exact, HandInv, Types, Used
<1> DEFINE S == Used \ {safe}
           d == IF <<key[safe], slot[safe]>> = b THEN 1 ELSE 0
<1>2. Used' \ {safe'} = S \union {safe} /\ S \in SUBSET Nodes /\ safe \notin S
  BY <1>0, <1>1 DEF Used, InUse
<1> DEFINE A == Used' \ {safe'}
<1>3. Held(b)' = Total(cnt, key, slot, A, b) /\ Held(b) = Total(cnt, key, slot, S, b)
      /\ A = S \union {safe}
  BY <1>0, <1>2 DEF Held
<1> HIDE DEF S, A
<1>4. Held(b)' = Held(b) + (IF <<key[safe], slot[safe]>> = b THEN cnt[safe] ELSE 0)
  <2>1. Total(cnt, key, slot, A, b)
          = Total(cnt, key, slot, S, b) + Share(cnt, key, slot, safe, b)
    BY <1>1, <1>2, <1>3, TotalAdd
  <2> QED
    BY <1>3, <2>1 DEF Share
<1>5. Hand(b) = d /\ Hand(b)' = 0
  BY <1>0, <1>1 DEF Hand
<1>6. <<key[safe], slot[safe]>> \in Bins
  BY <1>1 DEF CacheInv, ListInv, Types, Used, Bins
<1>7. Held(b)' = Held(b) + d
  BY <1>1, <1>4
<1> QED
  BY <1>0, <1>5, <1>6, <1>7

(* An entry that is copied to the first element counts what it counted.    *)
LEMMA HeldCopyToHead ==
    ASSUME CacheInv, urged # "wrong", CopyToHead, NEW b \in Bins
    PROVE  Held(b)' = Held(b) /\ Hand(b)' = Hand(b) /\ UNCHANGED <<given, written, lost>>
<1> USE DEF elems, lists, ledger, clock
<1> DEFINE n == Moving
           h == Place(n)
<1>0. /\ h \in Nodes /\ n \in Nodes /\ InUse(n) /\ n \in Used /\ h \notin Used
      /\ key' = [key EXCEPT ![h] = key[n]] /\ slot' = [slot EXCEPT ![h] = slot[n]]
      /\ cnt' = [cnt EXCEPT ![h] = cnt[n]] /\ pc = "move"
      /\ Used' = (Used \ {n}) \union {h}
      /\ UNCHANGED <<rec, safe, given, written, lost>>
  BY CopyFacts DEF Used
<1> HIDE DEF n, h
<1>1. /\ safe = NIL /\ NIL \notin Nodes /\ Used \in SUBSET Nodes /\ cnt \in [Nodes -> Nat]
      /\ key \in [Nodes -> Keys \union {NoKey}] /\ slot \in [Nodes -> Slots]
  BY <1>0, Constants DEF CacheInv, HandInv, Types, Used
<1> DEFINE S == Used \ {n}
           c == IF <<key[n], slot[n]>> = b THEN cnt[n] ELSE 0
<1>2. /\ S \in SUBSET Nodes /\ n \notin S /\ h \notin S
      /\ Used \ {safe} = S \union {n} /\ Used' \ {safe'} = S \union {h}
  BY <1>0, <1>1
<1>3. /\ cnt' \in [Nodes -> Nat] /\ cnt'[h] = cnt[n]
      /\ <<key'[h], slot'[h]>> = <<key[n], slot[n]>>
      /\ \A m \in S : cnt'[m] = cnt[m] /\ key'[m] = key[m] /\ slot'[m] = slot[m]
  BY <1>0, <1>1, <1>2
<1> HIDE DEF S
<1>4. Held(b) = Total(cnt, key, slot, S, b) + c
  <2>1. Held(b) = Total(cnt, key, slot, S, b) + Share(cnt, key, slot, n, b)
    BY <1>0, <1>1, <1>2, TotalAdd DEF Held
  <2> QED
    BY <2>1 DEF Share
<1>5. Held(b)' = Total(cnt', key', slot', S, b) + c
  <2> DEFINE A == Used' \ {safe'}
  <2>1. Held(b)' = Total(cnt', key', slot', A, b) /\ A = S \union {h}
    BY <1>2 DEF Held
  <2> HIDE DEF A
  <2>2. Total(cnt', key', slot', A, b)
          = Total(cnt', key', slot', S, b) + Share(cnt', key', slot', h, b)
    <3>1. h \in Nodes
      BY <1>0
    <3> QED
      BY <1>2, <1>3, <2>1, <3>1, TotalAdd
  <2> QED
    BY <1>3, <2>1, <2>2 DEF Share
<1>6. Total(cnt', key', slot', S, b) = Total(cnt, key, slot, S, b)
  BY <1>2, <1>3, TotalSame
<1>7. Held(b)' = Held(b) /\ Hand(b)' = Hand(b)
  BY <1>0, <1>1, <1>4, <1>5, <1>6 DEF Hand
<1> QED
  BY <1>0, <1>7

(* The element at which a record becomes an entry.                         *)
LEMMA EnterFacts ==
    ASSUME CacheInv, TakeFree \/ Reuse \/ Malloc
    PROVE  \E n \in Nodes : \E linked : pc = "insert" /\ ~InUse(n) /\ EnterAt(n, linked)
<1>1. CASE TakeFree
  BY <1>1, FoundFacts DEF TakeFree, Inserting
<1>2. CASE Reuse
  BY <1>2, ListedFacts DEF Reuse, Inserting, StaleHead
<1>3. CASE Malloc
  <2>1. PICK n \in Nodes \ Linked(chain) :
             LET d == [chain EXCEPT ![Bucket] = Append(@, n)]
             IN  pc = "insert" /\ ~InUse(n) /\ EnterAt(n, d)
    BY <1>3, MallocFacts
  <2> QED
    BY <2>1
<1> QED
  BY <1>1, <1>2, <1>3

(* The steps that neither add an entry nor commit one.                     *)
Idle ==
    \/ NoMemory \/ Retry \/ Roll \/ WriterEnds \/ Stopped \/ UNCHANGED vars
    \/ Stay \/ Swap \/ FlushEnds \/ Dangling

LEMMA IdleFacts ==
    ASSUME Idle PROVE UNCHANGED <<key, slot, cnt, valid, rec, safe, given, written, lost>>
BY DEF Idle, NoMemory, Retry, Roll, WriterEnds, Stopped, Stay, Swap, MovingOn, FlushEnds,
       Dangling, vars, elems, ledger

LEMMA NextLedger == CacheInv /\ Ledger /\ [Next]_vars => Ledger'
<1> SUFFICES ASSUME CacheInv, Ledger, urged # "wrong", [Next]_vars, NEW b \in Bins
             PROVE  given'[b] = written'[b] + lost'[b] + Held(b)' + Hand(b)'
  BY WrongStays DEF Ledger
<1>0. given[b] = written[b] + lost[b] + Held(b) + Hand(b)
      /\ given[b] \in Nat /\ written[b] \in Nat /\ lost[b] \in Nat
      /\ Held(b) \in Nat /\ Hand(b) \in Nat
  BY LedgerNumbers DEF Ledger
<1>1. CASE Idle
  BY <1>0, <1>1, IdleFacts, HeldStays
<1>2. CASE TakeFree \/ Reuse \/ Malloc
  <2>0. PICK n \in Nodes : \E linked : pc = "insert" /\ ~InUse(n) /\ EnterAt(n, linked)
    BY <1>2, EnterFacts
  <2>1. PICK linked : pc = "insert" /\ ~InUse(n) /\ EnterAt(n, linked)
    BY <2>0
  <2>2. /\ \/ Held(b)' = Held(b) + One(b) /\ Hand(b)' = 0
           \/ Held(b)' = Held(b) /\ Hand(b)' = One(b)
        /\ Hand(b) = One(b) /\ UNCHANGED <<given, written, lost>>
    BY <2>1, HeldEnter
  <2> QED
    BY <1>0, <2>2
<1>3. CASE \E k \in Keys, s \in Slots : Arrive(k, s)
  <2>1. PICK k \in Keys, s \in Slots : Arrive(k, s)
    BY <1>3
  <2>2. PICK d \in Nat : /\ Held(b)' = Held(b) /\ Hand(b) = 0 /\ Hand(b)' = d
                         /\ given'[b] = given[b] + d /\ UNCHANGED <<written, lost>>
    BY <2>1, HeldArrive
  <2> QED
    BY <1>0, <2>2
<1>4. CASE Update
  <2>1. /\ Held(b)' = Held(b) + One(b) /\ Hand(b) = One(b) /\ Hand(b)' = 0
        /\ UNCHANGED <<given, written, lost>>
    BY <1>4, HeldUpdate
  <2> QED
    BY <1>0, <2>1
<1>5. CASE FlushEvent \/ UrgentPurge \/ Exit
  <2>1. PICK seq \in Seq(Nodes) :
          /\ OnceEach(seq) /\ Elems(seq) \subseteq Used \ {safe} /\ Used' = Used \ Elems(seq)
          /\ UNCHANGED <<key, slot, cnt, rec, safe, given>>
          /\ \/ written' = Credit(written, seq) /\ lost' = lost
             \/ lost' = Credit(lost, seq) /\ written' = written
    BY <1>5, PurgeCommits, ExitCommits
  <2>2. PICK C \in Nat, R \in Nat :
          /\ Held(b) = C + R /\ Held(b)' = R /\ Hand(b)' = Hand(b)
          /\ \/ written'[b] = written[b] + C /\ lost'[b] = lost[b]
             \/ lost'[b] = lost[b] + C /\ written'[b] = written[b]
    BY <2>1, HeldCommits
  <2>3. given'[b] = given[b]
    BY <2>1
  <2> QED
    BY <1>0, <2>2, <2>3
<1>6. CASE QueueSafe
  <2>1. PICK d \in Nat : /\ Held(b)' = Held(b) + d /\ Hand(b) = d /\ Hand(b)' = 0
                         /\ UNCHANGED <<given, written, lost>>
    BY <1>6, HeldQueueSafe
  <2> QED
    BY <1>0, <2>1
<1>7. CASE CopyToHead
  BY <1>0, <1>7, HeldCopyToHead
<1> QED
  BY <1>1, <1>2, <1>3, <1>4, <1>5, <1>6, <1>7 DEF Next, Idle

LEMMA LedgerHolds == Spec => []Ledger
<1>1. Init => Ledger
  BY LedgerInit
<1>2. CacheInv /\ Ledger /\ [Next]_vars => Ledger'
  BY NextLedger
<1> QED
  BY <1>1, <1>2, CacheInvHolds, PTL DEF Spec

(* As long as no urgent purge has left another queue than the pending      *)
(* entries (one that keeps at most one cannot), every record is, under its *)
(* key and time-bin, in an entry, in hand, with a writer or dropped for    *)
(* want of one, and only once, whatever the failures of fork() and of      *)
(* malloc(), the limit on writers and the moves of pending entries do in   *)
(* between; and the queue lists the entries in use, once each.             *)
THEOREM RecordsAreConserved == Spec => []Conservation
<1>1. CacheInv /\ Ledger => Conservation
  <2> SUFFICES ASSUME CacheInv, Ledger, urged # "wrong" PROVE Conservation
    BY DEF Conservation
  <2>1. \A b \in Bins : given[b] = written[b] + lost[b] + InCache[b] + InHand[b]
    BY InCacheIs DEF Ledger, InHand, Hand
  <2>2. ASSUME pc \in {"run", "insert"}
        PROVE  IsInjective(queue) /\ ToSet(queue) = {n \in Nodes : InUse(n)}
    <3>1. OnceEach(queue) /\ Elems(queue) = Used \ {safe} /\ safe = NIL /\ NIL \notin Nodes
      BY <2>2, Constants DEF CacheInv, QueueInv, Exact, HandInv
    <3> QED
      BY <3>1, ElemsIsToSet DEF Used, IsInjective, OnceEach
  <2> QED
    BY <2>1, <2>2 DEF Conservation
<1> QED
  BY <1>1, CacheInvHolds, LedgerHolds, PTL

-----------------------------------------------------------------------------
(* The cache implements the table of counters.                             *)
LEMMA TableBins == Table!Bins = Bins
BY DEF Table!Bins, Bins, Slots

LEMMA TableInit == Init => Table!Init
<1> SUFFICES ASSUME Init PROVE Table!Init
  OBVIOUS
<1>1. Used \ {safe} = {}
  BY DEF Init, Used, InUse
<1>2. \A b \in Bins : Held(b) = 0
  BY <1>1, TotalOfNone DEF Held
<1>3. InCache = [b \in Bins |-> 0]
  BY <1>2, InCacheIs
<1> QED
  BY <1>3, TableBins DEF Table!Init, Init

(* No counter changes.                                                     *)
LEMMA TableStutters ==
    ASSUME \A b \in Bins : Held(b)' = Held(b), written' = written, lost' = lost
    PROVE  UNCHANGED Table!vars
<1>1. InCache' = InCache
  BY InCacheIs, InCacheIsPrimed
<1> QED
  BY <1>1 DEF Table!vars

(* One counter is one higher.                                              *)
LEMMA TableAdds ==
    ASSUME NEW c \in Bins, written' = written, lost' = lost,
           \A b \in Bins : Held(b)' = Held(b) + (IF c = b THEN 1 ELSE 0),
           \A b \in Bins : Held(b) \in Nat
    PROVE  Table!Next
<1>1. InCache' = [InCache EXCEPT ![c] = @ + 1]
  <2>1. \A b \in Bins : Held(b)' = IF b = c THEN Held(c) + 1 ELSE Held(b)
    OBVIOUS
  <2> QED
    BY <2>1, InCacheIs, InCacheIsPrimed
<1>2. Table!Add(c, 1)
  BY <1>1 DEF Table!Add
<1> QED
  BY <1>2, TableBins DEF Table!Next

(* Whole time-bins are handed over, those up to t.                         *)
LEMMA TablePurges ==
    ASSUME NEW t \in Int, t <= MaxSlot, NEW C,
           written \in [Bins -> Nat], lost \in [Bins -> Nat],
           \A b \in Bins : Held(b) \in Nat,
           \A b \in Bins : C[b] = IF b[2] <= t THEN Held(b) ELSE 0,
           \A b \in Bins : Held(b)' = IF b[2] <= t THEN 0 ELSE Held(b),
           \/ written' = [b \in Bins |-> written[b] + C[b]] /\ lost' = lost
           \/ lost' = [b \in Bins |-> lost[b] + C[b]] /\ written' = written
    PROVE  Table!Next \/ UNCHANGED Table!vars
<1>0. \A b \in Bins : b[2] \in Nat \ {0}
  BY Constants
<1>1. CASE t < 1
  <2>1. \A b \in Bins : ~(b[2] <= t)
    BY <1>0, <1>1
  <2>2. \A b \in Bins : C[b] = 0 /\ Held(b)' = Held(b)
    BY <2>1
  <2>3. \A acct \in [Bins -> Nat] : [b \in Bins |-> acct[b] + C[b]] = acct
    BY <2>2
  <2>4. written' = written /\ lost' = lost
    BY <2>3
  <2> QED
    BY <2>2, <2>4, TableStutters
<1>2. CASE t >= 1
  <2>1. t \in 1 .. MaxSlot
    BY <1>2, Constants
  <2>2. InCache' = Table!Left(t)
    BY InCacheIs, InCacheIsPrimed, TableBins DEF Table!Left
  <2>3. \A acct \in [Bins -> Nat] :
          [b \in Bins |-> acct[b] + C[b]] = Table!Credited(acct, t)
    <3> SUFFICES ASSUME NEW acct \in [Bins -> Nat]
                 PROVE  [b \in Bins |-> acct[b] + C[b]] = Table!Credited(acct, t)
      OBVIOUS
    <3>1. \A b \in Bins : acct[b] + C[b] = IF b[2] <= t THEN acct[b] + InCache[b] ELSE acct[b]
      BY InCacheIs
    <3> QED
      BY ONLY <3>1, TableBins DEF Table!Credited
  <2>4. Table!Purge(t)
    BY <2>2, <2>3 DEF Table!Purge
  <2> QED
    BY <2>1, <2>4 DEF Table!Next
<1> QED
  BY <1>1, <1>2

(* What a purge commits is of closed time-bins, what it keeps is not.      *)
LastClosed == basetime - Delay - (IF Moved THEN 1 ELSE 0)

LEMMA OpenIs ==
    ASSUME CacheInv, NEW n \in Nodes
    PROVE  Open(n) <=> LastClosed < slot[n]
<1>1. basetime \in Nat /\ slot[n] \in Nat /\ Delay \in Nat
  BY Constants DEF CacheInv, Types
<1> QED
  BY <1>1 DEF Open, LastClosed

LEMMA TablePurge ==
    ASSUME CacheInv, urged # "wrong", FlushEvent \/ UrgentPurge
    PROVE  Table!Next \/ UNCHANGED Table!vars
<1> DEFINE S == Used \ {safe}
           C == [b \in Bins |-> Total(cnt, key, slot, Elems(Closed), b)]
           R(b) == Total(cnt, key, slot, S \ Elems(Closed), b)
<1>1. /\ Closed \in Seq(Nodes) /\ OnceEach(Closed)
      /\ Used' = Used \ Elems(Closed) /\ UNCHANGED <<key, slot, cnt, rec, safe, given>>
      /\ \/ written' = Credit(written, Closed) /\ lost' = lost
         \/ lost' = Credit(lost, Closed) /\ written' = written
      /\ Elems(Closed) \subseteq S
  BY PurgeCommits
<1>2. Elems(Closed) = {n \in S : ~Open(n)} /\ S \in SUBSET Nodes
  BY PurgeFacts DEF FlushEvent, UrgentPurge, Used
<1>3. \A b \in Bins : /\ Held(b) = C[b] + R(b) /\ Held(b)' = R(b)
                      /\ C[b] \in Nat /\ R(b) \in Nat /\ Held(b) \in Nat
  BY <1>1, HeldCommits, HeldIsNat
<1>4. LastClosed \in Int /\ LastClosed <= MaxSlot
  <2>1. basetime \in 1 .. MaxSlot /\ Delay \in Nat /\ MaxSlot \in Nat
    BY Constants DEF CacheInv, Types, Slots
  <2> QED
    BY <2>1 DEF LastClosed
<1>5. \A b \in Bins : b[2] \in Nat
  BY Constants
<1>6. \A n \in S : n \in Elems(Closed) <=> ~(LastClosed < slot[n])
  BY <1>2, OpenIs
<1>7. ASSUME NEW b \in Bins, b[2] <= LastClosed PROVE R(b) = 0
  <2>1. \A n \in S \ Elems(Closed) : LastClosed < slot[n]
    BY <1>6
  <2>2. \A n \in S \ Elems(Closed) : <<key[n], slot[n]>> # b
    BY <1>4, <1>5, <1>7, <2>1
  <2> QED
    BY <2>2, TotalOfNone
<1>8. ASSUME NEW b \in Bins, ~(b[2] <= LastClosed) PROVE C[b] = 0
  <2>1. \A n \in Elems(Closed) : ~(LastClosed < slot[n])
    BY <1>1, <1>6
  <2>2. \A n \in Elems(Closed) : <<key[n], slot[n]>> # b
    BY <1>4, <1>5, <1>8, <2>1
  <2> QED
    BY <2>2, TotalOfNone
<1>9. \A acct : Credit(acct, Closed) = [b \in Bins |-> acct[b] + C[b]]
  <2>1. \A b \in Bins : Count(Closed, b) = C[b]
    BY <1>1, CountIsTotal DEF CacheInv, Types
  <2> HIDE DEF C
  <2> QED
    BY <2>1 DEF Credit
<1>10. written \in [Bins -> Nat] /\ lost \in [Bins -> Nat]
  BY DEF CacheInv, Types
<1> HIDE DEF C, R, S
<1>11. \/ written' = [b \in Bins |-> written[b] + C[b]] /\ lost' = lost
       \/ lost' = [b \in Bins |-> lost[b] + C[b]] /\ written' = written
  BY <1>1, <1>9
<1>12. \A b \in Bins : /\ C[b] = IF b[2] <= LastClosed THEN Held(b) ELSE 0
                       /\ Held(b)' = IF b[2] <= LastClosed THEN 0 ELSE Held(b)
  BY <1>3, <1>7, <1>8
<1> QED
  BY <1>3, <1>4, <1>10, <1>11, <1>12, TablePurges

(* The exit handler hands over all time-bins.                              *)
LEMMA TableExit ==
    ASSUME CacheInv, urged # "wrong", Exit
    PROVE  Table!Next \/ UNCHANGED Table!vars
<1> DEFINE C == [b \in Bins |-> Total(cnt, key, slot, Elems(queue), b)]
           R(b) == Total(cnt, key, slot, (Used \ {safe}) \ Elems(queue), b)
<1>1. /\ queue \in Seq(Nodes) /\ OnceEach(queue) /\ Used \ {safe} \subseteq Elems(queue)
      /\ Used' = Used \ Elems(queue) /\ UNCHANGED <<key, slot, cnt, rec, safe, given>>
      /\ \/ written' = Credit(written, queue) /\ lost' = lost
         \/ lost' = Credit(lost, queue) /\ written' = written
      /\ Elems(queue) \subseteq Used \ {safe}
  BY ExitCommits
<1>2. \A b \in Bins : /\ Held(b) = C[b] + R(b) /\ Held(b)' = R(b)
                      /\ C[b] \in Nat /\ R(b) \in Nat /\ Held(b) \in Nat
  BY <1>1, HeldCommits, HeldIsNat
<1>3. \A b \in Bins : R(b) = 0
  <2>1. (Used \ {safe}) \ Elems(queue) = {}
    BY <1>1
  <2> QED
    BY <2>1, TotalOfNone
<1>4. \A b \in Bins : b[2] <= MaxSlot
  BY DEF Bins, Slots
<1>5. \A acct : Credit(acct, queue) = [b \in Bins |-> acct[b] + C[b]]
  <2>1. \A b \in Bins : Count(queue, b) = C[b]
    BY <1>1, CountIsTotal DEF CacheInv, Types
  <2> HIDE DEF C
  <2> QED
    BY <2>1 DEF Credit
<1>6. written \in [Bins -> Nat] /\ lost \in [Bins -> Nat] /\ MaxSlot \in Int
  BY Constants DEF CacheInv, Types
<1> HIDE DEF C, R
<1>7. \/ written' = [b \in Bins |-> written[b] + C[b]] /\ lost' = lost
      \/ lost' = [b \in Bins |-> lost[b] + C[b]] /\ written' = written
  BY <1>1, <1>5
<1>8. \A b \in Bins : /\ C[b] = IF b[2] <= MaxSlot THEN Held(b) ELSE 0
                      /\ Held(b)' = IF b[2] <= MaxSlot THEN 0 ELSE Held(b)
  BY <1>2, <1>3, <1>4
<1> QED
  BY <1>2, <1>6, <1>7, <1>8, TablePurges

(* The SQL plugins' cache is the table of counters that the other plugins' *)
(* is, although its entries stay in place during a purge, are moved ahead  *)
(* of the free ones, and may be kept back by a full queue: until an urgent *)
(* purge leaves another queue than the pending entries, a step of          *)
(* sql_common.c adds one record to one counter, hands over or drops whole  *)
(* time-bins, or cannot be seen.                                           *)
THEOREM SqlCacheImplementsTable == Spec => ImplementsTable
<1>1. ASSUME CacheInv, urged # "wrong", [Next]_vars
      PROVE  Table!Next \/ UNCHANGED Table!vars
  <2>0. \A b \in Bins : Held(b) \in Nat
    BY <1>1, HeldIsNat
  <2>1. CASE Idle
    <3>1. UNCHANGED <<key, slot, cnt, valid, rec, safe, given, written, lost>>
      BY <2>1, IdleFacts
    <3>2. \A b \in Bins : Held(b)' = Held(b)
      BY <3>1, HeldStays
    <3> QED
      BY <3>1, <3>2, TableStutters
  <2>2. CASE \E k \in Keys, s \in Slots : Arrive(k, s)
    <3>1. PICK k \in Keys, s \in Slots : Arrive(k, s)
      BY <2>2
    <3>2. \A b \in Bins : Held(b)' = Held(b)
      BY <1>1, <3>1, HeldArrive
    <3>3. written' = written /\ lost' = lost
      BY <3>1 DEF Arrive
    <3> QED
      BY <3>2, <3>3, TableStutters
  <2>3. CASE Update
    <3>1. /\ \A b \in Bins : Held(b)' = Held(b) + One(b)
          /\ written' = written /\ lost' = lost /\ rec \in Bins
      <4>1. pc = "insert" /\ written' = written /\ lost' = lost
        BY <2>3 DEF Update, Inserting, ledger
      <4>2. rec \in Bins
        BY <1>1, <4>1 DEF CacheInv, HandInv
      <4> QED
        BY <1>1, <2>3, <4>1, <4>2, HeldUpdate
    <3> QED
      BY <2>0, <3>1, TableAdds DEF One
  <2>4. CASE TakeFree \/ Reuse \/ Malloc
    <3>0. PICK n \in Nodes : \E linked : pc = "insert" /\ ~InUse(n) /\ EnterAt(n, linked)
      BY <1>1, <2>4, EnterFacts
    <3>1. PICK linked : pc = "insert" /\ ~InUse(n) /\ EnterAt(n, linked)
      BY <3>0
    <3>2. written' = written /\ lost' = lost /\ rec \in Bins
      BY <1>1, <3>1 DEF EnterAt, ledger, CacheInv, HandInv
    <3>3. CASE Room
      <4>1. \A b \in Bins : Held(b)' = Held(b) + One(b)
        BY <1>1, <3>1, <3>3, HeldEnter
      <4> QED
        BY <2>0, <3>2, <4>1, TableAdds DEF One
    <3>4. CASE ~Room
      <4>1. \A b \in Bins : Held(b)' = Held(b)
        BY <1>1, <3>1, <3>4, HeldEnter
      <4> QED
        BY <3>2, <4>1, TableStutters
    <3> QED
      BY <3>3, <3>4
  <2>5. CASE QueueSafe
    <3> DEFINE c == <<key[safe], slot[safe]>>
    <3>1. \A b \in Bins : Held(b)' = Held(b) + (IF c = b THEN 1 ELSE 0)
      BY <1>1, <2>5, HeldQueueSafe
    <3>2. written' = written /\ lost' = lost
      BY <2>5 DEF QueueSafe, ledger
    <3>3. c \in Bins
      <4>1. safe # NIL
        BY <2>5 DEF QueueSafe
      <4>2. safe \in Nodes /\ InUse(safe)
        BY <1>1, <4>1 DEF CacheInv, Types, QueueInv, Exact
      <4> QED
        BY <1>1, <4>2 DEF CacheInv, ListInv, Types, Bins
    <3> HIDE DEF c
    <3> QED
      BY <2>0, <3>1, <3>2, <3>3, TableAdds
  <2>6. CASE FlushEvent \/ UrgentPurge
    BY <1>1, <2>6, TablePurge
  <2>7. CASE Exit
    BY <1>1, <2>7, TableExit
  <2>8. CASE CopyToHead
    <3>1. written' = written /\ lost' = lost
      BY <2>8 DEF CopyToHead, MovingOn, ledger
    <3> QED
      BY <1>1, <2>8, <3>1, HeldCopyToHead, TableStutters
  <2> QED
    BY <1>1, <2>1, <2>2, <2>3, <2>4, <2>5, <2>6, <2>7, <2>8 DEF Next, Idle
<1>2. CacheInv /\ [Next]_vars =>
        [UNCHANGED Table!vars \/ urged' = "wrong" \/ Table!Next]_(Table!vars)
  BY <1>1, WrongStays
<1> QED
  BY <1>2, TableInit, CacheInvHolds, PTL DEF Spec, ImplementsTable
=============================================================================
