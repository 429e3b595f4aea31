----------------------------- MODULE BgpProofs ------------------------------
(***************************************************************************)
(* Proofs about the BGP daemon: the sessions (BgpPeers), the routing table *)
(* (BgpTable) and the high availability of a cluster of daemons            *)
(* (HighAvailability).                                                     *)
(*                                                                         *)
(* Sessions: what bgp_peers checks on a small instance holds for any       *)
(* number of slots, addresses, routers, routes and buckets and for any     *)
(* times.  Each property has its own inductive invariant on top of         *)
(* EverySessionWatched, which is inductive as it stands.                   *)
(*                                                                         *)
(* Table: for every address length, every set of routes and of peers and   *)
(* every number of lookups that the width of a lock can count (NoWrap).    *)
(* Wired says that the two directions of the links agree; from it alone    *)
(* follow, by induction on the length of a prefix, that a search meets     *)
(* every prefix of what it looks for (WayMeets), that the climb of         *)
(* bgp_route_next meets every ancestor (ClimbMeets) and that it goes to    *)
(* the next node in the order Before (AfterFacts).  Exact(T, h) adds what  *)
(* the locks count, h being the references that are not those of routes;   *)
(* every operation of the code is shown to change h by what it takes and   *)
(* gives back.  TableInv puts the two together with WalkAhead: what the    *)
(* walk has still to delete lies ahead of it.                              *)
(*                                                                         *)
(* High availability: for any cluster, any number of messages and faults   *)
(* and any timing.  The inductive invariant QueueInv follows the copy of   *)
(* the forwarding flag that the next dump is decided by.                   *)
(* FailoverInv is about a single fault.  Before it (Undisturbed) the       *)
(* oldest collector is active and every other one has what is not yet in   *)
(* Kafka; after it (Disturbed) the oldest of the rest is the heir, whose   *)
(* messages are young enough for what is left of the life of the key that  *)
(* blocks it.                                                              *)
(***************************************************************************)
EXTENDS BgpPeers, BgpTable, HighAvailability, ListsAndSums, WellFoundedInduction, FiniteSetTheorems, TLAPS

-----------------------------------------------------------------------------
(* The sessions *)

(* A nonempty set of naturals has a least element, and Min returns it.        *)
LEMMA MinIn ==
  ASSUME NEW S \in SUBSET Nat, S # {}
  PROVE  Min(S) \in S /\ \A y \in S : Min(S) <= y
<1> DEFINE T == {0..x : x \in S}
<1>1. T \subseteq FiniteSubsetsOf(Nat) /\ T # {}
  <2>1. \A x \in S : 0..x \subseteq Nat /\ IsFiniteSet(0..x)
    BY FS_Interval
  <2> QED BY <2>1 DEF FiniteSubsetsOf
<1>2. PICK X \in T : \A Y \in T : ~(<<Y, X>> \in StrictSubsetOrdering(Nat))
  BY <1>1, FS_StrictSubsetOrderingWellFounded, WFMin
<1>3. PICK x \in S : X = 0..x
  OBVIOUS
<1>4. \A y \in S : x =< y
  <2> SUFFICES ASSUME NEW y \in S, y < x PROVE FALSE
    OBVIOUS
  <2>1. 0..y \subseteq 0..x /\ 0..y # 0..x
    <3>1. x \in 0..x /\ x \notin 0..y OBVIOUS
    <3> QED BY <3>1
  <2>2. 0..y \in T OBVIOUS
  <2>3. <<0..y, X>> \in StrictSubsetOrdering(Nat)
    BY <1>1, <1>3, <2>1, <2>2 DEF StrictSubsetOrdering, FiniteSubsetsOf
  <2> QED BY <1>2, <2>2, <2>3
<1> QED BY <1>4 DEF Min

(* A nonempty set of naturals up to n has a largest element, and Max is it.   *)
LEMMA MaxIn ==
  ASSUME NEW n \in Nat, NEW S \in SUBSET (0..n), S # {}
  PROVE  Max(S) \in S /\ \A y \in S : y <= Max(S)
<1> DEFINE T == {n - x : x \in S}
<1>1. T \in SUBSET Nat /\ T # {}
  <2>1. \A x \in S : n - x \in Nat OBVIOUS
  <2> QED BY <2>1
<1>2. Min(T) \in T /\ \A y \in T : Min(T) <= y
  BY <1>1, MinIn
<1>3. PICK x \in S : \A y \in S : x >= y
  <2>1. PICK x \in S : Min(T) = n - x BY <1>2
  <2>2. \A y \in S : n - y \in T OBVIOUS
  <2>3. \A y \in S : n - x <= n - y BY <1>2, <2>1, <2>2
  <2>4. ASSUME NEW y \in S PROVE x >= y
    <3>1. n - x <= n - y /\ x \in Nat /\ y \in Nat BY <2>3
    <3> QED BY <3>1
  <2> QED BY <2>4
<1> QED BY <1>3 DEF Max

(* The quotient and the remainder of a natural division.                      *)
LEMMA DivMod ==
  ASSUME NEW a \in Nat, NEW m \in Nat \ {0}
  PROVE  /\ a % m \in 0..(m - 1) /\ a \div m \in Nat
         /\ a = m * (a \div m) + (a % m)
<1>1. a % m \in 0..(m - 1) OBVIOUS
<1>2. a \div m \in Nat OBVIOUS
<1>3. a = m * (a \div m) + (a % m) OBVIOUS
<1> QED BY <1>1, <1>2, <1>3

(* Quotient and remainder are unique.                                         *)
LEMMA ModUnique ==
  ASSUME NEW m \in Nat \ {0}, NEW k \in Nat, NEW j \in Nat,
         NEW r \in 0..(m - 1), NEW q \in 0..(m - 1),
         m * k + r = m * j + q
  PROVE  r = q
<1>1. CASE k = j BY <1>1
<1>2. CASE k > j
  <2>1. PICK d \in Nat \ {0} : k = j + d BY <1>2
  <2>2. m * k = m * j + m * d BY <2>1
  <2>3. m * d >= m BY <2>1
  <2> QED BY <2>2, <2>3
<1>3. CASE k < j
  <2>1. PICK d \in Nat \ {0} : j = k + d BY <1>3
  <2>2. m * j = m * k + m * d BY <2>1
  <2>3. m * d >= m BY <2>1
  <2> QED BY <2>2, <2>3
<1> QED BY <1>1, <1>2, <1>3

(* Going i slots round the ring of m from a: at most one turn is taken off.   *)
LEMMA ModAdd ==
  ASSUME NEW a \in Nat, NEW m \in Nat \ {0}, NEW i \in 0..m
  PROVE  (i + a) % m = IF i + (a % m) < m THEN i + (a % m) ELSE i + (a % m) - m
<1> DEFINE k == a \div m
           r == a % m
           q == (i + a) % m
           j == (i + a) \div m
<1>1. r \in 0..(m - 1) /\ k \in Nat /\ a = m * k + r
  BY DivMod
<1>2. q \in 0..(m - 1) /\ j \in Nat /\ i + a = m * j + q
  BY DivMod, i + a \in Nat
<1> HIDE DEF k, r, q, j
<1>3. CASE i + r < m
  <2>1. i + r \in 0..(m - 1) BY <1>1, <1>3
  <2>2. m * k + (i + r) = m * j + q BY <1>1, <1>2
  <2>3. i + r = q BY <2>1, <2>2, <1>1, <1>2, ModUnique
  <2> QED BY <2>3, <1>3 DEF r, q
<1>4. CASE ~(i + r < m)
  <2>1. i + r - m \in 0..(m - 1) BY <1>1, <1>4
  <2>2. m * (k + 1) = m * k + m BY <1>1
  <2>3. m * (k + 1) + (i + r - m) = m * j + q BY <1>1, <1>2, <2>2
  <2>4. k + 1 \in Nat BY <1>1
  <2>5. i + r - m = q BY <2>1, <2>3, <2>4, <1>2, ModUnique
  <2> QED BY <2>5, <1>4, <1>1 DEF r, q
<1> QED BY <1>3, <1>4 DEF r

-----------------------------------------------------------------------------
(* Types *)

(* accept() finds a descriptor: there is one more than there are slots.       *)
LEMMA Fresh ==
  ASSUME TypeOK
  PROVE  NewFd \in Fds /\ \A s \in Slots : fd[s] # NewFd
<1> USE PeersAssumption
<1> DEFINE F == Fds \ {fd[s] : s \in Slots}
<1>1. F # {}
  <2> SUFFICES ASSUME F = {} PROVE FALSE
    OBVIOUS
  <2>1. \A f \in Fds : \E s \in Slots : fd[s] = f
    OBVIOUS
  <2> DEFINE g == [f \in Fds |-> CHOOSE s \in Slots : fd[s] = f]
  <2>2. \A f \in Fds : g[f] \in Slots /\ fd[g[f]] = f
    BY <2>1
  <2>3. g \in [Fds -> Slots]
    BY <2>2
  <2>4. IsFiniteSet(Fds) /\ Cardinality(Fds) = MaxPeers + 1
    BY FS_Interval DEF Fds
  <2>5. IsFiniteSet(Slots) /\ Cardinality(Slots) = MaxPeers
    BY FS_Interval DEF Slots
  <2> HIDE DEF g
  <2>6. \E x, y \in Fds : x # y /\ g[x] = g[y]
    BY <2>3, <2>4, <2>5, FS_PigeonHole
  <2> QED BY <2>2, <2>6
<1>2. F \in SUBSET Nat
  BY DEF Fds
<1>3. Min(F) \in F
  BY <1>1, <1>2, MinIn
<1> QED BY <1>3 DEF NewFd

(* What the head of the loop computes covers every open slot.                 *)
LEMMA Bounds ==
  ASSUME TypeOK, Recalculate
  PROVE  /\ maxIdx' \in 0..MaxPeers /\ selectFd' \in Nat
         /\ recalc => \A s \in Open : s < maxIdx' /\ fd[s] < selectFd'
<1> USE PeersAssumption
<1>1. CASE ~recalc
  BY <1>1 DEF TypeOK, Recalculate
<1>2. CASE recalc
  <2> DEFINE F == {fd[s] : s \in Slots}
  <2>1. F \in SUBSET (0..(MaxPeers + 1)) /\ F # {} /\ MaxPeers + 1 \in Nat
    <3>1. \A s \in Slots : fd[s] \in 0..(MaxPeers + 1)
      BY DEF TypeOK, Fds
    <3>2. 0 \in Slots
      BY DEF Slots
    <3> QED BY <3>1, <3>2
  <2>2. Max(F) \in F /\ \A y \in F : y <= Max(F)
    BY <2>1, MaxIn
  <2>3. selectFd' = Max(F) + 1
    BY <1>2 DEF Recalculate
  <2>4. selectFd' \in Nat /\ \A s \in Slots : fd[s] < selectFd'
    <3>1. \A s \in Slots : fd[s] \in F
      OBVIOUS
    <3> DEFINE m == Max(F)
    <3>2. m \in F /\ (\A y \in F : y <= m) /\ selectFd' = m + 1
      BY <2>2, <2>3
    <3> HIDE DEF F, m
    <3>3. m \in 0..(MaxPeers + 1)
      BY <2>1, <3>2
    <3>4. \A s \in Slots : fd[s] \in 0..(MaxPeers + 1)
      BY <2>1, <3>1
    <3>5. \A s \in Slots : fd[s] <= m
      BY <3>1, <3>2
    <3> QED BY <3>2, <3>3, <3>4, <3>5
  <2>5. Open \in SUBSET (0..(MaxPeers - 1)) /\ MaxPeers - 1 \in Nat
    BY DEF Open, Slots
  <2>6. CASE Open = {}
    BY <1>2, <2>4, <2>6 DEF Recalculate
  <2>7. CASE Open # {}
    <3>1. Max(Open) \in Open /\ \A y \in Open : y <= Max(Open)
      BY <2>5, <2>7, MaxIn
    <3> DEFINE m == Max(Open)
    <3>2. m \in Open /\ (\A y \in Open : y <= m) /\ maxIdx' = m + 1
      BY <1>2, <2>7, <3>1 DEF Recalculate
    <3> HIDE DEF m
    <3>3. m \in 0..(MaxPeers - 1) /\ \A y \in Open : y \in 0..(MaxPeers - 1)
      BY <3>2, <2>5
    <3>4. \A s \in Open : s < maxIdx'
      BY <3>2, <3>3
    <3>5. Open \subseteq Slots
      BY DEF Open
    <3> QED BY <2>4, <3>2, <3>3, <3>4, <3>5
  <2> QED BY <2>6, <2>7
<1> QED BY <1>1, <1>2

(* The slot taken for a connection is a free one.                             *)
LEMMA Free ==
  ASSUME FreeSlots # {}
  PROVE  Min(FreeSlots) \in Slots /\ fd[Min(FreeSlots)] = 0
<1>1. FreeSlots \in SUBSET Nat
  BY PeersAssumption DEF FreeSlots, Slots
<1>2. Min(FreeSlots) \in FreeSlots
  BY <1>1, MinIn
<1> QED BY <1>2 DEF FreeSlots, Open

(* The batch stays between zero and its size.                                 *)
LEMMA Room ==
  ASSUME TypeOK, Admitted, TakeRoom
  PROVE  room' \in 0..BatchNum /\ batchAge' \in 0..Old
<1>1. CASE BatchNum = 0
  BY <1>1 DEF TypeOK, TakeRoom
<1>2. CASE BatchNum # 0
  BY <1>2, PeersAssumption DEF TypeOK, Admitted, TakeRoom, BatchExpired
<1> QED BY <1>1, <1>2

(* bgp_peer_close keeps the types.                                            *)
LEMMA Closing ==
  ASSUME TypeOK, NEW C \in SUBSET Slots, NEW F \in [Slots -> Fds \cup {0}], PeerClose(C, F)
  PROVE  /\ fd' \in [Slots -> Fds \cup {0}] /\ id' \in [Slots -> Ids \cup {Unset}]
         /\ rib' \subseteq rib
BY DEF TypeOK, PeerClose

(* A descriptor has a bucket of the table.                                    *)
LEMMA SlotBucket ==
  ASSUME TypeOK, NEW s \in Slots
  PROVE  Bucket(fd[s]) \in 0..(Buckets - 1)
<1>1. fd[s] \in Nat /\ Buckets \in Nat \ {0}
  BY PeersAssumption DEF TypeOK, Fds
<1> QED BY <1>1, DivMod DEF Bucket

(* The head of the loop and select() keep the types.                          *)
LEMMA SelectedTypes ==
  ASSUME TypeOK, NEW R, NEW acc \in BOOLEAN, Selected(R, acc)
  PROVE  /\ recalc' \in BOOLEAN /\ selectFd' \in Nat /\ maxIdx' \in 0..MaxPeers
         /\ pc' \in {"select", "read"} /\ readable' \subseteq Fds
         /\ bypass' \in [Slots -> 0..MaxPeers] /\ shifted' \subseteq Slots
<1>1. maxIdx' \in 0..MaxPeers /\ selectFd' \in Nat
  BY Bounds DEF Selected
<1> QED BY <1>1 DEF TypeOK, Selected

(* Choosing the peer to read from keeps the types.                            *)
LEMMA ServeTypes ==
  ASSUME TypeOK, NEW x \in Slots, Serve(x)
  PROVE  /\ rr' \in Nat /\ selectFd' \in Nat /\ maxIdx' \in 0..MaxPeers
         /\ room' \in 0..BatchNum /\ batchAge' \in 0..Old
         /\ pc' \in {"select", "read"} /\ readable' \subseteq Fds
         /\ bypass' \in [Slots -> 0..MaxPeers] /\ shifted' \subseteq Slots
<1>1. rr' \in Nat
  <2>1. rr + 1 \in Nat /\ maxIdx \in Nat \ {0}
    BY DEF TypeOK, Serve
  <2>2. rr' = (rr + 1) % maxIdx
    BY DEF Serve, Advance
  <2> QED BY <2>1, <2>2, DivMod
<1>2. bypass' \in [Slots -> 0..MaxPeers]
  BY PeersAssumption DEF TypeOK, Serve
<1> QED BY <1>1, <1>2 DEF TypeOK, Serve

(* Closing a session keeps the types.                                         *)
LEMMA ShutTypes ==
  ASSUME TypeOK, NEW x \in Slots, Shut(x)
  PROVE  /\ fd' \in [Slots -> Fds \cup {0}] /\ id' \in [Slots -> Ids \cup {Unset}]
         /\ addr' \in [Slots -> Addrs \cup {Unset}]
         /\ status' \in [Slots -> {"Idle", "Established"}] /\ ht' \in [Slots -> Nat]
         /\ watched' \subseteq Fds /\ recalc' \in BOOLEAN /\ rib' \subseteq Route
         /\ announced' \in [Slots -> SUBSET Announcement]
<1>1. {x} \in SUBSET Slots /\ fd \in [Slots -> Fds \cup {0}] /\ PeerClose({x}, fd)
  BY DEF TypeOK, Shut
<1>2. /\ fd' \in [Slots -> Fds \cup {0}] /\ id' \in [Slots -> Ids \cup {Unset}]
      /\ rib' \subseteq rib
  BY <1>1, Closing
<1> QED BY <1>2 DEF TypeOK, Shut

(* Hearing a message keeps the types.                                         *)
LEMMA HeardTypes ==
  ASSUME TypeOK, NEW x \in Slots, Heard(x)
  PROVE  silent' \in [Slots -> 0..Old]
BY PeersAssumption DEF TypeOK, Heard

(* Sending a KEEPALIVE or not keeps the types.                                *)
LEMMA RepliedTypes ==
  ASSUME TypeOK, NEW x \in Slots, NEW b, Replied(x, b)
  PROVE  age' \in [Slots -> 0..Old]
BY PeersAssumption DEF TypeOK, Replied

(* The fields keep their types in every step. *)
LEMMA TypeStep ==
  ASSUME TypeOK, [Next]_vars
  PROVE  TypeOK'
<1> USE PeersAssumption
<1>1. ASSUME NEW R, NoConnection(R) PROVE TypeOK'
  <2>1. Selected(R, FALSE) BY <1>1 DEF NoConnection
  <2> QED BY <1>1, <2>1, SelectedTypes DEF TypeOK, NoConnection, session
<1>2. ASSUME NEW a, NEW R, Drop(a, R) PROVE TypeOK'
  <2>1. Selected(R, FALSE) BY <1>2 DEF Drop
  <2> QED BY <1>2, <2>1, SelectedTypes DEF TypeOK, Drop, session
<1>3. ASSUME NEW a \in Addrs, NEW R, Accept(a, R) PROVE TypeOK'
  <2> DEFINE s == Min(FreeSlots)
             C == Doomed(s, a)
             F == [fd EXCEPT ![s] = NewFd]
  <2>1. Selected(R, TRUE) BY <1>3 DEF Accept
  <2>2. s \in Slots
    BY <1>3, Free DEF Accept
  <2>3. NewFd \in Fds
    BY Fresh
  <2>4. C \in SUBSET Slots
    BY <2>2 DEF Doomed, SameAddr
  <2>5. F \in [Slots -> Fds \cup {0}]
    BY <2>2, <2>3 DEF TypeOK
  <2>6. PeerClose(C, F)
    BY <1>3 DEF Accept
  <2>7. room' \in 0..BatchNum /\ batchAge' \in 0..Old
    BY <1>3, Room DEF Accept
  <2>8. /\ addr' = [c \in Slots |-> IF c \in C THEN Unset ELSE IF c = s THEN a ELSE addr[c]]
        /\ status' = [status EXCEPT ![s] = "Idle"] /\ ht' = [ht EXCEPT ![s] = 0]
        /\ age' = [age EXCEPT ![s] = Old] /\ silent' = [silent EXCEPT ![s] = 0]
        /\ announced' = [announced EXCEPT ![s] = {}]
        /\ watched' \subseteq watched \cup {NewFd} /\ rr' = rr
    BY <1>3 DEF Accept
  <2> HIDE DEF s, C, F
  <2>9. /\ fd' \in [Slots -> Fds \cup {0}] /\ id' \in [Slots -> Ids \cup {Unset}]
        /\ rib' \subseteq rib
    BY <2>4, <2>5, <2>6, Closing
  <2>10. /\ addr' \in [Slots -> Addrs \cup {Unset}]
         /\ status' \in [Slots -> {"Idle", "Established"}] /\ ht' \in [Slots -> Nat]
         /\ age' \in [Slots -> 0..Old] /\ silent' \in [Slots -> 0..Old]
         /\ watched' \subseteq Fds /\ rr' \in Nat
    BY <2>2, <2>3, <2>8 DEF TypeOK
  <2>11. announced' \in [Slots -> SUBSET Announcement]
    BY <2>2, <2>8 DEF TypeOK
  <2> QED BY <2>1, <2>7, <2>9, <2>10, <2>11, SelectedTypes DEF TypeOK
<1>4. CASE NobodyReadable
  BY <1>4 DEF TypeOK, NobodyReadable, session, loop
<1>5. CASE ReadPart
  <2>1. PICK x \in Slots : Serve(x) BY <1>5 DEF ReadPart
  <2> QED BY <1>5, <2>1, ServeTypes DEF TypeOK, ReadPart, session
<1>6. CASE ReadReset
  <2>1. PICK x \in Slots : Serve(x) /\ Shut(x) /\ UNCHANGED <<age, silent>>
    BY <1>6 DEF ReadReset
  <2> QED BY <2>1, ServeTypes, ShutTypes DEF TypeOK
<1>7. CASE ReadFatal
  <2>1. PICK x \in Slots : Serve(x) /\ Heard(x) /\ Shut(x) /\ Replied(x, FALSE)
    BY <1>7 DEF ReadFatal
  <2> QED BY <2>1, ServeTypes, ShutTypes, HeardTypes, RepliedTypes DEF TypeOK
<1>8. ASSUME NEW i \in Ids, NEW h \in Holds, ReadOpen(i, h) PROVE TypeOK'
  <2>1. PICK x \in Slots :
          /\ Serve(x) /\ Heard(x)
          /\ IF Known(x, i) THEN Shut(x) /\ UNCHANGED age
             ELSE /\ id' = [id EXCEPT ![x] = i]
                  /\ ht' = [ht EXCEPT ![x] = HoldTime(h)]
                  /\ status' = [status EXCEPT ![x] = "Established"]
                  /\ age' = [age EXCEPT ![x] = 0]
                  /\ UNCHANGED <<fd, addr, watched, recalc, rib, announced>>
    BY <1>8 DEF ReadOpen
  <2>2. CASE Known(x, i)
    BY <2>1, <2>2, ServeTypes, ShutTypes, HeardTypes DEF TypeOK
  <2>3. CASE ~Known(x, i)
    <3>1. HoldTime(h) \in Nat BY DEF HoldTime
    <3> QED BY <2>1, <2>3, <3>1, ServeTypes, HeardTypes DEF TypeOK
  <2> QED BY <2>2, <2>3
<1>9. ASSUME NEW k \in BOOLEAN, ReadIdle(k) PROVE TypeOK'
  <2>1. PICK x \in Slots : Serve(x) /\ Heard(x) /\ Replied(x, k /\ Established(x))
    BY <1>9 DEF ReadIdle
  <2> QED BY <1>9, <2>1, ServeTypes, HeardTypes, RepliedTypes DEF TypeOK, ReadIdle, session
<1>10. ASSUME NEW p \in Nets, NEW a \in Attrs, NEW l \in Labels, ReadUpdate(p, a, l) PROVE TypeOK'
  <2>1. PICK x \in Slots :
          /\ Serve(x) /\ Heard(x) /\ Replied(x, FALSE)
          /\ rib' = Installed(x, p, a, l)
          /\ announced' = [announced EXCEPT ![x] =
               {r \in @ : r.prefix # p} \cup {[prefix |-> p, attr |-> a, label |-> l]}]
    BY <1>10 DEF ReadUpdate
  <2>2. Bucket(fd[x]) \in 0..(Buckets - 1)
    BY SlotBucket
  <2>3. rib' \subseteq Route
    BY <2>1, <2>2 DEF TypeOK, Installed, Route
  <2>4. announced' \in [Slots -> SUBSET Announcement]
    BY <2>1 DEF TypeOK, Announcement
  <2> QED BY <1>10, <2>1, <2>3, <2>4, ServeTypes, HeardTypes, RepliedTypes
          DEF TypeOK, ReadUpdate, session
<1>11. ASSUME NEW p \in Nets, ReadWithdraw(p) PROVE TypeOK'
  <2>1. PICK x \in Slots :
          /\ Serve(x) /\ Heard(x) /\ Replied(x, FALSE)
          /\ rib' = rib \ Previous(x, p)
          /\ announced' = [announced EXCEPT ![x] = {r \in @ : r.prefix # p}]
    BY <1>11 DEF ReadWithdraw
  <2>2. announced' \in [Slots -> SUBSET Announcement]
    BY <2>1 DEF TypeOK, Announcement
  <2> QED BY <1>11, <2>1, <2>2, ServeTypes, HeardTypes, RepliedTypes
          DEF TypeOK, ReadWithdraw, session
<1>12. CASE Tick
  BY <1>12 DEF TypeOK, Tick, Older, session, loop, waiting
<1>13. CASE UNCHANGED vars
  BY <1>13 DEF TypeOK, vars, session, loop, waiting
<1> QED BY <1>1, <1>2, <1>3, <1>4, <1>5, <1>6, <1>7, <1>8, <1>9, <1>10, <1>11, <1>12, <1>13 DEF Next

-----------------------------------------------------------------------------
(* The descriptors that are watched *)

(* bgp_peer_close of the slots C, before which the descriptors were F. *)
LEMMA CloseWatched ==
  ASSUME NEW C \in SUBSET Slots, NEW F \in [Slots -> Fds \cup {0}], PeerClose(C, F),
         \A c, d \in Slots : F[c] = F[d] /\ F[c] # 0 => c = d,
         NEW W, W = {F[c] : c \in {d \in Slots : F[d] # 0}},
         watched' = W \ {F[c] : c \in C}
  PROVE  /\ watched' = {fd'[s] : s \in Open'}
         /\ \A s, c \in Open' : fd'[s] = fd'[c] => s = c
<1>1. \A c \in Slots : fd'[c] = IF c \in C THEN 0 ELSE F[c]
  BY DEF PeerClose
<1>2. Open' = {c \in Slots \ C : F[c] # 0}
  BY <1>1 DEF Open
<1>3. ASSUME NEW f \in watched' PROVE f \in {fd'[s] : s \in Open'}
  <2>1. PICK c \in Slots : F[c] # 0 /\ f = F[c] BY <1>3
  <2>2. c \notin C BY <1>3, <2>1
  <2> QED BY <1>1, <1>2, <2>1, <2>2
<1>4. ASSUME NEW s \in Open' PROVE fd'[s] \in watched'
  <2>1. s \in Slots \ C /\ F[s] # 0 /\ fd'[s] = F[s] BY <1>1, <1>2
  <2>2. F[s] \in W BY <2>1
  <2>3. F[s] \notin {F[c] : c \in C} BY <2>1
  <2> QED BY <2>1, <2>2, <2>3
<1>5. watched' = {fd'[s] : s \in Open'}
  BY <1>3, <1>4
<1> QED BY <1>1, <1>2, <1>5

(* Closing a session takes its descriptor out of the watched ones.            *)
LEMMA ShutWatch ==
  ASSUME EverySessionWatched, NEW x \in Slots, Shut(x), TypeOK'
  PROVE  EverySessionWatched'
<1>1. {x} \in SUBSET Slots /\ fd \in [Slots -> Fds \cup {0}] /\ PeerClose({x}, fd)
  BY DEF EverySessionWatched, TypeOK, Shut
<1>2. \A c, d \in Slots : fd[c] = fd[d] /\ fd[c] # 0 => c = d
  BY DEF EverySessionWatched, Open
<1>3. watched = {fd[c] : c \in {d \in Slots : fd[d] # 0}}
  BY DEF EverySessionWatched, Open
<1>4. watched' = watched \ {fd[c] : c \in {x}} /\ recalc'
  BY DEF Shut
<1>5. /\ watched' = {fd'[s] : s \in Open'}
      /\ \A s, c \in Open' : fd'[s] = fd'[c] => s = c
  BY <1>1, <1>2, <1>3, <1>4, CloseWatched
<1> QED BY <1>4, <1>5 DEF EverySessionWatched

(* Every open slot is within the bounds once they have been computed. *)
LEMMA SelectedBounds ==
  ASSUME EverySessionWatched, NEW R, NEW acc, Selected(R, acc)
  PROVE  \A s \in Open : s < maxIdx' /\ fd[s] < selectFd'
<1>1. CASE recalc
  BY <1>1, Bounds DEF EverySessionWatched, Selected
<1>2. CASE ~recalc
  BY <1>2 DEF EverySessionWatched, Selected, Recalculate
<1> QED BY <1>1, <1>2

(* No step forgets a session or its descriptor.                               *)
LEMMA WatchStep ==
  ASSUME EverySessionWatched, [Next]_vars
  PROVE  EverySessionWatched'
<1>0. TypeOK /\ TypeOK'
  BY TypeStep DEF EverySessionWatched
<1>1. ASSUME NEW R, Selected(R, FALSE), UNCHANGED <<fd, watched>> PROVE EverySessionWatched'
  <2>1. \A s \in Open : s < maxIdx' /\ fd[s] < selectFd'
    BY <1>1, SelectedBounds
  <2> QED BY <1>0, <1>1, <2>1 DEF EverySessionWatched, Open
<1>2. ASSUME NEW a \in Addrs, NEW R, Accept(a, R) PROVE EverySessionWatched'
  <2> DEFINE s == Min(FreeSlots)
             C == Doomed(s, a)
             F == [fd EXCEPT ![s] = NewFd]
             W == watched \cup {NewFd}
  <2>1. s \in Slots /\ fd[s] = 0
    BY <1>2, Free DEF Accept
  <2>2. NewFd \in Fds /\ \A c \in Slots : fd[c] # NewFd
    BY <1>0, Fresh
  <2>3. NewFd # 0
    BY <2>2 DEF Fds
  <2>4. C \in SUBSET Slots
    BY <2>1 DEF Doomed, SameAddr
  <2>5. PeerClose(C, F) /\ recalc'
    BY <1>2 DEF Accept, Selected
  <2>6. watched' = W \ {IF c = s THEN NewFd ELSE fd[c] : c \in C}
    BY <1>2 DEF Accept
  <2> HIDE DEF s, C
  <2>7. \A c \in Slots : F[c] = IF c = s THEN NewFd ELSE fd[c]
    BY <1>0, <2>1 DEF TypeOK
  <2>8. F \in [Slots -> Fds \cup {0}]
    BY <1>0, <2>1, <2>2 DEF TypeOK
  <2> HIDE DEF F
  <2>9. \A c, d \in Slots : F[c] = F[d] /\ F[c] # 0 => c = d
    BY <2>2, <2>7 DEF EverySessionWatched, Open
  <2>10. W = {F[c] : c \in {d \in Slots : F[d] # 0}}
    <3>1. watched = {fd[c] : c \in {d \in Slots : fd[d] # 0}}
      BY DEF EverySessionWatched, Open
    <3>2. ASSUME NEW f \in W PROVE \E c \in Slots : F[c] # 0 /\ F[c] = f
      <4>1. CASE f = NewFd BY <4>1, <2>1, <2>3, <2>7
      <4>2. CASE f \in watched
        <5>1. PICK c \in Slots : fd[c] # 0 /\ fd[c] = f BY <3>1, <4>2
        <5> QED BY <5>1, <2>1, <2>7
      <4> QED BY <4>1, <4>2
    <3>3. ASSUME NEW c \in Slots, F[c] # 0 PROVE F[c] \in W
      BY <3>1, <3>3, <2>7
    <3> QED BY <3>2, <3>3
  <2>11. watched' = W \ {F[c] : c \in C}
    BY <2>4, <2>6, <2>7
  <2> HIDE DEF W
  <2>12. /\ watched' = {fd'[c] : c \in Open'}
         /\ \A c, d \in Open' : fd'[c] = fd'[d] => c = d
    BY <2>4, <2>5, <2>8, <2>9, <2>10, <2>11, CloseWatched
  <2> QED BY <1>0, <2>5, <2>12 DEF EverySessionWatched
<1>3. ASSUME UNCHANGED <<fd, watched, recalc, selectFd, maxIdx>> PROVE EverySessionWatched'
  BY <1>0, <1>3 DEF EverySessionWatched, Open
<1>4. ASSUME NEW i, NEW h, ReadOpen(i, h) PROVE EverySessionWatched'
  <2>1. PICK x \in Slots : Serve(x) /\ (Shut(x) \/ UNCHANGED <<fd, watched, recalc>>)
    BY <1>4 DEF ReadOpen
  <2> QED BY <1>0, <1>3, <2>1, ShutWatch DEF Serve
<1>5. CASE ReadReset \/ ReadFatal
  BY <1>0, <1>5, ShutWatch DEF ReadReset, ReadFatal
<1>6. CASE NobodyReadable \/ Tick \/ ReadPart
  BY <1>3, <1>6 DEF NobodyReadable, Tick, ReadPart, Serve, session, loop
<1>7. ASSUME NEW k, ReadIdle(k) PROVE EverySessionWatched'
  BY <1>3, <1>7 DEF ReadIdle, Serve, session
<1>8. ASSUME NEW p, NEW a, NEW l, ReadUpdate(p, a, l) PROVE EverySessionWatched'
  BY <1>3, <1>8 DEF ReadUpdate, Serve, session
<1>9. ASSUME NEW p, ReadWithdraw(p) PROVE EverySessionWatched'
  BY <1>3, <1>9 DEF ReadWithdraw, Serve, session
<1>10. ASSUME NEW R, NoConnection(R) PROVE EverySessionWatched'
  BY <1>1, <1>10 DEF NoConnection, session
<1>11. ASSUME NEW a, NEW R, Drop(a, R) PROVE EverySessionWatched'
  BY <1>1, <1>11 DEF Drop, session
<1>12. CASE UNCHANGED vars
  BY <1>3, <1>12 DEF vars, session, loop
<1> QED BY <1>2, <1>4, <1>5, <1>6, <1>7, <1>8, <1>9, <1>10, <1>11, <1>12 DEF Next

(* At the start there is nothing to watch.                                    *)
LEMMA InitWatched == Init => EverySessionWatched
<1> SUFFICES ASSUME Init PROVE EverySessionWatched
  OBVIOUS
<1> USE PeersAssumption
<1>1. TypeOK
  BY DEF Init, TypeOK, Route
<1>2. Open = {}
  BY DEF Init, Open
<1> QED BY <1>1, <1>2 DEF Init, EverySessionWatched

(* Exactly the descriptors of the open slots are watched, whatever comes and  *)
(* goes: no session of the BGP daemon is forgotten or read twice.             *)
THEOREM SessionsWatched == Spec => []EverySessionWatched
<1>1. EverySessionWatched /\ [Next]_vars => EverySessionWatched'
  BY WatchStep
<1> QED BY <1>1, InitWatched, PTL DEF Spec

-----------------------------------------------------------------------------
(* One session per address and router *)

(* Closing a session makes no duplicate.                                      *)
LEMMA ShutOne ==
  ASSUME TypeOK, OneSession, NEW x \in Slots, Shut(x)
  PROVE  OneSession'
<1>1. /\ \A c \in Slots : fd'[c] = IF c = x THEN 0 ELSE fd[c]
      /\ \A c \in Slots : id'[c] = IF c = x THEN Unset ELSE id[c]
      /\ \A c \in Slots : addr'[c] = IF c = x THEN Unset ELSE addr[c]
      /\ status' = status
  BY DEF TypeOK, Shut, PeerClose
<1> QED BY <1>1 DEF OneSession, Open, Established

(* No step makes a second session of an address or an identifier.             *)
LEMMA OneStep ==
  ASSUME EverySessionWatched, OneSession, [Next]_vars
  PROVE  OneSession'
<1>0. TypeOK
  BY DEF EverySessionWatched
<1>1. ASSUME NEW a \in Addrs, NEW R, Accept(a, R) PROVE OneSession'
  <2> DEFINE s == Min(FreeSlots)
             C == Doomed(s, a)
             F == [fd EXCEPT ![s] = NewFd]
  <2>1. s \in Slots
    BY <1>1, Free DEF Accept
  <2>2. PeerClose(C, F)
    BY <1>1 DEF Accept
  <2>3. /\ addr' = [c \in Slots |-> IF c \in C THEN Unset ELSE IF c = s THEN a ELSE addr[c]]
        /\ status' = [status EXCEPT ![s] = "Idle"]
    BY <1>1 DEF Accept
  <2>4. \A c \in Slots : F[c] = IF c = s THEN NewFd ELSE fd[c]
    BY <1>0, <2>1 DEF TypeOK
  <2>5. s \notin C => \A c \in Slots \ {s} : addr[c] = a => c \in C
    BY DEF Doomed, SameAddr, Firm
  <2> HIDE DEF s, C, F
  <2>6. /\ \A c \in Slots : fd'[c] = IF c \in C THEN 0 ELSE F[c]
        /\ \A c \in Slots : id'[c] = IF c \in C THEN Unset ELSE id[c]
    BY <2>2 DEF PeerClose
  <2>7. \A c \in Slots : status'[c] = IF c = s THEN "Idle" ELSE status[c]
    BY <1>0, <2>1, <2>3 DEF TypeOK
  <2>8. ASSUME NEW c \in Open', NEW d \in Open', addr'[c] = addr'[d] PROVE c = d
    <3>1. /\ c \in Slots \ C /\ d \in Slots \ C
          /\ c # s => c \in Open
          /\ d # s => d \in Open
      BY <2>4, <2>6 DEF Open
    <3>2. /\ addr'[c] = IF c = s THEN a ELSE addr[c]
          /\ addr'[d] = IF d = s THEN a ELSE addr[d]
      BY <2>3, <3>1
    <3>3. CASE c # s /\ d # s
      BY <2>8, <3>1, <3>2, <3>3 DEF OneSession
    <3>4. CASE c = s /\ d # s
      BY <2>5, <2>8, <3>1, <3>2, <3>4
    <3>5. CASE c # s /\ d = s
      BY <2>5, <2>8, <3>1, <3>2, <3>5
    <3> QED BY <3>3, <3>4, <3>5
  <2>9. ASSUME NEW c \in Slots, NEW d \in Slots, Established(c)', Established(d)', id'[c] = id'[d]
        PROVE  c = d
    <3>1. c \notin C /\ d \notin C /\ c # s /\ d # s
      BY <2>6, <2>7, <2>9 DEF Established
    <3>2. Established(c) /\ Established(d) /\ id[c] = id[d]
      BY <2>4, <2>6, <2>7, <2>9, <3>1 DEF Established
    <3> QED BY <3>2 DEF OneSession
  <2> QED BY <2>8, <2>9 DEF OneSession
<1>2. ASSUME UNCHANGED <<fd, addr, id, status>> PROVE OneSession'
  BY <1>2 DEF OneSession, Open, Established
<1>3. ASSUME NEW i \in Ids, NEW h, ReadOpen(i, h) PROVE OneSession'
  <2>1. PICK x \in Slots :
          IF Known(x, i) THEN Shut(x)
          ELSE /\ id' = [id EXCEPT ![x] = i]
               /\ status' = [status EXCEPT ![x] = "Established"]
               /\ UNCHANGED <<fd, addr>>
    BY <1>3 DEF ReadOpen
  <2>2. CASE Known(x, i)
    BY <1>0, <2>1, <2>2, ShutOne
  <2>3. CASE ~Known(x, i)
    <3>1. \A c \in Slots : /\ id'[c] = IF c = x THEN i ELSE id[c]
                           /\ status'[c] = IF c = x THEN "Established" ELSE status[c]
      BY <1>0, <2>1, <2>3 DEF TypeOK
    <3>2. \A c \in Slots \ {x} : id[c] # i
      BY <2>3 DEF Known
    <3>3. ASSUME NEW c \in Slots, NEW d \in Slots, Established(c)', Established(d)', id'[c] = id'[d]
          PROVE  c = d
      BY <2>1, <2>3, <3>1, <3>2, <3>3 DEF OneSession, Established
    <3> QED BY <2>1, <2>3, <3>3 DEF OneSession, Open
  <2> QED BY <2>2, <2>3
<1>4. CASE ReadReset \/ ReadFatal
  BY <1>0, <1>4, ShutOne DEF ReadReset, ReadFatal
<1>5. CASE NobodyReadable \/ Tick \/ ReadPart
  BY <1>2, <1>5 DEF NobodyReadable, Tick, ReadPart, session
<1>6. ASSUME NEW k, ReadIdle(k) PROVE OneSession'
  BY <1>2, <1>6 DEF ReadIdle, session
<1>7. ASSUME NEW p, NEW a, NEW l, ReadUpdate(p, a, l) PROVE OneSession'
  BY <1>2, <1>7 DEF ReadUpdate, session
<1>8. ASSUME NEW p, ReadWithdraw(p) PROVE OneSession'
  BY <1>2, <1>8 DEF ReadWithdraw, session
<1>9. ASSUME NEW R, NoConnection(R) PROVE OneSession'
  BY <1>2, <1>9 DEF NoConnection, session
<1>10. ASSUME NEW a, NEW R, Drop(a, R) PROVE OneSession'
  BY <1>2, <1>10 DEF Drop, session
<1>11. CASE UNCHANGED vars
  BY <1>2, <1>11 DEF vars, session
<1> QED BY <1>1, <1>3, <1>4, <1>5, <1>6, <1>7, <1>8, <1>9, <1>10, <1>11 DEF Next

(* An address has one session and an identifier one established session,      *)
(* whatever connections, resets and replacements come in whatever order.      *)
THEOREM SessionsUnique == Spec => []OneSession
<1>1. Init => OneSession
  BY DEF Init, OneSession, Open, Established
<1>2. EverySessionWatched /\ OneSession /\ [Next]_vars => OneSession'
  BY OneStep
<1> QED BY <1>1, <1>2, SessionsWatched, PTL DEF Spec

-----------------------------------------------------------------------------
(* The round robin *)

(* Who is ready is within the bounds of the search: a session accepted in the *)
(* same turn is not ready yet.                                                *)
ReadInv == pc = "read" => \A s \in Slots : Ready(s) => s < maxIdx

(* How many slots the search looks at before slot s. *)
Ahead(s) ==
  LET q == rr % maxIdx IN IF q <= s THEN s - q ELSE s + maxIdx - q

(* Each time a slot is passed over the search starts one slot closer to it. *)
WaitInv ==
  \A s \in Slots \ shifted :
    bypass[s] > 0 => s < maxIdx /\ bypass[s] + Ahead(s) < maxIdx

(* Whoever is ready when the search starts is within its bounds.              *)
LEMMA ReadStep ==
  ASSUME EverySessionWatched, ReadInv, [Next]_vars
  PROVE  ReadInv'
<1>0. TypeOK
  BY DEF EverySessionWatched
<1>1. ASSUME NEW R, NEW acc, Selected(R, acc),
             \A s \in Slots : fd'[s] # 0 /\ fd'[s] \in watched => s \in Open
      PROVE  ReadInv'
  <2>1. \A s \in Open : s < maxIdx'
    BY <1>1, SelectedBounds
  <2>2. readable' \subseteq watched
    BY <1>1 DEF Selected
  <2> QED BY <1>1, <2>1, <2>2 DEF ReadInv, Ready
<1>2. ASSUME NEW R, NEW acc, Selected(R, acc), UNCHANGED fd PROVE ReadInv'
  BY <1>1, <1>2 DEF Open
<1>3. ASSUME NEW a \in Addrs, NEW R, Accept(a, R) PROVE ReadInv'
  <2> DEFINE s == Min(FreeSlots)
             F == [fd EXCEPT ![s] = NewFd]
  <2>1. s \in Slots
    BY <1>3, Free DEF Accept
  <2>2. PICK C : PeerClose(C, F)
    BY <1>3 DEF Accept
  <2>3. \A c \in Slots : F[c] = IF c = s THEN NewFd ELSE fd[c]
    BY <1>0, <2>1 DEF TypeOK
  <2> HIDE DEF s, F
  <2>4. \A c \in Slots : fd'[c] = 0 \/ fd'[c] = NewFd \/ fd'[c] = fd[c]
    BY <2>2, <2>3 DEF PeerClose
  <2>5. NewFd \notin watched
    BY <1>0, Fresh DEF EverySessionWatched, Open
  <2>6. \A c \in Slots : fd'[c] # 0 /\ fd'[c] \in watched => c \in Open
    BY <2>4, <2>5 DEF Open
  <2>7. Selected(R, TRUE)
    BY <1>3 DEF Accept
  <2> QED BY <1>1, <2>6, <2>7
<1>4. ASSUME pc' = "select" PROVE ReadInv'
  BY <1>4 DEF ReadInv
<1>5. CASE NobodyReadable \/ Tick \/ ReadPart \/ ReadReset \/ ReadFatal
  BY <1>4, <1>5 DEF NobodyReadable, Tick, ReadPart, ReadReset, ReadFatal, Serve
<1>6. ASSUME NEW i, NEW h, ReadOpen(i, h) PROVE ReadInv'
  BY <1>4, <1>6 DEF ReadOpen, Serve
<1>7. ASSUME NEW k, ReadIdle(k) PROVE ReadInv'
  BY <1>4, <1>7 DEF ReadIdle, Serve
<1>8. ASSUME NEW p, NEW a, NEW l, ReadUpdate(p, a, l) PROVE ReadInv'
  BY <1>4, <1>8 DEF ReadUpdate, Serve
<1>9. ASSUME NEW p, ReadWithdraw(p) PROVE ReadInv'
  BY <1>4, <1>9 DEF ReadWithdraw, Serve
<1>10. ASSUME NEW R, NoConnection(R) PROVE ReadInv'
  BY <1>2, <1>10 DEF NoConnection, session
<1>11. ASSUME NEW a, NEW R, Drop(a, R) PROVE ReadInv'
  BY <1>2, <1>11 DEF Drop, session
<1>12. CASE UNCHANGED vars
  BY <1>12 DEF vars, session, loop, ReadInv, Ready
<1> QED BY <1>3, <1>5, <1>6, <1>7, <1>8, <1>9, <1>10, <1>11, <1>12 DEF Next

(* A slot within the bounds is less than one turn ahead.                      *)
LEMMA AheadRange ==
  ASSUME TypeOK, NEW s \in Slots, s < maxIdx
  PROVE  Ahead(s) \in 0..(maxIdx - 1)
<1>1. s \in Nat /\ maxIdx \in Nat \ {0} /\ rr \in Nat
  BY PeersAssumption DEF TypeOK, Slots
<1>2. rr % maxIdx \in 0..(maxIdx - 1)
  BY <1>1, DivMod
<1> QED BY <1>1, <1>2 DEF Ahead

(* A read serves the slot or brings the search one slot closer to it.         *)
LEMMA ServeWait ==
  ASSUME TypeOK, ReadInv, WaitInv, NEW x \in Slots, Serve(x)
  PROVE  WaitInv'
<1> DEFINE q == rr % maxIdx
<1>1. maxIdx \in Nat \ {0} /\ maxIdx <= MaxPeers /\ rr \in Nat /\ maxIdx' = maxIdx
  BY PeersAssumption DEF TypeOK, Serve
<1>2. q \in 0..(maxIdx - 1)
  BY <1>1, DivMod
<1>3. rr' = IF 1 + q < maxIdx THEN 1 + q ELSE 0
  <2>1. rr' = (1 + rr) % maxIdx
    BY <1>1 DEF Serve, Advance
  <2>2. 1 \in 0..maxIdx
    BY <1>1
  <2>3. (1 + rr) % maxIdx = IF 1 + (rr % maxIdx) < maxIdx THEN 1 + (rr % maxIdx) ELSE 1 + (rr % maxIdx) - maxIdx
    BY ONLY <1>1, <2>2, ModAdd
  <2> HIDE DEF q
  <2>4. rr' = IF 1 + q < maxIdx THEN 1 + q ELSE 1 + q - maxIdx
    BY <2>1, <2>3 DEF q
  <2> QED BY <1>1, <1>2, <2>4
<1>4. rr' % maxIdx = rr'
  <2>1. rr' \in 0..(maxIdx - 1) /\ rr' \in Nat
    BY <1>1, <1>2, <1>3
  <2> DEFINE r == rr' % maxIdx
             k == rr' \div maxIdx
  <2>2. r \in 0..(maxIdx - 1) /\ k \in Nat /\ rr' = maxIdx * k + r
    BY <1>1, <2>1, DivMod
  <2> HIDE DEF r, k
  <2>3. maxIdx * 0 + rr' = maxIdx * k + r
    BY <1>1, <2>1, <2>2
  <2>4. rr' = r
    BY <1>1, <2>1, <2>2, <2>3, ModUnique
  <2> QED BY <2>4 DEF r
<1> HIDE DEF q
<1>5. ASSUME NEW s \in Slots, s \notin shifted', bypass'[s] > 0
      PROVE  s < maxIdx' /\ bypass'[s] + Ahead(s)' < maxIdx'
  <2>1. /\ s # x /\ Ready(s) /\ s \notin shifted
        /\ bypass'[s] = IF bypass[s] < MaxPeers THEN bypass[s] + 1 ELSE MaxPeers
    BY <1>5 DEF Serve
  <2>2. s < maxIdx /\ s \in Nat
    BY <2>1, PeersAssumption DEF ReadInv, Serve, Slots
  <2>3. Ahead(s) \in 0..(maxIdx - 1)
    BY <2>2, AheadRange
  <2>4. Ahead(s) = IF q <= s THEN s - q ELSE s + maxIdx - q
    BY DEF Ahead, q
  <2>5. Turn(Ahead(s)) = s
    <3>1. (Ahead(s) + rr) % maxIdx = IF Ahead(s) + q < maxIdx THEN Ahead(s) + q ELSE Ahead(s) + q - maxIdx
      <4> DEFINE i == Ahead(s)
      <4>1. i \in 0..maxIdx
        BY <1>1, <2>3
      <4> HIDE DEF i
      <4>2. (i + rr) % maxIdx = IF i + (rr % maxIdx) < maxIdx THEN i + (rr % maxIdx) ELSE i + (rr % maxIdx) - maxIdx
        BY ONLY <1>1, <4>1, ModAdd
      <4> QED BY <4>2 DEF i, q
    <3> QED BY <1>1, <1>2, <2>2, <2>3, <2>4, <3>1 DEF Turn
  <2>6. Ahead(s) \in Found
    BY <2>1, <2>3, <2>5 DEF Found
  <2>7. Min(Found) \in Found /\ Min(Found) <= Ahead(s)
    <3>1. Found \in SUBSET Nat /\ Found # {}
      BY <2>6, <1>1 DEF Found
    <3> QED BY <2>6, <3>1, MinIn
  <2>8. Min(Found) # Ahead(s)
    BY <2>1, <2>5 DEF Serve, Reader
  <2>9. Ahead(s) >= 1
    <3>1. Min(Found) \in 0..(maxIdx - 1)
      BY <2>7 DEF Found
    <3> QED BY <2>3, <2>7, <2>8, <3>1
  <2>10. Ahead(s)' = IF rr' <= s THEN s - rr' ELSE s + maxIdx - rr'
    BY <1>1, <1>4 DEF Ahead
  <2>11. Ahead(s)' = Ahead(s) - 1
    BY <1>1, <1>2, <1>3, <2>2, <2>4, <2>9, <2>10
  <2>12. bypass[s] \in Nat /\ bypass[s] + Ahead(s) < maxIdx
    <3>1. bypass[s] \in 0..MaxPeers
      BY DEF TypeOK
    <3>2. CASE bypass[s] = 0 BY <1>1, <2>3, <3>1, <3>2
    <3>3. CASE bypass[s] > 0 BY <2>1, <3>1, <3>3 DEF WaitInv
    <3> QED BY <3>1, <3>2, <3>3
  <2>13. bypass'[s] = bypass[s] + 1
    BY <1>1, <2>1, <2>3, <2>12, PeersAssumption
  <2> QED BY <1>1, <2>2, <2>3, <2>11, <2>12, <2>13
<1> QED BY <1>5 DEF WaitInv

(* Every step keeps the wait of a slot within one turn.                       *)
LEMMA WaitStep ==
  ASSUME TypeOK, ReadInv, WaitInv, [Next]_vars
  PROVE  WaitInv'
<1>1. ASSUME NEW R, NEW acc, Selected(R, acc), UNCHANGED rr PROVE WaitInv'
  <2>1. CASE maxIdx' = maxIdx
    BY <1>1, <2>1 DEF WaitInv, Selected, Ahead
  <2>2. CASE maxIdx' # maxIdx
    BY <1>1, <2>2 DEF WaitInv, Selected
  <2> QED BY <2>1, <2>2
<1>2. ASSUME UNCHANGED <<bypass, shifted, maxIdx, rr>> PROVE WaitInv'
  BY <1>2 DEF WaitInv, Ahead
<1>3. CASE NobodyReadable
  BY <1>3 DEF NobodyReadable, WaitInv
<1>4. CASE Tick
  BY <1>2, <1>4 DEF Tick, loop, waiting
<1>5. CASE ReadPart \/ ReadReset \/ ReadFatal
  BY <1>5, ServeWait DEF ReadPart, ReadReset, ReadFatal
<1>6. ASSUME NEW i, NEW h, ReadOpen(i, h) PROVE WaitInv'
  BY <1>6, ServeWait DEF ReadOpen
<1>7. ASSUME NEW k, ReadIdle(k) PROVE WaitInv'
  BY <1>7, ServeWait DEF ReadIdle
<1>8. ASSUME NEW p, NEW a, NEW l, ReadUpdate(p, a, l) PROVE WaitInv'
  BY <1>8, ServeWait DEF ReadUpdate
<1>9. ASSUME NEW p, ReadWithdraw(p) PROVE WaitInv'
  BY <1>9, ServeWait DEF ReadWithdraw
<1>10. ASSUME NEW R, NoConnection(R) PROVE WaitInv'
  BY <1>1, <1>10 DEF NoConnection
<1>11. ASSUME NEW a, NEW R, Drop(a, R) PROVE WaitInv'
  BY <1>1, <1>11 DEF Drop
<1>12. ASSUME NEW a, NEW R, Accept(a, R) PROVE WaitInv'
  BY <1>1, <1>12 DEF Accept
<1>13. CASE UNCHANGED vars
  BY <1>2, <1>13 DEF vars, loop, waiting
<1> QED BY <1>3, <1>4, <1>5, <1>6, <1>7, <1>8, <1>9, <1>10, <1>11, <1>12, <1>13 DEF Next

(* While the number of slots to search stays the same, a peer with data to    *)
(* read is passed over fewer times than there are such slots.                 *)
THEOREM RoundRobin == Spec => []NoStarvation
<1>1. Init => ReadInv /\ WaitInv
  BY DEF Init, ReadInv, WaitInv
<1>2. EverySessionWatched /\ ReadInv /\ WaitInv /\ [Next]_vars => ReadInv' /\ WaitInv'
  BY ReadStep, WaitStep DEF EverySessionWatched
<1>3. EverySessionWatched /\ WaitInv => NoStarvation
  <2> SUFFICES ASSUME EverySessionWatched, WaitInv, NEW s \in Slots \ shifted, bypass[s] # 0
               PROVE  bypass[s] < maxIdx
    BY DEF NoStarvation
  <2>1. TypeOK
    BY DEF EverySessionWatched
  <2>2. bypass[s] \in Nat /\ bypass[s] > 0
    BY <2>1, PeersAssumption DEF TypeOK
  <2>3. s < maxIdx /\ bypass[s] + Ahead(s) < maxIdx
    BY <2>2 DEF WaitInv
  <2>4. Ahead(s) \in 0..(maxIdx - 1)
    BY <2>1, <2>3, AheadRange
  <2>5. maxIdx \in Nat
    BY <2>1, PeersAssumption DEF TypeOK
  <2> QED BY <2>2, <2>3, <2>4, <2>5
<1> QED BY <1>1, <1>2, <1>3, SessionsWatched, PTL DEF Spec

-----------------------------------------------------------------------------
(* The RIB *)

(* A route belongs to an established session and is in the bucket of its      *)
(* descriptor, where bgp_peer_close will look for it.                         *)
RibOwned == \A r \in rib : Established(r.slot) /\ r.bucket = Bucket(fd[r.slot])

(* A session has one route per prefix. *)
RibUnique == \A r, q \in rib : r.slot = q.slot /\ r.prefix = q.prefix => r = q

(* Before its OPEN a peer has announced nothing. *)
NotYet == \A s \in Slots : fd[s] # 0 /\ status[s] = "Idle" => announced[s] = {}

Same(r, n) == r.prefix = n.prefix /\ r.attr = n.attr

(* RibIsAnnounced, route by route. *)
RibHeard ==
  \A s \in Slots : Established(s) =>
    /\ \A r \in rib : r.slot = s => \E n \in announced[s] : Same(r, n)
    /\ \A n \in announced[s] : \E r \in rib : r.slot = s /\ Same(r, n)

RibInv == RibOwned /\ RibUnique /\ NotYet /\ RibHeard

(* The invariant implies the property. *)
LEMMA RibExactly ==
  ASSUME TypeOK, RibInv
  PROVE  RibIsAnnounced
<1> SUFFICES ASSUME NEW s \in Slots
             PROVE  {<<r.prefix, r.attr>> : r \in {q \in rib : q.slot = s}}
                    = IF Established(s) THEN {<<r.prefix, r.attr>> : r \in announced[s]} ELSE {}
  BY DEF RibIsAnnounced
<1>1. CASE ~Established(s)
  <2>1. {q \in rib : q.slot = s} = {}
    BY <1>1 DEF RibInv, RibOwned
  <2> QED BY <1>1, <2>1
<1>2. CASE Established(s)
  <2>1. ASSUME NEW r \in rib, r.slot = s PROVE \E n \in announced[s] : <<r.prefix, r.attr>> = <<n.prefix, n.attr>>
    BY <1>2, <2>1 DEF RibInv, RibHeard, Same
  <2>2. ASSUME NEW n \in announced[s] PROVE \E r \in rib : r.slot = s /\ <<r.prefix, r.attr>> = <<n.prefix, n.attr>>
    BY <1>2, <2>2 DEF RibInv, RibHeard, Same
  <2> QED BY <1>2, <2>1, <2>2
<1> QED BY <1>1, <1>2

(* bgp_peer_close of the slots C takes all their routes and no others; the    *)
(* sessions that go on keep what they have.                                   *)
LEMMA CloseRib ==
  ASSUME TypeOK, RibInv, NEW C \in SUBSET Slots, NEW F, PeerClose(C, F),
         \A c \in Slots : fd[c] # 0 => F[c] = fd[c]
  PROVE  rib' = {r \in rib : r.slot \notin C}
<1>1. \A r \in rib : r.slot \in Slots /\ fd[r.slot] # 0 /\ r.bucket = Bucket(F[r.slot])
  BY DEF TypeOK, Route, RibInv, RibOwned, Established
<1>2. rib' = rib \ UNION {RoutesOf(s, F[s]) : s \in C}
  BY DEF PeerClose
<1>3. ASSUME NEW r \in rib PROVE r \in UNION {RoutesOf(s, F[s]) : s \in C} <=> r.slot \in C
  BY <1>1 DEF RoutesOf
<1> QED BY <1>2, <1>3

(* Sessions end or begin anew, and the others are as they were. *)
LEMMA RibKept ==
  ASSUME TypeOK, TypeOK', RibInv, NEW C \in SUBSET Slots, rib' = {r \in rib : r.slot \notin C},
         \A s \in Slots : \/ s \in C /\ fd'[s] = 0
                          \/ fd'[s] # 0 /\ status'[s] = "Idle" /\ announced'[s] = {}
                             /\ ~Established(s)
                          \/ s \notin C /\ fd'[s] = fd[s] /\ status'[s] = status[s]
                             /\ announced'[s] = announced[s]
  PROVE  RibInv'
<1>1. RibOwned'
  <2> SUFFICES ASSUME NEW r \in rib' PROVE Established(r.slot)' /\ r.bucket = Bucket(fd'[r.slot])
    BY DEF RibOwned, Bucket
  <2>1. r \in rib /\ r.slot \in Slots \ C /\ Established(r.slot) /\ r.bucket = Bucket(fd[r.slot])
    BY DEF TypeOK, Route, RibInv, RibOwned
  <2> QED BY <2>1 DEF Established
<1>2. RibUnique'
  BY DEF RibInv, RibUnique
<1>3. NotYet'
  BY DEF RibInv, NotYet
<1>4. RibHeard'
  <2> SUFFICES ASSUME NEW s \in Slots, Established(s)'
               PROVE  /\ \A r \in rib' : r.slot = s => \E n \in announced'[s] : Same(r, n)
                      /\ \A n \in announced'[s] : \E r \in rib' : r.slot = s /\ Same(r, n)
    BY DEF RibHeard, Same
  <2>1. s \notin C /\ Established(s) /\ announced'[s] = announced[s]
    BY DEF Established
  <2> QED BY <2>1 DEF RibInv, RibHeard
<1> QED BY <1>1, <1>2, <1>3, <1>4 DEF RibInv

(* Closing a session leaves the routes of the others.                         *)
LEMMA ShutRib ==
  ASSUME TypeOK, TypeOK', RibInv, NEW x \in Slots, Shut(x)
  PROVE  RibInv'
<1>1. PeerClose({x}, fd) /\ UNCHANGED <<status, announced>>
  BY DEF Shut
<1>2. rib' = {r \in rib : r.slot \notin {x}}
  BY <1>1, CloseRib
<1>3. \A c \in Slots : fd'[c] = IF c = x THEN 0 ELSE fd[c]
  BY <1>1 DEF PeerClose
<1> QED BY <1>1, <1>2, <1>3, RibKept

(* The slot that is served is open. *)
LEMMA Served ==
  ASSUME TypeOK, NEW x \in Slots, Serve(x)
  PROVE  fd[x] # 0
<1>1. Found \in SUBSET Nat /\ Found # {}
  BY PeersAssumption DEF TypeOK, Found, Serve
<1>2. Min(Found) \in Found
  BY <1>1, MinIn
<1> QED BY <1>2 DEF Serve, Reader, Found, Ready

(* A peer's UPDATE changes its own route of one prefix. *)
LEMMA UpdateRib ==
  ASSUME TypeOK, TypeOK', RibInv, NEW x \in Slots, NEW p \in Nets, NEW a \in Attrs, NEW l \in Labels,
         Established(x), UNCHANGED <<fd, status>>, rib' = Installed(x, p, a, l),
         announced' = [announced EXCEPT ![x] =
           {r \in @ : r.prefix # p} \cup {[prefix |-> p, attr |-> a, label |-> l]}]
  PROVE  RibInv'
<1> DEFINE new == [prefix |-> p, bucket |-> Bucket(fd[x]), slot |-> x, attr |-> a, label |-> l]
           said == [prefix |-> p, attr |-> a, label |-> l]
<1>1. \A r \in rib : r.slot = x => r.bucket = Bucket(fd[x])
  BY DEF RibInv, RibOwned
<1>2. \A r : r \in Previous(x, p) <=> r \in rib /\ r.slot = x /\ r.prefix = p
  BY <1>1 DEF Previous, RoutesOf
<1>3. announced'[x] = {n \in announced[x] : n.prefix # p} \cup {said}
  BY DEF TypeOK
<1>4. \A s \in Slots \ {x} : announced'[s] = announced[s]
  BY DEF TypeOK
<1>5. \A s \in Slots : Established(s)' <=> Established(s)
  BY DEF Established
<1>6. NotYet'
  BY <1>4 DEF RibInv, NotYet, Established
<1>7. CASE \E r \in Previous(x, p) : r.attr = a
  <2>1. rib' = rib
    BY <1>7 DEF Installed
  <2>2. PICK o \in rib : o.slot = x /\ o.prefix = p /\ o.attr = a
    BY <1>2, <1>7
  <2>3. RibOwned' /\ RibUnique'
    BY <2>1 DEF RibInv, RibOwned, RibUnique, Established, Bucket
  <2>4. ASSUME NEW r \in rib, r.slot = x PROVE \E n \in announced'[x] : Same(r, n)
    <3>1. CASE r.prefix = p
      <4>1. r = o BY <2>2, <2>4, <3>1 DEF RibInv, RibUnique
      <4>2. said \in announced'[x] /\ Same(r, said) BY <1>3, <2>2, <4>1 DEF Same
      <4> QED BY <4>2
    <3>2. CASE r.prefix # p
      <4>1. PICK n \in announced[x] : Same(r, n) BY <2>4 DEF RibInv, RibHeard
      <4> QED BY <1>3, <3>2, <4>1 DEF Same
    <3> QED BY <3>1, <3>2
  <2>5. ASSUME NEW n \in announced'[x] PROVE \E r \in rib : r.slot = x /\ Same(r, n)
    <3>1. CASE n = said BY <2>2, <3>1 DEF Same
    <3>2. CASE n \in announced[x] BY <3>2 DEF RibInv, RibHeard
    <3> QED BY <1>3, <3>1, <3>2
  <2>6. RibHeard'
    <3> SUFFICES ASSUME NEW s \in Slots, Established(s)
                 PROVE  /\ \A r \in rib : r.slot = s => \E n \in announced'[s] : Same(r, n)
                        /\ \A n \in announced'[s] : \E r \in rib : r.slot = s /\ Same(r, n)
      BY <1>5, <2>1 DEF RibHeard, Same
    <3>1. CASE s = x BY <2>4, <2>5, <3>1
    <3>2. CASE s # x BY <1>4, <3>2 DEF RibInv, RibHeard
    <3> QED BY <3>1, <3>2
  <2> QED BY <1>6, <2>3, <2>6 DEF RibInv
<1>8. CASE ~\E r \in Previous(x, p) : r.attr = a
  <2>1. rib' = (rib \ Previous(x, p)) \cup {new}
    BY <1>8 DEF Installed
  <2>2. \A r : r \in rib' <=> r = new \/ (r \in rib /\ ~(r.slot = x /\ r.prefix = p))
    BY <1>2, <2>1
  <2>3. new.slot = x /\ new.prefix = p /\ new.attr = a /\ new.bucket = Bucket(fd[x])
    OBVIOUS
  <2> HIDE DEF new
  <2>4. RibOwned'
    <3> SUFFICES ASSUME NEW r \in rib' PROVE Established(r.slot)' /\ r.bucket = Bucket(fd'[r.slot])
      BY DEF RibOwned, Bucket
    <3>1. Established(r.slot) /\ r.bucket = Bucket(fd[r.slot])
      BY <2>2, <2>3 DEF RibInv, RibOwned
    <3> QED BY <3>1 DEF Established
  <2>5. RibUnique'
    <3> SUFFICES ASSUME NEW r \in rib', NEW q \in rib', r.slot = q.slot, r.prefix = q.prefix PROVE r = q
      BY DEF RibUnique
    <3> QED BY <2>2, <2>3 DEF RibInv, RibUnique
  <2>6. ASSUME NEW r \in rib', r.slot = x PROVE \E n \in announced'[x] : Same(r, n)
    <3>1. CASE r = new
      <4>1. said \in announced'[x] /\ Same(r, said) BY <1>3, <2>3, <3>1 DEF Same
      <4> QED BY <4>1
    <3>2. CASE r \in rib /\ r.prefix # p
      <4>1. PICK n \in announced[x] : Same(r, n) BY <2>6, <3>2 DEF RibInv, RibHeard
      <4> QED BY <1>3, <3>2, <4>1 DEF Same
    <3> QED BY <2>2, <2>6, <3>1, <3>2
  <2>7. ASSUME NEW n \in announced'[x] PROVE \E r \in rib' : r.slot = x /\ Same(r, n)
    <3>1. CASE n = said BY <2>2, <2>3, <3>1 DEF Same
    <3>2. CASE n \in announced[x] /\ n.prefix # p
      <4>1. PICK r \in rib : r.slot = x /\ Same(r, n) BY <3>2 DEF RibInv, RibHeard
      <4> QED BY <2>2, <3>2, <4>1 DEF Same
    <3> QED BY <1>3, <3>1, <3>2
  <2>8. RibHeard'
    <3> SUFFICES ASSUME NEW s \in Slots, Established(s)
                 PROVE  /\ \A r \in rib' : r.slot = s => \E n \in announced'[s] : Same(r, n)
                        /\ \A n \in announced'[s] : \E r \in rib' : r.slot = s /\ Same(r, n)
      BY <1>5 DEF RibHeard, Same
    <3>1. CASE s = x BY <2>6, <2>7, <3>1
    <3>2. CASE s # x
      <4>1. \A r : r.slot = s => (r \in rib' <=> r \in rib) BY <2>2, <2>3, <3>2
      <4> QED BY <1>4, <3>2, <4>1 DEF RibInv, RibHeard
    <3> QED BY <3>1, <3>2
  <2> QED BY <1>6, <2>4, <2>5, <2>8 DEF RibInv
<1> QED BY <1>7, <1>8

(* A withdrawal removes the peer's own route of the prefix. *)
LEMMA WithdrawRib ==
  ASSUME TypeOK, TypeOK', RibInv, NEW x \in Slots, NEW p \in Nets,
         Established(x), UNCHANGED <<fd, status>>, rib' = rib \ Previous(x, p),
         announced' = [announced EXCEPT ![x] = {r \in @ : r.prefix # p}]
  PROVE  RibInv'
<1>1. \A r \in rib : r.slot = x => r.bucket = Bucket(fd[x])
  BY DEF RibInv, RibOwned
<1>2. \A r : r \in rib' <=> r \in rib /\ ~(r.slot = x /\ r.prefix = p)
  BY <1>1 DEF Previous, RoutesOf
<1>3. announced'[x] = {n \in announced[x] : n.prefix # p}
  BY DEF TypeOK
<1>4. \A s \in Slots \ {x} : announced'[s] = announced[s]
  BY DEF TypeOK
<1>5. \A s \in Slots : Established(s)' <=> Established(s)
  BY DEF Established
<1>6. NotYet'
  BY <1>4 DEF RibInv, NotYet, Established
<1>7. RibOwned' /\ RibUnique'
  BY <1>2 DEF RibInv, RibOwned, RibUnique, Established, Bucket
<1>8. RibHeard'
  <2> SUFFICES ASSUME NEW s \in Slots, Established(s)
               PROVE  /\ \A r \in rib' : r.slot = s => \E n \in announced'[s] : Same(r, n)
                      /\ \A n \in announced'[s] : \E r \in rib' : r.slot = s /\ Same(r, n)
    BY <1>5 DEF RibHeard, Same
  <2>1. \A n : n \in announced'[s] <=> n \in announced[s] /\ ~(s = x /\ n.prefix = p)
    BY <1>3, <1>4
  <2>2. ASSUME NEW r \in rib', r.slot = s PROVE \E n \in announced'[s] : Same(r, n)
    <3>1. PICK n \in announced[s] : Same(r, n) BY <1>2, <2>2 DEF RibInv, RibHeard
    <3> QED BY <1>2, <2>1, <2>2, <3>1 DEF Same
  <2>3. ASSUME NEW n \in announced'[s] PROVE \E r \in rib' : r.slot = s /\ Same(r, n)
    <3>1. PICK r \in rib : r.slot = s /\ Same(r, n) BY <2>1, <2>3 DEF RibInv, RibHeard
    <3> QED BY <1>2, <2>1, <2>3, <3>1 DEF Same
  <2> QED BY <2>2, <2>3
<1> QED BY <1>6, <1>7, <1>8 DEF RibInv

(* Every step keeps the RIB to what was announced.                            *)
LEMMA RibStep ==
  ASSUME EverySessionWatched, RibInv, [Next]_vars
  PROVE  RibInv'
<1>0. TypeOK /\ TypeOK'
  BY TypeStep DEF EverySessionWatched
<1>1. ASSUME NEW a \in Addrs, NEW R, Accept(a, R) PROVE RibInv'
  <2> DEFINE s == Min(FreeSlots)
             C == Doomed(s, a)
             F == [fd EXCEPT ![s] = NewFd]
  <2>1. s \in Slots /\ fd[s] = 0
    BY <1>1, Free DEF Accept
  <2>2. C \in SUBSET Slots
    BY <2>1 DEF Doomed, SameAddr
  <2>3. PeerClose(C, F)
    BY <1>1 DEF Accept
  <2>4. /\ status' = [status EXCEPT ![s] = "Idle"]
        /\ announced' = [announced EXCEPT ![s] = {}]
    BY <1>1 DEF Accept
  <2>5. \A c \in Slots : F[c] = IF c = s THEN NewFd ELSE fd[c]
    BY <1>0, <2>1 DEF TypeOK
  <2>6. NewFd # 0
    BY <1>0, Fresh DEF Fds
  <2> HIDE DEF s, C, F
  <2>7. rib' = {r \in rib : r.slot \notin C}
    BY <1>0, <2>1, <2>2, <2>3, <2>5, CloseRib
  <2>8. \A c \in Slots : fd'[c] = IF c \in C THEN 0 ELSE F[c]
    BY <2>3 DEF PeerClose
  <2>9. \A c \in Slots : /\ status'[c] = IF c = s THEN "Idle" ELSE status[c]
                         /\ announced'[c] = IF c = s THEN {} ELSE announced[c]
    BY <1>0, <2>1, <2>4 DEF TypeOK
  <2>10. ~Established(s)
    BY <2>1 DEF Established
  <2> QED BY <1>0, <2>2, <2>5, <2>6, <2>7, <2>8, <2>9, <2>10, RibKept
<1>2. ASSUME UNCHANGED <<fd, status, rib, announced>> PROVE RibInv'
  BY <1>2 DEF RibInv, RibOwned, RibUnique, NotYet, RibHeard, Same, Established, Bucket
<1>3. ASSUME NEW i, NEW h, ReadOpen(i, h) PROVE RibInv'
  <2>1. PICK x \in Slots :
          /\ Serve(x) /\ status[x] = "Idle"
          /\ \/ Shut(x)
             \/ status' = [status EXCEPT ![x] = "Established"] /\ UNCHANGED <<fd, rib, announced>>
    BY <1>3 DEF ReadOpen
  <2>2. CASE Shut(x)
    BY <1>0, <2>2, ShutRib
  <2>3. CASE status' = [status EXCEPT ![x] = "Established"] /\ UNCHANGED <<fd, rib, announced>>
    <3>1. \A c \in Slots : status'[c] = IF c = x THEN "Established" ELSE status[c]
      BY <1>0, <2>3 DEF TypeOK
    <3>2. announced[x] = {}
      BY <1>0, <2>1, Served DEF RibInv, NotYet
    <3>3. \A r \in rib : r.slot \in Slots \ {x}
      BY <1>0, <2>1 DEF TypeOK, Route, RibInv, RibOwned, Established
    <3>4. RibOwned' /\ RibUnique'
      BY <2>3, <3>1, <3>3 DEF RibInv, RibOwned, RibUnique, Established, Bucket
    <3>5. NotYet'
      BY <2>3, <3>1 DEF RibInv, NotYet
    <3>6. RibHeard'
      BY <2>3, <3>1, <3>2, <3>3 DEF RibInv, RibHeard, Same, Established
    <3> QED BY <3>4, <3>5, <3>6 DEF RibInv
  <2> QED BY <2>1, <2>2, <2>3
<1>4. CASE ReadReset \/ ReadFatal
  BY <1>0, <1>4, ShutRib DEF ReadReset, ReadFatal
<1>5. CASE NobodyReadable \/ Tick \/ ReadPart
  BY <1>2, <1>5 DEF NobodyReadable, Tick, ReadPart, session
<1>6. ASSUME NEW k, ReadIdle(k) PROVE RibInv'
  BY <1>2, <1>6 DEF ReadIdle, session
<1>7. ASSUME NEW p \in Nets, NEW a \in Attrs, NEW l \in Labels, ReadUpdate(p, a, l) PROVE RibInv'
  <2>1. PICK x \in Slots :
          /\ Established(x) /\ UNCHANGED <<fd, status>> /\ rib' = Installed(x, p, a, l)
          /\ announced' = [announced EXCEPT ![x] =
               {r \in @ : r.prefix # p} \cup {[prefix |-> p, attr |-> a, label |-> l]}]
    BY <1>7 DEF ReadUpdate, session
  <2> QED BY <1>0, <2>1, UpdateRib
<1>8. ASSUME NEW p \in Nets, ReadWithdraw(p) PROVE RibInv'
  <2>1. PICK x \in Slots :
          /\ Established(x) /\ UNCHANGED <<fd, status>> /\ rib' = rib \ Previous(x, p)
          /\ announced' = [announced EXCEPT ![x] = {r \in @ : r.prefix # p}]
    BY <1>8 DEF ReadWithdraw, session
  <2> QED BY <1>0, <2>1, WithdrawRib
<1>9. ASSUME NEW R, NoConnection(R) PROVE RibInv'
  BY <1>2, <1>9 DEF NoConnection, session
<1>10. ASSUME NEW a, NEW R, Drop(a, R) PROVE RibInv'
  BY <1>2, <1>10 DEF Drop, session
<1>11. CASE UNCHANGED vars
  BY <1>2, <1>11 DEF vars, session
<1> QED BY <1>1, <1>3, <1>4, <1>5, <1>6, <1>7, <1>8, <1>9, <1>10, <1>11 DEF Next

(* The RIB holds for each session exactly what its peer announced in it: no   *)
(* route outlives its session or passes to the next one in the slot.          *)
THEOREM RibOfSessions == Spec => []RibIsAnnounced
<1>1. Init => RibInv
  BY DEF Init, RibInv, RibOwned, RibUnique, NotYet, RibHeard, Established
<1>2. EverySessionWatched /\ RibInv /\ [Next]_vars => RibInv'
  BY RibStep
<1>3. EverySessionWatched /\ RibInv => RibIsAnnounced
  BY RibExactly DEF EverySessionWatched
<1> QED BY <1>1, <1>2, <1>3, SessionsWatched, PTL DEF Spec

-----------------------------------------------------------------------------
(* Replacing a session *)

(* Each message that is heard leaves a KEEPALIVE sent no longer ago than half *)
(* the hold time, and both times grow together after it.                      *)
SilentInv == \A s \in Slots : Established(s) => age[s] <= silent[s] + ht[s] \div 2

(* Hearing a message keeps SilentInv, whatever else the slot served does. *)
LEMMA HeardSilent ==
  ASSUME TypeOK, TypeOK', SilentInv, NEW x \in Slots, Heard(x),
         Established(x)' => age'[x] <= ht'[x] \div 2,
         \A s \in Slots \ {x} : /\ Established(s)' => Established(s)
                                /\ age'[s] = age[s] /\ ht'[s] = ht[s]
  PROVE  SilentInv'
<1> SUFFICES ASSUME NEW s \in Slots, Established(s)'
             PROVE  age'[s] <= silent'[s] + ht'[s] \div 2
  BY DEF SilentInv
<1>1. CASE s = x
  <2>1. silent'[s] = 0 BY <1>1 DEF TypeOK, Heard
  <2>2. ht'[s] \div 2 \in Nat BY DivMod DEF TypeOK
  <2> QED BY <1>1, <2>1, <2>2
<1>2. CASE s # x
  <2>1. silent'[s] = silent[s] BY <1>2 DEF TypeOK, Heard
  <2> QED BY <1>2, <2>1 DEF SilentInv
<1> QED BY <1>1, <1>2

(* A message within a session leaves a KEEPALIVE recent enough.               *)
LEMMA RepliedSilent ==
  ASSUME TypeOK, TypeOK', SilentInv, NEW x \in Slots, NEW b, Heard(x), Replied(x, b), ht' = ht,
         \A s \in Slots : Established(s)' => Established(s)
  PROVE  SilentInv'
<1>1. \A s \in Slots \ {x} : age'[s] = age[s]
  BY DEF TypeOK, Replied
<1>2. ASSUME Established(x)' PROVE age'[x] <= ht'[x] \div 2
  <2>1. ht[x] \in Nat /\ age[x] \in Nat
    BY PeersAssumption DEF TypeOK
  <2>2. ht[x] \div 2 \in Nat
    BY <2>1, DivMod
  <2>3. CASE b \/ KeptAlive(x)
    <3>1. age'[x] = 0 BY <2>3 DEF TypeOK, Replied
    <3> QED BY <2>2, <3>1
  <2>4. CASE ~(b \/ KeptAlive(x))
    <3>1. age'[x] = age[x] BY <2>4 DEF Replied
    <3>2. ~(age[x] > ht[x] \div 2) BY <1>2, <2>4 DEF KeptAlive
    <3> QED BY <2>1, <2>2, <3>1, <3>2
  <2> QED BY <2>3, <2>4
<1> QED BY <1>1, <1>2, HeardSilent

(* Every step keeps the two times in relation.                                *)
LEMMA SilentStep ==
  ASSUME EverySessionWatched, SilentInv, [Next]_vars
  PROVE  SilentInv'
<1>0. TypeOK /\ TypeOK'
  BY TypeStep DEF EverySessionWatched
<1>1. ASSUME UNCHANGED <<age, silent, ht>>, \A s \in Slots : Established(s)' => Established(s)
      PROVE  SilentInv'
  BY <1>1 DEF SilentInv
<1>2. ASSUME NEW x \in Slots, Shut(x)
      PROVE  ht' = ht /\ \A s \in Slots : Established(s)' => Established(s)
  BY <1>0, <1>2 DEF TypeOK, Shut, PeerClose, Established
<1>3. ASSUME NEW a, NEW R, Accept(a, R) PROVE SilentInv'
  <2> DEFINE s == Min(FreeSlots)
             F == [fd EXCEPT ![s] = NewFd]
  <2>1. s \in Slots
    BY <1>3, Free DEF Accept
  <2>2. PICK C : PeerClose(C, F)
    BY <1>3 DEF Accept
  <2>3. /\ status' = [status EXCEPT ![s] = "Idle"] /\ ht' = [ht EXCEPT ![s] = 0]
        /\ age' = [age EXCEPT ![s] = Old] /\ silent' = [silent EXCEPT ![s] = 0]
    BY <1>3 DEF Accept
  <2>4. \A c \in Slots \ {s} : F[c] = fd[c]
    BY <1>0, <2>1 DEF TypeOK
  <2> HIDE DEF s, F
  <2> SUFFICES ASSUME NEW c \in Slots, Established(c)'
               PROVE  age'[c] <= silent'[c] + ht'[c] \div 2
    BY DEF SilentInv
  <2>5. c # s
    BY <1>0, <2>1, <2>3 DEF TypeOK, Established
  <2>6. fd'[c] = 0 \/ fd'[c] = fd[c]
    BY <2>2, <2>4, <2>5 DEF PeerClose
  <2>7. status'[c] = status[c] /\ ht'[c] = ht[c] /\ age'[c] = age[c] /\ silent'[c] = silent[c]
    BY <1>0, <2>1, <2>3, <2>5 DEF TypeOK
  <2>8. Established(c)
    BY <2>6, <2>7 DEF Established
  <2> QED BY <2>7, <2>8 DEF SilentInv
<1>4. ASSUME NEW i, NEW h \in Holds, ReadOpen(i, h) PROVE SilentInv'
  <2>1. PICK x \in Slots :
          /\ Heard(x) /\ status[x] = "Idle"
          /\ \/ Shut(x) /\ UNCHANGED age
             \/ /\ ht' = [ht EXCEPT ![x] = HoldTime(h)]
                /\ status' = [status EXCEPT ![x] = "Established"]
                /\ age' = [age EXCEPT ![x] = 0]
                /\ UNCHANGED fd
    BY <1>4 DEF ReadOpen
  <2>2. CASE Shut(x) /\ UNCHANGED age
    <3>1. ~Established(x)'
      BY <1>0, <2>2 DEF TypeOK, Shut, PeerClose, Established
    <3> QED BY <1>0, <1>2, <2>1, <2>2, <3>1, HeardSilent
  <2>3. CASE /\ ht' = [ht EXCEPT ![x] = HoldTime(h)]
             /\ status' = [status EXCEPT ![x] = "Established"]
             /\ age' = [age EXCEPT ![x] = 0]
             /\ UNCHANGED fd
    <3>1. age'[x] = 0 /\ ht'[x] \in Nat
      BY <1>0, <2>3 DEF TypeOK
    <3>2. ht'[x] \div 2 \in Nat
      BY <3>1, DivMod
    <3>3. age'[x] <= ht'[x] \div 2
      BY <3>1, <3>2
    <3>4. \A s \in Slots \ {x} : /\ Established(s)' => Established(s)
                                 /\ age'[s] = age[s] /\ ht'[s] = ht[s]
      BY <1>0, <2>3 DEF TypeOK, Established
    <3> QED BY <1>0, <2>1, <3>3, <3>4, HeardSilent
  <2> QED BY <2>1, <2>2, <2>3
<1>5. CASE ReadReset
  BY <1>1, <1>2, <1>5 DEF ReadReset
<1>6. CASE ReadFatal
  BY <1>0, <1>2, <1>6, RepliedSilent DEF ReadFatal
<1>7. CASE NobodyReadable \/ ReadPart
  BY <1>1, <1>7 DEF NobodyReadable, ReadPart, session, Established
<1>8. CASE Tick
  <2> SUFFICES ASSUME NEW s \in Slots, Established(s)'
               PROVE  age'[s] <= silent'[s] + ht'[s] \div 2
    BY DEF SilentInv
  <2>1. Established(s) /\ ht' = ht
    BY <1>8 DEF Tick, session, Established
  <2>2. age'[s] = Older(age[s]) /\ silent'[s] = Older(silent[s])
    BY <1>8, <2>1 DEF Tick, Established
  <2>3. ht[s] \div 2 \in Nat
    BY <1>0, DivMod DEF TypeOK
  <2>4. age[s] \in 0..Old /\ silent[s] \in 0..Old /\ Old \in Nat
    BY <1>0, PeersAssumption DEF TypeOK
  <2>5. age[s] <= silent[s] + ht[s] \div 2
    BY <2>1 DEF SilentInv
  <2> QED BY <2>1, <2>2, <2>3, <2>4, <2>5 DEF Older
<1>9. ASSUME NEW k, ReadIdle(k) PROVE SilentInv'
  BY <1>0, <1>9, RepliedSilent DEF ReadIdle, session, Established
<1>10. ASSUME NEW p, NEW a, NEW l, ReadUpdate(p, a, l) PROVE SilentInv'
  BY <1>0, <1>10, RepliedSilent DEF ReadUpdate, session, Established
<1>11. ASSUME NEW p, ReadWithdraw(p) PROVE SilentInv'
  BY <1>0, <1>11, RepliedSilent DEF ReadWithdraw, session, Established
<1>12. ASSUME NEW R, NoConnection(R) PROVE SilentInv'
  BY <1>1, <1>12 DEF NoConnection, session, Established
<1>13. ASSUME NEW a, NEW R, Drop(a, R) PROVE SilentInv'
  BY <1>1, <1>13 DEF Drop, session, Established
<1>14. CASE UNCHANGED vars
  BY <1>1, <1>14 DEF vars, session, Established
<1> QED BY <1>3, <1>4, <1>5, <1>6, <1>7, <1>8, <1>9, <1>10, <1>11, <1>12, <1>13, <1>14 DEF Next

(* Only a new connection closes a session outside of a read, and only one     *)
(* whose last KEEPALIVE is older than the hold time.                          *)
LEMMA ReplaceStep ==
  ASSUME EverySessionWatched, SilentInv, [Next]_vars, pc = "select",
         NEW s \in Slots, Established(s), fd'[s] = 0
  PROVE  silent[s] > ht[s] - ht[s] \div 2
<1>0. TypeOK
  BY DEF EverySessionWatched
<1>1. ASSUME UNCHANGED fd PROVE FALSE
  BY <1>1 DEF Established
<1>2. PICK a \in Addrs, R \in SUBSET Fds : Accept(a, R)
  <2>1. ~\E x \in Slots : Serve(x)
    BY DEF Serve
  <2>2. ~NobodyReadable
    BY DEF NobodyReadable
  <2>3. CASE Tick BY <1>1, <2>3 DEF Tick, session
  <2>4. CASE \E R \in SUBSET Fds : NoConnection(R) BY <1>1, <2>4 DEF NoConnection, session
  <2>5. CASE \E a \in Addrs, R \in SUBSET Fds : Drop(a, R) BY <1>1, <2>5 DEF Drop, session
  <2>6. CASE UNCHANGED vars BY <1>1, <2>6 DEF vars, session
  <2>7. ~ReadPart /\ ~ReadReset /\ ~ReadFatal
    BY <2>1 DEF ReadPart, ReadReset, ReadFatal
  <2>8. /\ ~\E i \in Ids, h \in Holds : ReadOpen(i, h)
        /\ ~\E k \in BOOLEAN : ReadIdle(k)
        /\ ~\E p \in Nets, a \in Attrs, l \in Labels : ReadUpdate(p, a, l)
        /\ ~\E p \in Nets : ReadWithdraw(p)
    BY <2>1 DEF ReadOpen, ReadIdle, ReadUpdate, ReadWithdraw
  <2> QED BY <2>2, <2>3, <2>4, <2>5, <2>6, <2>7, <2>8 DEF Next
<1> DEFINE n == Min(FreeSlots)
           C == Doomed(n, a)
           F == [fd EXCEPT ![n] = NewFd]
<1>3. n \in Slots /\ fd[n] = 0
  BY <1>2, Free DEF Accept
<1>4. PeerClose(C, F)
  BY <1>2 DEF Accept
<1>5. s # n
  BY <1>3 DEF Established
<1>6. F[s] = fd[s]
  BY <1>0, <1>3, <1>5 DEF TypeOK
<1>7. s \in C => Stale(s)
  BY <1>5 DEF Doomed
<1> HIDE DEF n, C, F
<1>8. s \in C
  BY <1>4, <1>6 DEF PeerClose, Established
<1>9. age[s] > ht[s]
  BY <1>7, <1>8 DEF Stale
<1>10. age[s] \in Nat /\ silent[s] \in Nat /\ ht[s] \in Nat
  BY <1>0, PeersAssumption DEF TypeOK
<1>11. ht[s] \div 2 \in Nat
  BY <1>10, DivMod
<1>12. age[s] <= silent[s] + ht[s] \div 2
  BY DEF SilentInv
<1> QED BY <1>9, <1>10, <1>11, <1>12

(* A session is replaced by a new connection of its address only if its peer  *)
(* has been silent for more than half the hold time.                          *)
THEOREM SilentAreReplaced == Spec => ReplacedWhenSilent
<1>1. Init => SilentInv
  BY DEF Init, SilentInv, Established
<1>2. EverySessionWatched /\ SilentInv /\ [Next]_vars => SilentInv'
  BY SilentStep
<1>3. EverySessionWatched /\ SilentInv /\ [Next]_vars
      => [pc = "select" => \A s \in Slots :
            Established(s) /\ fd'[s] = 0 => silent[s] > ht[s] - ht[s] \div 2]_vars
  BY ReplaceStep
<1> QED BY <1>1, <1>2, <1>3, SessionsWatched, PTL DEF Spec, ReplacedWhenSilent

-----------------------------------------------------------------------------
(* The routing table *)
-----------------------------------------------------------------------------
(* Prefixes *)

(* A prefix is a sequence of bits, of at most MaxLen of them. *)
LEMMA PrefixType ==
  ASSUME NEW p \in AllPrefixes
  PROVE  /\ Len(p) \in 0..MaxLen /\ DOMAIN p = 1..Len(p)
         /\ \A i \in 1..Len(p) : p[i] \in {0, 1}
<1>1. PICK n \in 0..MaxLen : p \in [1..n -> {0, 1}]
  BY DEF AllPrefixes
<1>2. n \in Nat
  BY TableAssumption
<1>3. p \in Seq({0, 1}) /\ Len(p) = n
  BY ONLY <1>1, <1>2
<1> QED
  BY <1>1, <1>3

(* What is seen of a prefix are its bits. *)
LEMMA SamePrefix ==
  ASSUME NEW p \in AllPrefixes, NEW q \in AllPrefixes, Len(p) = Len(q),
         \A i \in 1..Len(p) : p[i] = q[i]
  PROVE  p = q
<1>1. PICK n \in 0..MaxLen : p \in [1..n -> {0, 1}]
  BY DEF AllPrefixes
<1>2. PICK m \in 0..MaxLen : q \in [1..m -> {0, 1}]
  BY DEF AllPrefixes
<1>3. DOMAIN p = 1..Len(p) /\ DOMAIN q = 1..Len(q)
  BY PrefixType
<1>4. p = [i \in 1..n |-> p[i]] /\ q = [i \in 1..m |-> q[i]]
  BY ONLY <1>1, <1>2
<1>5. 1..n = 1..m /\ 1..n = 1..Len(p)
  BY ONLY <1>1, <1>2, <1>3, Len(p) = Len(q)
<1> QED
  BY <1>4, <1>5

(* One prefix begins another when its bits are the first of the other. *)
LEMMA PrefixBits ==
  ASSUME NEW p \in AllPrefixes, NEW q \in AllPrefixes
  PROVE  IsPrefix(p, q) <=> (Len(p) <= Len(q) /\ \A i \in 1..Len(p) : p[i] = q[i])
<1>1. Len(p) \in Nat /\ Len(q) \in Nat
  BY PrefixType, TableAssumption
<1>2. p \in Seq({0, 1}) /\ q \in Seq({0, 1})
  <2>1. ASSUME NEW r \in AllPrefixes PROVE r \in Seq({0, 1})
    <3>1. PICK n \in 0..MaxLen : r \in [1..n -> {0, 1}]
      BY DEF AllPrefixes
    <3> QED
      BY <3>1, TableAssumption
  <2> QED
    BY <2>1
<1>3. SUFFICES ASSUME Len(p) <= Len(q)
               PROVE SubSeq(p, 1, Len(p)) = SubSeq(q, 1, Len(p))
                       <=> \A i \in 1..Len(p) : p[i] = q[i]
  BY DEF IsPrefix
<1>4. SubSeq(p, 1, Len(p)) = [i \in 1..Len(p) |-> p[i]]
  BY ONLY <1>1, <1>2
<1>5. SubSeq(q, 1, Len(p)) = [i \in 1..Len(p) |-> q[i]]
  BY ONLY <1>1, <1>2, <1>3
<1> QED
  BY <1>4, <1>5

(* The prefix relation is an order, and linear below a prefix. *)
LEMMA PrefixOrder ==
  ASSUME NEW p \in AllPrefixes, NEW q \in AllPrefixes, NEW r \in AllPrefixes
  PROVE  /\ Len(p) \in Nat /\ Len(p) <= MaxLen /\ MaxLen \in Nat
         /\ IsPrefix(p, p)
         /\ IsPrefix(p, q) => Len(p) <= Len(q)
         /\ IsPrefix(p, q) /\ p # q => Len(p) < Len(q)
         /\ IsPrefix(p, q) /\ IsPrefix(q, r) => IsPrefix(p, r)
         /\ IsPrefix(p, r) /\ IsPrefix(q, r) /\ Len(p) <= Len(q) => IsPrefix(p, q)
<1>1. /\ Len(p) \in Nat /\ Len(q) \in Nat /\ Len(r) \in Nat
      /\ Len(p) <= MaxLen /\ MaxLen \in Nat
  BY PrefixType, TableAssumption
<1>2. /\ IsPrefix(p, p) <=> (Len(p) <= Len(p) /\ \A i \in 1..Len(p) : p[i] = p[i])
      /\ IsPrefix(p, q) <=> (Len(p) <= Len(q) /\ \A i \in 1..Len(p) : p[i] = q[i])
      /\ IsPrefix(q, r) <=> (Len(q) <= Len(r) /\ \A i \in 1..Len(q) : q[i] = r[i])
      /\ IsPrefix(p, r) <=> (Len(p) <= Len(r) /\ \A i \in 1..Len(p) : p[i] = r[i])
  BY PrefixBits
<1>3. IsPrefix(p, q) /\ p # q => Len(p) < Len(q)
  BY <1>1, <1>2, SamePrefix
<1>4. 1..Len(p) \subseteq 1..Len(q) \/ Len(p) > Len(q)
  BY <1>1
<1> QED
  BY ONLY <1>1, <1>2, <1>3, <1>4

(* The bit after a prefix. *)
LEMMA NextBit ==
  ASSUME NEW p \in AllPrefixes, NEW q \in AllPrefixes, IsPrefix(p, q), p # q
  PROVE  /\ Bit(q, p) \in {0, 1}
         /\ \A r \in AllPrefixes : IsPrefix(q, r) => Bit(r, p) = Bit(q, p)
<1>1. Len(p) \in Nat /\ Len(q) \in Nat /\ Len(p) < Len(q)
  BY PrefixOrder
<1>2. Len(p) + 1 \in 1..Len(q)
  BY <1>1
<1>3. q[Len(p) + 1] \in {0, 1}
  BY <1>2, PrefixType
<1>4. ASSUME NEW r \in AllPrefixes, IsPrefix(q, r) PROVE r[Len(p) + 1] = q[Len(p) + 1]
  BY <1>2, <1>4, PrefixBits
<1> QED
  BY <1>3, <1>4 DEF Bit

(* The first bits of a prefix are one. *)
LEMMA Shortened ==
  ASSUME NEW p \in AllPrefixes, NEW k \in Nat, k <= Len(p)
  PROVE  /\ SubSeq(p, 1, k) \in AllPrefixes /\ Len(SubSeq(p, 1, k)) = k
         /\ IsPrefix(SubSeq(p, 1, k), p)
         /\ k < Len(p) => Bit(p, SubSeq(p, 1, k)) = p[k + 1]
<1>1. Len(p) \in Nat /\ Len(p) <= MaxLen /\ MaxLen \in Nat
  BY PrefixOrder
<1>2. p \in Seq({0, 1})
  <2>1. PICK n \in 0..MaxLen : p \in [1..n -> {0, 1}]
    BY DEF AllPrefixes
  <2> QED
    BY ONLY <1>1, <2>1
<1> DEFINE s == SubSeq(p, 1, k)
<1>3. s = [i \in 1..k |-> p[i]] /\ s \in Seq({0, 1}) /\ Len(s) = k
  BY ONLY <1>1, <1>2, k \in Nat, k <= Len(p)
<1>4. \A i \in 1..k : p[i] \in {0, 1}
  BY <1>1, PrefixType
<1>5. s \in [1..k -> {0, 1}]
  BY ONLY <1>3, <1>4
<1>6. k \in 0..MaxLen
  BY <1>1
<1>7. s \in AllPrefixes
  BY ONLY <1>5, <1>6 DEF AllPrefixes
<1>8. \A i \in 1..Len(s) : s[i] = p[i]
  BY ONLY <1>3
<1> HIDE DEF s
<1>9. IsPrefix(s, p)
  BY <1>3, <1>7, <1>8, PrefixBits
<1> QED
  BY <1>3, <1>7, <1>9 DEF s, Bit

(* A prefix can be lengthened towards anything that extends it: two that go *)
(* on with the same bit have a longer prefix in common.                     *)
LEMMA Lengthened ==
  ASSUME NEW p \in AllPrefixes, NEW q \in AllPrefixes, NEW r \in AllPrefixes,
         IsPrefix(p, q), p # q, IsPrefix(p, r), p # r, Bit(q, p) = Bit(r, p)
  PROVE  \E s \in AllPrefixes : /\ IsPrefix(p, s) /\ p # s /\ Len(s) = Len(p) + 1
                                /\ IsPrefix(s, q) /\ IsPrefix(s, r)
<1>1. Len(p) \in Nat /\ Len(q) \in Nat /\ Len(r) \in Nat /\ Len(p) < Len(q) /\ Len(p) < Len(r)
  BY PrefixOrder
<1> DEFINE k == Len(p) + 1
           s == SubSeq(q, 1, k)
<1>2. k \in Nat /\ k <= Len(q)
  BY <1>1
<1>3. s \in AllPrefixes /\ Len(s) = k /\ IsPrefix(s, q)
  BY <1>2, Shortened
<1> HIDE DEF s
<1>4. IsPrefix(p, s) /\ p # s
  BY <1>1, <1>3, PrefixOrder
<1>5. \A i \in 1..k : s[i] = q[i]
  BY <1>3, PrefixBits
<1>6. \A i \in 1..Len(p) : p[i] = q[i] /\ p[i] = r[i]
  BY PrefixBits
<1>7. q[k] = r[k]
  BY DEF Bit
<1>8. \A i \in 1..k : s[i] = r[i]
  <2>1. SUFFICES ASSUME NEW i \in 1..k PROVE s[i] = r[i]
    OBVIOUS
  <2>2. i \in 1..Len(p) \/ i = k
    BY ONLY <1>1, <2>1
  <2> QED
    BY ONLY <2>1, <2>2, <1>5, <1>6, <1>7
<1>9. IsPrefix(s, r)
  BY <1>1, <1>3, <1>8, PrefixBits
<1> QED
  BY <1>3, <1>4, <1>9

(* The order of the walk: an extension comes later, and so does the branch  *)
(* of the bit 1.                                                            *)
Before(n, m) ==
  \/ IsPrefix(n, m) /\ n # m
  \/ \E a \in AllPrefixes : /\ IsPrefix(a, n) /\ a # n /\ IsPrefix(a, m) /\ a # m
                            /\ Bit(n, a) = 0 /\ Bit(m, a) = 1

(* Before is the order of the property WalkAdvances. *)
LEMMA PrecedesIsBefore ==
  ASSUME NEW n \in AllPrefixes, NEW m \in AllPrefixes
  PROVE  Precedes(n, m) <=> Before(n, m)
<1>1. Len(n) \in Nat /\ Len(m) \in Nat /\ MaxLen \in Nat /\ Len(n) <= MaxLen /\ Len(m) <= MaxLen
  BY PrefixOrder
<1>2. ASSUME NEW i \in 1..MaxLen, i <= Len(n), i <= Len(m), n[i] < m[i],
             \A k \in 1..(i - 1) : n[k] = m[k]
      PROVE  Before(n, m)
  <2> DEFINE j == i - 1
             a == SubSeq(n, 1, j)
  <2>1. j \in Nat /\ j < Len(n) /\ j < Len(m) /\ j + 1 = i
    BY <1>1, <1>2
  <2>2. a \in AllPrefixes /\ Len(a) = j /\ IsPrefix(a, n) /\ Bit(n, a) = n[i]
    BY <2>1, Shortened
  <2>3. n[i] \in {0, 1} /\ m[i] \in {0, 1}
    BY <1>1, <1>2, PrefixType
  <2>4. n[i] = 0 /\ m[i] = 1
    BY <1>2, <2>3
  <2> HIDE DEF a
  <2>5. \A k \in 1..Len(a) : a[k] = m[k]
    BY <1>2, <2>2, PrefixBits
  <2>6. IsPrefix(a, m)
    BY <2>1, <2>2, <2>5, PrefixBits
  <2>7. Bit(m, a) = m[i]
    BY <2>1, <2>2 DEF Bit
  <2>8. a # n /\ a # m
    BY <2>1, <2>2
  <2> QED
    BY <2>2, <2>4, <2>6, <2>7, <2>8 DEF Before
<1>3. ASSUME NEW a \in AllPrefixes, IsPrefix(a, n), a # n, IsPrefix(a, m), a # m,
             Bit(n, a) = 0, Bit(m, a) = 1
      PROVE  Precedes(n, m)
  <2> DEFINE i == Len(a) + 1
  <2>1. Len(a) \in Nat /\ Len(a) < Len(n) /\ Len(a) < Len(m)
    BY <1>3, PrefixOrder
  <2>2. i \in 1..MaxLen /\ i <= Len(n) /\ i <= Len(m)
    BY <1>1, <2>1
  <2>3. n[i] = 0 /\ m[i] = 1
    BY <1>3 DEF Bit
  <2>4. \A k \in 1..(i - 1) : n[k] = m[k]
    <3>1. i - 1 = Len(a)
      BY <2>1
    <3>2. \A k \in 1..Len(a) : a[k] = n[k] /\ a[k] = m[k]
      BY <1>3, PrefixBits
    <3> QED
      BY ONLY <3>1, <3>2
  <2>5. n[i] < m[i]
    BY <2>3
  <2> QED
    BY <2>2, <2>4, <2>5 DEF Precedes
<1> QED
  BY <1>2, <1>3 DEF Precedes, Before, IsStrictPrefix

(* There is a longest prefix in every set of them. *)
LEMMA HasLongest ==
  ASSUME NEW S \in SUBSET AllPrefixes, S # {}
  PROVE  \E n \in S : \A m \in S : Len(m) <= Len(n)
<1>1. \A n \in S : Len(n) \in Nat /\ Len(n) <= MaxLen /\ MaxLen \in Nat
  BY PrefixOrder
<1> DEFINE R == {MaxLen - Len(n) : n \in S}
<1>2. R \in SUBSET Nat /\ R # {}
  BY ONLY <1>1, S # {}
<1>3. PICK x \in R : \A y \in R : x <= y
  BY ONLY <1>2, LeastNatural
<1>4. PICK n \in S : x = MaxLen - Len(n)
  BY ONLY <1>3
<1>5. ASSUME NEW m \in S PROVE Len(m) <= Len(n)
  <2>1. MaxLen - Len(m) \in R
    OBVIOUS
  <2>2. MaxLen - Len(n) <= MaxLen - Len(m)
    BY ONLY <1>3, <1>4, <2>1
  <2> QED
    BY ONLY <1>1, <2>2, m \in S, n \in S
<1> QED
  BY <1>5

(* Longest returns one. *)
LEMMA LongestIsLongest ==
  ASSUME NEW S \in SUBSET AllPrefixes, S # {}
  PROVE  Longest(S) \in S /\ \A m \in S : Len(m) <= Len(Longest(S))
BY HasLongest DEF Longest

(* route_common: the longest prefix of both. *)
LEMMA CommonIsLongest ==
  ASSUME NEW n \in AllPrefixes, NEW p \in AllPrefixes
  PROVE  /\ Common(n, p) \in AllPrefixes /\ IsPrefix(Common(n, p), n) /\ IsPrefix(Common(n, p), p)
         /\ \A s \in AllPrefixes : IsPrefix(s, n) /\ IsPrefix(s, p) => Len(s) <= Len(Common(n, p))
<1> DEFINE C == CommonPrefixes({n, p})
<1>1. Len(n) \in Nat /\ Len(p) \in Nat
  BY PrefixOrder
<1>2. C = {s \in Prefixes(n) \cup Prefixes(p) : IsPrefix(s, n) /\ IsPrefix(s, p)}
  BY DEF CommonPrefixes
<1>3. Prefixes(n) \subseteq AllPrefixes /\ Prefixes(p) \subseteq AllPrefixes
  <2>1. ASSUME NEW x \in {n, p}, NEW s \in Prefixes(x) PROVE s \in AllPrefixes
    <3>1. Len(x) \in Nat /\ x \in AllPrefixes
      BY <1>1
    <3>2. PICK l \in 0..Len(x) : s = SubSeq(x, 1, l)
      BY <2>1 DEF Prefixes
    <3>3. l \in Nat /\ l <= Len(x)
      BY <3>1
    <3> QED
      BY <3>1, <3>2, <3>3, Shortened
  <2> QED
    BY <2>1
<1>4. ASSUME NEW s \in AllPrefixes, IsPrefix(s, n), IsPrefix(s, p) PROVE s \in C
  <2>1. Len(s) \in Nat /\ Len(s) <= Len(n)
    BY <1>4, PrefixOrder
  <2>2. SubSeq(n, 1, Len(s)) \in AllPrefixes /\ Len(SubSeq(n, 1, Len(s))) = Len(s)
        /\ IsPrefix(SubSeq(n, 1, Len(s)), n)
    BY <2>1, Shortened
  <2> DEFINE q == SubSeq(n, 1, Len(s))
  <2> HIDE DEF q
  <2>3. s = q
    <3>1. q \in AllPrefixes /\ Len(q) = Len(s) /\ IsPrefix(q, n)
      BY <2>2 DEF q
    <3>2. \A i \in 1..Len(s) : s[i] = n[i] /\ q[i] = n[i]
      BY <1>4, <3>1, PrefixBits
    <3> QED
      BY <3>1, <3>2, SamePrefix
  <2>4. s \in Prefixes(n)
    <3>1. Len(s) \in 0..Len(n)
      BY <1>1, <2>1
    <3>2. SubSeq(n, 1, Len(s)) \in Prefixes(n)
      BY ONLY <3>1 DEF Prefixes
    <3> QED
      BY ONLY <2>3, <3>2 DEF q
  <2> QED
    BY <1>2, <1>4, <2>4
<1>5. C \in SUBSET AllPrefixes
  BY <1>2, <1>3
<1>6. C # {}
  <2>1. SubSeq(n, 1, 0) \in AllPrefixes /\ Len(SubSeq(n, 1, 0)) = 0
    BY <1>1, Shortened
  <2> DEFINE e == SubSeq(n, 1, 0)
  <2> HIDE DEF e
  <2>2. e \in AllPrefixes /\ Len(e) = 0
    BY <2>1 DEF e
  <2>3. IsPrefix(e, n) /\ IsPrefix(e, p)
    BY <1>1, <2>2, PrefixBits
  <2> QED
    BY <1>4, <2>2, <2>3
<1>7. Common(n, p) = Longest(C)
  BY DEF Common, LongestCommonPrefix, Longest
<1>8. Longest(C) \in C /\ \A m \in C : Len(m) <= Len(Longest(C))
  BY <1>5, <1>6, LongestIsLongest
<1> QED
  BY <1>2, <1>4, <1>5, <1>7, <1>8

(* There are finitely many prefixes. *)
LEMMA FinitelyMany == IsFiniteSet(AllPrefixes)
<1> DEFINE F(n) == [1..n -> {0, 1}]
           Q == {n \in Nat : IsFiniteSet(F(n))}
<1>1. 0 \in Q
  <2> DEFINE e == [i \in 1..0 |-> 0]
  <2>1. F(0) = {e}
    <3>1. 1..0 = {}
      OBVIOUS
    <3>2. \A f \in F(0) : f = e
      BY <3>1
    <3>3. e \in F(0)
      OBVIOUS
    <3> QED
      BY <3>2, <3>3
  <2> QED
    BY <2>1, FS_Singleton
<1>2. ASSUME NEW n \in Nat, n \in Q PROVE n + 1 \in Q
  <2> DEFINE g == [x \in F(n) \X {0, 1} |-> [i \in 1..(n + 1) |-> IF i = n + 1 THEN x[2] ELSE x[1][i]]]
             Im == {g[x] : x \in F(n) \X {0, 1}}
  <2>1. IsFiniteSet(F(n)) /\ IsFiniteSet({0, 1})
    <3>1. {0, 1} = {0} \cup {1}
      OBVIOUS
    <3>2. IsFiniteSet({0} \cup {1})
      BY FS_Singleton, FS_AddElement
    <3> QED
      BY <1>2, <3>1, <3>2
  <2>2. IsFiniteSet(F(n) \X {0, 1})
    BY <2>1, FS_Product
  <2>3. IsFiniteSet(Im)
    <3> DEFINE S == F(n) \X {0, 1}
    <3> HIDE DEF S, g
    <3>1. IsFiniteSet(S)
      BY <2>2 DEF S
    <3>2. IsFiniteSet({g[x] : x \in S})
      BY ONLY <3>1, ImageBound
    <3> QED
      BY <3>2 DEF S
  <2>4. F(n + 1) \subseteq Im
    <3>1. SUFFICES ASSUME NEW f \in F(n + 1) PROVE f \in Im
      OBVIOUS
    <3> DEFINE h == [i \in 1..n |-> f[i]]
               x == <<h, f[n + 1]>>
    <3>2. h \in F(n) /\ f[n + 1] \in {0, 1}
      BY <3>1
    <3>3. x \in F(n) \X {0, 1} /\ x[1] = h /\ x[2] = f[n + 1]
      BY <3>2
    <3>4. g[x] = [i \in 1..(n + 1) |-> IF i = n + 1 THEN x[2] ELSE x[1][i]]
      BY <3>3
    <3>5. \A i \in 1..(n + 1) : f[i] = IF i = n + 1 THEN x[2] ELSE x[1][i]
      <4>1. ASSUME NEW i \in 1..(n + 1), i # n + 1 PROVE i \in 1..n
        BY <4>1
      <4> QED
        BY <3>3, <4>1
    <3>6. f = [i \in 1..(n + 1) |-> IF i = n + 1 THEN x[2] ELSE x[1][i]]
      <4> HIDE DEF x
      <4> QED BY ONLY <3>1, <3>5
    <3> QED
      BY ONLY <3>3, <3>4, <3>6
  <2>5. IsFiniteSet(F(n + 1))
    <3> HIDE DEF Im, F
    <3> QED BY ONLY <2>3, <2>4, FS_Subset
  <2> QED
    BY <2>5
<1>3. Nat \subseteq Q
  BY <1>1, <1>2, NaturalsBySet
<1>4. \A n \in 0..MaxLen : IsFiniteSet(F(n))
  BY <1>3, TableAssumption
<1> DEFINE U == {F(n) : n \in 0..MaxLen}
<1>5. IsFiniteSet(U)
  <2> DEFINE f == [n \in 0..MaxLen |-> F(n)]
  <2>1. IsFiniteSet(0..MaxLen)
    BY TableAssumption, FS_Interval
  <2>2. IsFiniteSet({f[n] : n \in 0..MaxLen})
    BY ONLY <2>1, ImageBound
  <2>3. U = {f[n] : n \in 0..MaxLen}
    OBVIOUS
  <2> QED
    BY <2>2, <2>3
<1>6. \A x \in U : IsFiniteSet(x)
  BY <1>4
<1> HIDE DEF U
<1>7. IsFiniteSet(UNION U)
  BY ONLY <1>5, <1>6, FS_UNION
<1> QED
  BY <1>7 DEF U, AllPrefixes

(* Iterating a function from a first value. *)
Iterate(f, D, step, x, N) ==
  f \in [0..N -> D] /\ f[0] = x /\ \A i \in 1..N : f[i] = step[f[i - 1]]

(* There is such a function, as the recursive ones of the model need. *)
LEMMA Iterates ==
  ASSUME NEW D, NEW step \in [D -> D], NEW x \in D, NEW N \in Nat
  PROVE  \E f : Iterate(f, D, step, x, N)
<1> DEFINE Good(n, f) == f[0] = x /\ \A i \in 1..n : f[i] = step[f[i - 1]]
           Q == {n \in Nat : \E f \in [0..n -> D] : Good(n, f)}
<1>1. 0 \in Q
  <2> DEFINE f == [i \in 0..0 |-> x]
  <2>1. f \in [0..0 -> D] /\ Good(0, f)
    OBVIOUS
  <2> QED
    BY <2>1
<1>2. ASSUME NEW n \in Nat, n \in Q PROVE n + 1 \in Q
  <2>1. PICK f \in [0..n -> D] : Good(n, f)
    BY <1>2
  <2> DEFINE g == [i \in 0..(n + 1) |-> IF i = n + 1 THEN step[f[n]] ELSE f[i]]
  <2>2. f[n] \in D /\ step[f[n]] \in D
    BY <2>1
  <2>3. g \in [0..(n + 1) -> D]
    <3>1. \A i \in 0..(n + 1) : i # n + 1 => i \in 0..n
      OBVIOUS
    <3> QED
      BY <2>1, <2>2, <3>1
  <2>4. Good(n + 1, g)
    <3>1. g[0] = x
      BY <2>1
    <3>2. ASSUME NEW i \in 1..(n + 1) PROVE g[i] = step[g[i - 1]]
      <4>1. CASE i = n + 1
        <5>1. g[i] = step[f[n]] /\ g[i - 1] = f[n]
          BY <4>1
        <5> QED BY <5>1
      <4>2. CASE i # n + 1
        <5>1. i \in 1..n /\ i - 1 \in 0..n /\ i - 1 # n + 1
          BY <4>2
        <5>2. g[i] = f[i] /\ g[i - 1] = f[i - 1]
          BY <5>1
        <5> QED BY <5>1, <5>2, <2>1
      <4> QED BY <4>1, <4>2
    <3> QED
      BY <3>1, <3>2
  <2>5. \E f1 \in [0..(n + 1) -> D] : Good(n + 1, f1)
    <3> HIDE DEF g, Good
    <3> QED BY ONLY <2>3, <2>4
  <2> QED
    BY ONLY <2>5, n \in Nat
<1>3. Nat \subseteq Q
  <2> HIDE DEF Q
  <2> QED BY <1>1, <1>2, NaturalsBySet
<1>4. \E f \in [0..N -> D] : Good(N, f)
  BY <1>3
<1> QED
  BY <1>4 DEF Iterate

-----------------------------------------------------------------------------
(* The trie: its nodes and their fields, and how they are wired *)

(* What a table can be. *)
NodeMaps == UNION {[D -> Node] : D \in SUBSET AllPrefixes}
Tables == [node : NodeMaps,
           top : AllPrefixes \cup {Null}, count : Int, aborted : BOOLEAN]

(* The nodes of a table, and the fields of one. *)
Dom(T) == DOMAIN T.node
Par(T, n) == T.node[n].parent
Lnk(T, n, b) == T.node[n].link[b]
Lck(T, n) == T.node[n].lock
Inf(T, n) == T.node[n].info

(* The two directions of the links agree, and only the top has no parent. *)
Wired(T) ==
  /\ \A n \in Dom(T) : \A b \in {0, 1} :
       Lnk(T, n, b) # Null =>
         /\ Lnk(T, n, b) \in Dom(T) /\ Par(T, Lnk(T, n, b)) = n
         /\ IsPrefix(n, Lnk(T, n, b)) /\ n # Lnk(T, n, b) /\ Bit(Lnk(T, n, b), n) = b
  /\ \A n \in Dom(T) : Par(T, n) # Null =>
       Par(T, n) \in Dom(T) /\ \E b \in {0, 1} : Lnk(T, Par(T, n), b) = n
  /\ \A n \in Dom(T) : Par(T, n) = Null <=> T.top = n
  /\ T.top \in Dom(T) \cup {Null}

(* The types of the fields. *)
LEMMA TableType ==
  ASSUME NEW T \in Tables
  PROVE  /\ Dom(T) \subseteq AllPrefixes /\ T.node \in [Dom(T) -> Node]
         /\ Null \notin Dom(T) /\ Null \notin AllPrefixes
         /\ \A n \in Dom(T) : /\ Par(T, n) \in AllPrefixes \cup {Null}
                              /\ \A b \in {0, 1} : Lnk(T, n, b) \in AllPrefixes \cup {Null}
                              /\ Lck(T, n) \in 0..(Modulus - 1) /\ Inf(T, n) \in SUBSET Peers
<1>1. PICK D \in SUBSET AllPrefixes : T.node \in [D -> Node]
  BY DEF Tables, NodeMaps
<1>2. Dom(T) = D
  BY <1>1 DEF Dom
<1>3. \A n \in D : T.node[n] \in Node
  BY <1>1
<1> QED
  BY <1>1, <1>2, <1>3, TableAssumption DEF Node, Par, Lnk, Lck, Inf

(* A node hangs on the link of its parent that its next bit selects. *)
LEMMA ParentLink ==
  ASSUME NEW T \in Tables, Wired(T), NEW n \in Dom(T), Par(T, n) # Null
  PROVE  /\ Par(T, n) \in Dom(T) /\ IsPrefix(Par(T, n), n) /\ Par(T, n) # n
         /\ Lnk(T, Par(T, n), Bit(n, Par(T, n))) = n
<1>1. PICK b \in {0, 1} : Par(T, n) \in Dom(T) /\ Lnk(T, Par(T, n), b) = n
  BY DEF Wired
<1>2. n # Null
  BY TableType
<1> QED
  BY <1>1, <1>2 DEF Wired

(* One step of a search *)
Onward(T, p, n) ==
  IF n = Null THEN Null
  ELSE IF ~IsPrefix(n, p) \/ n = p THEN Null
  ELSE T.node[n].link[Bit(p, n)]

(* The nodes a search for p passes: the recursive equation of OnTheWay, and *)
(* its solution.                                                            *)
WayEq(T, p, f) ==
  [i \in 0..(MaxLen + 1) |->
     IF i = 0 THEN T.top
     ELSE LET n == f[i - 1]
          IN IF n = Null THEN Null
             ELSE IF ~IsPrefix(n, p) \/ n = p THEN Null
             ELSE T.node[n].link[Bit(p, n)]]

Way(T, p) == CHOOSE f : f = WayEq(T, p, f)

(* The solution exists, starts at the top and stays on nodes. *)
LEMMA WayFacts ==
  ASSUME NEW T \in Tables, Wired(T), NEW p \in AllPrefixes
  PROVE  /\ Way(T, p)[0] = T.top
         /\ \A i \in 0..(MaxLen + 1) : Way(T, p)[i] \in Dom(T) \cup {Null}
         /\ \A i \in 1..(MaxLen + 1) : Way(T, p)[i] = Onward(T, p, Way(T, p)[i - 1])
         /\ OnTheWay(T, p) = {Way(T, p)[i] : i \in 0..(MaxLen + 1)} \ {Null}
<1> DEFINE D == Dom(T) \cup {Null}
           step == [x \in D |-> Onward(T, p, x)]
           N == MaxLen + 1
<1>1. ASSUME NEW x \in D PROVE Onward(T, p, x) \in D
  <2>1. CASE x = Null \/ ~IsPrefix(x, p) \/ x = p
    BY <2>1 DEF Onward
  <2>2. CASE x # Null /\ IsPrefix(x, p) /\ x # p
    <3>1. x \in Dom(T) /\ x \in AllPrefixes
      BY <2>2, TableType
    <3>2. Bit(p, x) \in {0, 1}
      BY <2>2, <3>1, NextBit
    <3>3. Onward(T, p, x) = Lnk(T, x, Bit(p, x))
      BY <2>2 DEF Onward, Lnk
    <3> QED
      BY <3>1, <3>2, <3>3 DEF Wired
  <2> QED BY <2>1, <2>2
<1>2. step \in [D -> D] /\ T.top \in D /\ N \in Nat
  BY <1>1, TableAssumption DEF Wired
<1>3. PICK f \in [0..N -> D] : f[0] = T.top /\ \A i \in 1..N : f[i] = step[f[i - 1]]
  <2> DEFINE t == T.top
  <2>1. step \in [D -> D]
    BY ONLY <1>2
  <2>2. t \in D
    BY ONLY <1>2
  <2>3. N \in Nat
    BY ONLY <1>2
  <2> HIDE DEF D, step, N, t
  <2>4. \E f : Iterate(f, D, step, t, N)
    BY ONLY <2>1, <2>2, <2>3, Iterates
  <2> QED BY ONLY <2>4 DEF t, Iterate
<1>4. f = WayEq(T, p, f)
  <2>1. \A i \in 0..N : i # 0 => i \in 1..N /\ i - 1 \in 0..N
    BY <1>2
  <2>2. \A i \in 0..N : i # 0 => f[i] = Onward(T, p, f[i - 1])
    BY <1>3, <2>1
  <2>3. f = [i \in 0..N |-> f[i]]
    BY ONLY <1>3
  <2>4. f = [i \in 0..N |-> IF i = 0 THEN T.top ELSE Onward(T, p, f[i - 1])]
    BY ONLY <1>3, <2>2, <2>3
  <2> QED
    BY <2>4 DEF WayEq, Onward
<1> DEFINE w == Way(T, p)
<1>5. w = WayEq(T, p, w)
  BY <1>4 DEF Way
<1> HIDE DEF w
<1>6. w[0] = T.top
  BY <1>2, <1>5 DEF WayEq
<1>7. \A i \in 1..N : w[i] = Onward(T, p, w[i - 1])
  <2>1. \A i \in 1..N : i \in 0..(MaxLen + 1) /\ i # 0
    BY <1>2
  <2> QED
    BY <1>5, <2>1 DEF WayEq, Onward
<1>8. \A i \in 0..N : w[i] \in D
  <2> DEFINE Q == {k \in Nat : k \in 0..N => w[k] \in D}
  <2>1. 0 \in Q
    BY <1>2, <1>6
  <2>2. ASSUME NEW k \in Nat, k \in Q PROVE k + 1 \in Q
    <3>1. CASE k + 1 \in 0..N
      <4>1. k + 1 \in 1..N /\ k \in 0..N /\ (k + 1) - 1 = k
        BY <1>2, <3>1
      <4>2. w[k + 1] = Onward(T, p, w[k])
        BY <1>7, <4>1
      <4>3. w[k] \in D
        BY <2>2, <4>1
      <4> QED
        BY <1>1, <4>2, <4>3
    <3>2. CASE k + 1 \notin 0..N
      BY <3>2
    <3> QED BY <3>1, <3>2
  <2>3. Nat \subseteq Q
    <3> HIDE DEF Q
    <3> QED BY <2>1, <2>2, NaturalsBySet
  <2> QED
    BY <1>2, <2>3
<1>9. OnTheWay(T, p) = {w[i] : i \in 0..N} \ {Null}
  BY DEF OnTheWay, w, Way, WayEq
<1> QED
  BY <1>6, <1>7, <1>8, <1>9 DEF w

(* The search for p meets every node that is a prefix of p. *)
LEMMA WayMeets ==
  ASSUME NEW T \in Tables, Wired(T), NEW p \in AllPrefixes, NEW n \in Dom(T), IsPrefix(n, p)
  PROVE  \E i \in 0..MaxLen : i <= Len(n) /\ Way(T, p)[i] = n
<1> DEFINE w == Way(T, p)
           Met(m) == \E i \in 0..MaxLen : i <= Len(m) /\ w[i] = m
           Q == {k \in Nat : \A m \in Dom(T) : IsPrefix(m, p) /\ Len(m) <= k => Met(m)}
<1> HIDE DEF w
<1>0. Dom(T) \subseteq AllPrefixes /\ Null \notin Dom(T)
  BY TableType
<1>1. /\ w[0] = T.top /\ \A i \in 1..(MaxLen + 1) : w[i] = Onward(T, p, w[i - 1])
      /\ MaxLen \in Nat
  BY WayFacts, TableAssumption DEF w
<1>2. ASSUME NEW m \in Dom(T), Par(T, m) = Null PROVE Met(m)
  <2>1. T.top = m /\ 0 \in 0..MaxLen /\ 0 <= Len(m)
    BY <1>0, <1>1, <1>2, PrefixOrder DEF Wired
  <2> QED
    BY <1>1, <2>1
<1>3. 0 \in Q
  <2>1. SUFFICES ASSUME NEW m \in Dom(T), IsPrefix(m, p), Len(m) <= 0 PROVE Met(m)
    OBVIOUS
  <2>2. Par(T, m) = Null
    <3>1. SUFFICES ASSUME Par(T, m) # Null PROVE FALSE
      OBVIOUS
    <3>2. Par(T, m) \in AllPrefixes /\ IsPrefix(Par(T, m), m) /\ Par(T, m) # m
      BY <1>0, <3>1, ParentLink
    <3> QED
      BY <1>0, <2>1, <3>2, PrefixOrder
  <2> QED
    BY <1>2, <2>2
<1>4. ASSUME NEW k \in Nat, k \in Q PROVE k + 1 \in Q
  <2>1. SUFFICES ASSUME NEW m \in Dom(T), IsPrefix(m, p), Len(m) <= k + 1, Par(T, m) # Null
                 PROVE Met(m)
    BY <1>2
  <2> DEFINE a == Par(T, m)
  <2>2. a \in Dom(T) /\ IsPrefix(a, m) /\ a # m /\ Lnk(T, a, Bit(m, a)) = m
    BY <2>1, ParentLink
  <2>3. /\ Len(a) \in Nat /\ Len(m) \in Nat /\ Len(a) < Len(m) /\ IsPrefix(a, p)
        /\ Len(m) <= Len(p) /\ Len(p) \in Nat /\ Len(p) <= MaxLen
    BY <1>0, <2>1, <2>2, PrefixOrder
  <2>4. Bit(p, a) = Bit(m, a)
    BY <1>0, <2>1, <2>2, NextBit
  <2>5. PICK i \in 0..MaxLen : i <= Len(a) /\ w[i] = a
    <3>1. Len(a) <= k
      BY ONLY <2>1, <2>3, k \in Nat
    <3>2. Met(a)
      <4> HIDE DEF a, Met
      <4> QED BY ONLY <1>4, <2>2, <2>3, <3>1
    <3> QED
      BY ONLY <3>2
  <2>6. i + 1 \in 1..(MaxLen + 1) /\ (i + 1) - 1 = i /\ i + 1 \in 0..MaxLen /\ i + 1 <= Len(m)
    BY <1>1, <2>3, <2>5
  <2>7. w[i + 1] = Onward(T, p, a)
    BY <1>1, <2>5, <2>6
  <2>8. Onward(T, p, a) = m
    BY <1>0, <2>2, <2>3, <2>4 DEF Onward, Lnk
  <2> QED
    BY <2>6, <2>7, <2>8
<1>5. Nat \subseteq Q
  <2> HIDE DEF Q
  <2> QED BY <1>3, <1>4, NaturalsBySet
<1>6. Len(n) \in Nat
  BY <1>0, PrefixOrder
<1> QED
  BY <1>5, <1>6 DEF w

(* The nodes a search finds are all the prefixes of p in the trie. *)
LEMMA MatchingIsAll ==
  ASSUME NEW T \in Tables, Wired(T), NEW p \in AllPrefixes
  PROVE  Matching(T, p) = {n \in Dom(T) : IsPrefix(n, p)}
<1>1. OnTheWay(T, p) \subseteq Dom(T)
  BY WayFacts
<1>2. ASSUME NEW n \in Dom(T), IsPrefix(n, p) PROVE n \in OnTheWay(T, p)
  <2>1. PICK i \in 0..MaxLen : Way(T, p)[i] = n
    BY <1>2, WayMeets
  <2>2. i \in 0..(MaxLen + 1) /\ n # Null
    BY <1>2, TableAssumption, TableType
  <2> QED
    BY <2>1, <2>2, WayFacts
<1> QED
  BY <1>1, <1>2 DEF Matching

-----------------------------------------------------------------------------
(* What the assignments do to the nodes *)

(* All but locks and routes stays as it is. *)
Frame(T, U) ==
  /\ U \in Tables /\ Dom(U) = Dom(T)
  /\ U.top = T.top /\ U.count = T.count /\ U.aborted = T.aborted
  /\ \A m \in Dom(T) : Par(U, m) = Par(T, m) /\ \A b \in {0, 1} : Lnk(U, m, b) = Lnk(T, m, b)

(* Writing one node leaves the others and the table's own fields alone. *)
LEMMA NodeWrite ==
  ASSUME NEW T \in Tables, NEW n \in Dom(T), NEW r \in Node
  PROVE  LET U == [T EXCEPT !.node = [T.node EXCEPT ![n] = r]]
         IN /\ U \in Tables /\ Dom(U) = Dom(T)
            /\ U.top = T.top /\ U.count = T.count /\ U.aborted = T.aborted
            /\ \A m \in Dom(T) : U.node[m] = IF m = n THEN r ELSE T.node[m]
<1> DEFINE f == [T.node EXCEPT ![n] = r]
           U == [T EXCEPT !.node = f]
<1>1. T.node \in [Dom(T) -> Node] /\ Dom(T) \in SUBSET AllPrefixes
  BY TableType
<1>2. f \in [Dom(T) -> Node] /\ \A m \in Dom(T) : f[m] = IF m = n THEN r ELSE T.node[m]
  BY <1>1
<1> HIDE DEF f
<1>3. f \in NodeMaps
  BY <1>1, <1>2 DEF NodeMaps
<1>4. U \in Tables /\ U.node = f /\ U.top = T.top /\ U.count = T.count /\ U.aborted = T.aborted
  BY <1>3 DEF Tables
<1>5. DOMAIN f = Dom(T)
  BY <1>2
<1> QED
  BY <1>2, <1>4, <1>5 DEF Dom, f

(* A node with other values in some fields *)
LEMMA NodeFields ==
  ASSUME NEW r \in Node
  PROVE  /\ \A l \in 0..(Modulus - 1) :
              /\ [r EXCEPT !.lock = l] \in Node
              /\ [r EXCEPT !.lock = l].parent = r.parent /\ [r EXCEPT !.lock = l].link = r.link
              /\ [r EXCEPT !.lock = l].info = r.info /\ [r EXCEPT !.lock = l].lock = l
         /\ \A s \in SUBSET Peers :
              /\ [r EXCEPT !.info = s] \in Node
              /\ [r EXCEPT !.info = s].parent = r.parent /\ [r EXCEPT !.info = s].link = r.link
              /\ [r EXCEPT !.info = s].info = s /\ [r EXCEPT !.info = s].lock = r.lock
         /\ \A q \in AllPrefixes \cup {Null} :
              /\ [r EXCEPT !.parent = q] \in Node
              /\ [r EXCEPT !.parent = q].parent = q /\ [r EXCEPT !.parent = q].link = r.link
              /\ [r EXCEPT !.parent = q].info = r.info /\ [r EXCEPT !.parent = q].lock = r.lock
         /\ \A l \in [{0, 1} -> AllPrefixes \cup {Null}] :
              /\ [r EXCEPT !.link = l] \in Node
              /\ [r EXCEPT !.link = l].parent = r.parent /\ [r EXCEPT !.link = l].link = l
              /\ [r EXCEPT !.link = l].info = r.info /\ [r EXCEPT !.link = l].lock = r.lock
BY DEF Node

(* A node of a table has the type of nodes. *)
LEMMA NodeAt ==
  ASSUME NEW T \in Tables, NEW n \in Dom(T)
  PROVE  T.node[n] \in Node
BY TableType

(* The lock's arithmetic, while it does not wrap *)
LEMMA LockUp ==
  ASSUME NEW l \in Nat, l + 1 < Modulus
  PROVE  (l + 1) % Modulus = l + 1 /\ l + 1 \in 0..(Modulus - 1)
BY ModulusAssumption

(* The same for an unlock: it is exact unless the lock is zero. *)
LEMMA LockDown ==
  ASSUME NEW l \in Nat, 0 < l, l < Modulus
  PROVE  (l + Modulus - 1) % Modulus = l - 1 /\ l - 1 \in 0..(Modulus - 1)
<1> DEFINE M == Modulus
           a == l + M - 1
           q == a \div M
           r == a % M
<1>1. M \in Nat \ {0} /\ l \in Nat /\ 0 < l /\ l < M
  BY ModulusAssumption
<1> HIDE DEF M
<1>2. a \in Nat /\ r \in 0..(M - 1) /\ q \in Nat /\ a = M * q + r
  BY ONLY <1>1
<1>3. a = M + (l - 1) /\ l - 1 \in 0..(M - 1) /\ a < M + M
  BY ONLY <1>1
<1> HIDE DEF a, q, r
<1>4. ASSUME q >= 2 PROVE FALSE
  <2>2. M * q >= M + M
    <3>1. PICK k \in Nat : q = 2 + k
      <4>1. q - 2 \in Nat /\ q = 2 + (q - 2)
        BY ONLY <1>2, <1>4
      <4> QED BY ONLY <4>1
    <3>2. M * q = M + M + M * k /\ M * k >= 0
      BY ONLY <1>1, <3>1
    <3> QED BY ONLY <1>1, <3>1, <3>2
  <2> QED BY ONLY <1>1, <1>2, <1>3, <2>2
<1>5. q # 0
  <2>1. SUFFICES ASSUME q = 0 PROVE FALSE
    OBVIOUS
  <2>2. M * q = 0
    BY ONLY <1>1, <2>1
  <2> QED BY ONLY <1>1, <1>2, <1>3, <2>2
<1>6. M * q = M
  <2>1. q = 1
    BY ONLY <1>2, <1>4, <1>5
  <2> QED BY ONLY <1>1, <2>1
<1>7. r = l - 1 /\ l - 1 \in 0..(M - 1)
  BY ONLY <1>1, <1>2, <1>3, <1>6
<1> QED
  BY <1>7 DEF r, a, M

(* bgp_lock_node changes one lock and nothing else. *)
LEMMA LockFacts ==
  ASSUME NEW T \in Tables, NEW n \in Dom(T), Lck(T, n) + 1 < Modulus
  PROVE  /\ Frame(T, Lock(T, n))
         /\ \A m \in Dom(T) : /\ Inf(Lock(T, n), m) = Inf(T, m)
                              /\ Lck(Lock(T, n), m) = IF m = n THEN Lck(T, n) + 1 ELSE Lck(T, m)
<1> DEFINE r == [T.node[n] EXCEPT !.lock = Lck(T, n) + 1]
           U == [T EXCEPT !.node = [T.node EXCEPT ![n] = r]]
<1>1. T.node[n] \in Node /\ Lck(T, n) \in Nat
  BY NodeAt, TableType, ModulusAssumption
<1>2. (Lck(T, n) + 1) % Modulus = Lck(T, n) + 1 /\ Lck(T, n) + 1 \in 0..(Modulus - 1)
  BY <1>1, LockUp
<1>3. Lock(T, n) = [T EXCEPT !.node = [T.node EXCEPT ![n] = [T.node[n] EXCEPT !.lock = (T.node[n].lock + 1) % Modulus]]]
  BY DEF Lock
<1>4. Lock(T, n) = U
  BY <1>2, <1>3 DEF Lck
<1>5. /\ r \in Node /\ r.parent = T.node[n].parent /\ r.link = T.node[n].link
      /\ r.info = T.node[n].info /\ r.lock = Lck(T, n) + 1
  BY <1>1, <1>2, NodeFields
<1> HIDE DEF r
<1>6. /\ U \in Tables /\ Dom(U) = Dom(T)
      /\ U.top = T.top /\ U.count = T.count /\ U.aborted = T.aborted
      /\ \A m \in Dom(T) : U.node[m] = IF m = n THEN r ELSE T.node[m]
  BY <1>5, NodeWrite
<1> HIDE DEF U
<1> QED
  BY <1>4, <1>5, <1>6 DEF Frame, Par, Lnk, Inf, Lck

(* The first assignment of bgp_unlock_node *)
Down(T, n) == [T EXCEPT !.node[n].lock = (@ + Modulus - 1) % Modulus]

(* bgp_unlock_node gives one reference back, and deletes after the last. *)
LEMMA DownFacts ==
  ASSUME NEW T \in Tables, NEW n \in Dom(T), 0 < Lck(T, n)
  PROVE  /\ Frame(T, Down(T, n))
         /\ \A m \in Dom(T) : /\ Inf(Down(T, n), m) = Inf(T, m)
                              /\ Lck(Down(T, n), m) = IF m = n THEN Lck(T, n) - 1 ELSE Lck(T, m)
         /\ Unlock(T, n) = IF Lck(T, n) = 1 THEN Delete(Down(T, n), n) ELSE Down(T, n)
<1> DEFINE r == [T.node[n] EXCEPT !.lock = Lck(T, n) - 1]
           U == [T EXCEPT !.node = [T.node EXCEPT ![n] = r]]
<1>1. T.node[n] \in Node /\ Lck(T, n) \in Nat /\ Lck(T, n) < Modulus
  BY NodeAt, TableType, ModulusAssumption
<1>2. (Lck(T, n) + Modulus - 1) % Modulus = Lck(T, n) - 1 /\ Lck(T, n) - 1 \in 0..(Modulus - 1)
  BY <1>1, LockDown
<1>3. Down(T, n) = [T EXCEPT !.node = [T.node EXCEPT ![n] = [T.node[n] EXCEPT !.lock = (T.node[n].lock + Modulus - 1) % Modulus]]]
  BY DEF Down
<1>4. Down(T, n) = U
  BY <1>2, <1>3 DEF Lck
<1>5. /\ r \in Node /\ r.parent = T.node[n].parent /\ r.link = T.node[n].link
      /\ r.info = T.node[n].info /\ r.lock = Lck(T, n) - 1
  BY <1>1, <1>2, NodeFields
<1> HIDE DEF r
<1>6. /\ U \in Tables /\ Dom(U) = Dom(T)
      /\ U.top = T.top /\ U.count = T.count /\ U.aborted = T.aborted
      /\ \A m \in Dom(T) : U.node[m] = IF m = n THEN r ELSE T.node[m]
  BY <1>5, NodeWrite
<1> HIDE DEF U
<1>7. Unlock(T, n) = IF Down(T, n).node[n].lock = 0 THEN Delete(Down(T, n), n) ELSE Down(T, n)
  BY DEF Unlock, Down
<1>8. Down(T, n).node[n].lock = Lck(T, n) - 1
  BY <1>4, <1>5, <1>6
<1>9. Lck(T, n) - 1 = 0 <=> Lck(T, n) = 1
  BY <1>1
<1>10. Unlock(T, n) = IF Lck(T, n) = 1 THEN Delete(Down(T, n), n) ELSE Down(T, n)
  BY ONLY <1>7, <1>8, <1>9
<1> QED
  BY <1>4, <1>5, <1>6, <1>10 DEF Frame, Par, Lnk, Inf, Lck

(* A change of the routes of a node *)
LEMMA InfoFacts ==
  ASSUME NEW T \in Tables, NEW n \in Dom(T), NEW s \in SUBSET Peers
  PROVE  LET U == [T EXCEPT !.node[n].info = s]
         IN /\ Frame(T, U)
            /\ \A m \in Dom(T) : /\ Inf(U, m) = IF m = n THEN s ELSE Inf(T, m)
                                 /\ Lck(U, m) = Lck(T, m)
<1> DEFINE r == [T.node[n] EXCEPT !.info = s]
           U == [T EXCEPT !.node = [T.node EXCEPT ![n] = r]]
<1>1. T.node[n] \in Node
  BY NodeAt
<1>4. [T EXCEPT !.node[n].info = s] = U
  OBVIOUS
<1>5. /\ r \in Node /\ r.parent = T.node[n].parent /\ r.link = T.node[n].link
      /\ r.info = s /\ r.lock = T.node[n].lock
  BY <1>1, NodeFields
<1> HIDE DEF r
<1>6. /\ U \in Tables /\ Dom(U) = Dom(T)
      /\ U.top = T.top /\ U.count = T.count /\ U.aborted = T.aborted
      /\ \A m \in Dom(T) : U.node[m] = IF m = n THEN r ELSE T.node[m]
  BY <1>5, NodeWrite
<1> HIDE DEF U
<1>7. Frame(T, U) /\ \A m \in Dom(T) : /\ Inf(U, m) = IF m = n THEN s ELSE Inf(T, m)
                                       /\ Lck(U, m) = Lck(T, m)
  BY <1>5, <1>6 DEF Frame, Par, Lnk, Inf, Lck
<1> QED
  BY <1>4, <1>7

(* A new node, without references *)
LEMMA WithNodeFacts ==
  ASSUME NEW T \in Tables, NEW p \in AllPrefixes, p \notin Dom(T)
  PROVE  /\ WithNode(T, p) \in Tables /\ Dom(WithNode(T, p)) = Dom(T) \cup {p}
         /\ WithNode(T, p).top = T.top /\ WithNode(T, p).count = T.count + 1
         /\ WithNode(T, p).aborted = T.aborted
         /\ \A m \in Dom(T) \cup {p} :
              /\ Par(WithNode(T, p), m) = IF m = p THEN Null ELSE Par(T, m)
              /\ \A b \in {0, 1} : Lnk(WithNode(T, p), m, b) = IF m = p THEN Null ELSE Lnk(T, m, b)
              /\ Lck(WithNode(T, p), m) = IF m = p THEN 0 ELSE Lck(T, m)
              /\ Inf(WithNode(T, p), m) = IF m = p THEN {} ELSE Inf(T, m)
<1> DEFINE D == Dom(T) \cup {p}
           f == [m \in D |-> IF m = p THEN NewNode ELSE T.node[m]]
           U == [T EXCEPT !.node = f, !.count = T.count + 1]
<1>1. T.node \in [Dom(T) -> Node] /\ D \in SUBSET AllPrefixes
  BY TableType
<1>2. /\ NewNode \in Node /\ NewNode.parent = Null /\ NewNode.lock = 0 /\ NewNode.info = {}
      /\ \A b \in {0, 1} : NewNode.link[b] = Null
  BY ModulusAssumption DEF NewNode, Node
<1>3. f \in [D -> Node] /\ \A m \in D : f[m] = IF m = p THEN NewNode ELSE T.node[m]
  BY <1>1, <1>2
<1>4. WithNode(T, p) = U
  BY DEF WithNode, Dom
<1> HIDE DEF f
<1>5. f \in NodeMaps
  BY <1>1, <1>3 DEF NodeMaps
<1>6. /\ U \in Tables /\ U.node = f /\ U.top = T.top /\ U.count = T.count + 1
      /\ U.aborted = T.aborted
  <2>1. T.count + 1 \in Int
    BY DEF Tables
  <2> QED BY <1>5, <2>1 DEF Tables
<1>7. DOMAIN f = D
  BY <1>3
<1> HIDE DEF U
<1> QED
  BY <1>2, <1>3, <1>4, <1>6, <1>7 DEF Dom, Par, Lnk, Lck, Inf

(* A node put on a link of another one *)
LEMMA SetLinkFacts ==
  ASSUME NEW T \in Tables, NEW n \in Dom(T), NEW c \in Dom(T), n # c, Bit(c, n) \in {0, 1}
  PROVE  LET U == SetLink(T, n, c)
         IN /\ U \in Tables /\ Dom(U) = Dom(T)
            /\ U.top = T.top /\ U.count = T.count /\ U.aborted = T.aborted
            /\ \A m \in Dom(T) :
                 /\ Par(U, m) = IF m = c THEN n ELSE Par(T, m)
                 /\ \A b \in {0, 1} : Lnk(U, m, b) = IF m = n /\ b = Bit(c, n) THEN c ELSE Lnk(T, m, b)
                 /\ Lck(U, m) = Lck(T, m) /\ Inf(U, m) = Inf(T, m)
<1> DEFINE d == Bit(c, n)
           l == [T.node[n].link EXCEPT ![d] = c]
           r == [T.node[n] EXCEPT !.link = l]
           s == [T.node[c] EXCEPT !.parent = n]
           V == [T EXCEPT !.node = [T.node EXCEPT ![n] = r]]
           U == [V EXCEPT !.node = [V.node EXCEPT ![c] = s]]
<1>1. /\ T.node[n] \in Node /\ T.node[c] \in Node /\ n \in AllPrefixes /\ c \in AllPrefixes
      /\ n # Null /\ d \in {0, 1}
  BY NodeAt, TableType
<1>2. /\ l \in [{0, 1} -> AllPrefixes \cup {Null}]
      /\ \A b \in {0, 1} : l[b] = IF b = d THEN c ELSE T.node[n].link[b]
  <2>1. T.node[n].link \in [{0, 1} -> AllPrefixes \cup {Null}]
    BY <1>1 DEF Node
  <2> HIDE DEF d
  <2> QED
    BY ONLY <1>1, <2>1
<1> HIDE DEF l
<1>3. /\ r \in Node /\ r.parent = T.node[n].parent /\ r.link = l
      /\ r.info = T.node[n].info /\ r.lock = T.node[n].lock
  BY <1>1, <1>2, NodeFields
<1>4. /\ s \in Node /\ s.parent = n /\ s.link = T.node[c].link
      /\ s.info = T.node[c].info /\ s.lock = T.node[c].lock
  BY <1>1, NodeFields
<1>5. SetLink(T, n, c) = U
  <2>1. SetLink(T, n, c) = [T EXCEPT !.node[n].link[d] = c, !.node[c].parent = n]
    BY <1>1 DEF SetLink
  <2>2. V.node = [T.node EXCEPT ![n] = r]
    BY DEF Tables
  <2>3. V.node[c] = T.node[c]
    BY <2>2, TableType
  <2> QED
    BY <2>1, <2>2, <2>3 DEF l
<1> HIDE DEF r, s
<1>6. /\ V \in Tables /\ Dom(V) = Dom(T)
      /\ V.top = T.top /\ V.count = T.count /\ V.aborted = T.aborted
      /\ \A m \in Dom(T) : V.node[m] = IF m = n THEN r ELSE T.node[m]
  BY <1>3, NodeWrite
<1> HIDE DEF V
<1>7. /\ U \in Tables /\ Dom(U) = Dom(V)
      /\ U.top = V.top /\ U.count = V.count /\ U.aborted = V.aborted
      /\ \A m \in Dom(V) : U.node[m] = IF m = c THEN s ELSE V.node[m]
  BY <1>4, <1>6, NodeWrite
<1> HIDE DEF U
<1>8. \A m \in Dom(T) : U.node[m] = IF m = c THEN s ELSE IF m = n THEN r ELSE T.node[m]
  BY ONLY <1>6, <1>7
<1>9. \A m \in Dom(T) :
        /\ Par(U, m) = IF m = c THEN n ELSE Par(T, m)
        /\ \A b \in {0, 1} : Lnk(U, m, b) = IF m = n /\ b = d THEN c ELSE Lnk(T, m, b)
        /\ Lck(U, m) = Lck(T, m) /\ Inf(U, m) = Inf(T, m)
  BY ONLY <1>2, <1>3, <1>4, <1>8, n # c DEF Par, Lnk, Lck, Inf
<1> QED
  BY <1>5, <1>6, <1>7, <1>9

(* A node made the top *)
LEMMA SetTopFacts ==
  ASSUME NEW T \in Tables, NEW c \in Dom(T)
  PROVE  LET U == SetLink(T, Null, c)
         IN /\ U \in Tables /\ Dom(U) = Dom(T)
            /\ U.top = c /\ U.count = T.count /\ U.aborted = T.aborted
            /\ \A m \in Dom(T) :
                 /\ Par(U, m) = Par(T, m) /\ \A b \in {0, 1} : Lnk(U, m, b) = Lnk(T, m, b)
                 /\ Lck(U, m) = Lck(T, m) /\ Inf(U, m) = Inf(T, m)
<1> DEFINE U == [T EXCEPT !.top = c]
<1>1. SetLink(T, Null, c) = U
  BY DEF SetLink
<1>2. c \in AllPrefixes
  BY TableType
<1>3. U \in Tables /\ U.node = T.node /\ U.top = c /\ U.count = T.count /\ U.aborted = T.aborted
  BY <1>2 DEF Tables
<1> HIDE DEF U
<1> QED
  BY <1>1, <1>3 DEF Dom, Par, Lnk, Lck, Inf

(* A node with a child at most taken out *)
LEMMA UnlinkedFacts ==
  ASSUME NEW T \in Tables, NEW n \in Dom(T)
  PROVE  LET U == Unlinked(T, n)
             child == Child(T, n)
             parent == Par(T, n)
         IN /\ U \in Tables /\ Dom(U) = Dom(T) \ {n}
            /\ U.top = (IF parent = Null THEN child ELSE T.top)
            /\ U.count = T.count - 1 /\ U.aborted = T.aborted
            /\ \A m \in Dom(T) \ {n} :
                 /\ Par(U, m) = IF m = child THEN parent ELSE Par(T, m)
                 /\ \A b \in {0, 1} :
                      Lnk(U, m, b) = IF m = parent /\ b = (IF Lnk(T, m, 0) = n THEN 0 ELSE 1)
                                     THEN child ELSE Lnk(T, m, b)
                 /\ Lck(U, m) = Lck(T, m) /\ Inf(U, m) = Inf(T, m)
<1> DEFINE child == Child(T, n)
           parent == Par(T, n)
           D == Dom(T) \ {n}
           rlink(m) == IF m # parent THEN T.node[m].link
                       ELSE IF T.node[m].link[0] = n THEN [T.node[m].link EXCEPT ![0] = child]
                       ELSE [T.node[m].link EXCEPT ![1] = child]
           rpar(m) == IF m = child THEN parent ELSE T.node[m].parent
           f == [m \in D |-> [T.node[m] EXCEPT !.parent = rpar(m), !.link = rlink(m)]]
           U == [T EXCEPT !.node = f, !.top = IF parent = Null THEN child ELSE T.top,
                          !.count = T.count - 1]
<1>1. T.node \in [Dom(T) -> Node] /\ D \in SUBSET AllPrefixes
  BY TableType
<1>2. parent \in AllPrefixes \cup {Null} /\ child \in AllPrefixes \cup {Null}
  BY TableType DEF Child, Lnk
<1>3. Unlinked(T, n) = U
  BY DEF Unlinked, Dom, Par
<1> HIDE DEF child, parent
<1>4. ASSUME NEW m \in D
      PROVE  /\ f[m] \in Node /\ f[m].parent = rpar(m)
             /\ f[m].lock = T.node[m].lock /\ f[m].info = T.node[m].info
             /\ f[m].link = rlink(m)
             /\ \A b \in {0, 1} :
                  f[m].link[b] = IF m = parent /\ b = (IF T.node[m].link[0] = n THEN 0 ELSE 1)
                                 THEN child ELSE T.node[m].link[b]
  <2>1. T.node[m] \in Node
    BY <1>1
  <2>2. T.node[m].link \in [{0, 1} -> AllPrefixes \cup {Null}]
    BY <2>1 DEF Node
  <2>3. rpar(m) \in AllPrefixes \cup {Null}
    BY <1>2, <2>1 DEF Node
  <2>4. rlink(m) \in [{0, 1} -> AllPrefixes \cup {Null}]
    BY ONLY <1>2, <2>2
  <2>5. f[m] = [[T.node[m] EXCEPT !.parent = rpar(m)] EXCEPT !.link = rlink(m)]
    BY ONLY m \in D
  <2>6. \A b \in {0, 1} :
          rlink(m)[b] = IF m = parent /\ b = (IF T.node[m].link[0] = n THEN 0 ELSE 1)
                        THEN child ELSE T.node[m].link[b]
    BY ONLY <1>2, <2>2
  <2> HIDE DEF rpar, rlink, f
  <2> DEFINE r == [T.node[m] EXCEPT !.parent = rpar(m)]
  <2>7. r \in Node /\ r.parent = rpar(m) /\ r.lock = T.node[m].lock /\ r.info = T.node[m].info
    BY <2>1, <2>3, NodeFields
  <2> HIDE DEF r
  <2>8. /\ [r EXCEPT !.link = rlink(m)] \in Node /\ [r EXCEPT !.link = rlink(m)].parent = r.parent
        /\ [r EXCEPT !.link = rlink(m)].link = rlink(m)
        /\ [r EXCEPT !.link = rlink(m)].info = r.info /\ [r EXCEPT !.link = rlink(m)].lock = r.lock
    BY <2>4, <2>7, NodeFields
  <2>9. f[m] = [r EXCEPT !.link = rlink(m)]
    BY <2>5 DEF r
  <2> QED
    BY ONLY <2>6, <2>7, <2>8, <2>9
<1>5. f = [m \in D |-> f[m]] /\ DOMAIN f = D
  OBVIOUS
<1> HIDE DEF f, rpar, rlink
<1>6. f \in [D -> Node]
  BY ONLY <1>4, <1>5
<1>7. f \in NodeMaps
  BY <1>1, <1>6 DEF NodeMaps
<1>8. /\ U \in Tables /\ U.node = f /\ U.top = (IF parent = Null THEN child ELSE T.top)
      /\ U.count = T.count - 1 /\ U.aborted = T.aborted
  <2> DEFINE t == IF parent = Null THEN child ELSE T.top
             c == T.count - 1
  <2>1. c \in Int /\ t \in AllPrefixes \cup {Null}
    BY <1>2 DEF Tables
  <2> HIDE DEF c, t
  <2>2. U = [T EXCEPT !.node = f, !.top = t, !.count = c]
    BY DEF t, c
  <2>3. U \in Tables /\ U.node = f /\ U.top = t /\ U.count = c /\ U.aborted = T.aborted
    BY <1>7, <2>1, <2>2 DEF Tables
  <2> QED BY ONLY <2>3 DEF t, c
<1> HIDE DEF U
<1>9. Dom(U) = D
  BY <1>5, <1>8 DEF Dom
<1>10. \A m \in D :
         /\ Par(U, m) = IF m = child THEN parent ELSE Par(T, m)
         /\ \A b \in {0, 1} :
              Lnk(U, m, b) = IF m = parent /\ b = (IF Lnk(T, m, 0) = n THEN 0 ELSE 1)
                             THEN child ELSE Lnk(T, m, b)
         /\ Lck(U, m) = Lck(T, m) /\ Inf(U, m) = Inf(T, m)
  BY <1>4, <1>8 DEF Par, Lnk, Lck, Inf, rpar
<1> QED
  BY <1>3, <1>8, <1>9, <1>10 DEF child, parent

-----------------------------------------------------------------------------
(* Growing the trie *)

(* Either of the last two lemmas *)
LEMMA SetUnderFacts ==
  ASSUME NEW T \in Tables, NEW n \in Dom(T) \cup {Null}, NEW c \in Dom(T),
         n # Null => n # c /\ Bit(c, n) \in {0, 1}
  PROVE  LET U == SetLink(T, n, c)
         IN /\ U \in Tables /\ Dom(U) = Dom(T)
            /\ U.top = (IF n = Null THEN c ELSE T.top)
            /\ U.count = T.count /\ U.aborted = T.aborted
            /\ \A m \in Dom(T) :
                 /\ Par(U, m) = IF m = c /\ n # Null THEN n ELSE Par(T, m)
                 /\ \A b \in {0, 1} : Lnk(U, m, b) = IF m = n /\ b = Bit(c, n) THEN c ELSE Lnk(T, m, b)
                 /\ Lck(U, m) = Lck(T, m) /\ Inf(U, m) = Inf(T, m)
<1>1. Null \notin Dom(T)
  BY TableType
<1>2. CASE n = Null
  BY <1>1, <1>2, SetTopFacts
<1>3. CASE n # Null
  <2>1. n \in Dom(T) /\ n # c /\ Bit(c, n) \in {0, 1}
    BY <1>3
  <2> QED
    BY <1>3, <2>1, SetLinkFacts
<1> QED
  BY <1>2, <1>3

(* U is T with one more node, c, and no link lost. *)
Grown(T, U, c) ==
  /\ U \in Tables /\ Wired(U) /\ Dom(U) = Dom(T) \cup {c}
  /\ U.count = T.count + 1 /\ U.aborted = T.aborted
  /\ \A m \in Dom(T) : /\ Lck(U, m) = Lck(T, m) /\ Inf(U, m) = Inf(T, m)
                       /\ \A b \in {0, 1} : Lnk(T, m, b) # Null => Lnk(U, m, b) # Null
  /\ Lck(U, c) = 0 /\ Inf(U, c) = {}

(* The place of c under n, or at the top *)
Place(T, n, c) == IF n = Null THEN T.top ELSE Lnk(T, n, Bit(c, n))

(* A leaf on a free link *)
LEMMA Hang ==
  ASSUME NEW T \in Tables, Wired(T), NEW n \in Dom(T) \cup {Null},
         NEW c \in AllPrefixes, c \notin Dom(T),
         n # Null => IsPrefix(n, c) /\ n # c, Place(T, n, c) = Null
  PROVE  LET U == SetLink(WithNode(T, c), n, c)
         IN /\ Grown(T, U, c)
            /\ \A b \in {0, 1} : Lnk(U, c, b) = Null
            /\ n # Null => Lnk(U, n, Bit(c, n)) = c
            /\ \A m \in Dom(T) : \A b \in {0, 1} :
                 ~(m = n /\ b = Bit(c, n)) => Lnk(U, m, b) = Lnk(T, m, b)
<1> DEFINE V == WithNode(T, c)
           U == SetLink(V, n, c)
           D == Dom(T) \cup {c}
<1>1. /\ V \in Tables /\ Dom(V) = D
      /\ V.top = T.top /\ V.count = T.count + 1 /\ V.aborted = T.aborted
      /\ \A m \in D :
           /\ Par(V, m) = IF m = c THEN Null ELSE Par(T, m)
           /\ \A b \in {0, 1} : Lnk(V, m, b) = IF m = c THEN Null ELSE Lnk(T, m, b)
           /\ Lck(V, m) = IF m = c THEN 0 ELSE Lck(T, m)
           /\ Inf(V, m) = IF m = c THEN {} ELSE Inf(T, m)
  BY WithNodeFacts
<1>2. Dom(T) \subseteq AllPrefixes /\ Null \notin AllPrefixes
  BY TableType
<1>3. n # Null => Bit(c, n) \in {0, 1}
  BY <1>2, NextBit
<1> HIDE DEF V
<1>4. /\ U \in Tables /\ Dom(U) = D
      /\ U.top = (IF n = Null THEN c ELSE V.top)
      /\ U.count = V.count /\ U.aborted = V.aborted
      /\ \A m \in D :
           /\ Par(U, m) = IF m = c /\ n # Null THEN n ELSE Par(V, m)
           /\ \A b \in {0, 1} : Lnk(U, m, b) = IF m = n /\ b = Bit(c, n) THEN c ELSE Lnk(V, m, b)
           /\ Lck(U, m) = Lck(V, m) /\ Inf(U, m) = Inf(V, m)
  BY <1>1, <1>3, SetUnderFacts
<1> HIDE DEF U
<1>5. \A m \in D :
        /\ Par(U, m) = IF m = c THEN n ELSE Par(T, m)
        /\ \A b \in {0, 1} : Lnk(U, m, b) = IF m = n /\ b = Bit(c, n) THEN c
                                            ELSE IF m = c THEN Null ELSE Lnk(T, m, b)
        /\ Lck(U, m) = IF m = c THEN 0 ELSE Lck(T, m)
        /\ Inf(U, m) = IF m = c THEN {} ELSE Inf(T, m)
  BY ONLY <1>1, <1>4
<1>6. Wired(U)
  <2>1. ASSUME NEW m \in D, NEW b \in {0, 1}, Lnk(U, m, b) # Null
        PROVE  /\ Lnk(U, m, b) \in D /\ Par(U, Lnk(U, m, b)) = m
               /\ IsPrefix(m, Lnk(U, m, b)) /\ m # Lnk(U, m, b) /\ Bit(Lnk(U, m, b), m) = b
    <3>1. CASE m = n /\ b = Bit(c, n)
      <4>1. Lnk(U, m, b) = c /\ Par(U, c) = n /\ n # Null
        BY ONLY <1>2, <1>5, <2>1, <3>1, c \in AllPrefixes
      <4> QED BY <3>1, <4>1
    <3>2. CASE ~(m = n /\ b = Bit(c, n))
      <4>1. m \in Dom(T) /\ Lnk(U, m, b) = Lnk(T, m, b)
        BY ONLY <1>5, <2>1, <3>2
      <4>2. /\ Lnk(T, m, b) \in Dom(T) /\ Par(T, Lnk(T, m, b)) = m
            /\ IsPrefix(m, Lnk(T, m, b)) /\ m # Lnk(T, m, b) /\ Bit(Lnk(T, m, b), m) = b
        BY <2>1, <4>1 DEF Wired
      <4>3. Par(U, Lnk(T, m, b)) = Par(T, Lnk(T, m, b))
        BY <1>5, <4>2
      <4> QED BY ONLY <4>1, <4>2, <4>3
    <3> QED BY <3>1, <3>2
  <2>2. ASSUME NEW m \in D, Par(U, m) # Null
        PROVE  Par(U, m) \in D /\ \E b \in {0, 1} : Lnk(U, Par(U, m), b) = m
    <3>1. CASE m = c
      BY <1>3, <1>5, <2>2, <3>1
    <3>2. CASE m # c
      <4>1. m \in Dom(T) /\ Par(U, m) = Par(T, m)
        BY ONLY <1>5, <3>2, m \in D
      <4>2. PICK b \in {0, 1} : Par(T, m) \in Dom(T) /\ Lnk(T, Par(T, m), b) = m
        BY <2>2, <4>1 DEF Wired
      <4>3. ~(Par(T, m) = n /\ b = Bit(c, n))
        <5>1. m # Null
          BY <1>2, <4>1
        <5> QED BY <1>2, <4>2, <5>1 DEF Place
      <4>4. Lnk(U, Par(T, m), b) = m
        BY <1>5, <4>2, <4>3
      <4> QED BY <4>1, <4>2, <4>4
    <3> QED BY <3>1, <3>2
  <2>3. ASSUME NEW m \in D PROVE Par(U, m) = Null <=> U.top = m
    <3>1. T.top \in Dom(T) \cup {Null} /\ m \in Dom(T) => (Par(T, m) = Null <=> T.top = m)
      BY DEF Wired
    <3>2. CASE n = Null
      <4>1. T.top = Null /\ U.top = c
        BY <1>4, <3>2 DEF Place
      <4> QED BY <1>2, <1>5, <3>1, <3>2, <4>1
    <3>3. CASE n # Null
      BY <1>1, <1>2, <1>4, <1>5, <3>1, <3>3 DEF Wired
    <3> QED BY <3>2, <3>3
  <2>4. U.top \in D \cup {Null}
    BY <1>1, <1>4 DEF Wired
  <2> QED
    BY <1>4, <2>1, <2>2, <2>3, <2>4 DEF Wired
<1>7. \A m \in Dom(T) : \A b \in {0, 1} : Lnk(T, m, b) # Null => Lnk(U, m, b) # Null
  BY <1>2, <1>5
<1>8. Grown(T, U, c)
  BY <1>1, <1>4, <1>5, <1>6, <1>7 DEF Grown
<1>9. n # c
  BY <1>2
<1>10. /\ \A b \in {0, 1} : Lnk(U, c, b) = Null
       /\ n # Null => Lnk(U, n, Bit(c, n)) = c
       /\ \A m \in Dom(T) : \A b \in {0, 1} :
            ~(m = n /\ b = Bit(c, n)) => Lnk(U, m, b) = Lnk(T, m, b)
  BY ONLY <1>3, <1>5, <1>9, c \notin Dom(T), n \in Dom(T) \cup {Null}
<1> QED
  BY <1>8, <1>10 DEF U, V

(* A node put between n, or the top, and the node d below it *)
LEMMA Join ==
  ASSUME NEW T \in Tables, Wired(T), NEW n \in Dom(T) \cup {Null}, NEW d \in Dom(T),
         NEW c \in AllPrefixes, c \notin Dom(T),
         n # Null => IsPrefix(n, c) /\ n # c, Place(T, n, c) = d,
         IsPrefix(c, d), c # d
  PROVE  LET U == SetLink(SetLink(WithNode(T, c), c, d), n, c)
         IN /\ Grown(T, U, c)
            /\ \A b \in {0, 1} : Lnk(U, c, b) = IF b = Bit(d, c) THEN d ELSE Null
<1> DEFINE V == WithNode(T, c)
           W == SetLink(V, c, d)
           U == SetLink(W, n, c)
           D == Dom(T) \cup {c}
<1>1. /\ V \in Tables /\ Dom(V) = D
      /\ V.top = T.top /\ V.count = T.count + 1 /\ V.aborted = T.aborted
      /\ \A m \in D :
           /\ Par(V, m) = IF m = c THEN Null ELSE Par(T, m)
           /\ \A b \in {0, 1} : Lnk(V, m, b) = IF m = c THEN Null ELSE Lnk(T, m, b)
           /\ Lck(V, m) = IF m = c THEN 0 ELSE Lck(T, m)
           /\ Inf(V, m) = IF m = c THEN {} ELSE Inf(T, m)
  BY WithNodeFacts
<1>2. Dom(T) \subseteq AllPrefixes /\ Null \notin AllPrefixes
  BY TableType
<1>3. (n # Null => Bit(c, n) \in {0, 1}) /\ Bit(d, c) \in {0, 1}
  BY <1>2, NextBit
<1> HIDE DEF V
<1>4. /\ W \in Tables /\ Dom(W) = D
      /\ W.top = V.top /\ W.count = V.count /\ W.aborted = V.aborted
      /\ \A m \in D :
           /\ Par(W, m) = IF m = d THEN c ELSE Par(V, m)
           /\ \A b \in {0, 1} : Lnk(W, m, b) = IF m = c /\ b = Bit(d, c) THEN d ELSE Lnk(V, m, b)
           /\ Lck(W, m) = Lck(V, m) /\ Inf(W, m) = Inf(V, m)
  BY <1>1, <1>3, SetLinkFacts
<1> HIDE DEF W
<1>5. n # c /\ n # Null => n \in Dom(T)
  BY <1>2
<1>6. /\ U \in Tables /\ Dom(U) = D
      /\ U.top = (IF n = Null THEN c ELSE W.top)
      /\ U.count = W.count /\ U.aborted = W.aborted
      /\ \A m \in D :
           /\ Par(U, m) = IF m = c /\ n # Null THEN n ELSE Par(W, m)
           /\ \A b \in {0, 1} : Lnk(U, m, b) = IF m = n /\ b = Bit(c, n) THEN c ELSE Lnk(W, m, b)
           /\ Lck(U, m) = Lck(W, m) /\ Inf(U, m) = Inf(W, m)
  BY <1>3, <1>4, SetUnderFacts
<1> HIDE DEF U
<1>7. \A m \in D :
        /\ Par(U, m) = IF m = c THEN n ELSE IF m = d THEN c ELSE Par(T, m)
        /\ \A b \in {0, 1} : Lnk(U, m, b) = IF m = n /\ b = Bit(c, n) THEN c
                                            ELSE IF m = c THEN IF b = Bit(d, c) THEN d ELSE Null
                                            ELSE Lnk(T, m, b)
        /\ Lck(U, m) = IF m = c THEN 0 ELSE Lck(T, m)
        /\ Inf(U, m) = IF m = c THEN {} ELSE Inf(T, m)
  BY ONLY <1>1, <1>4, <1>6, c # d
<1>8. /\ n = Null => T.top = d /\ Par(T, d) = Null
      /\ n # Null => /\ Lnk(T, n, Bit(c, n)) = d /\ Par(T, d) = n /\ Bit(d, n) = Bit(c, n)
                     /\ T.top # d
  <2>1. d # Null
    BY <1>2
  <2> QED
    BY <1>3, <2>1 DEF Place, Wired
<1>9. Wired(U)
  <2>1. ASSUME NEW m \in D, NEW b \in {0, 1}, Lnk(U, m, b) # Null
        PROVE  /\ Lnk(U, m, b) \in D /\ Par(U, Lnk(U, m, b)) = m
               /\ IsPrefix(m, Lnk(U, m, b)) /\ m # Lnk(U, m, b) /\ Bit(Lnk(U, m, b), m) = b
    <3>1. CASE m = n /\ b = Bit(c, n)
      <4>1. Lnk(U, m, b) = c /\ Par(U, c) = n /\ n # Null
        BY ONLY <1>2, <1>7, <2>1, <3>1, c \in AllPrefixes
      <4> QED BY <3>1, <4>1
    <3>2. CASE m = c
      <4>1. Lnk(U, m, b) = d /\ b = Bit(d, c) /\ Par(U, d) = c
        BY ONLY <1>5, <1>7, <2>1, <3>2, c # d, d \in Dom(T), n # Null => n # c
      <4> QED BY <3>2, <4>1
    <3>3. CASE ~(m = n /\ b = Bit(c, n)) /\ m # c
      <4>1. m \in Dom(T) /\ Lnk(U, m, b) = Lnk(T, m, b)
        BY ONLY <1>7, <2>1, <3>3
      <4>2. /\ Lnk(T, m, b) \in Dom(T) /\ Par(T, Lnk(T, m, b)) = m
            /\ IsPrefix(m, Lnk(T, m, b)) /\ m # Lnk(T, m, b) /\ Bit(Lnk(T, m, b), m) = b
        BY <2>1, <4>1 DEF Wired
      <4>3. Lnk(T, m, b) # d
        BY <1>2, <1>8, <3>3, <4>1, <4>2
      <4>4. Par(U, Lnk(T, m, b)) = Par(T, Lnk(T, m, b))
        BY <1>7, <4>2, <4>3
      <4> QED BY ONLY <4>1, <4>2, <4>4
    <3> QED BY <3>1, <3>2, <3>3
  <2>2. ASSUME NEW m \in D, Par(U, m) # Null
        PROVE  Par(U, m) \in D /\ \E b \in {0, 1} : Lnk(U, Par(U, m), b) = m
    <3>1. CASE m = c
      BY <1>3, <1>7, <2>2, <3>1
    <3>2. CASE m = d
      <4>1. Par(U, m) = c
        BY <1>7, <3>2
      <4>2. Lnk(U, c, Bit(d, c)) = d
        BY ONLY <1>3, <1>7, <1>5, n # Null => n # c, c \in D, <1>2, c \in AllPrefixes
      <4> QED BY <1>3, <3>2, <4>1, <4>2
    <3>3. CASE m # c /\ m # d
      <4>1. m \in Dom(T) /\ Par(U, m) = Par(T, m)
        BY ONLY <1>7, <3>3, m \in D
      <4>2. PICK b \in {0, 1} : Par(T, m) \in Dom(T) /\ Lnk(T, Par(T, m), b) = m
        BY <2>2, <4>1 DEF Wired
      <4>3. ~(Par(T, m) = n /\ b = Bit(c, n))
        BY <1>2, <1>8, <3>3, <4>2
      <4>4. Lnk(U, Par(T, m), b) = m
        BY <1>7, <4>2, <4>3
      <4> QED BY <4>1, <4>2, <4>4
    <3> QED BY <3>1, <3>2, <3>3
  <2>3. ASSUME NEW m \in D PROVE Par(U, m) = Null <=> U.top = m
    <3>1. T.top \in Dom(T) \cup {Null} /\ (m \in Dom(T) => (Par(T, m) = Null <=> T.top = m))
      BY DEF Wired
    <3>2. CASE n = Null
      <4>1. T.top = d /\ U.top = c
        BY <1>6, <1>8, <3>2
      <4> QED BY <1>2, <1>7, <3>1, <3>2, <4>1
    <3>3. CASE n # Null
      <4>1. U.top = T.top /\ T.top # d
        BY <1>1, <1>4, <1>6, <1>8, <3>3
      <4> QED BY <1>2, <1>7, <3>1, <3>3, <4>1
    <3> QED BY <3>2, <3>3
  <2>4. U.top \in D \cup {Null}
    BY <1>1, <1>4, <1>6 DEF Wired
  <2> QED
    BY <1>6, <2>1, <2>2, <2>3, <2>4 DEF Wired
<1>10. \A m \in Dom(T) : \A b \in {0, 1} : Lnk(T, m, b) # Null => Lnk(U, m, b) # Null
  BY <1>2, <1>7
<1>11. Grown(T, U, c)
  BY <1>1, <1>4, <1>6, <1>7, <1>9, <1>10 DEF Grown
<1>12. \A b \in {0, 1} : Lnk(U, c, b) = IF b = Bit(d, c) THEN d ELSE Null
  BY <1>2, <1>7
<1> QED
  BY <1>11, <1>12 DEF U, V, W

(* Where bgp_node_get leaves its search *)
LEMMA InsertPlace ==
  ASSUME NEW T \in Tables, Wired(T), NEW p \in AllPrefixes, p \notin Dom(T)
  PROVE  LET match == IF Matching(T, p) = {} THEN Null ELSE Longest(Matching(T, p))
             d == Place(T, match, p)
             joint == Common(d, p)
         IN /\ match \in Dom(T) \cup {Null} /\ d \in Dom(T) \cup {Null}
            /\ match # Null => IsPrefix(match, p) /\ match # p
            /\ d # Null => /\ joint \in AllPrefixes /\ joint \notin Dom(T)
                           /\ IsPrefix(joint, d) /\ joint # d /\ IsPrefix(joint, p)
                           /\ match # Null => IsPrefix(match, joint) /\ match # joint
                           /\ Place(T, match, joint) = d
                           /\ joint # p => Bit(d, joint) # Bit(p, joint)
<1> DEFINE M == Matching(T, p)
           match == IF M = {} THEN Null ELSE Longest(M)
           d == Place(T, match, p)
           joint == Common(d, p)
<1>1. M = {n \in Dom(T) : IsPrefix(n, p)}
  BY MatchingIsAll
<1>2. Dom(T) \subseteq AllPrefixes /\ Null \notin AllPrefixes
  BY TableType
<1>3. /\ match \in Dom(T) \cup {Null}
      /\ match # Null => IsPrefix(match, p) /\ match # p
      /\ \A n \in Dom(T) : IsPrefix(n, p) => match # Null /\ Len(n) <= Len(match)
  <2>1. CASE M = {}
    BY <1>1, <2>1
  <2>2. CASE M # {}
    <3>1. M \in SUBSET AllPrefixes
      BY <1>1, <1>2
    <3>2. Longest(M) \in M /\ \A m \in M : Len(m) <= Len(Longest(M))
      BY <2>2, <3>1, LongestIsLongest
    <3>3. match = Longest(M)
      BY <2>2
    <3> HIDE DEF M, match
    <3> QED
      BY ONLY <1>1, <1>2, <3>2, <3>3, p \notin Dom(T), p \in AllPrefixes
  <2> QED BY <2>1, <2>2
<1> HIDE DEF match, M
<1>4. match # Null => Bit(p, match) \in {0, 1}
  BY <1>2, <1>3, NextBit
<1>5. /\ d \in Dom(T) \cup {Null}
      /\ d # Null /\ match # Null => IsPrefix(match, d) /\ match # d /\ Bit(d, match) = Bit(p, match)
  BY <1>3, <1>4 DEF Place, Wired
<1> HIDE DEF d
<1>6. ASSUME d # Null PROVE ~IsPrefix(d, p)
  <2>1. SUFFICES ASSUME IsPrefix(d, p) PROVE FALSE
    OBVIOUS
  <2>2. match # Null /\ Len(d) <= Len(match) /\ match \in Dom(T) /\ d \in Dom(T)
    BY <1>3, <1>5, <1>6, <2>1
  <2>3. Len(match) < Len(d) /\ Len(match) \in Nat /\ Len(d) \in Nat
    BY <1>2, <1>5, <1>6, <2>2, PrefixOrder
  <2> QED
    BY <2>2, <2>3
<1>7. ASSUME d # Null
      PROVE  /\ joint \in AllPrefixes /\ joint \notin Dom(T)
             /\ IsPrefix(joint, d) /\ joint # d /\ IsPrefix(joint, p)
             /\ match # Null => IsPrefix(match, joint) /\ match # joint
             /\ Place(T, match, joint) = d
             /\ joint # p => Bit(d, joint) # Bit(p, joint)
  <2>0. d \in Dom(T) /\ d \in AllPrefixes
    BY <1>2, <1>5, <1>7
  <2>1. /\ joint \in AllPrefixes /\ IsPrefix(joint, d) /\ IsPrefix(joint, p)
        /\ \A s \in AllPrefixes : IsPrefix(s, d) /\ IsPrefix(s, p) => Len(s) <= Len(joint)
    BY <2>0, CommonIsLongest
  <2> HIDE DEF joint
  <2>2. joint # d
    BY <1>6, <1>7, <2>1
  <2>3. ASSUME match # Null
        PROVE  IsPrefix(match, joint) /\ match # joint /\ Len(match) < Len(joint)
               /\ Bit(joint, match) = Bit(p, match)
    <3>1. match \in Dom(T) /\ match \in AllPrefixes /\ IsPrefix(match, p) /\ match # p
      BY <1>2, <1>3, <2>3
    <3>2. IsPrefix(match, d) /\ match # d /\ Bit(d, match) = Bit(p, match)
      BY <1>5, <1>7, <2>3
    <3>3. PICK s \in AllPrefixes : Len(s) = Len(match) + 1 /\ IsPrefix(s, d) /\ IsPrefix(s, p)
      BY <2>0, <3>1, <3>2, Lengthened
    <3>4. Len(s) <= Len(joint) /\ Len(match) \in Nat /\ Len(joint) \in Nat
      BY <2>1, <3>1, <3>3, PrefixOrder
    <3>5. Len(match) < Len(joint)
      BY <3>3, <3>4
    <3>6. IsPrefix(match, joint) /\ match # joint
      BY <2>1, <3>1, <3>4, <3>5, PrefixOrder
    <3> QED
      BY <2>1, <3>1, <3>5, <3>6, NextBit
  <2>4. joint \notin Dom(T)
    <3>1. SUFFICES ASSUME joint \in Dom(T) PROVE FALSE
      OBVIOUS
    <3>2. match # Null /\ Len(joint) <= Len(match)
      BY <1>3, <2>1, <3>1
    <3>3. Len(match) < Len(joint) /\ Len(match) \in Nat /\ Len(joint) \in Nat
      BY <1>2, <1>3, <2>1, <2>3, <3>2, PrefixOrder
    <3> QED
      BY <3>2, <3>3
  <2>5. Place(T, match, joint) = d
    BY <2>3 DEF Place, d
  <2>6. ASSUME joint # p, Bit(d, joint) = Bit(p, joint) PROVE FALSE
    <3>1. PICK s \in AllPrefixes : Len(s) = Len(joint) + 1 /\ IsPrefix(s, d) /\ IsPrefix(s, p)
      BY <2>0, <2>1, <2>2, <2>6, Lengthened
    <3>2. Len(s) <= Len(joint) /\ Len(joint) \in Nat
      BY <2>1, <3>1, PrefixOrder
    <3> QED
      BY <3>1, <3>2
  <2> QED
    BY <2>1, <2>2, <2>3, <2>4, <2>5, <2>6
<1> QED
  BY <1>3, <1>5, <1>7 DEF match, d, M

(* What bgp_node_get makes of the trie when p has no node yet *)
Extended(T, U, p) ==
  /\ U \in Tables /\ Wired(U) /\ IsFiniteSet(Dom(U)) /\ U.count = Cardinality(Dom(U))
  /\ U.aborted = T.aborted
  /\ Dom(T) \subseteq Dom(U) /\ p \in Dom(U)
  /\ \A m \in Dom(T) : /\ Lck(U, m) = Lck(T, m) /\ Inf(U, m) = Inf(T, m)
                       /\ \A b \in {0, 1} : Lnk(T, m, b) # Null => Lnk(U, m, b) # Null
  /\ \A m \in Dom(U) \ Dom(T) : /\ Lck(U, m) = 0 /\ Inf(U, m) = {}
                                /\ m # p => Lnk(U, m, 0) # Null /\ Lnk(U, m, 1) # Null

(* bgp_node_get without a node for p: p gets one, and perhaps a joint. *)
LEMMA InsertedFacts ==
  ASSUME NEW T \in Tables, Wired(T), IsFiniteSet(Dom(T)), T.count = Cardinality(Dom(T)),
         NEW p \in AllPrefixes, p \notin Dom(T)
  PROVE  Extended(T, Inserted(T, p), p)
<1> DEFINE match == IF Matching(T, p) = {} THEN Null ELSE Longest(Matching(T, p))
           d == Place(T, match, p)
           joint == Common(d, p)
           joined == SetLink(SetLink(WithNode(T, joint), joint, d), match, joint)
<1>1. /\ match \in Dom(T) \cup {Null} /\ d \in Dom(T) \cup {Null}
      /\ match # Null => IsPrefix(match, p) /\ match # p
      /\ d # Null => /\ joint \in AllPrefixes /\ joint \notin Dom(T)
                     /\ IsPrefix(joint, d) /\ joint # d /\ IsPrefix(joint, p)
                     /\ match # Null => IsPrefix(match, joint) /\ match # joint
                     /\ Place(T, match, joint) = d
                     /\ joint # p => Bit(d, joint) # Bit(p, joint)
  BY InsertPlace
<1>2. Inserted(T, p) = IF d = Null THEN SetLink(WithNode(T, p), match, p)
                       ELSE IF joint = p THEN joined
                       ELSE SetLink(WithNode(joined, p), joint, p)
  BY DEF Inserted, Place, Lnk
<1> HIDE DEF match, d, joint
<1>3. CASE d = Null
  <2> DEFINE U == SetLink(WithNode(T, p), match, p)
  <2>1. Grown(T, U, p)
    BY <1>1, <1>3, Hang DEF d
  <2>2. Inserted(T, p) = U
    BY <1>2, <1>3
  <2> HIDE DEF U
  <2>3. IsFiniteSet(Dom(U)) /\ U.count = Cardinality(Dom(U))
    BY <2>1, FS_AddElement DEF Grown
  <2> QED
    BY <2>1, <2>2, <2>3 DEF Grown, Extended
<1>4. CASE d # Null
  <2>1. /\ Grown(T, joined, joint)
        /\ \A b \in {0, 1} : Lnk(joined, joint, b) = IF b = Bit(d, joint) THEN d ELSE Null
    BY <1>1, <1>4, Join
  <2> DEFINE J == joined
  <2> HIDE DEF J
  <2>2. Grown(T, J, joint)
    BY <2>1 DEF J
  <2>3. IsFiniteSet(Dom(J)) /\ J.count = Cardinality(Dom(J))
    BY <1>1, <1>4, <2>2, FS_AddElement DEF Grown
  <2>4. CASE joint = p
    <3>1. Inserted(T, p) = J
      BY <1>2, <1>4, <2>4 DEF J
    <3> QED
      BY <2>2, <2>3, <2>4, <3>1 DEF Grown, Extended
  <2>5. CASE joint # p
    <3> DEFINE U == SetLink(WithNode(J, p), joint, p)
    <3>1. Inserted(T, p) = U
      BY <1>2, <1>4, <2>5 DEF J
    <3>2. /\ J \in Tables /\ Wired(J) /\ joint \in Dom(J) /\ p \notin Dom(J) /\ joint # Null
          /\ Dom(J) = Dom(T) \cup {joint}
      BY <1>1, <1>4, <2>2, <2>5, TableAssumption DEF Grown
    <3>3. Bit(p, joint) \in {0, 1} /\ Bit(d, joint) \in {0, 1}
      BY <1>1, <1>4, <2>5, NextBit, TableType
    <3>4. Place(J, joint, p) = Null
      BY <1>1, <1>4, <2>1, <2>5, <3>2, <3>3 DEF J, Place
    <3>5. /\ Grown(J, U, p) /\ Lnk(U, joint, Bit(p, joint)) = p
          /\ \A m \in Dom(J) : \A b \in {0, 1} :
               ~(m = joint /\ b = Bit(p, joint)) => Lnk(U, m, b) = Lnk(J, m, b)
      BY <1>1, <1>4, <2>5, <3>2, <3>4, Hang
    <3>6. Lnk(J, joint, Bit(d, joint)) = d
      BY <2>1, <3>3 DEF J
    <3> HIDE DEF U
    <3>7. Lnk(U, joint, 0) # Null /\ Lnk(U, joint, 1) # Null
      <4>1. Bit(d, joint) # Bit(p, joint)
        BY <1>1, <1>4, <2>5
      <4>2. Lnk(U, joint, Bit(d, joint)) = d
        BY <3>2, <3>3, <3>5, <3>6, <4>1
      <4>3. Lnk(U, joint, Bit(p, joint)) # Null /\ Lnk(U, joint, Bit(d, joint)) # Null
        BY <1>4, <3>5, <4>2, TableAssumption
      <4> QED BY ONLY <3>3, <4>1, <4>3
    <3>8. IsFiniteSet(Dom(U)) /\ U.count = Cardinality(Dom(U))
      BY <2>3, <3>2, <3>5, FS_AddElement DEF Grown
    <3>9. /\ U \in Tables /\ Wired(U) /\ U.aborted = T.aborted
          /\ Dom(U) = Dom(T) \cup {joint, p}
      BY <2>2, <3>5 DEF Grown
    <3>10. \A m \in Dom(T) : /\ Lck(U, m) = Lck(T, m) /\ Inf(U, m) = Inf(T, m)
                             /\ \A b \in {0, 1} : Lnk(T, m, b) # Null => Lnk(U, m, b) # Null
      BY <2>2, <3>5 DEF Grown
    <3>11. Lck(U, p) = 0 /\ Inf(U, p) = {} /\ Lck(U, joint) = 0 /\ Inf(U, joint) = {}
      BY <2>2, <3>2, <3>5 DEF Grown
    <3>12. Extended(T, U, p)
      BY ONLY <3>7, <3>8, <3>9, <3>10, <3>11 DEF Extended
    <3> QED
      BY <3>1, <3>12
  <2> QED BY <2>4, <2>5
<1> QED
  BY <1>3, <1>4

-----------------------------------------------------------------------------
(* References *)

(* No lock reaches its limit: every peer has a route at the node, every     *)
(* lookup has returned it, and the thread holds one reference more.         *)
NoWrap == Cardinality(Peers) + MaxLookups + 1 < Modulus

(* A sound trie. *)
Trie(T) ==
  /\ T \in Tables /\ Wired(T) /\ T.aborted = FALSE
  /\ IsFiniteSet(Dom(T)) /\ T.count = Cardinality(Dom(T))

(* h counts the references that are not those of routes. *)
Counts == [AllPrefixes -> Nat]

(* A lock counts the routes and those references, and a node that is        *)
(* referred to exists.                                                      *)
Counted(T, h) ==
  /\ \A n \in Dom(T) : Lck(T, n) = Cardinality(Inf(T, n)) + h[n]
  /\ \A n \in AllPrefixes : h[n] > 0 => n \in Dom(T)

(* Nothing is left behind: a node without references joins two branches. *)
Exact(T, h) ==
  /\ Trie(T) /\ Counted(T, h)
  /\ \A n \in Dom(T) : Lck(T, n) = 0 => TwoChildren(T, n)

(* What touches locks and routes only leaves the trie sound. *)
LEMMA FrameTrie ==
  ASSUME NEW T, NEW U, Trie(T), Frame(T, U)
  PROVE  Trie(U) /\ \A n \in Dom(T) : TwoChildren(U, n) <=> TwoChildren(T, n)
<1>1. Wired(U)
  <2>1. /\ \A m \in Dom(T) : Par(U, m) = Par(T, m) /\ \A b \in {0, 1} : Lnk(U, m, b) = Lnk(T, m, b)
        /\ Dom(U) = Dom(T) /\ U.top = T.top
    BY DEF Frame
  <2> QED
    BY <2>1 DEF Trie, Wired
<1> QED
  BY <1>1 DEF Trie, Frame, TwoChildren, Lnk

(* The number of routes at a node. *)
LEMMA RouteCount ==
  ASSUME NEW s \in SUBSET Peers
  PROVE  /\ IsFiniteSet(s) /\ Cardinality(s) \in Nat /\ Cardinality(s) <= Cardinality(Peers)
         /\ Cardinality(Peers) \in Nat
         /\ Cardinality(s) = 0 => s = {}
         /\ \A x \in Peers : x \notin s => /\ Cardinality(s \cup {x}) = Cardinality(s) + 1
                                           /\ Cardinality(s) + 1 <= Cardinality(Peers)
         /\ \A x \in s : Cardinality(s \ {x}) = Cardinality(s) - 1
<1>1. IsFiniteSet(Peers)
  BY TableAssumption
<1>2. IsFiniteSet(s) /\ Cardinality(s) <= Cardinality(Peers)
  BY <1>1, FS_Subset
<1>3. Cardinality(s) \in Nat /\ Cardinality(Peers) \in Nat
  BY <1>1, <1>2, FS_CardinalityType
<1>4. Cardinality(s) = 0 => s = {}
  BY <1>2, FS_EmptySet
<1>5. ASSUME NEW x \in Peers, x \notin s
      PROVE  Cardinality(s \cup {x}) = Cardinality(s) + 1 /\ Cardinality(s) + 1 <= Cardinality(Peers)
  <2>1. Cardinality(s \cup {x}) = Cardinality(s) + 1
    BY <1>2, <1>5, FS_AddElement
  <2>2. s \cup {x} \in SUBSET Peers
    BY <1>5
  <2>3. Cardinality(s \cup {x}) <= Cardinality(Peers)
    BY <1>1, <2>2, FS_Subset
  <2> QED BY <2>1, <2>3
<1>6. \A x \in s : Cardinality(s \ {x}) = Cardinality(s) - 1
  BY <1>2, FS_RemoveElement
<1> QED
  BY <1>2, <1>3, <1>4, <1>5, <1>6

(* bgp_lock_node takes a reference. *)
LEMMA ExactLock ==
  ASSUME NoWrap, NEW T, NEW h \in Counts, Exact(T, h), NEW n \in Dom(T), h[n] <= MaxLookups
  PROVE  /\ Exact(Lock(T, n), [h EXCEPT ![n] = @ + 1]) /\ Frame(T, Lock(T, n))
         /\ \A m \in Dom(T) : Inf(Lock(T, n), m) = Inf(T, m)
<1>1. T \in Tables /\ Trie(T)
  BY DEF Exact, Trie
<1>2. /\ Dom(T) \subseteq AllPrefixes /\ Inf(T, n) \in SUBSET Peers /\ h[n] \in Nat
      /\ MaxLookups \in Nat /\ Lck(T, n) = Cardinality(Inf(T, n)) + h[n]
  BY <1>1, TableType, TableAssumption DEF Exact, Counted, Counts
<1>3. Lck(T, n) + 1 < Modulus /\ Lck(T, n) \in Nat
  BY <1>2, RouteCount, ModulusAssumption DEF NoWrap
<1> DEFINE U == Lock(T, n)
           g == [h EXCEPT ![n] = @ + 1]
<1>4. /\ Frame(T, U)
      /\ \A m \in Dom(T) : /\ Inf(U, m) = Inf(T, m)
                           /\ Lck(U, m) = IF m = n THEN Lck(T, n) + 1 ELSE Lck(T, m)
  BY <1>1, <1>3, LockFacts
<1> HIDE DEF U
<1>5. Trie(U) /\ Dom(U) = Dom(T) /\ \A m \in Dom(T) : TwoChildren(U, m) <=> TwoChildren(T, m)
  BY <1>1, <1>4, FrameTrie DEF Frame
<1>6. \A m \in AllPrefixes : g[m] = IF m = n THEN h[n] + 1 ELSE h[m]
  BY <1>2 DEF Counts
<1> HIDE DEF g
<1>7. \A m \in Dom(U) : Lck(U, m) = Cardinality(Inf(U, m)) + g[m]
  <2>1. SUFFICES ASSUME NEW m \in Dom(T) PROVE Lck(U, m) = Cardinality(Inf(T, m)) + g[m]
    BY <1>4, <1>5
  <2>2. Lck(T, m) = Cardinality(Inf(T, m)) + h[m]
    BY DEF Exact, Counted
  <2>3. Inf(T, m) \in SUBSET Peers
    BY <1>1, TableType
  <2>4. Cardinality(Inf(T, m)) \in Nat
    BY <2>3, RouteCount
  <2> QED
    BY <1>2, <1>4, <1>6, <2>2, <2>4
<1>8. Counted(U, g)
  BY <1>2, <1>5, <1>6, <1>7 DEF Counted, Exact
<1>9. \A m \in Dom(U) : Lck(U, m) = 0 => TwoChildren(U, m)
  BY <1>3, <1>4, <1>5 DEF Exact
<1>10. Exact(U, g)
  BY <1>5, <1>8, <1>9 DEF Exact
<1> QED
  BY <1>4, <1>10 DEF U, g

(* bgp_node_get: p has a node, with a reference more. *)
LEMMA ExactGet ==
  ASSUME NoWrap, NEW T, NEW h \in Counts, Exact(T, h), NEW p \in AllPrefixes, h[p] <= MaxLookups
  PROVE  LET U == Get(T, p)
         IN /\ Exact(U, [h EXCEPT ![p] = @ + 1]) /\ Dom(T) \cup {p} \subseteq Dom(U)
            /\ \A m \in Dom(T) : Inf(U, m) = Inf(T, m)
            /\ \A m \in Dom(U) \ Dom(T) : Inf(U, m) = {}
<1>1. T \in Tables /\ Wired(T) /\ Trie(T)
  BY DEF Exact, Trie
<1>2. p \in Matching(T, p) <=> p \in Dom(T)
  BY <1>1, MatchingIsAll, PrefixOrder
<1>3. CASE p \in Dom(T)
  BY <1>2, <1>3, ExactLock DEF Get, Frame
<1>4. CASE p \notin Dom(T)
  <2> DEFINE V == Inserted(T, p)
             U == Lock(V, p)
             g == [h EXCEPT ![p] = @ + 1]
  <2>1. Get(T, p) = U
    BY <1>2, <1>4 DEF Get
  <2>2. Extended(T, V, p)
    BY <1>1, <1>4, InsertedFacts DEF Trie
  <2> HIDE DEF V
  <2>3. V \in Tables /\ p \in Dom(V) /\ Lck(V, p) = 0 /\ Trie(V) /\ Dom(V) \subseteq AllPrefixes
    BY <1>1, <1>4, <2>2, TableType DEF Extended, Trie
  <2>4. Cardinality(Peers) \in Nat /\ MaxLookups \in Nat
    BY TableAssumption, FS_CardinalityType
  <2>5. Lck(V, p) + 1 < Modulus
    BY <2>3, <2>4, ModulusAssumption DEF NoWrap
  <2>6. /\ Frame(V, U)
        /\ \A m \in Dom(V) : /\ Inf(U, m) = Inf(V, m)
                             /\ Lck(U, m) = IF m = p THEN 1 ELSE Lck(V, m)
    BY <2>3, <2>5, LockFacts
  <2> HIDE DEF U
  <2>7. Trie(U) /\ Dom(U) = Dom(V) /\ \A m \in Dom(V) : TwoChildren(U, m) <=> TwoChildren(V, m)
    BY <2>3, <2>6, FrameTrie DEF Frame
  <2>8. h[p] = 0 /\ \A m \in AllPrefixes : h[m] \in Nat
    BY <1>4 DEF Exact, Counted, Counts
  <2>9. \A m \in AllPrefixes : g[m] = IF m = p THEN 1 ELSE h[m]
    BY <2>8 DEF Counts
  <2> HIDE DEF g
  <2>10. \A m \in Dom(V) \ Dom(T) : h[m] = 0
    BY <2>3, <2>8 DEF Exact, Counted
  <2>11. ASSUME NEW m \in Dom(V)
         PROVE  /\ Lck(U, m) = Cardinality(Inf(U, m)) + g[m]
                /\ Lck(U, m) = 0 => TwoChildren(U, m)
    <3>1. CASE m \in Dom(T)
      <4>1. /\ Lck(T, m) = Cardinality(Inf(T, m)) + h[m] /\ (Lck(T, m) = 0 => TwoChildren(T, m))
            /\ m # p
        BY <1>4, <3>1 DEF Exact, Counted
      <4>2. Lck(U, m) = Lck(T, m) /\ Inf(U, m) = Inf(T, m)
        BY <2>2, <2>6, <3>1, <4>1 DEF Extended
      <4>3. TwoChildren(T, m) => TwoChildren(U, m)
        BY <2>2, <2>7, <3>1 DEF Extended, TwoChildren, Lnk
      <4> QED
        BY <2>3, <2>9, <4>1, <4>2, <4>3
    <3>2. CASE m \notin Dom(T)
      <4>1. Inf(U, m) = {} /\ Lck(V, m) = 0
        BY <2>2, <2>6, <3>2 DEF Extended
      <4>2. Cardinality(Inf(U, m)) = 0
        BY <4>1, FS_EmptySet
      <4>3. m # p => TwoChildren(U, m)
        BY <2>2, <2>7, <3>2 DEF Extended, TwoChildren, Lnk
      <4> QED
        BY <2>3, <2>6, <2>9, <2>10, <3>2, <4>1, <4>2, <4>3
    <3> QED BY <3>1, <3>2
  <2>12. \A m \in AllPrefixes : g[m] > 0 => m \in Dom(U)
    BY <2>2, <2>3, <2>7, <2>9 DEF Exact, Counted, Extended
  <2>13. Exact(U, g)
    BY <2>7, <2>11, <2>12 DEF Exact, Counted
  <2>14. /\ Dom(T) \cup {p} \subseteq Dom(U)
         /\ \A m \in Dom(T) : Inf(U, m) = Inf(T, m)
         /\ \A m \in Dom(U) \ Dom(T) : Inf(U, m) = {}
    BY <2>2, <2>6, <2>7 DEF Extended
  <2> QED
    BY <2>1, <2>13, <2>14 DEF g
<1> QED
  BY <1>3, <1>4

(* A first route of the peer at the node, and its reference *)
LEMMA ExactInfoAdd ==
  ASSUME NoWrap, NEW T, NEW h \in Counts, Exact(T, h), NEW n \in Dom(T),
         NEW peer \in Peers, peer \notin Inf(T, n), h[n] <= MaxLookups + 1
  PROVE  LET U == InfoAdd(T, n, peer)
         IN /\ Exact(U, h) /\ Dom(U) = Dom(T)
            /\ \A m \in Dom(T) : Inf(U, m) = IF m = n THEN Inf(T, n) \cup {peer} ELSE Inf(T, m)
<1> DEFINE s == Inf(T, n) \cup {peer}
           V == [T EXCEPT !.node[n].info = s]
           U == Lock(V, n)
<1>1. T \in Tables /\ Trie(T)
  BY DEF Exact, Trie
<1>2. /\ Dom(T) \subseteq AllPrefixes /\ \A m \in Dom(T) : Inf(T, m) \in SUBSET Peers
      /\ h[n] \in Nat /\ MaxLookups \in Nat /\ Lck(T, n) = Cardinality(Inf(T, n)) + h[n]
  BY <1>1, TableType, TableAssumption DEF Exact, Counted, Counts
<1>3. InfoAdd(T, n, peer) = U
  BY DEF InfoAdd, Inf
<1>4. s \in SUBSET Peers
  BY <1>2
<1>5. /\ Cardinality(s) = Cardinality(Inf(T, n)) + 1 /\ Cardinality(Inf(T, n)) \in Nat
      /\ Cardinality(Inf(T, n)) + 1 <= Cardinality(Peers) /\ Cardinality(Peers) \in Nat
  BY <1>2, RouteCount
<1> HIDE DEF s
<1>6. /\ Frame(T, V)
      /\ \A m \in Dom(T) : /\ Inf(V, m) = IF m = n THEN s ELSE Inf(T, m)
                           /\ Lck(V, m) = Lck(T, m)
  BY <1>1, <1>4, InfoFacts
<1> HIDE DEF V
<1>7. V \in Tables /\ Dom(V) = Dom(T) /\ Trie(V)
  BY <1>1, <1>6, FrameTrie DEF Frame
<1>8. Lck(V, n) + 1 < Modulus
  <2>1. Lck(V, n) = Cardinality(Inf(T, n)) + h[n]
    BY <1>2, <1>6
  <2> QED
    BY <1>2, <1>5, <2>1, ModulusAssumption DEF NoWrap
<1>9. /\ Frame(V, U)
      /\ \A m \in Dom(T) : /\ Inf(U, m) = Inf(V, m)
                           /\ Lck(U, m) = IF m = n THEN Lck(V, n) + 1 ELSE Lck(V, m)
  BY <1>7, <1>8, LockFacts
<1> HIDE DEF U
<1>10. /\ Trie(U) /\ Dom(U) = Dom(T)
       /\ \A m \in Dom(T) : TwoChildren(U, m) <=> TwoChildren(T, m)
  BY <1>1, <1>6, <1>7, <1>9, FrameTrie DEF Frame
<1>11. \A m \in Dom(T) : /\ Inf(U, m) = IF m = n THEN s ELSE Inf(T, m)
                         /\ Lck(U, m) = IF m = n THEN Lck(T, n) + 1 ELSE Lck(T, m)
  BY <1>6, <1>9
<1>12. \A m \in Dom(T) : /\ Lck(U, m) = Cardinality(Inf(U, m)) + h[m]
                         /\ Lck(U, m) = 0 => TwoChildren(U, m)
  <2>1. SUFFICES ASSUME NEW m \in Dom(T)
                 PROVE  /\ Lck(U, m) = Cardinality(Inf(U, m)) + h[m]
                        /\ Lck(U, m) = 0 => TwoChildren(U, m)
    OBVIOUS
  <2>2. CASE m = n
    BY <1>2, <1>5, <1>11, <2>2
  <2>3. CASE m # n
    BY <1>10, <1>11, <2>3 DEF Exact, Counted
  <2> QED BY <2>2, <2>3
<1>13. Exact(U, h)
  BY <1>10, <1>12 DEF Exact, Counted
<1> QED
  BY <1>3, <1>10, <1>11, <1>13 DEF s

(* A route taken away from a node that someone else holds: it stays. *)
LEMMA ExactInfoDelete ==
  ASSUME NEW T, NEW h \in Counts, Exact(T, h), NEW n \in Dom(T),
         NEW peer \in Inf(T, n), 0 < h[n]
  PROVE  LET U == InfoDelete(T, n, peer)
         IN /\ Exact(U, h) /\ Frame(T, U)
            /\ \A m \in Dom(T) : Inf(U, m) = IF m = n THEN Inf(T, n) \ {peer} ELSE Inf(T, m)
<1> DEFINE s == Inf(T, n) \ {peer}
           V == [T EXCEPT !.node[n].info = s]
           U == Down(V, n)
<1>1. T \in Tables /\ Trie(T)
  BY DEF Exact, Trie
<1>2. /\ Dom(T) \subseteq AllPrefixes /\ \A m \in Dom(T) : Inf(T, m) \in SUBSET Peers
      /\ h[n] \in Nat /\ Lck(T, n) = Cardinality(Inf(T, n)) + h[n]
  BY <1>1, TableType DEF Exact, Counted, Counts
<1>3. InfoDelete(T, n, peer) = Unlock(V, n)
  BY DEF InfoDelete, Inf
<1>4. s \in SUBSET Peers
  BY <1>2
<1>5. /\ Cardinality(s) = Cardinality(Inf(T, n)) - 1 /\ Cardinality(Inf(T, n)) \in Nat
      /\ Cardinality(s) \in Nat
  BY <1>2, <1>4, RouteCount
<1> HIDE DEF s
<1>6. /\ Frame(T, V)
      /\ \A m \in Dom(T) : /\ Inf(V, m) = IF m = n THEN s ELSE Inf(T, m)
                           /\ Lck(V, m) = Lck(T, m)
  BY <1>1, <1>4, InfoFacts
<1> HIDE DEF V
<1>7. V \in Tables /\ Dom(V) = Dom(T) /\ Trie(V)
  BY <1>1, <1>6, FrameTrie DEF Frame
<1>8. Lck(V, n) = Cardinality(Inf(T, n)) + h[n] /\ 1 < Lck(V, n) /\ 0 < Lck(V, n) /\ Lck(V, n) # 1
  <2>1. Lck(V, n) = Cardinality(Inf(T, n)) + h[n]
    BY <1>2, <1>6
  <2>2. 1 < Cardinality(Inf(T, n)) + h[n]
    BY <1>2, <1>5
  <2> HIDE DEF Exact
  <2>3. Lck(V, n) \in Nat
    BY <1>2, <1>5, <2>1
  <2> QED
    BY ONLY <2>1, <2>2, <2>3
<1>9. /\ Frame(V, U)
      /\ \A m \in Dom(V) : /\ Inf(U, m) = Inf(V, m)
                           /\ Lck(U, m) = IF m = n THEN Lck(V, n) - 1 ELSE Lck(V, m)
      /\ Unlock(V, n) = U
  BY <1>7, <1>8, DownFacts
<1> HIDE DEF U
<1>10. /\ Trie(U) /\ Dom(U) = Dom(T) /\ Frame(T, U)
       /\ \A m \in Dom(T) : TwoChildren(U, m) <=> TwoChildren(T, m)
  BY <1>1, <1>6, <1>7, <1>9, FrameTrie DEF Frame
<1>11. \A m \in Dom(T) : /\ Inf(U, m) = IF m = n THEN s ELSE Inf(T, m)
                         /\ Lck(U, m) = IF m = n THEN Lck(T, n) - 1 ELSE Lck(T, m)
  BY <1>6, <1>7, <1>9
<1>12. \A m \in Dom(T) : /\ Lck(U, m) = Cardinality(Inf(U, m)) + h[m]
                         /\ Lck(U, m) = 0 => TwoChildren(U, m)
  <2>1. SUFFICES ASSUME NEW m \in Dom(T)
                 PROVE  /\ Lck(U, m) = Cardinality(Inf(U, m)) + h[m]
                        /\ Lck(U, m) = 0 => TwoChildren(U, m)
    OBVIOUS
  <2>2. CASE m = n
    BY <1>2, <1>5, <1>11, <2>2
  <2>3. CASE m # n
    BY <1>10, <1>11, <2>3 DEF Exact, Counted
  <2> QED BY <2>2, <2>3
<1>13. Exact(U, h)
  BY <1>10, <1>12 DEF Exact, Counted
<1> QED
  BY <1>3, <1>9, <1>10, <1>11, <1>13 DEF s

-----------------------------------------------------------------------------
(* The deletion of a node by its last unlock *)

(* Taking out a node that has a child at most leaves a trie. *)
LEMMA UnlinkedTrie ==
  ASSUME NEW T, Trie(T), NEW n \in Dom(T), ~TwoChildren(T, n)
  PROVE  LET U == Unlinked(T, n)
         IN /\ Trie(U) /\ Dom(U) = Dom(T) \ {n}
            /\ Par(T, n) # Null => Par(T, n) \in Dom(U) /\ Len(Par(T, n)) < Len(n)
            /\ \A m \in Dom(U) : /\ Lck(U, m) = Lck(T, m) /\ Inf(U, m) = Inf(T, m)
                                 /\ m # Par(T, n) /\ TwoChildren(T, m) => TwoChildren(U, m)
<1> DEFINE U == Unlinked(T, n)
           child == Child(T, n)
           parent == Par(T, n)
           D == Dom(T) \ {n}
           side(m) == IF Lnk(T, m, 0) = n THEN 0 ELSE 1
<1>0. T \in Tables /\ Wired(T)
  BY DEF Trie
<1>1. /\ U \in Tables /\ Dom(U) = D
      /\ U.top = (IF parent = Null THEN child ELSE T.top)
      /\ U.count = T.count - 1 /\ U.aborted = T.aborted
      /\ \A m \in D :
           /\ Par(U, m) = IF m = child THEN parent ELSE Par(T, m)
           /\ \A b \in {0, 1} : Lnk(U, m, b) = IF m = parent /\ b = side(m) THEN child ELSE Lnk(T, m, b)
           /\ Lck(U, m) = Lck(T, m) /\ Inf(U, m) = Inf(T, m)
  BY <1>0, UnlinkedFacts
<1>2. Dom(T) \subseteq AllPrefixes /\ Null \notin AllPrefixes
  BY <1>0, TableType
<1>3. /\ child # Null => /\ child \in Dom(T) /\ Par(T, child) = n /\ child # n
                         /\ IsPrefix(n, child)
      /\ \A b \in {0, 1} : Lnk(T, n, b) # Null => Lnk(T, n, b) = child
  BY <1>0 DEF Child, TwoChildren, Lnk, Wired
<1>4. parent # Null => /\ parent \in Dom(T) /\ parent # n /\ IsPrefix(parent, n)
                       /\ Lnk(T, parent, side(parent)) = n /\ Bit(n, parent) = side(parent)
                       /\ T.top # n
  <2>1. SUFFICES ASSUME parent # Null
                 PROVE  /\ parent \in Dom(T) /\ parent # n /\ IsPrefix(parent, n)
                        /\ Lnk(T, parent, side(parent)) = n /\ Bit(n, parent) = side(parent)
                        /\ T.top # n
    OBVIOUS
  <2>2. parent \in Dom(T) /\ IsPrefix(parent, n) /\ parent # n /\ Lnk(T, parent, Bit(n, parent)) = n
    BY <1>0, <2>1, ParentLink
  <2>3. Bit(n, parent) \in {0, 1}
    BY <1>2, <2>2, NextBit
  <2>4. n # Null /\ T.top # n
    BY <1>0, <1>2, <2>1 DEF Wired
  <2>5. Lnk(T, parent, 0) = n => Bit(n, parent) = 0
    BY <1>0, <2>2, <2>4 DEF Wired
  <2> QED
    BY <2>2, <2>3, <2>4, <2>5
<1>5. parent = Null => T.top = n
  BY <1>0 DEF Wired
<1>6. \A m \in D : side(m) \in {0, 1}
  OBVIOUS
<1> HIDE DEF U, child, parent, side
<1>7. Wired(U)
  <2>1. ASSUME NEW m \in D, NEW b \in {0, 1}, Lnk(U, m, b) # Null
        PROVE  /\ Lnk(U, m, b) \in D /\ Par(U, Lnk(U, m, b)) = m
               /\ IsPrefix(m, Lnk(U, m, b)) /\ m # Lnk(U, m, b) /\ Bit(Lnk(U, m, b), m) = b
    <3>1. CASE m = parent /\ b = side(m)
      <4>1. Lnk(U, m, b) = child /\ child # Null /\ parent # Null
        BY <1>1, <1>2, <2>1, <3>1
      <4>2. child \in D /\ Par(U, child) = parent
        BY <1>1, <1>3, <4>1
      <4>3. /\ m \in AllPrefixes /\ n \in AllPrefixes /\ child \in AllPrefixes
            /\ IsPrefix(m, n) /\ m # n /\ IsPrefix(n, child)
        BY <1>2, <1>3, <1>4, <3>1, <4>1
      <4>4. IsPrefix(m, child) /\ Bit(child, m) = Bit(n, m)
        BY <4>3, PrefixOrder, NextBit
      <4>5. m # child
        <5>1. Len(m) < Len(n) /\ Len(n) <= Len(child) /\ Len(m) \in Nat /\ Len(n) \in Nat
              /\ Len(child) \in Nat
          BY <4>3, PrefixOrder
        <5> QED BY <5>1
      <4> QED BY <1>4, <3>1, <4>1, <4>2, <4>4, <4>5
    <3>2. CASE ~(m = parent /\ b = side(m))
      <4>1. Lnk(U, m, b) = Lnk(T, m, b)
        BY <1>1, <3>2
      <4>2. /\ Lnk(T, m, b) \in Dom(T) /\ Par(T, Lnk(T, m, b)) = m
            /\ IsPrefix(m, Lnk(T, m, b)) /\ m # Lnk(T, m, b) /\ Bit(Lnk(T, m, b), m) = b
        BY <1>0, <2>1, <4>1 DEF Wired
      <4>3. Lnk(T, m, b) # n
        <5>1. SUFFICES ASSUME Lnk(T, m, b) = n PROVE FALSE
          OBVIOUS
        <5>2. m = parent /\ Bit(n, m) = b /\ parent # Null
          BY <1>2, <4>2, <5>1 DEF parent
        <5> QED BY <1>4, <3>2, <5>2
      <4>4. Lnk(T, m, b) # child
        BY <1>2, <1>3, <4>2
      <4>5. Par(U, Lnk(T, m, b)) = Par(T, Lnk(T, m, b))
        BY <1>1, <4>2, <4>3, <4>4
      <4> QED BY ONLY <4>1, <4>2, <4>3, <4>5
    <3> QED BY <3>1, <3>2
  <2>2. ASSUME NEW m \in D, Par(U, m) # Null
        PROVE  Par(U, m) \in D /\ \E b \in {0, 1} : Lnk(U, Par(U, m), b) = m
    <3>1. CASE m = child
      <4>1. Par(U, m) = parent /\ parent # Null
        BY <1>1, <2>2, <3>1
      <4>2. parent \in D /\ side(parent) \in {0, 1}
        BY <1>4, <1>6, <4>1
      <4>3. Lnk(U, parent, side(parent)) = child
        BY <1>1, <4>2
      <4> QED BY <3>1, <4>1, <4>2, <4>3
    <3>2. CASE m # child
      <4>1. Par(U, m) = Par(T, m)
        BY <1>1, <3>2
      <4>2. PICK b \in {0, 1} : Par(T, m) \in Dom(T) /\ Lnk(T, Par(T, m), b) = m
        BY <1>0, <2>2, <4>1 DEF Wired
      <4>3. m # Null
        BY <1>2
      <4>4. Par(T, m) # n
        BY <1>3, <3>2, <4>2, <4>3
      <4>5. ~(Par(T, m) = parent /\ b = side(Par(T, m)))
        BY <1>2, <1>4, <4>2
      <4>6. Lnk(U, Par(T, m), b) = m
        BY <1>1, <4>2, <4>4, <4>5
      <4> QED BY <4>1, <4>2, <4>4, <4>6
    <3> QED BY <3>1, <3>2
  <2>3. ASSUME NEW m \in D PROVE Par(U, m) = Null <=> U.top = m
    <3>1. Par(T, m) = Null <=> T.top = m
      BY <1>0 DEF Wired
    <3>2. m = child => Par(T, m) # Null
      BY <1>2, <1>3
    <3> QED BY <1>1, <1>2, <1>4, <1>5, <3>1, <3>2
  <2>4. U.top \in D \cup {Null}
    BY <1>0, <1>1, <1>3, <1>4 DEF Wired
  <2> QED
    BY <1>1, <2>1, <2>2, <2>3, <2>4 DEF Wired
<1>8. IsFiniteSet(D) /\ Cardinality(D) = Cardinality(Dom(T)) - 1
  BY FS_RemoveElement DEF Trie
<1>9. Trie(U)
  BY <1>1, <1>7, <1>8 DEF Trie
<1>10. parent # Null => parent \in D /\ Len(parent) < Len(n)
  BY <1>2, <1>4, PrefixOrder
<1>11. \A m \in D : /\ Lck(U, m) = Lck(T, m) /\ Inf(U, m) = Inf(T, m)
                    /\ m # parent /\ TwoChildren(T, m) => TwoChildren(U, m)
  BY <1>1 DEF TwoChildren, Lnk
<1> QED
  BY <1>1, <1>9, <1>10, <1>11 DEF U, parent

(* What is left of T after deletions: nodes without routes have gone. *)
Shrunk(T, U) ==
  /\ Dom(U) \subseteq Dom(T)
  /\ \A m \in Dom(U) : Inf(U, m) = Inf(T, m)
  /\ \A m \in Dom(T) \ Dom(U) : Inf(T, m) = {}

(* A deletion under way: the node it has come to has no references, and it  *)
(* is the only such node that may have less than two children.              *)
Deleting(d, h) ==
  /\ d \in [table : Tables, at : AllPrefixes \cup {Null}]
  /\ Trie(d.table) /\ Counted(d.table, h)
  /\ d.at # Null => d.at \in Dom(d.table) /\ Lck(d.table, d.at) = 0
  /\ \A n \in Dom(d.table) : Lck(d.table, n) = 0 => TwoChildren(d.table, n) \/ n = d.at

(* One level of bgp_node_delete keeps it and goes up. *)
LEMMA DeletingStep ==
  ASSUME NEW h \in Counts, NEW d, Deleting(d, h), d.at # Null
  PROVE  LET e == DeleteStep(d)
         IN /\ Deleting(e, h) /\ Shrunk(d.table, e.table)
            /\ e.at # Null => Len(e.at) < Len(d.at)
<1> DEFINE T == d.table
           n == d.at
           e == DeleteStep(d)
           parent == Par(T, n)
<1>1. T \in Tables /\ Trie(T) /\ n \in Dom(T) /\ n \in AllPrefixes /\ Lck(T, n) = 0
  BY TableType DEF Deleting, Trie
<1>2. Inf(T, n) = {} /\ h[n] = 0
  <2>1. Inf(T, n) \in SUBSET Peers /\ h[n] \in Nat
    BY <1>1, TableType DEF Counts
  <2>2. 0 = Cardinality(Inf(T, n)) + h[n]
    BY <1>1 DEF Deleting, Counted
  <2>3. Cardinality(Inf(T, n)) \in Nat
    BY <2>1, RouteCount
  <2>4. Cardinality(Inf(T, n)) = 0 /\ h[n] = 0
    BY ONLY <2>1, <2>2, <2>3
  <2> QED
    BY <2>1, <2>4, RouteCount
<1>3. [T EXCEPT !.aborted = @ \/ T.node[n].info # {}] = T
  <2>1. T.aborted = FALSE /\ T.node[n].info = {}
    BY <1>1, <1>2 DEF Trie, Inf
  <2>2. (T.aborted \/ T.node[n].info # {}) = T.aborted
    BY <2>1
  <2> HIDE DEF T
  <2>3. [T EXCEPT !.aborted = T.aborted] = T
    BY ONLY <1>1 DEF Tables
  <2> QED
    BY <2>2, <2>3
<1>4. e = IF TwoChildren(T, n) THEN [table |-> T, at |-> Null]
          ELSE [table |-> Unlinked(T, n),
                at |-> IF parent # Null /\ Lck(T, parent) = 0 THEN parent ELSE Null]
  BY <1>3 DEF DeleteStep, Par, Lck
<1>5. /\ Counted(T, h)
      /\ \A m \in Dom(T) : Lck(T, m) = 0 => TwoChildren(T, m) \/ m = n
  BY DEF Deleting
<1> HIDE DEF T, n, e, parent
<1>6. CASE TwoChildren(T, n)
  <2>1. e = [table |-> T, at |-> Null]
    BY <1>4, <1>6
  <2>2. Deleting(e, h)
    BY <1>1, <1>5, <1>6, <2>1 DEF Deleting
  <2> QED
    BY <2>1, <2>2 DEF T, n, e, Shrunk
<1>7. CASE ~TwoChildren(T, n)
  <2> DEFINE U == Unlinked(T, n)
             a == IF parent # Null /\ Lck(T, parent) = 0 THEN parent ELSE Null
  <2>1. e = [table |-> U, at |-> a]
    BY <1>4, <1>7
  <2>2. /\ Trie(U) /\ Dom(U) = Dom(T) \ {n}
        /\ parent # Null => parent \in Dom(U) /\ Len(parent) < Len(n)
        /\ \A m \in Dom(U) : /\ Lck(U, m) = Lck(T, m) /\ Inf(U, m) = Inf(T, m)
                             /\ m # parent /\ TwoChildren(T, m) => TwoChildren(U, m)
    BY <1>1, <1>7, UnlinkedTrie DEF parent
  <2> HIDE DEF U
  <2>3. Counted(U, h)
    BY <1>2, <1>5, <2>2 DEF Counted
  <2>4. /\ a # Null => a \in Dom(U) /\ Lck(U, a) = 0 /\ Len(a) < Len(n)
        /\ a \in AllPrefixes \cup {Null}
    BY <1>1, <2>2, TableType
  <2>5. \A m \in Dom(U) : Lck(U, m) = 0 => TwoChildren(U, m) \/ m = a
    <3>1. SUFFICES ASSUME NEW m \in Dom(U), Lck(U, m) = 0, m # a PROVE TwoChildren(U, m)
      OBVIOUS
    <3>2. m \in Dom(T) /\ m # n /\ Lck(T, m) = 0
      BY <2>2, <3>1
    <3>3. m # parent
      BY <1>1, <3>1, <3>2, TableType
    <3> QED
      BY <1>5, <2>2, <3>1, <3>2, <3>3
  <2> HIDE DEF a
  <2>6. e \in [table : Tables, at : AllPrefixes \cup {Null}] /\ e.table = U /\ e.at = a
    BY <2>1, <2>2, <2>4 DEF Trie
  <2>7. Deleting(e, h)
    BY ONLY <2>2, <2>3, <2>4, <2>5, <2>6 DEF Deleting
  <2>8. Shrunk(T, U)
    BY <1>2, <2>2 DEF Shrunk
  <2>9. Deleting(e, h) /\ Shrunk(T, e.table) /\ (e.at # Null => Len(e.at) < Len(n))
    BY ONLY <2>4, <2>6, <2>7, <2>8
  <2> QED
    BY ONLY <2>9 DEF T, n, e
<1> QED
  BY <1>6, <1>7

(* The levels of a bgp_node_delete: the recursive equation of Delete, and   *)
(* its solution.                                                            *)
UpEq(T, n, f) ==
  [i \in 0..(MaxLen + 1) |->
     IF i = 0 THEN [table |-> T, at |-> n]
     ELSE LET d == f[i - 1] IN IF d.at = Null THEN d ELSE DeleteStep(d)]

Up(T, n) == CHOOSE f : f = UpEq(T, n, f)

(* bgp_node_delete ends with every node without references a joint. *)
LEMMA DeleteFacts ==
  ASSUME NEW h \in Counts, NEW T, NEW n, Deleting([table |-> T, at |-> n], h), n # Null
  PROVE  Exact(Delete(T, n), h) /\ Shrunk(T, Delete(T, n))
<1> DEFINE S == {d \in [table : Tables, at : AllPrefixes \cup {Null}] : Deleting(d, h)}
           next(d) == IF d.at = Null THEN d ELSE DeleteStep(d)
           step == [d \in S |-> next(d)]
           d0 == [table |-> T, at |-> n]
           N == MaxLen + 1
<1>1. N \in Nat /\ MaxLen \in Nat
  BY TableAssumption
<1>2. \A d : Deleting(d, h) => d \in S
  BY DEF Deleting
<1>3. ASSUME NEW d \in S PROVE next(d) \in S
  <2>1. CASE d.at = Null
    BY <2>1
  <2>2. CASE d.at # Null
    BY <1>2, <2>2, DeletingStep
  <2> QED BY <2>1, <2>2
<1>4. step \in [S -> S]
  <2> HIDE DEF S, next
  <2> QED BY <1>3
<1>5. d0 \in S
  BY <1>2
<1>6. PICK f : Iterate(f, S, step, d0, N)
  <2> HIDE DEF S, step, d0, N
  <2> QED BY ONLY <1>1, <1>4, <1>5, Iterates
<1>7. f \in [0..N -> S] /\ f[0] = d0 /\ \A i \in 1..N : f[i] = next(f[i - 1])
  <2>1. f \in [0..N -> S] /\ f[0] = d0 /\ \A i \in 1..N : f[i] = step[f[i - 1]]
    BY ONLY <1>6 DEF Iterate
  <2> HIDE DEF S, next, d0
  <2>2. \A i \in 1..N : i - 1 \in 0..N
    BY <1>1
  <2> QED
    BY <2>1, <2>2
<1>8. f = UpEq(T, n, f)
  <2>1. \A i \in 0..N : i # 0 => i \in 1..N
    BY <1>1
  <2>2. f = [i \in 0..N |-> f[i]]
    BY ONLY <1>7
  <2>3. f = [i \in 0..N |-> IF i = 0 THEN d0 ELSE next(f[i - 1])]
    <3> HIDE DEF next, d0, S
    <3> QED BY ONLY <1>7, <2>1, <2>2
  <2> QED
    BY <2>3 DEF UpEq
<1> DEFINE u == Up(T, n)
<1>9. u = UpEq(T, n, u)
  BY <1>8 DEF Up
<1>10. Delete(T, n) = u[N].table
  BY DEF Delete, Up, UpEq
<1> HIDE DEF u
<1>11. u[0] = d0 /\ \A i \in 1..N : u[i] = next(u[i - 1])
  <2>1. \A i \in 1..N : i \in 0..(MaxLen + 1) /\ i # 0
    BY <1>1
  <2>2. 0 \in 0..(MaxLen + 1)
    BY <1>1
  <2> QED
    BY <1>9, <2>1, <2>2 DEF UpEq
<1> DEFINE Fine(k) == /\ u[k] \in S /\ Shrunk(T, u[k].table)
                      /\ u[k].at # Null => Len(u[k].at) + k <= MaxLen
           Q == {k \in Nat : k <= N => Fine(k)}
<1>12. 0 \in Q
  <2>1. n \in Dom(T) /\ T \in Tables
    BY DEF Deleting
  <2>2. Len(n) \in Nat /\ Len(n) <= MaxLen
    BY <2>1, TableType, PrefixOrder
  <2>3. Fine(0)
    <3>1. d0.table = T /\ d0.at = n
      OBVIOUS
    <3>2. Shrunk(T, T)
      BY DEF Shrunk
    <3> QED
      BY <1>1, <1>5, <1>11, <2>2, <3>1, <3>2
  <2> QED
    BY <2>3
<1>13. ASSUME NEW k \in Nat, k \in Q PROVE k + 1 \in Q
  <2>1. SUFFICES ASSUME k + 1 <= N PROVE Fine(k + 1)
    <3> HIDE DEF Fine, N
    <3> QED OBVIOUS
  <2>2. Fine(k)
    BY <1>1, <1>13, <2>1
  <2>3. u[k + 1] = next(u[k])
    <3>1. k + 1 \in 1..N /\ (k + 1) - 1 = k
      BY <1>1, <2>1
    <3> QED BY <1>11, <3>1
  <2>4. CASE u[k].at = Null
    BY <2>2, <2>3, <2>4
  <2>5. CASE u[k].at # Null
    <3> DEFINE d == u[k]
               e == DeleteStep(d)
    <3>1. u[k + 1] = e /\ Deleting(d, h)
      BY <2>2, <2>3, <2>5
    <3>2. Deleting(e, h) /\ Shrunk(d.table, e.table) /\ (e.at # Null => Len(e.at) < Len(d.at))
      BY <2>5, <3>1, DeletingStep
    <3> HIDE DEF e
    <3>3. Shrunk(T, e.table)
      BY <2>2, <3>2 DEF Shrunk
    <3>4. e.at # Null => Len(e.at) + (k + 1) <= MaxLen
      <4>1. SUFFICES ASSUME e.at # Null PROVE Len(e.at) + (k + 1) <= MaxLen
        OBVIOUS
      <4>2. d.at \in AllPrefixes /\ e.at \in AllPrefixes
        BY <2>5, <3>1, <3>2, <4>1 DEF Deleting
      <4>3. Len(d.at) \in Nat /\ Len(e.at) \in Nat
        BY <4>2, PrefixOrder
      <4>4. Len(e.at) < Len(d.at) /\ Len(d.at) + k <= MaxLen
        BY <2>2, <2>5, <3>2, <4>1
      <4> DEFINE x == Len(e.at)
                 y == Len(d.at)
      <4>5. x \in Nat /\ y \in Nat /\ x < y /\ y + k <= MaxLen
        BY ONLY <4>3, <4>4
      <4> HIDE DEF x, y
      <4>6. x + (k + 1) <= MaxLen
        BY ONLY <1>1, <4>5, k \in Nat
      <4> QED
        BY ONLY <4>6 DEF x
    <3>5. e \in S
      BY <1>2, <3>2
    <3> QED
      BY <3>1, <3>3, <3>4, <3>5
  <2> QED BY <2>4, <2>5
<1>14. Nat \subseteq Q
  <2> HIDE DEF Q
  <2> QED BY <1>12, <1>13, NaturalsBySet
<1>15. Fine(N)
  <2> HIDE DEF Fine, N
  <2>1. N \in Q /\ N <= N
    BY ONLY <1>1, <1>14
  <2> QED BY ONLY <2>1
<1>16. Deleting(u[N], h) /\ Shrunk(T, u[N].table)
  BY <1>15
<1>17. u[N].at = Null
  <2>1. SUFFICES ASSUME u[N].at # Null PROVE FALSE
    OBVIOUS
  <2>2. Len(u[N].at) + N <= MaxLen /\ u[N].at \in AllPrefixes
    BY <1>15, <1>16, <2>1 DEF Deleting
  <2>3. Len(u[N].at) \in Nat
    BY <2>2, PrefixOrder
  <2> DEFINE x == Len(u[N].at)
  <2>4. x \in Nat /\ x + (MaxLen + 1) <= MaxLen
    BY ONLY <2>2, <2>3
  <2> HIDE DEF x
  <2> QED
    BY ONLY <1>1, <2>4
<1>18. Exact(u[N].table, h)
  <2>1. Null \notin Dom(u[N].table)
    BY <1>16, TableType DEF Deleting, Trie
  <2> QED
    BY <1>16, <1>17, <2>1 DEF Exact, Deleting
<1> QED
  BY <1>10, <1>16, <1>18

(* bgp_unlock_node gives a reference back. *)
LEMMA ExactUnlock ==
  ASSUME NEW T, NEW h \in Counts, Exact(T, h), NEW n \in AllPrefixes, 0 < h[n]
  PROVE  Exact(Unlock(T, n), [h EXCEPT ![n] = @ - 1]) /\ Shrunk(T, Unlock(T, n))
<1> DEFINE U == Down(T, n)
           g == [h EXCEPT ![n] = @ - 1]
<1>1. T \in Tables /\ Trie(T) /\ n \in Dom(T) /\ Dom(T) \subseteq AllPrefixes
  BY TableType DEF Exact, Trie, Counted
<1>2. /\ Inf(T, n) \in SUBSET Peers /\ h[n] \in Nat /\ Lck(T, n) = Cardinality(Inf(T, n)) + h[n]
  BY <1>1, TableType DEF Exact, Counted, Counts
<1>3. Lck(T, n) \in Nat /\ 0 < Lck(T, n)
  BY <1>2, RouteCount
<1>4. /\ Frame(T, U)
      /\ \A m \in Dom(T) : /\ Inf(U, m) = Inf(T, m)
                           /\ Lck(U, m) = IF m = n THEN Lck(T, n) - 1 ELSE Lck(T, m)
      /\ Unlock(T, n) = IF Lck(T, n) = 1 THEN Delete(U, n) ELSE U
  BY <1>1, <1>3, DownFacts
<1> HIDE DEF U
<1>5. /\ U \in Tables /\ Trie(U) /\ Dom(U) = Dom(T)
      /\ \A m \in Dom(T) : TwoChildren(U, m) <=> TwoChildren(T, m)
  BY <1>1, <1>4, FrameTrie DEF Frame
<1>6. g \in Counts /\ \A m \in AllPrefixes : g[m] = IF m = n THEN h[n] - 1 ELSE h[m]
  BY <1>2 DEF Counts
<1> HIDE DEF g
<1>7. \A m \in Dom(U) : Lck(U, m) = Cardinality(Inf(U, m)) + g[m]
  <2>1. SUFFICES ASSUME NEW m \in Dom(T) PROVE Lck(U, m) = Cardinality(Inf(T, m)) + g[m]
    BY <1>4, <1>5
  <2>2. Lck(T, m) = Cardinality(Inf(T, m)) + h[m]
    BY DEF Exact, Counted
  <2>3. Inf(T, m) \in SUBSET Peers
    BY <1>1, TableType
  <2>4. Cardinality(Inf(T, m)) \in Nat
    BY <2>3, RouteCount
  <2> QED
    BY <1>1, <1>2, <1>4, <1>6, <2>2, <2>4
<1>8. Counted(U, g)
  BY <1>2, <1>5, <1>6, <1>7 DEF Counted, Exact
<1>9. \A m \in Dom(U) : Lck(U, m) = 0 => TwoChildren(U, m) \/ m = n
  BY <1>4, <1>5 DEF Exact
<1>10. Shrunk(T, U)
  BY <1>4, <1>5 DEF Shrunk
<1>11. CASE Lck(T, n) = 1
  <2> DEFINE d == [table |-> U, at |-> n]
  <2>1. d.table = U /\ d.at = n /\ d \in [table : Tables, at : AllPrefixes \cup {Null}]
    BY <1>5
  <2>2. Lck(U, n) = 0
    BY <1>1, <1>4, <1>11
  <2> HIDE DEF d
  <2>3. Deleting(d, g)
    BY <1>1, <1>5, <1>8, <1>9, <2>1, <2>2 DEF Deleting
  <2>4. n # Null
    BY TableAssumption
  <2>5. Exact(Delete(U, n), g) /\ Shrunk(U, Delete(U, n))
    BY <1>6, <2>3, <2>4, DeleteFacts DEF d
  <2>6. Unlock(T, n) = Delete(U, n)
    BY <1>4, <1>11
  <2> QED
    BY <1>10, <2>5, <2>6 DEF Shrunk, g
<1>12. CASE Lck(T, n) # 1
  <2>1. Unlock(T, n) = U
    BY <1>4, <1>12
  <2>2. Lck(U, n) # 0
    BY <1>1, <1>3, <1>4, <1>12
  <2>3. Exact(U, g)
    BY <1>5, <1>8, <1>9, <2>2 DEF Exact
  <2> QED
    BY <1>10, <2>1, <2>3 DEF g
<1> QED
  BY <1>11, <1>12

-----------------------------------------------------------------------------
(* The walk: bgp_route_next goes to the next node in the order Before *)

(* The top is a prefix of every node. *)
LEMMA TopIsPrefix ==
  ASSUME NEW T \in Tables, Wired(T), NEW n \in Dom(T)
  PROVE  T.top \in Dom(T) /\ IsPrefix(T.top, n)
<1> DEFINE t == T.top
           Fine(m) == t \in Dom(T) /\ IsPrefix(t, m)
           Q == {k \in Nat : \A m \in Dom(T) : Len(m) <= k => Fine(m)}
<1>0. Dom(T) \subseteq AllPrefixes /\ Null \notin Dom(T)
  BY TableType
<1>1. ASSUME NEW m \in Dom(T), Par(T, m) = Null PROVE Fine(m)
  BY <1>0, <1>1, PrefixOrder DEF Wired
<1>2. ASSUME NEW m \in Dom(T), Par(T, m) # Null, Fine(Par(T, m)) PROVE Fine(m)
  <2>1. Par(T, m) \in Dom(T) /\ IsPrefix(Par(T, m), m)
    BY <1>2, ParentLink
  <2> QED
    BY <1>0, <1>2, <2>1, PrefixOrder
<1>3. ASSUME NEW m \in Dom(T), Par(T, m) # Null
      PROVE  Par(T, m) \in Dom(T) /\ Len(Par(T, m)) \in Nat /\ Len(m) \in Nat /\ Len(Par(T, m)) < Len(m)
  <2>1. Par(T, m) \in Dom(T) /\ IsPrefix(Par(T, m), m) /\ Par(T, m) # m
    BY <1>3, ParentLink
  <2> QED
    BY <1>0, <2>1, PrefixOrder
<1> HIDE DEF Fine, t
<1>4. 0 \in Q
  <2>1. SUFFICES ASSUME NEW m \in Dom(T), Len(m) <= 0 PROVE Fine(m)
    OBVIOUS
  <2>2. Par(T, m) = Null
    BY <1>3, <2>1
  <2> QED BY <1>1, <2>2
<1>5. ASSUME NEW k \in Nat, k \in Q PROVE k + 1 \in Q
  <2>1. SUFFICES ASSUME NEW m \in Dom(T), Len(m) <= k + 1 PROVE Fine(m)
    OBVIOUS
  <2>2. CASE Par(T, m) = Null
    BY <1>1, <2>2
  <2>3. CASE Par(T, m) # Null
    <3> DEFINE a == Par(T, m)
    <3>1. a \in Dom(T) /\ Len(a) \in Nat /\ Len(m) \in Nat /\ Len(a) < Len(m)
      BY <1>3, <2>3
    <3> HIDE DEF a
    <3>2. Len(a) <= k
      BY ONLY <2>1, <3>1, k \in Nat
    <3>3. Fine(a)
      BY ONLY <1>5, <3>1, <3>2
    <3> QED
      BY <1>2, <2>3, <3>3 DEF a
  <2> QED BY <2>2, <2>3
<1>6. Nat \subseteq Q
  <2> HIDE DEF Q
  <2> QED BY <1>4, <1>5, NaturalsBySet
<1>7. Len(n) \in Nat
  BY <1>0, PrefixOrder
<1>8. Fine(n)
  BY ONLY <1>6, <1>7, n \in Dom(T)
<1> QED
  BY <1>8 DEF Fine, t

(* Whatever lies below a node hangs on the link its next bit selects. *)
LEMMA ChildBelow ==
  ASSUME NEW T \in Tables, Wired(T), NEW n \in Dom(T), NEW m \in Dom(T), IsPrefix(n, m), n # m
  PROVE  /\ Lnk(T, n, Bit(m, n)) \in Dom(T) /\ Bit(m, n) \in {0, 1}
         /\ IsPrefix(Lnk(T, n, Bit(m, n)), m)
<1> DEFINE Fine(x, y) == Lnk(T, x, Bit(y, x)) \in Dom(T) /\ IsPrefix(Lnk(T, x, Bit(y, x)), y)
           Q == {k \in Nat : \A x, y \in Dom(T) : IsPrefix(x, y) /\ x # y /\ Len(y) <= k => Fine(x, y)}
<1>0. Dom(T) \subseteq AllPrefixes /\ Null \notin Dom(T)
  BY TableType
<1>1. 0 \in Q
  <2>1. SUFFICES ASSUME NEW x \in Dom(T), NEW y \in Dom(T), IsPrefix(x, y), x # y, Len(y) <= 0
                 PROVE FALSE
    OBVIOUS
  <2>2. Len(x) \in Nat /\ Len(y) \in Nat /\ Len(x) < Len(y)
    BY <1>0, <2>1, PrefixOrder
  <2> QED
    BY ONLY <2>1, <2>2
<1>2. ASSUME NEW k \in Nat, k \in Q PROVE k + 1 \in Q
  <2>1. SUFFICES ASSUME NEW x \in Dom(T), NEW y \in Dom(T), IsPrefix(x, y), x # y, Len(y) <= k + 1
                 PROVE Fine(x, y)
    OBVIOUS
  <2>2. Len(x) \in Nat /\ Len(y) \in Nat /\ Len(x) < Len(y)
    BY <1>0, <2>1, PrefixOrder
  <2>3. Par(T, y) # Null
    <3>1. SUFFICES ASSUME Par(T, y) = Null PROVE FALSE
      OBVIOUS
    <3>2. T.top = y
      BY <3>1 DEF Wired
    <3>3. IsPrefix(y, x)
      BY <3>2, TopIsPrefix
    <3>4. Len(y) <= Len(x)
      BY <1>0, <3>3, PrefixOrder
    <3> QED
      BY ONLY <2>2, <3>4
  <2> DEFINE a == Par(T, y)
  <2>4. a \in Dom(T) /\ IsPrefix(a, y) /\ a # y /\ Lnk(T, a, Bit(y, a)) = y
    BY <2>3, ParentLink
  <2> HIDE DEF a
  <2>5. Len(a) \in Nat /\ Len(a) < Len(y)
    BY <1>0, <2>4, PrefixOrder
  <2>6. \A z \in Dom(T) : Len(z) \in Nat /\ Len(z) < Len(y) => Len(z) <= k
    <3>1. SUFFICES ASSUME NEW z \in Dom(T), Len(z) \in Nat, Len(z) < Len(y) PROVE Len(z) <= k
      OBVIOUS
    <3> QED BY ONLY <2>1, <2>2, <3>1, k \in Nat
  <2>7. CASE a = x
    BY <1>0, <2>1, <2>4, <2>7, PrefixOrder
  <2>8. CASE a # x /\ Len(x) <= Len(a)
    <3>1. IsPrefix(x, a)
      BY <1>0, <2>1, <2>4, <2>8, PrefixOrder
    <3>2. Fine(x, a)
      <4> HIDE DEF Fine
      <4> QED BY ONLY <1>2, <2>1, <2>4, <2>5, <2>6, <2>8, <3>1
    <3>3. Bit(y, x) = Bit(a, x)
      BY <1>0, <2>4, <2>8, <3>1, NextBit
    <3> QED
      BY <1>0, <2>4, <3>2, <3>3, PrefixOrder
  <2>9. CASE a # x /\ Len(a) <= Len(x)
    <3>1. IsPrefix(a, x)
      BY <1>0, <2>1, <2>4, <2>9, PrefixOrder
    <3>2. Fine(a, x)
      <4> HIDE DEF Fine
      <4> QED BY ONLY <1>2, <2>1, <2>2, <2>4, <2>6, <2>9, <3>1
    <3>3. Bit(y, a) = Bit(x, a)
      BY <1>0, <2>1, <2>4, <2>9, <3>1, NextBit
    <3>4. IsPrefix(y, x)
      BY ONLY <2>4, <3>2, <3>3
    <3>5. Len(y) <= Len(x)
      BY <1>0, <3>4, PrefixOrder
    <3> QED
      BY ONLY <2>2, <3>5
  <2> QED
    BY ONLY <2>2, <2>5, <2>7, <2>8, <2>9
<1>3. Nat \subseteq Q
  <2> HIDE DEF Q
  <2> QED BY <1>1, <1>2, NaturalsBySet
<1>4. Len(m) \in Nat /\ Len(m) <= Len(m)
  BY <1>0, PrefixOrder
<1>5. Fine(n, m)
  <2> HIDE DEF Fine
  <2> QED BY ONLY <1>3, <1>4, n \in Dom(T), m \in Dom(T), IsPrefix(n, m), n # m
<1> QED
  BY <1>0, <1>5, NextBit

(* The ancestors of a node, as bgp_route_next climbs them *)
ClimbEq(T, n, f) ==
  [i \in 0..MaxLen |->
     IF i = 0 THEN n
     ELSE LET m == f[i - 1] IN IF m = Null THEN Null ELSE T.node[m].parent]

Climb(T, n) == CHOOSE f : f = ClimbEq(T, n, f)

(* The solution of the climb's equation exists and stays on nodes. *)
LEMMA ClimbFacts ==
  ASSUME NEW T \in Tables, Wired(T), NEW n \in Dom(T)
  PROVE  /\ Climb(T, n)[0] = n
         /\ \A i \in 0..MaxLen : Climb(T, n)[i] \in Dom(T) \cup {Null}
         /\ \A i \in 1..MaxLen :
              Climb(T, n)[i] = IF Climb(T, n)[i - 1] = Null THEN Null ELSE Par(T, Climb(T, n)[i - 1])
<1> DEFINE D == Dom(T) \cup {Null}
           above(x) == IF x = Null THEN Null ELSE Par(T, x)
           step == [x \in D |-> above(x)]
<1>1. \A x \in D : above(x) \in D
  BY DEF Wired
<1>2. step \in [D -> D] /\ n \in D /\ MaxLen \in Nat
  <2> HIDE DEF above
  <2> QED BY <1>1, TableAssumption
<1>3. PICK f \in [0..MaxLen -> D] : f[0] = n /\ \A i \in 1..MaxLen : f[i] = step[f[i - 1]]
  <2>1. step \in [D -> D]
    BY ONLY <1>2
  <2>2. n \in D
    BY ONLY <1>2
  <2> HIDE DEF D, step
  <2>4. \E f : Iterate(f, D, step, n, MaxLen)
    BY ONLY <1>2, <2>1, <2>2, Iterates
  <2> QED BY ONLY <2>4 DEF Iterate
<1>4. f = ClimbEq(T, n, f)
  <2>1. \A i \in 0..MaxLen : i # 0 => i \in 1..MaxLen /\ i - 1 \in 0..MaxLen
    BY <1>2
  <2>2. \A i \in 0..MaxLen : i # 0 => f[i] = above(f[i - 1])
    <3> HIDE DEF above
    <3> QED BY <1>3, <2>1
  <2>3. f = [i \in 0..MaxLen |-> f[i]]
    BY ONLY <1>3
  <2>4. f = [i \in 0..MaxLen |-> IF i = 0 THEN n ELSE above(f[i - 1])]
    <3> HIDE DEF above
    <3> QED BY ONLY <1>3, <2>2, <2>3
  <2> QED
    BY <2>4 DEF ClimbEq, Par
<1> DEFINE w == Climb(T, n)
<1>5. w = ClimbEq(T, n, w)
  BY <1>4 DEF Climb
<1> HIDE DEF w
<1>6. w[0] = n
  BY <1>2, <1>5 DEF ClimbEq
<1>7. \A i \in 1..MaxLen : w[i] = above(w[i - 1])
  <2>1. \A i \in 1..MaxLen : i \in 0..MaxLen /\ i # 0
    BY <1>2
  <2> QED
    BY <1>5, <2>1 DEF ClimbEq, Par
<1>8. \A i \in 0..MaxLen : w[i] \in D
  <2> DEFINE Q == {k \in Nat : k \in 0..MaxLen => w[k] \in D}
  <2> HIDE DEF above, D
  <2>1. 0 \in Q
    BY <1>2, <1>6
  <2>2. ASSUME NEW k \in Nat, k \in Q PROVE k + 1 \in Q
    <3>1. CASE k + 1 \in 0..MaxLen
      <4>1. k + 1 \in 1..MaxLen /\ k \in 0..MaxLen /\ (k + 1) - 1 = k
        BY <1>2, <3>1
      <4>2. w[k + 1] = above(w[k])
        BY <1>7, <4>1
      <4>3. w[k] \in D
        BY <2>2, <4>1
      <4> QED
        BY <1>1, <4>2, <4>3
    <3>2. CASE k + 1 \notin 0..MaxLen
      BY <3>2
    <3> QED BY <3>1, <3>2
  <2>3. Nat \subseteq Q
    <3> HIDE DEF Q
    <3> QED BY <2>1, <2>2, NaturalsBySet
  <2> QED
    BY <1>2, <2>3
<1> QED
  BY <1>6, <1>7, <1>8 DEF w

(* The climb only meets prefixes of where it has been. *)
LEMMA ClimbOrder ==
  ASSUME NEW T \in Tables, Wired(T), NEW n \in Dom(T),
         NEW i \in 0..MaxLen, NEW j \in 0..MaxLen, i <= j, Climb(T, n)[j] # Null
  PROVE  Climb(T, n)[i] \in Dom(T) /\ IsPrefix(Climb(T, n)[j], Climb(T, n)[i])
<1> DEFINE u == Climb(T, n)
           Fine(k) == u[k] # Null => u[i] \in Dom(T) /\ IsPrefix(u[k], u[i])
           Q == {k \in Nat : i + k <= MaxLen => Fine(i + k)}
<1> HIDE DEF u
<1>0. Dom(T) \subseteq AllPrefixes /\ Null \notin Dom(T) /\ MaxLen \in Nat /\ i \in Nat /\ j \in Nat
  BY TableType, TableAssumption
<1>1. /\ \A k \in 0..MaxLen : u[k] \in Dom(T) \cup {Null}
      /\ \A k \in 1..MaxLen : u[k] = IF u[k - 1] = Null THEN Null ELSE Par(T, u[k - 1])
  BY ClimbFacts DEF u
<1>2. 0 \in Q
  <2>1. Fine(i)
    BY <1>0, <1>1, PrefixOrder
  <2>2. i + 0 = i
    BY <1>0
  <2> QED BY <2>1, <2>2
<1>3. ASSUME NEW k \in Nat, k \in Q PROVE k + 1 \in Q
  <2> DEFINE l == i + k
  <2>0. l \in Nat /\ i + (k + 1) = l + 1
    BY <1>0
  <2>1. l <= MaxLen => Fine(l)
    BY <1>3
  <2> HIDE DEF l
  <2>2. ASSUME l + 1 <= MaxLen, u[l + 1] # Null PROVE u[i] \in Dom(T) /\ IsPrefix(u[l + 1], u[i])
    <3>1. l + 1 \in 1..MaxLen /\ (l + 1) - 1 = l /\ l <= MaxLen /\ l \in 0..MaxLen
      BY <1>0, <2>0, <2>2
    <3>2. u[l + 1] = IF u[l] = Null THEN Null ELSE Par(T, u[l])
      BY <1>1, <3>1
    <3>3. u[l] # Null /\ u[l] \in Dom(T) /\ u[l + 1] = Par(T, u[l])
      BY <1>1, <2>2, <3>1, <3>2
    <3>4. u[l + 1] \in Dom(T) /\ IsPrefix(u[l + 1], u[l])
      BY <2>2, <3>3, ParentLink
    <3>5. u[i] \in Dom(T) /\ IsPrefix(u[l], u[i])
      BY <2>1, <3>1, <3>3
    <3> QED
      BY <1>0, <3>3, <3>4, <3>5, PrefixOrder
  <2> QED
    BY <2>0, <2>2
<1>4. Nat \subseteq Q
  <2> HIDE DEF Q
  <2> QED BY <1>2, <1>3, NaturalsBySet
<1>5. j - i \in Nat /\ i + (j - i) = j /\ j <= MaxLen
  BY <1>0
<1>6. Fine(j)
  <2> DEFINE k == j - i
  <2>1. k \in Q /\ i + k = j
    BY ONLY <1>4, <1>5
  <2> HIDE DEF k, Fine
  <2> QED BY ONLY <1>5, <2>1
<1> QED
  BY <1>6 DEF u

(* The climb meets every node that is a prefix of its start. *)
LEMMA ClimbMeets ==
  ASSUME NEW T \in Tables, Wired(T), NEW n \in Dom(T), NEW a \in Dom(T), IsPrefix(a, n)
  PROVE  \E i \in 0..MaxLen : i <= Len(n) - Len(a) /\ Climb(T, n)[i] = a
<1> DEFINE u == Climb(T, n)
           Met(x) == \E i \in 0..MaxLen : i <= Len(n) - Len(x) /\ u[i] = x
           Q == {k \in Nat : \A x \in Dom(T) : IsPrefix(x, n) /\ Len(n) - Len(x) <= k => Met(x)}
<1> HIDE DEF u
<1>0. Dom(T) \subseteq AllPrefixes /\ Null \notin Dom(T) /\ MaxLen \in Nat
  BY TableType, TableAssumption
<1>1. /\ u[0] = n
      /\ \A k \in 1..MaxLen : u[k] = IF u[k - 1] = Null THEN Null ELSE Par(T, u[k - 1])
  BY ClimbFacts DEF u
<1>2. Len(n) \in Nat /\ Len(n) <= MaxLen
  BY <1>0, PrefixOrder
<1>3. Met(n)
  <2>1. 0 \in 0..MaxLen /\ 0 <= Len(n) - Len(n)
    BY <1>0, <1>2
  <2> QED BY <1>1, <2>1
<1>4. ASSUME NEW x \in Dom(T), IsPrefix(x, n), x # n
      PROVE  /\ Len(x) \in Nat /\ Len(x) < Len(n)
             /\ \E c \in Dom(T) : /\ IsPrefix(c, n) /\ Len(c) \in Nat /\ Len(x) < Len(c)
                                  /\ Met(c) => Met(x)
  <2> DEFINE c == Lnk(T, x, Bit(n, x))
  <2>1. c \in Dom(T) /\ Bit(n, x) \in {0, 1} /\ IsPrefix(c, n)
    BY <1>4, ChildBelow
  <2>2. Par(T, c) = x /\ IsPrefix(x, c) /\ x # c
    BY <1>0, <2>1 DEF Wired
  <2> HIDE DEF c
  <2>3. /\ Len(x) \in Nat /\ Len(x) < Len(n) /\ Len(c) \in Nat /\ Len(x) < Len(c)
    BY <1>0, <1>4, <2>1, <2>2, PrefixOrder
  <2>4. ASSUME NEW i \in 0..MaxLen, i <= Len(n) - Len(c), u[i] = c PROVE Met(x)
    <3> DEFINE lc == Len(c)
               lx == Len(x)
               ln == Len(n)
    <3>0. /\ lx \in Nat /\ lx < ln /\ lc \in Nat /\ lx < lc /\ i <= ln - lc /\ ln \in Nat /\ ln <= MaxLen
          /\ i \in Nat
      BY <1>2, <2>3, <2>4
    <3> HIDE DEF lc, lx, ln
    <3>1. i + 1 \in 1..MaxLen /\ (i + 1) - 1 = i /\ i + 1 \in 0..MaxLen /\ i + 1 <= ln - lx
      BY ONLY <1>0, <3>0
    <3>2. u[i + 1] = x
      BY <1>0, <1>1, <2>1, <2>2, <2>4, <3>1
    <3> QED
      BY <3>1, <3>2 DEF ln, lx
  <2> QED
    BY <2>1, <2>3, <2>4
<1> HIDE DEF Met
<1>5. 0 \in Q
  <2>1. SUFFICES ASSUME NEW x \in Dom(T), IsPrefix(x, n), Len(n) - Len(x) <= 0 PROVE x = n
    BY <1>3
  <2>2. SUFFICES ASSUME x # n PROVE FALSE
    OBVIOUS
  <2>3. Len(x) \in Nat /\ Len(x) < Len(n)
    BY ONLY <1>4, <2>1, <2>2
  <2> QED
    BY ONLY <1>2, <2>1, <2>3
<1>6. ASSUME NEW k \in Nat, k \in Q PROVE k + 1 \in Q
  <2>1. SUFFICES ASSUME NEW x \in Dom(T), IsPrefix(x, n), Len(n) - Len(x) <= k + 1 PROVE Met(x)
    OBVIOUS
  <2>2. CASE x = n
    BY <1>3, <2>2
  <2>3. CASE x # n
    <3>0. Len(x) \in Nat
      BY <1>4, <2>1, <2>3
    <3>1. PICK c \in Dom(T) : /\ IsPrefix(c, n) /\ Len(c) \in Nat /\ Len(x) < Len(c)
                              /\ Met(c) => Met(x)
      BY <1>4, <2>1, <2>3
    <3> DEFINE lc == Len(c)
               lx == Len(x)
               ln == Len(n)
    <3>2. lx \in Nat /\ lc \in Nat /\ ln \in Nat /\ lx < lc /\ ln - lx <= k + 1
      BY <1>2, <2>1, <3>0, <3>1
    <3> HIDE DEF lc, lx, ln
    <3>3. ln - lc <= k
      BY ONLY <3>2, k \in Nat
    <3>4. Len(n) - Len(c) <= k
      BY ONLY <3>3 DEF ln, lc
    <3>5. Met(c)
      BY ONLY <1>6, <3>1, <3>4
    <3> QED
      BY <3>1, <3>5
  <2> QED BY <2>2, <2>3
<1>7. Nat \subseteq Q
  <2> HIDE DEF Q
  <2> QED BY <1>5, <1>6, NaturalsBySet
<1>8. Met(a)
  <2> DEFINE k == Len(n) - Len(a)
  <2>1. Len(a) \in Nat /\ Len(a) <= Len(n)
    BY <1>0, PrefixOrder
  <2>2. k \in Nat
    BY ONLY <1>2, <2>1
  <2> HIDE DEF k
  <2>3. k <= k
    BY ONLY <2>2
  <2>4. k \in Q
    BY ONLY <1>7, <2>2
  <2> QED
    BY ONLY <2>3, <2>4, a \in Dom(T), IsPrefix(a, n) DEF k
<1> QED
  BY <1>8 DEF Met, u

(* Where two nodes branch there is a node. *)
LEMMA Branch ==
  ASSUME NEW T \in Tables, Wired(T), NEW n \in Dom(T), NEW m \in Dom(T), NEW a \in AllPrefixes,
         IsPrefix(a, n), a # n, IsPrefix(a, m), a # m, Bit(n, a) # Bit(m, a)
  PROVE  a \in Dom(T)
<1> DEFINE S == {x \in Dom(T) : IsPrefix(x, n) /\ IsPrefix(x, m)}
<1>0. Dom(T) \subseteq AllPrefixes /\ Null \notin Dom(T)
  BY TableType
<1>1. S \in SUBSET AllPrefixes /\ S # {}
  BY <1>0, TopIsPrefix
<1>2. PICK x \in S : \A y \in S : Len(y) <= Len(x)
  BY ONLY <1>1, HasLongest
<1>3. Len(x) \in Nat /\ Len(a) \in Nat
  BY <1>0, PrefixOrder
<1>4. SUFFICES ASSUME x # a PROVE FALSE
  BY <1>2
<1>5. CASE Len(a) <= Len(x)
  <2>1. IsPrefix(a, x)
    BY <1>0, <1>5, PrefixOrder
  <2> QED
    BY <1>0, <1>4, <2>1, NextBit
<1>6. CASE Len(x) <= Len(a)
  <2>1. IsPrefix(x, a)
    BY <1>0, <1>6, PrefixOrder
  <2>2. Bit(n, x) = Bit(a, x) /\ Bit(m, x) = Bit(a, x)
    BY <1>0, <1>4, <2>1, NextBit
  <2>3. x # n /\ x # m
    <3>1. Len(x) < Len(a) /\ Len(a) <= Len(n) /\ Len(a) <= Len(m) /\ Len(n) \in Nat /\ Len(m) \in Nat
      BY <1>0, <1>4, <2>1, PrefixOrder
    <3> QED
      BY ONLY <1>3, <3>1
  <2> DEFINE c == Lnk(T, x, Bit(a, x))
  <2>4. c \in Dom(T) /\ IsPrefix(c, n) /\ Bit(a, x) \in {0, 1}
    BY <2>2, <2>3, ChildBelow
  <2>5. IsPrefix(c, m)
    BY <2>2, <2>3, ChildBelow
  <2>6. IsPrefix(x, c) /\ x # c
    BY <1>0, <2>4 DEF Wired
  <2>7. c \in S
    BY ONLY <2>4, <2>5
  <2> HIDE DEF c
  <2>8. Len(x) < Len(c) /\ Len(c) <= Len(x) /\ Len(c) \in Nat
    BY <1>0, <1>2, <2>4, <2>6, <2>7, PrefixOrder
  <2> QED
    BY ONLY <1>3, <2>8
<1> QED
  BY ONLY <1>3, <1>5, <1>6

(* bgp_route_next: the next node of the trie in the order of the walk. *)
LEMMA AfterFacts ==
  ASSUME NEW T \in Tables, Wired(T), NEW n \in Dom(T)
  PROVE  LET r == After(T, n)
         IN /\ r \in Dom(T) \cup {Null}
            /\ r # Null => Before(n, r)
            /\ \A m \in Dom(T) : Before(n, m) => r # Null /\ (m = r \/ Before(r, m))
<1> DEFINE r == After(T, n)
           u == Climb(T, n)
           turns == {i \in 1..MaxLen : u[i] # Null /\ Lnk(T, u[i], 0) = u[i - 1] /\ Lnk(T, u[i], 1) # Null}
<1>0. Dom(T) \subseteq AllPrefixes /\ Null \notin Dom(T) /\ MaxLen \in Nat
  BY TableType, TableAssumption
<1>1. r = IF Child(T, n) # Null THEN Child(T, n)
          ELSE IF turns = {} THEN Null ELSE Lnk(T, u[Min(turns)], 1)
  BY DEF After, Lnk, Climb, ClimbEq
<1>2. Child(T, n) = IF Lnk(T, n, 0) # Null THEN Lnk(T, n, 0) ELSE Lnk(T, n, 1)
  BY DEF Child, Lnk
<1> HIDE DEF u, r
<1>3. \A x \in Dom(T) : \A b \in {0, 1} : Lnk(T, x, b) # Null =>
         /\ Lnk(T, x, b) \in Dom(T) /\ Par(T, Lnk(T, x, b)) = x
         /\ IsPrefix(x, Lnk(T, x, b)) /\ x # Lnk(T, x, b) /\ Bit(Lnk(T, x, b), x) = b
  BY DEF Wired
<1>4. CASE Child(T, n) # Null
  <2>1. PICK b \in {0, 1} : r = Lnk(T, n, b) /\ r # Null /\ (b = 1 => Lnk(T, n, 0) = Null)
    BY <1>1, <1>2, <1>4
  <2>2. r \in Dom(T) /\ IsPrefix(n, r) /\ n # r /\ Bit(r, n) = b
    BY <1>3, <2>1
  <2>3. ASSUME NEW m \in Dom(T), IsPrefix(n, m), n # m PROVE m = r \/ Before(r, m)
    <3>1. /\ Lnk(T, n, Bit(m, n)) \in Dom(T) /\ Bit(m, n) \in {0, 1}
          /\ IsPrefix(Lnk(T, n, Bit(m, n)), m)
      BY <2>3, ChildBelow
    <3>2. CASE Bit(m, n) = b
      BY <2>1, <3>1, <3>2 DEF Before
    <3>3. CASE Bit(m, n) # b
      <4>1. b = 0 /\ Bit(m, n) = 1
        BY <1>0, <2>1, <3>1, <3>3
      <4> QED
        BY <1>0, <2>2, <2>3, <4>1 DEF Before
    <3> QED BY <3>2, <3>3
  <2>4. ASSUME NEW m \in Dom(T), NEW a \in AllPrefixes, IsPrefix(a, n), a # n, IsPrefix(a, m), a # m,
               Bit(n, a) = 0, Bit(m, a) = 1
        PROVE  Before(r, m)
    <3>1. IsPrefix(a, r)
      BY <1>0, <2>2, <2>4, PrefixOrder
    <3>2. Bit(r, a) = 0
      BY <1>0, <2>2, <2>4, NextBit
    <3>3. a # r
      <4>1. Len(a) < Len(n) /\ Len(n) < Len(r) /\ Len(a) \in Nat /\ Len(n) \in Nat /\ Len(r) \in Nat
        BY <1>0, <2>2, <2>4, PrefixOrder
      <4> QED BY ONLY <4>1
    <3> QED
      BY <2>4, <3>1, <3>2, <3>3 DEF Before
  <2>5. ASSUME NEW m \in Dom(T), Before(n, m) PROVE m = r \/ Before(r, m)
    BY <2>3, <2>4, <2>5 DEF Before
  <2> QED
    BY <2>1, <2>2, <2>5 DEF Before, r
<1>5. CASE Child(T, n) = Null
  <2>0. Lnk(T, n, 0) = Null /\ Lnk(T, n, 1) = Null
    BY <1>2, <1>5
  <2>1. /\ u[0] = n /\ \A i \in 0..MaxLen : u[i] \in Dom(T) \cup {Null}
        /\ \A i \in 1..MaxLen : u[i] = IF u[i - 1] = Null THEN Null ELSE Par(T, u[i - 1])
    BY ClimbFacts DEF u
  <2>2. ASSUME NEW k \in turns
        PROVE  LET b == u[k]
                   c == Lnk(T, b, 1)
               IN /\ b \in Dom(T) /\ c \in Dom(T) /\ IsPrefix(b, c) /\ b # c /\ Bit(c, b) = 1
                  /\ IsPrefix(b, n) /\ b # n /\ Bit(n, b) = 0
    <3> DEFINE b == u[k]
               c == Lnk(T, b, 1)
               d == u[k - 1]
    <3>1. /\ k \in 1..MaxLen /\ k \in 0..MaxLen /\ k - 1 \in 0..MaxLen /\ k \in Nat /\ 0 \in 0..MaxLen /\ 0 <= k - 1
          /\ b # Null /\ Lnk(T, b, 0) = d /\ c # Null
      BY <1>0
    <3>2. b \in Dom(T) /\ d # Null
      BY <2>1, <3>1
    <3>3. d \in Dom(T) /\ c \in Dom(T) /\ IsPrefix(b, c) /\ b # c /\ Bit(c, b) = 1
          /\ IsPrefix(b, d) /\ b # d /\ Bit(d, b) = 0
      BY <1>3, <3>1, <3>2
    <3>4. IsPrefix(d, n)
      BY <2>1, <3>1, <3>2, ClimbOrder DEF u
    <3>5. IsPrefix(b, n) /\ Bit(n, b) = 0
      BY <1>0, <3>2, <3>3, <3>4, PrefixOrder, NextBit
    <3>6. b # n
      <4>1. Len(b) < Len(d) /\ Len(d) <= Len(n) /\ Len(b) \in Nat /\ Len(d) \in Nat /\ Len(n) \in Nat
        BY <1>0, <3>2, <3>3, <3>4, PrefixOrder
      <4> QED BY ONLY <4>1
    <3> QED
      BY <3>2, <3>3, <3>5, <3>6
  <2> DEFINE k == Min(turns)
  <2>3. turns # {} => k \in turns /\ \A i \in turns : k <= i
    <3>1. turns \in SUBSET Nat
      BY <1>0
    <3> HIDE DEF turns
    <3>2. turns # {} => \E x \in turns : \A y \in turns : x <= y
      BY ONLY <3>1, LeastNatural
    <3> QED
      BY ONLY <3>2 DEF Min
  <2>4. r = IF turns = {} THEN Null ELSE Lnk(T, u[k], 1)
    BY <1>1, <1>5
  <2> HIDE DEF k
  <2>5. turns # {} => /\ r \in Dom(T) /\ IsPrefix(u[k], r) /\ u[k] # r /\ Bit(r, u[k]) = 1
                      /\ u[k] \in Dom(T) /\ IsPrefix(u[k], n) /\ u[k] # n /\ Bit(n, u[k]) = 0
    <3> HIDE DEF turns
    <3> QED BY <2>2, <2>3, <2>4
  <2>6. r # Null => Before(n, r) /\ r \in Dom(T)
    BY <1>0, <2>4, <2>5 DEF Before
  <2>7. ASSUME NEW m \in Dom(T), Before(n, m) PROVE r # Null /\ (m = r \/ Before(r, m))
    <3>1. ~IsPrefix(n, m) \/ n = m
      <4>1. SUFFICES ASSUME IsPrefix(n, m), n # m PROVE FALSE
        OBVIOUS
      <4>2. Lnk(T, n, Bit(m, n)) \in Dom(T) /\ Bit(m, n) \in {0, 1}
        BY <4>1, ChildBelow
      <4> QED
        BY <1>0, <2>0, <4>2
    <3>2. PICK a \in AllPrefixes : /\ IsPrefix(a, n) /\ a # n /\ IsPrefix(a, m) /\ a # m
                                   /\ Bit(n, a) = 0 /\ Bit(m, a) = 1
      BY <2>7, <3>1 DEF Before
    <3>3. a \in Dom(T)
      BY <3>2, Branch
    <3> DEFINE c == Lnk(T, a, 0)
               d == Lnk(T, a, 1)
    <3>4. c \in Dom(T) /\ IsPrefix(c, n)
      BY <3>2, <3>3, ChildBelow
    <3>5. d \in Dom(T) /\ IsPrefix(d, m)
      BY <3>2, <3>3, ChildBelow
    <3>6. /\ Par(T, c) = a /\ IsPrefix(a, c) /\ a # c /\ Bit(c, a) = 0
      BY <1>0, <1>3, <3>3, <3>4
    <3>7. PICK i \in 0..MaxLen : i <= Len(n) - Len(c) /\ u[i] = c
      BY <3>4, ClimbMeets DEF u
    <3>8. i \in Nat /\ i + 1 \in 1..MaxLen /\ (i + 1) - 1 = i
      <4> DEFINE la == Len(a)
                 lc == Len(c)
                 ln == Len(n)
      <4>1. la \in Nat /\ lc \in Nat /\ ln \in Nat /\ la < lc /\ ln <= MaxLen
        BY <1>0, <3>3, <3>4, <3>6, PrefixOrder
      <4>2. i <= ln - lc
        BY <3>7
      <4> HIDE DEF la, lc, ln
      <4> QED
        BY ONLY <1>0, <4>1, <4>2, i \in 0..MaxLen
    <3>9. u[i + 1] = a
      BY <1>0, <2>1, <3>4, <3>6, <3>7, <3>8
    <3>10. i + 1 \in turns
      BY <1>0, <3>3, <3>5, <3>7, <3>8, <3>9
    <3>11. k \in turns /\ k <= i + 1 /\ r \in Dom(T) /\ IsPrefix(u[k], r) /\ k \in Nat
      <4>1. k \in turns => k \in Nat
        OBVIOUS
      <4> HIDE DEF turns
      <4> QED BY <2>3, <2>5, <3>10, <4>1
    <3>12. CASE k = i + 1
      <4>1. r = d
        BY <2>4, <3>9, <3>10, <3>12
      <4> QED
        BY <1>0, <3>5, <4>1 DEF Before
    <3>13. CASE k # i + 1
      <4>1. k <= i /\ k \in 0..MaxLen
        BY <3>8, <3>11, <3>13
      <4>2. u[i] # Null
        BY <1>0, <3>4, <3>7
      <4>3. u[k] \in Dom(T) /\ IsPrefix(c, u[k])
        BY <3>7, <4>1, <4>2, ClimbOrder DEF u
      <4>4. IsPrefix(c, r)
        BY <1>0, <3>4, <3>11, <4>3, PrefixOrder
      <4>5. IsPrefix(a, r) /\ Bit(r, a) = 0
        BY <1>0, <3>3, <3>4, <3>6, <3>11, <4>4, PrefixOrder, NextBit
      <4>6. a # r
        <5>1. Len(a) < Len(c) /\ Len(c) <= Len(r) /\ Len(a) \in Nat /\ Len(c) \in Nat /\ Len(r) \in Nat
          BY <1>0, <3>3, <3>4, <3>6, <3>11, <4>4, PrefixOrder
        <5> QED BY ONLY <5>1
      <4> QED
        BY <1>0, <3>2, <3>11, <4>5, <4>6 DEF Before
    <3> QED BY <3>12, <3>13
  <2> QED
    BY <2>6, <2>7 DEF r
<1> QED
  BY <1>4, <1>5

-----------------------------------------------------------------------------
(* The operations, each as a whole *)

(* A reference taken and given back *)
LEMMA UpAndDown ==
  ASSUME NEW h \in Counts, NEW p \in AllPrefixes
  PROVE  LET g == [h EXCEPT ![p] = @ + 1]
         IN /\ g \in Counts /\ g[p] = h[p] + 1 /\ h[p] \in Nat /\ 0 < g[p]
            /\ [g EXCEPT ![p] = @ - 1] = h
<1> DEFINE g == [h EXCEPT ![p] = @ + 1]
           k == [g EXCEPT ![p] = @ - 1]
<1>1. \A n \in AllPrefixes : h[n] \in Nat
  BY DEF Counts
<1>2. g \in Counts /\ \A n \in AllPrefixes : g[n] = IF n = p THEN h[p] + 1 ELSE h[n]
  BY <1>1 DEF Counts
<1> HIDE DEF g
<1>3. k \in [AllPrefixes -> Int] /\ \A n \in AllPrefixes : k[n] = IF n = p THEN g[p] - 1 ELSE g[n]
  BY <1>2 DEF Counts
<1>4. g[p] = h[p] + 1 /\ 0 < g[p] /\ g[p] - 1 = h[p]
  BY <1>1, <1>2
<1>5. \A n \in AllPrefixes : k[n] = h[n]
  BY ONLY <1>2, <1>3, <1>4
<1>6. k = h
  <2>1. h \in [AllPrefixes -> Nat]
    BY DEF Counts
  <2> HIDE DEF k
  <2>2. k = [n \in AllPrefixes |-> k[n]] /\ h = [n \in AllPrefixes |-> h[n]]
    BY ONLY <1>3, <2>1
  <2> QED BY ONLY <1>5, <2>2
<1> QED
  BY <1>1, <1>2, <1>4, <1>6 DEF g

(* bgp_process_update and bgp_process_withdraw leave the references exact. *)
LEMMA UpdateExact ==
  ASSUME NoWrap, NEW T, NEW h \in Counts, Exact(T, h), NEW p \in AllPrefixes,
         NEW peer \in Peers, h[p] <= MaxLookups
  PROVE  LET got == Get(T, p)
             added == IF peer \in got.node[p].info THEN got ELSE InfoAdd(got, p, peer)
         IN Exact(Unlock(added, p), h)
<1> DEFINE got == Get(T, p)
           added == IF peer \in got.node[p].info THEN got ELSE InfoAdd(got, p, peer)
           g == [h EXCEPT ![p] = @ + 1]
<1>1. g \in Counts /\ g[p] = h[p] + 1 /\ h[p] \in Nat /\ 0 < g[p] /\ [g EXCEPT ![p] = @ - 1] = h
  BY UpAndDown
<1>2. Exact(got, g) /\ p \in Dom(got)
  BY ExactGet
<1> HIDE DEF got, g
<1>3. g[p] <= MaxLookups + 1
  BY <1>1, TableAssumption
<1>4. Exact(added, g)
  <2>1. CASE peer \in Inf(got, p)
    BY <1>2, <2>1 DEF Inf
  <2>2. CASE peer \notin Inf(got, p)
    <3>1. Exact(InfoAdd(got, p, peer), g)
      BY <1>1, <1>2, <1>3, <2>2, ExactInfoAdd
    <3> QED
      BY <2>2, <3>1 DEF Inf
  <2> QED BY <2>1, <2>2
<1> HIDE DEF added
<1>5. Exact(Unlock(added, p), [g EXCEPT ![p] = @ - 1])
  BY <1>1, <1>4, ExactUnlock
<1> QED
  BY <1>1, <1>5 DEF added, got

(* The same for a withdrawal, also of a route that was never announced. *)
LEMMA WithdrawExact ==
  ASSUME NoWrap, NEW T, NEW h \in Counts, Exact(T, h), NEW p \in AllPrefixes,
         NEW peer \in Peers, h[p] <= MaxLookups
  PROVE  LET got == Get(T, p)
             deleted == IF peer \in got.node[p].info THEN InfoDelete(got, p, peer) ELSE got
         IN Exact(Unlock(deleted, p), h)
<1> DEFINE got == Get(T, p)
           deleted == IF peer \in got.node[p].info THEN InfoDelete(got, p, peer) ELSE got
           g == [h EXCEPT ![p] = @ + 1]
<1>1. g \in Counts /\ g[p] = h[p] + 1 /\ h[p] \in Nat /\ 0 < g[p] /\ [g EXCEPT ![p] = @ - 1] = h
  BY UpAndDown
<1>2. Exact(got, g) /\ p \in Dom(got)
  BY ExactGet
<1> HIDE DEF got, g
<1>4. Exact(deleted, g)
  <2>1. CASE peer \notin Inf(got, p)
    BY <1>2, <2>1 DEF Inf
  <2>2. CASE peer \in Inf(got, p)
    <3>1. Exact(InfoDelete(got, p, peer), g)
      BY <1>1, <1>2, <2>2, ExactInfoDelete
    <3> QED
      BY <2>2, <3>1 DEF Inf
  <2> QED BY <2>1, <2>2
<1> HIDE DEF deleted
<1>5. Exact(Unlock(deleted, p), [g EXCEPT ![p] = @ - 1])
  BY <1>1, <1>4, ExactUnlock
<1> QED
  BY <1>1, <1>5 DEF deleted, got

(* One turn of the loop of bgp_table_info_delete: the table with the route  *)
(* deleted, the node after w, and the table at the end of the turn.         *)
Cleared(T, w, peer) == IF peer \in T.node[w].info THEN InfoDelete(T, w, peer) ELSE T
NextOf(T, w, peer) == After(Cleared(T, w, peer), w)
Turned(T, w, peer) ==
  Unlock(IF NextOf(T, w, peer) = Null THEN Cleared(T, w, peer)
         ELSE Lock(Cleared(T, w, peer), NextOf(T, w, peer)), w)

(* From T, with the references h, to U, the walk going from w to next:      *)
(* nothing that lies ahead is skipped, and nothing but the route of the     *)
(* peer disappears.                                                         *)
TableTurn(T, h, w, peer, next, U) ==
  /\ next \in Dom(T) \cup {Null} /\ next # w
  /\ next # Null => Before(w, next)
  /\ \E g \in Counts :
       /\ Exact(U, g)
       /\ \A n \in AllPrefixes :
            g[n] = IF n = w THEN h[n] - 1 ELSE IF n = next THEN h[n] + 1 ELSE h[n]
  /\ Dom(U) \subseteq Dom(T)
  /\ \A m \in Dom(U) : Inf(U, m) = IF m = w THEN Inf(T, m) \ {peer} ELSE Inf(T, m)
  /\ \A m \in Dom(T) \ Dom(U) : Inf(T, m) \subseteq {peer}
  /\ \A m \in Dom(T) : Before(w, m) => next # Null /\ (m = next \/ Before(next, m))

(* A turn of bgp_table_info_delete is one. *)
LEMMA WalkTurn ==
  ASSUME NoWrap, NEW T, NEW h \in Counts, Exact(T, h), NEW w \in Dom(T), 0 < h[w], NEW peer \in Peers,
         \A n \in AllPrefixes \ {w} : h[n] <= MaxLookups
  PROVE  TableTurn(T, h, w, peer, NextOf(T, w, peer), Turned(T, w, peer))
<1> DEFINE C == IF peer \in T.node[w].info THEN InfoDelete(T, w, peer) ELSE T
           next == After(C, w)
           L == IF next = Null THEN C ELSE Lock(C, next)
           U == Unlock(L, w)
           e == IF next = Null THEN h ELSE [h EXCEPT ![next] = @ + 1]
           g == [e EXCEPT ![w] = @ - 1]
<1>0. T \in Tables /\ Wired(T) /\ Dom(T) \subseteq AllPrefixes /\ Null \notin AllPrefixes
  BY TableType DEF Exact, Trie
<1>1. /\ Exact(C, h) /\ Dom(C) = Dom(T)
      /\ \A m \in Dom(T) : Inf(C, m) = IF m = w THEN Inf(T, m) \ {peer} ELSE Inf(T, m)
  <2>1. CASE peer \in Inf(T, w)
    <3>1. /\ Exact(InfoDelete(T, w, peer), h) /\ Frame(T, InfoDelete(T, w, peer))
          /\ \A m \in Dom(T) : Inf(InfoDelete(T, w, peer), m)
                               = IF m = w THEN Inf(T, w) \ {peer} ELSE Inf(T, m)
      BY <2>1, ExactInfoDelete
    <3>2. C = InfoDelete(T, w, peer)
      BY <2>1 DEF Inf
    <3> HIDE DEF C
    <3> QED
      BY <3>1, <3>2 DEF Frame
  <2>2. CASE peer \notin Inf(T, w)
    <3>1. C = T
      BY <2>2 DEF Inf
    <3>2. Inf(T, w) \ {peer} = Inf(T, w)
      BY <2>2
    <3> HIDE DEF C
    <3> QED BY <3>1, <3>2
  <2> QED BY <2>1, <2>2
<1> HIDE DEF C
<1>2. C \in Tables /\ Wired(C) /\ w \in Dom(C)
  BY <1>1 DEF Exact, Trie
<1>3. /\ next \in Dom(T) \cup {Null}
      /\ next # Null => Before(w, next)
      /\ \A m \in Dom(T) : Before(w, m) => next # Null /\ (m = next \/ Before(next, m))
  BY <1>1, <1>2, AfterFacts
<1> HIDE DEF next
<1>4. next # w
  BY <1>0, <1>3 DEF Before
<1>5. /\ e \in Counts
      /\ \A n \in AllPrefixes : e[n] = IF n = next THEN h[n] + 1 ELSE h[n]
  <2>1. \A n \in AllPrefixes : h[n] \in Nat
    BY DEF Counts
  <2>2. CASE next = Null
    <3>1. e = h /\ next \notin AllPrefixes
      BY <1>0, <2>2
    <3> HIDE DEF e
    <3> QED
      BY <3>1
  <2>3. CASE next # Null
    <3>1. e = [h EXCEPT ![next] = @ + 1] /\ next \in AllPrefixes
      BY <1>0, <1>3, <2>3
    <3> HIDE DEF e
    <3>2. e \in Counts /\ \A n \in AllPrefixes : e[n] = IF n = next THEN h[next] + 1 ELSE h[n]
      BY <2>1, <3>1 DEF Counts
    <3> QED
      BY <3>2
  <2> QED BY <2>2, <2>3
<1>6. /\ Exact(L, e) /\ Dom(L) = Dom(T)
      /\ \A m \in Dom(T) : Inf(L, m) = Inf(C, m)
  <2>1. CASE next = Null
    BY <1>1, <2>1
  <2>2. CASE next # Null
    <3>0. next \in Dom(C) /\ next \in AllPrefixes \ {w}
      BY ONLY <1>0, <1>1, <1>3, <1>4, <2>2
    <3>1. next \in Dom(C) /\ h[next] <= MaxLookups
      BY <3>0
    <3>2. /\ Exact(Lock(C, next), [h EXCEPT ![next] = @ + 1]) /\ Frame(C, Lock(C, next))
          /\ \A m \in Dom(C) : Inf(Lock(C, next), m) = Inf(C, m)
      BY <1>1, <3>1, ExactLock
    <3>3. L = Lock(C, next) /\ e = [h EXCEPT ![next] = @ + 1]
      BY <2>2
    <3> HIDE DEF L, e
    <3> QED
      BY <1>1, <3>2, <3>3 DEF Frame
  <2> QED BY <2>1, <2>2
<1> HIDE DEF L, e
<1>7. w \in AllPrefixes /\ e[w] = h[w] /\ h[w] \in Nat /\ 0 < e[w]
  BY <1>0, <1>4, <1>5 DEF Counts
<1>8. Exact(U, g) /\ Shrunk(L, U)
  BY <1>5, <1>6, <1>7, ExactUnlock
<1>9. g \in Counts /\ \A n \in AllPrefixes :
        g[n] = IF n = w THEN h[n] - 1 ELSE IF n = next THEN h[n] + 1 ELSE h[n]
  <2>1. e[w] - 1 \in Nat
    BY <1>5, <1>7 DEF Counts
  <2> QED
    BY <1>5, <1>7, <2>1 DEF Counts
<1> HIDE DEF U, g
<1>10. /\ Dom(U) \subseteq Dom(T) /\ \A m \in Dom(U) : Inf(U, m) = Inf(L, m)
       /\ \A m \in Dom(T) \ Dom(U) : Inf(L, m) = {}
  BY <1>6, <1>8 DEF Shrunk
<1>11. \A m \in Dom(U) : Inf(U, m) = IF m = w THEN Inf(T, m) \ {peer} ELSE Inf(T, m)
  BY <1>1, <1>6, <1>10
<1>12. \A m \in Dom(T) \ Dom(U) : Inf(T, m) \subseteq {peer}
  BY <1>1, <1>6, <1>10
<1>13. \E k \in Counts : Exact(U, k) /\ \A n \in AllPrefixes :
           k[n] = IF n = w THEN h[n] - 1 ELSE IF n = next THEN h[n] + 1 ELSE h[n]
  BY <1>8, <1>9
<1> QED
  <2>1. C = Cleared(T, w, peer)
    BY DEF C, Cleared
  <2>2. next = NextOf(T, w, peer)
    BY <2>1 DEF next, NextOf
  <2>3. U = Turned(T, w, peer)
    BY <2>1, <2>2 DEF U, L, Turned
  <2>4. TableTurn(T, h, w, peer, next, U)
    BY ONLY <1>3, <1>4, <1>10, <1>11, <1>12, <1>13 DEF TableTurn
  <2> QED
    BY ONLY <2>2, <2>3, <2>4

(* No prefix was returned by more lookups than there were. *)
LEMMA TakenBound ==
  ASSUME NEW f \in Counts, NEW n \in AllPrefixes
  PROVE  /\ Sum(f, AllPrefixes) \in Nat /\ f[n] \in Nat /\ f[n] <= Sum(f, AllPrefixes)
         /\ [f EXCEPT ![n] = @ + 1] \in Counts
         /\ Sum([f EXCEPT ![n] = @ + 1], AllPrefixes) = Sum(f, AllPrefixes) + 1
<1> DEFINE g == [f EXCEPT ![n] = @ + 1]
           S == AllPrefixes
           R == S \ {n}
<1>1. IsFiniteSet(S) /\ IsFiniteSet(R)
  BY FinitelyMany, FS_Subset
<1>2. \A x \in S : f[x] \in Nat
  BY DEF Counts
<1>3. g \in Counts /\ \A x \in S : g[x] \in Nat /\ g[x] = IF x = n THEN f[n] + 1 ELSE f[x]
  BY <1>2 DEF Counts
<1> HIDE DEF g, S
<1>4. n \in S
  BY DEF S
<1>5. Sum(f, S) = f[n] + Sum(f, R) /\ Sum(g, S) = g[n] + Sum(g, R)
  BY <1>1, <1>2, <1>3, <1>4, SumRemove
<1>6. Sum(f, R) = Sum(g, R)
  <2>1. \A x \in R : f[x] = g[x]
    BY <1>3
  <2> QED
    BY <1>1, <2>1, SumSame
<1>7. Sum(f, R) \in Nat /\ Sum(f, S) \in Nat
  BY <1>1, <1>2, SumIsNat
<1>8. f[n] \in Nat /\ g[n] = f[n] + 1
  BY <1>2, <1>3, <1>4
<1> DEFINE sf == Sum(f, S)
           sg == Sum(g, S)
           sr == Sum(f, R)
<1>9. sf = f[n] + sr /\ sg = g[n] + sr /\ sr \in Nat /\ sf \in Nat
  BY <1>5, <1>6, <1>7
<1> HIDE DEF sf, sg, sr
<1>10. f[n] <= sf /\ sg = sf + 1
  BY ONLY <1>8, <1>9
<1> QED
  BY <1>3, <1>7, <1>8, <1>10 DEF S, g, sf, sg

-----------------------------------------------------------------------------
(* The inductive invariant *)

(* The references that are not those of routes: of lookups and of the walk *)
Held == [n \in AllPrefixes |-> taken[n] + (IF walk = n THEN 1 ELSE 0)]

(* What the walk still has to delete lies ahead of it. *)
WalkAhead ==
  walk # Null => \A n \in Dom(table) : leaving \in Inf(table, n) => n = walk \/ Before(walk, n)

(* The trie is sound, its locks are exact and the walk has skipped nothing. *)
TableInv ==
  /\ Exact(table, Held)
  /\ taken \in Counts /\ Total <= MaxLookups
  /\ walk \in Dom(table) \cup {Null} /\ leaving \in Peers
  /\ WalkAhead

(* The number of lookups is a sum over the prefixes. *)
LEMMA TotalIsSum == Total = Sum(taken, AllPrefixes) /\ Total' = Sum(taken', AllPrefixes)
BY DEF Total, Sum, MapThenSumSet, MapThenFoldSet

(* Held as the proof of a step uses it *)
LEMMA HeldFacts ==
  ASSUME taken \in Counts, Total <= MaxLookups
  PROVE  /\ Held \in Counts
         /\ \A n \in AllPrefixes : /\ Held[n] = IF walk = n THEN taken[n] + 1 ELSE taken[n]
                                   /\ taken[n] \in Nat /\ taken[n] <= Total /\ Total \in Nat
                                   /\ taken[n] <= MaxLookups
<1>1. \A n \in AllPrefixes : taken[n] \in Nat
  BY DEF Counts
<1>2. \A n \in AllPrefixes : taken[n] <= Total /\ Total \in Nat
  BY TotalIsSum, TakenBound
<1>3. \A n \in AllPrefixes : taken[n] <= MaxLookups
  BY <1>1, <1>2, TableAssumption
<1>4. \A n \in AllPrefixes : Held[n] = IF walk = n THEN taken[n] + 1 ELSE taken[n]
  BY <1>1 DEF Held
<1>5. Held \in Counts
  BY <1>1 DEF Held, Counts
<1> QED
  BY <1>1, <1>2, <1>3, <1>4, <1>5

(* An empty table satisfies the invariant. *)
LEMMA InitInv == ASSUME TableInit PROVE TableInv
<1>1. Dom(EmptyTable) = {}
  BY DEF EmptyTable, Dom
<1>2. EmptyTable \in Tables
  <2>1. [n \in {} |-> NewNode] \in [{} -> Node]
    OBVIOUS
  <2>2. [n \in {} |-> NewNode] \in NodeMaps
    BY <2>1 DEF NodeMaps
  <2> QED
    BY <2>2 DEF EmptyTable, Tables
<1>3. Trie(EmptyTable)
  <2>1. EmptyTable.top = Null /\ EmptyTable.count = 0 /\ EmptyTable.aborted = FALSE
    BY DEF EmptyTable
  <2>2. IsFiniteSet({}) /\ Cardinality({}) = 0
    BY FS_EmptySet
  <2> QED
    BY <1>1, <1>2, <2>1, <2>2 DEF Trie, Wired
<1>4. taken \in Counts /\ \A n \in AllPrefixes : taken[n] = 0
  BY DEF TableInit, Counts
<1>5. Total = 0
  <2> DEFINE Q == {S \in SUBSET AllPrefixes : Sum(taken, S) = 0}
  <2>1. {} \in Q
    BY SumEmpty
  <2>2. ASSUME NEW S \in SUBSET AllPrefixes, NEW x \in AllPrefixes \ S, S \in Q
        PROVE  S \cup {x} \in Q
    <3>1. IsFiniteSet(S)
      BY FinitelyMany, FS_Subset
    <3>2. \A y \in S \cup {x} : taken[y] \in Nat
      BY <1>4
    <3>3. Sum(taken, S \cup {x}) = Sum(taken, S) + taken[x]
      BY <3>1, <3>2, SumAdd
    <3>4. Sum(taken, S) = 0 /\ taken[x] = 0
      BY <1>4, <2>2
    <3>5. Sum(taken, S \cup {x}) = 0
      BY ONLY <3>3, <3>4
    <3> QED
      BY <3>5
  <2>3. \A S \in SUBSET AllPrefixes : S \in Q
    <3> HIDE DEF Q
    <3>1. \A S \in SUBSET AllPrefixes : \A x \in AllPrefixes \ S : S \in Q => S \cup {x} \in Q
      BY <2>2
    <3> QED
      BY ONLY <2>1, <3>1, FinitelyMany, SubsetsBySet
  <2> QED
    BY <2>3, TotalIsSum
<1>6. \A n \in AllPrefixes : Held[n] = 0
  BY <1>4, TableAssumption DEF Held, TableInit
<1>7. Exact(EmptyTable, Held)
  BY <1>1, <1>3, <1>6 DEF Exact, Counted
<1> QED
  BY <1>4, <1>5, <1>7, TableAssumption DEF TableInv, TableInit, WalkAhead

(* Every step keeps the invariant.  Update, Withdraw and WalkStart run with *)
(* no walk under way, so a lock never counts more than the routes, the      *)
(* lookups and one reference of the operation itself.                       *)
LEMMA StepInv ==
  ASSUME NoWrap, TableInv, [TableNext]_tableVars
  PROVE  TableInv'
<1>0. /\ Exact(table, Held) /\ taken \in Counts /\ Total <= MaxLookups
      /\ walk \in Dom(table) \cup {Null} /\ leaving \in Peers /\ WalkAhead
  BY DEF TableInv
<1>1. /\ table \in Tables /\ Wired(table) /\ Dom(table) \subseteq AllPrefixes
      /\ Null \notin AllPrefixes /\ Null \notin Dom(table)
  BY <1>0, TableType DEF Exact, Trie
<1>2. /\ Held \in Counts
      /\ \A n \in AllPrefixes : /\ Held[n] = IF walk = n THEN taken[n] + 1 ELSE taken[n]
                                /\ taken[n] \in Nat /\ taken[n] <= Total /\ Total \in Nat
                                /\ taken[n] <= MaxLookups
  BY <1>0, HeldFacts
<1>3. ASSUME taken' = taken PROVE Total' = Total /\ (walk' = walk => Held' = Held)
  BY <1>3, TotalIsSum DEF Held
<1>4. ASSUME NEW p \in Routes, NEW peer \in Peers, Update(p, peer) PROVE TableInv'
  <2>1. walk = Null /\ walk' = Null /\ leaving' = leaving /\ taken' = taken
    BY <1>4 DEF Update, Working
  <2>2. p \in AllPrefixes /\ Held[p] <= MaxLookups
    BY <1>1, <1>2, <2>1, TableAssumption
  <2>3. Exact(table', Held)
    BY <1>0, <1>2, <1>4, <2>2, UpdateExact DEF Update
  <2>4. Held' = Held /\ Total' = Total
    BY <1>3, <2>1
  <2> QED
    BY <1>0, <2>1, <2>3, <2>4 DEF TableInv, WalkAhead
<1>5. ASSUME NEW p \in Routes, NEW peer \in Peers, Withdraw(p, peer) PROVE TableInv'
  <2>1. walk = Null /\ walk' = Null /\ leaving' = leaving /\ taken' = taken
    BY <1>5 DEF Withdraw, Working
  <2>2. p \in AllPrefixes /\ Held[p] <= MaxLookups
    BY <1>1, <1>2, <2>1, TableAssumption
  <2>3. Exact(table', Held)
    BY <1>0, <1>2, <1>5, <2>2, WithdrawExact DEF Withdraw
  <2>4. Held' = Held /\ Total' = Total
    BY <1>3, <2>1
  <2> QED
    BY <1>0, <2>1, <2>3, <2>4 DEF TableInv, WalkAhead
<1>6. ASSUME NEW peer \in Peers, WalkStart(peer) PROVE TableInv'
  <2> DEFINE t == table.top
             g == [Held EXCEPT ![t] = @ + 1]
  <2>1. /\ walk = Null /\ walk' = t /\ leaving' = peer /\ taken' = taken /\ t # Null
        /\ table' = Lock(table, t)
    BY <1>6 DEF WalkStart, Working
  <2>2. t \in Dom(table) /\ t \in AllPrefixes
    BY <1>1, <2>1 DEF Wired
  <2> HIDE DEF t
  <2>3. Held[t] <= MaxLookups
    BY <1>1, <1>2, <2>1, <2>2
  <2>4. Exact(table', g) /\ Frame(table, table') /\ \A m \in Dom(table) : Inf(table', m) = Inf(table, m)
    BY <1>0, <1>2, <2>1, <2>2, <2>3, ExactLock
  <2>5. Held' = g
    <3>1. \A n \in AllPrefixes : taken[n] + (IF t = n THEN 1 ELSE 0) = g[n]
      <4>1. \A n \in AllPrefixes : Held[n] = taken[n] /\ taken[n] \in Nat
        BY <1>1, <1>2, <2>1
      <4> QED
        BY <1>2, <2>2, <4>1 DEF Counts
    <3>2. g = [n \in AllPrefixes |-> g[n]]
      BY <1>2 DEF Counts
    <3>3. Held' = [n \in AllPrefixes |-> taken[n] + (IF t = n THEN 1 ELSE 0)]
      BY <2>1 DEF Held
    <3> HIDE DEF g
    <3> QED
      BY ONLY <3>1, <3>2, <3>3
  <2>6. Total' = Total
    BY <1>3, <2>1
  <2>7. Dom(table') = Dom(table)
    BY <2>4 DEF Frame
  <2>8. WalkAhead'
    <3>1. SUFFICES ASSUME NEW n \in Dom(table) PROVE n = t \/ Before(t, n)
      BY <2>1, <2>7 DEF WalkAhead
    <3>2. IsPrefix(t, n)
      BY <1>1, TopIsPrefix DEF t
    <3> QED
      BY <3>2 DEF Before
  <2> QED
    BY <1>0, <2>1, <2>2, <2>4, <2>5, <2>6, <2>7, <2>8 DEF TableInv
<1>7. ASSUME WalkStep PROVE TableInv'
  <2>1. walk # Null /\ leaving' = leaving /\ taken' = taken /\ walk \in Dom(table) /\ walk \in AllPrefixes
    BY <1>0, <1>1, <1>7 DEF WalkStep
  <2>2. 0 < Held[walk] /\ \A n \in AllPrefixes \ {walk} : Held[n] <= MaxLookups
    BY <1>2, <2>1
  <2>3. TableTurn(table, Held, walk, leaving, walk', table')
    <3>1. table' = Turned(table, walk, leaving) /\ walk' = NextOf(table, walk, leaving)
      BY <1>7 DEF WalkStep, Turned, NextOf, Cleared
    <3> QED
      BY <1>0, <1>2, <2>1, <2>2, <3>1, WalkTurn
  <2>4. PICK g \in Counts :
             /\ Exact(table', g)
             /\ \A n \in AllPrefixes :
                  g[n] = IF n = walk THEN Held[n] - 1 ELSE IF n = walk' THEN Held[n] + 1 ELSE Held[n]
    BY <2>3 DEF TableTurn
  <2>5. Held' = g
    <3>1. \A n \in AllPrefixes : taken[n] + (IF walk' = n THEN 1 ELSE 0) = g[n]
      <4>1. SUFFICES ASSUME NEW n \in AllPrefixes PROVE taken[n] + (IF walk' = n THEN 1 ELSE 0) = g[n]
        OBVIOUS
      <4>2. Held[n] = (IF walk = n THEN taken[n] + 1 ELSE taken[n]) /\ taken[n] \in Nat
        BY <1>2
      <4>3. g[n] = IF n = walk THEN Held[n] - 1 ELSE IF n = walk' THEN Held[n] + 1 ELSE Held[n]
        BY <2>4
      <4>4. walk' # walk
        BY <2>3 DEF TableTurn
      <4> QED
        BY ONLY <4>2, <4>3, <4>4
    <3>2. g = [n \in AllPrefixes |-> g[n]]
      BY DEF Counts
    <3>3. Held' = [n \in AllPrefixes |-> taken[n] + (IF walk' = n THEN 1 ELSE 0)]
      BY <2>1 DEF Held
    <3> QED
      BY ONLY <3>1, <3>2, <3>3
  <2>6. Total' = Total
    BY <1>3, <2>1
  <2>7. walk' \in Dom(table') \cup {Null}
    <3>1. CASE walk' = Null
      BY <3>1
    <3>2. CASE walk' # Null
      <4>1. walk' \in AllPrefixes /\ walk' # walk
        BY <1>1, <2>3, <3>2 DEF TableTurn
      <4>2. Held[walk'] \in Nat /\ g[walk'] = Held[walk'] + 1
        BY <1>2, <2>4, <4>1 DEF Counts
      <4>3. g[walk'] > 0
        BY ONLY <4>2
      <4> QED
        BY <2>4, <4>1, <4>3 DEF Exact, Counted
    <3> QED BY <3>1, <3>2
  <2>8. WalkAhead'
    <3>1. SUFFICES ASSUME NEW n \in Dom(table'), leaving \in Inf(table', n) PROVE n = walk' \/ Before(walk', n)
      BY <2>1 DEF WalkAhead
    <3>2. n \in Dom(table) /\ n # walk /\ leaving \in Inf(table, n)
      BY <2>3, <3>1 DEF TableTurn
    <3>3. Before(walk, n)
      BY <1>0, <2>1, <3>2 DEF WalkAhead
    <3> QED
      BY <2>3, <3>2, <3>3 DEF TableTurn
  <2> QED
    BY <1>0, <2>1, <2>4, <2>5, <2>6, <2>7, <2>8 DEF TableInv
<1>8. ASSUME NEW p \in Addresses, NEW peer \in Peers, Lookup(p, peer) PROVE TableInv'
  <2> DEFINE n == Longest(Matches(table, p, peer))
             g == [Held EXCEPT ![n] = @ + 1]
             f == [taken EXCEPT ![n] = @ + 1]
  <2>1. /\ walk' = walk /\ leaving' = leaving /\ taken' = f /\ Total < MaxLookups
        /\ table' = Lock(table, n) /\ Matches(table, p, peer) # {}
    BY <1>8 DEF Lookup
  <2>2. p \in AllPrefixes
    BY TableAssumption DEF Addresses, AllPrefixes
  <2>3. Matches(table, p, peer) \subseteq Dom(table)
    BY <1>1, <2>2, MatchingIsAll DEF Matches
  <2>4. n \in Dom(table) /\ n \in AllPrefixes
    BY <1>1, <2>1, <2>3, LongestIsLongest
  <2> HIDE DEF n
  <2>5. Held[n] <= MaxLookups
    <3>1. /\ Held[n] = (IF walk = n THEN taken[n] + 1 ELSE taken[n])
          /\ taken[n] \in Nat /\ taken[n] <= Total /\ Total \in Nat
      BY <1>2, <2>4
    <3> QED
      BY <2>1, <3>1, TableAssumption
  <2>6. Exact(table', g) /\ Frame(table, table') /\ \A m \in Dom(table) : Inf(table', m) = Inf(table, m)
    BY <1>0, <1>2, <2>1, <2>4, <2>5, ExactLock
  <2>7. f \in Counts /\ Sum(f, AllPrefixes) = Sum(taken, AllPrefixes) + 1
    BY <1>0, <2>4, TakenBound
  <2>8. Total' = Total + 1
    <3>1. Total' = Sum(f, AllPrefixes) /\ Total = Sum(taken, AllPrefixes)
      BY <2>1, TotalIsSum
    <3> QED
      BY ONLY <2>7, <3>1
  <2>9. Total' <= MaxLookups
    <3>1. Total \in Nat
      BY <1>2, <2>4
    <3> QED
      BY <2>1, <2>8, <3>1, TableAssumption
  <2>10. Held' = g
    <3>1. \A m \in AllPrefixes : f[m] + (IF walk = m THEN 1 ELSE 0) = g[m]
      <4>1. SUFFICES ASSUME NEW m \in AllPrefixes PROVE f[m] + (IF walk = m THEN 1 ELSE 0) = g[m]
        OBVIOUS
      <4>2. Held[m] = (IF walk = m THEN taken[m] + 1 ELSE taken[m]) /\ taken[m] \in Nat
        BY <1>2
      <4>3. f[m] = (IF m = n THEN taken[m] + 1 ELSE taken[m]) /\ g[m] = IF m = n THEN Held[m] + 1 ELSE Held[m]
        BY <1>0, <1>2, <2>4 DEF Counts
      <4> HIDE DEF f, g
      <4> QED
        BY ONLY <4>2, <4>3
    <3>2. g = [m \in AllPrefixes |-> g[m]]
      BY <1>2 DEF Counts
    <3>3. Held' = [m \in AllPrefixes |-> f[m] + (IF walk = m THEN 1 ELSE 0)]
      BY <2>1 DEF Held
    <3> HIDE DEF f, g
    <3> QED
      BY ONLY <3>1, <3>2, <3>3
  <2>11. Dom(table') = Dom(table)
    BY <2>6 DEF Frame
  <2>12. WalkAhead'
    BY <1>0, <2>1, <2>6, <2>11 DEF WalkAhead
  <2> QED
    BY <1>0, <2>1, <2>6, <2>7, <2>9, <2>10, <2>11, <2>12 DEF TableInv
<1>9. ASSUME UNCHANGED tableVars PROVE TableInv'
  <2>1. table' = table /\ walk' = walk /\ leaving' = leaving /\ taken' = taken
    BY <1>9 DEF tableVars
  <2>2. Held' = Held /\ Total' = Total
    BY <1>3, <2>1
  <2> QED
    BY <1>0, <2>1, <2>2 DEF TableInv, WalkAhead
<1> QED
  BY <1>4, <1>5, <1>6, <1>7, <1>8, <1>9 DEF TableNext

(* The invariant holds in every reachable state. *)
LEMMA TableInvHolds == ASSUME NoWrap PROVE TableSpec => []TableInv
<1>1. TableInit => TableInv
  BY InitInv
<1>2. TableInv /\ [TableNext]_tableVars => TableInv'
  BY StepInv
<1> QED
  BY <1>1, <1>2, PTL DEF TableSpec

-----------------------------------------------------------------------------
(* The theorems *)

(* The invariant implies each of the properties. *)
LEMMA SoundInv == ASSUME TableInv PROVE TrieSound
<1>1. /\ table \in Tables /\ Wired(table) /\ table.aborted = FALSE
      /\ IsFiniteSet(Dom(table)) /\ table.count = Cardinality(Dom(table))
  BY DEF TableInv, Exact, Trie
<1>2. /\ Dom(table) \subseteq AllPrefixes /\ table.node \in [Dom(table) -> Node] /\ Nodes = Dom(table)
  BY <1>1, TableType DEF Nodes, Dom
<1>3. TableTypeOK
  <2>1. table.count \in Nat
    BY <1>1, FS_CardinalityType
  <2>2. table.top \in Dom(table) \cup {Null}
    BY <1>1 DEF Wired
  <2>3. taken \in [AllPrefixes -> Nat] /\ walk \in Dom(table) \cup {Null} /\ leaving \in Peers
    BY DEF TableInv, Counts
  <2> QED
    BY <1>1, <1>2, <2>1, <2>2, <2>3 DEF TableTypeOK
<1>4. \A n \in Nodes : \A b \in {0, 1} :
        table.node[n].link[b] # Null =>
          /\ table.node[n].link[b] \in Nodes /\ table.node[table.node[n].link[b]].parent = n
          /\ IsStrictPrefix(n, table.node[n].link[b]) /\ Bit(table.node[n].link[b], n) = b
  BY <1>1, <1>2 DEF Wired, Lnk, Par, IsStrictPrefix
<1>5. \A n \in Nodes : IF table.node[n].parent = Null THEN table.top = n
                       ELSE /\ table.node[n].parent \in Nodes
                            /\ \E b \in {0, 1} : table.node[table.node[n].parent].link[b] = n
  BY <1>1, <1>2 DEF Wired, Lnk, Par
<1> QED
  BY <1>1, <1>2, <1>3, <1>4, <1>5 DEF TrieSound

(* bgp_node_get, bgp_node_delete: whatever is inserted, deleted and walked, *)
(* the links of the trie agree, a child extends its parent by the bit of    *)
(* its link, and table->count is the number of nodes.                       *)
THEOREM TrieStaysSound == ASSUME NoWrap PROVE TableSpec => []TrieSound
BY TableInvHolds, SoundInv, PTL

(* With Held unfolded, the exact locks are those of the property. *)
LEMMA LocksInv == ASSUME TableInv PROVE LocksExact
<1>1. /\ Exact(table, Held) /\ taken \in Counts /\ Total <= MaxLookups
  BY DEF TableInv
<1>2. table \in Tables /\ Dom(table) \subseteq AllPrefixes /\ Nodes = Dom(table)
  BY <1>1, TableType DEF Exact, Trie, Nodes, Dom
<1>3. \A n \in AllPrefixes : /\ taken[n] \in Nat
                             /\ Held[n] = IF walk = n THEN taken[n] + 1 ELSE taken[n]
  BY <1>1, HeldFacts
<1>4. ASSUME NEW n \in Nodes
      PROVE  /\ table.node[n].lock = Cardinality(table.node[n].info) + taken[n]
                                     + (IF walk = n THEN 1 ELSE 0)
             /\ table.node[n].lock = 0 => TwoChildren(table, n)
  <2>1. Lck(table, n) = Cardinality(Inf(table, n)) + Held[n] /\ (Lck(table, n) = 0 => TwoChildren(table, n))
    BY <1>1, <1>2 DEF Exact, Counted
  <2>2. Inf(table, n) \in SUBSET Peers
    BY <1>2, TableType
  <2>3. Cardinality(Inf(table, n)) \in Nat
    BY <2>2, RouteCount
  <2> DEFINE c == Cardinality(Inf(table, n))
  <2>4. c + Held[n] = c + taken[n] + (IF walk = n THEN 1 ELSE 0)
    <3>1. c \in Nat /\ taken[n] \in Nat /\ Held[n] = IF walk = n THEN taken[n] + 1 ELSE taken[n]
      BY <1>2, <1>3, <2>3
    <3> HIDE DEF c
    <3> QED BY ONLY <3>1
  <2> QED
    BY <2>1, <2>4 DEF Lck, Inf
<1>5. ASSUME NEW n \in AllPrefixes, taken[n] > 0 PROVE n \in Nodes
  <2>1. Held[n] > 0
    BY <1>3, <1>5
  <2> QED
    BY <1>1, <1>2, <2>1 DEF Exact, Counted
<1> QED
  BY <1>4, <1>5 DEF LocksExact

(* bgp_lock_node, bgp_unlock_node: no operation loses or keeps a reference, *)
(* and a node without one joins two branches.                               *)
THEOREM LocksStayExact == ASSUME NoWrap PROVE TableSpec => []LocksExact
BY TableInvHolds, LocksInv, PTL

(* What MatchingIsAll says of a search, for a lookup. *)
LEMMA MatchInv == ASSUME TableInv PROVE MatchIsLongest
<1>1. table \in Tables /\ Wired(table) /\ Nodes = Dom(table)
  BY DEF TableInv, Exact, Trie, Nodes, Dom
<1>2. Addresses \subseteq AllPrefixes
  BY TableAssumption DEF Addresses, AllPrefixes
<1>3. \A p \in Addresses : Matching(table, p) = {n \in Nodes : IsPrefix(n, p)}
  BY <1>1, <1>2, MatchingIsAll
<1> QED
  BY <1>3 DEF MatchIsLongest, Matches

(* bgp_node_match: the one path it follows meets every prefix of the        *)
(* address, so what it returns is the longest one that has a route.         *)
THEOREM LookupFindsLongest == ASSUME NoWrap PROVE TableSpec => []MatchIsLongest
BY TableInvHolds, MatchInv, PTL

(* bgp_node_delete: its assertion never fails. *)
THEOREM NoAbort == ASSUME NoWrap PROVE TableSpec => []NeverAborts
<1>1. TableInv => NeverAborts
  BY DEF TableInv, Exact, Trie, NeverAborts
<1> QED
  BY <1>1, TableInvHolds, PTL

(* A step while a walk is under way is a lookup or a turn of the walk. *)
LEMMA WalkingStep ==
  ASSUME NoWrap, TableInv, TableNext, walk # Null
  PROVE  /\ leaving' = leaving
         /\ \/ TableTurn(table, Held, walk, leaving, walk', table')
            \/ /\ walk' = walk /\ taken' # taken
               /\ Dom(table') = Dom(table) /\ \A m \in Dom(table) : Inf(table', m) = Inf(table, m)
<1>0. /\ Exact(table, Held) /\ taken \in Counts /\ Total <= MaxLookups
      /\ walk \in Dom(table) /\ leaving \in Peers /\ WalkAhead
  BY DEF TableInv
<1>1. /\ table \in Tables /\ Wired(table) /\ Dom(table) \subseteq AllPrefixes
  BY <1>0, TableType DEF Exact, Trie
<1>2. /\ Held \in Counts
      /\ \A n \in AllPrefixes : /\ Held[n] = IF walk = n THEN taken[n] + 1 ELSE taken[n]
                                /\ taken[n] \in Nat /\ taken[n] <= Total /\ Total \in Nat
                                /\ taken[n] <= MaxLookups
  BY <1>0, HeldFacts
<1>3. ASSUME WalkStep PROVE leaving' = leaving /\ TableTurn(table, Held, walk, leaving, walk', table')
  <2>1. /\ table' = Turned(table, walk, leaving) /\ walk' = NextOf(table, walk, leaving)
        /\ leaving' = leaving
    BY <1>3 DEF WalkStep, Turned, NextOf, Cleared
  <2>2. 0 < Held[walk] /\ \A n \in AllPrefixes \ {walk} : Held[n] <= MaxLookups
    BY <1>0, <1>1, <1>2
  <2> QED
    BY <1>0, <1>2, <2>1, <2>2, WalkTurn
<1>4. ASSUME NEW p \in Addresses, NEW peer \in Peers, Lookup(p, peer)
      PROVE  /\ leaving' = leaving /\ walk' = walk /\ taken' # taken
             /\ Dom(table') = Dom(table) /\ \A m \in Dom(table) : Inf(table', m) = Inf(table, m)
  <2> DEFINE n == Longest(Matches(table, p, peer))
  <2>1. /\ walk' = walk /\ leaving' = leaving /\ taken' = [taken EXCEPT ![n] = @ + 1] /\ Total < MaxLookups
        /\ table' = Lock(table, n) /\ Matches(table, p, peer) # {}
    BY <1>4 DEF Lookup
  <2>2. p \in AllPrefixes
    BY TableAssumption DEF Addresses, AllPrefixes
  <2>3. Matches(table, p, peer) \subseteq Dom(table)
    BY <1>1, <2>2, MatchingIsAll DEF Matches
  <2>4. n \in Dom(table) /\ n \in AllPrefixes
    BY <1>1, <2>1, <2>3, LongestIsLongest
  <2> HIDE DEF n
  <2>5. /\ Held[n] = (IF walk = n THEN taken[n] + 1 ELSE taken[n])
        /\ taken[n] \in Nat /\ taken[n] <= Total /\ Total \in Nat
    BY <1>2, <2>4
  <2>6. Held[n] <= MaxLookups
    BY <2>1, <2>5, TableAssumption
  <2>7. Frame(table, table') /\ \A m \in Dom(table) : Inf(table', m) = Inf(table, m)
    BY <1>0, <1>2, <2>1, <2>4, <2>6, ExactLock
  <2>8. taken'[n] = taken[n] + 1
    BY <1>0, <2>1, <2>4 DEF Counts
  <2>9. taken' # taken
    BY ONLY <2>5, <2>8
  <2> QED
    BY <2>1, <2>7, <2>9 DEF Frame
<1>5. ASSUME NEW p \in Routes, NEW peer \in Peers, Update(p, peer) \/ Withdraw(p, peer) PROVE FALSE
  BY <1>5 DEF Update, Withdraw, Working
<1>6. ASSUME NEW peer \in Peers, WalkStart(peer) PROVE FALSE
  BY <1>6 DEF WalkStart, Working
<1> QED
  BY <1>3, <1>4, <1>5, <1>6 DEF TableNext

(* bgp_table_info_delete: when its walk ends no route of the peer is left,  *)
(* whatever nodes went away under it, and no other peer lost one.           *)
THEOREM WalkClearsAll == ASSUME NoWrap PROVE TableSpec => WalkClears
<1> DEFINE A == walk # Null =>
                  /\ walk' = Null => \A n \in DOMAIN table'.node : leaving \notin table'.node[n].info
                  /\ \A peer \in Peers \ {leaving} :
                       {n \in Nodes : peer \in table.node[n].info}
                       = {n \in DOMAIN table'.node : peer \in table'.node[n].info}
<1>1. TableInv /\ [TableNext]_tableVars => [A]_tableVars
  <2>1. SUFFICES ASSUME TableInv, TableNext, walk # Null
                 PROVE  /\ walk' = Null => \A n \in Dom(table') : leaving \notin Inf(table', n)
                        /\ \A peer \in Peers \ {leaving} :
                             {n \in Dom(table) : peer \in Inf(table, n)}
                             = {n \in Dom(table') : peer \in Inf(table', n)}
    BY DEF Dom, Inf, Nodes
  <2>2. CASE TableTurn(table, Held, walk, leaving, walk', table')
    <3>1. ASSUME walk' = Null, NEW n \in Dom(table'), leaving \in Inf(table', n) PROVE FALSE
      <4>1. n \in Dom(table) /\ n # walk /\ leaving \in Inf(table, n)
        BY <2>2, <3>1 DEF TableTurn
      <4>2. Before(walk, n)
        BY <2>1, <4>1 DEF TableInv, WalkAhead
      <4> QED
        BY <2>2, <3>1, <4>1, <4>2 DEF TableTurn
    <3>2. ASSUME NEW peer \in Peers \ {leaving}, NEW n
          PROVE  (n \in Dom(table) /\ peer \in Inf(table, n))
                   <=> (n \in Dom(table') /\ peer \in Inf(table', n))
      <4>1. CASE n \in Dom(table')
        BY <2>2, <4>1 DEF TableTurn
      <4>2. CASE n \notin Dom(table')
        BY <2>2, <4>2 DEF TableTurn
      <4> QED BY <4>1, <4>2
    <3> QED
      BY <3>1, <3>2
  <2>3. CASE /\ walk' = walk
             /\ Dom(table') = Dom(table) /\ \A m \in Dom(table) : Inf(table', m) = Inf(table, m)
    BY <2>1, <2>3
  <2> QED
    BY <2>1, <2>2, <2>3, WalkingStep
<1> QED
  BY <1>1, TableInvHolds, PTL DEF TableSpec, WalkClears

(* bgp_route_next: the walk never comes back to a node. *)
THEOREM WalkOnlyAdvances == ASSUME NoWrap PROVE TableSpec => WalkAdvances
<1> DEFINE A == walk # Null /\ walk' # Null /\ taken' = taken => Precedes(walk, walk')
<1>1. TableInv /\ [TableNext]_tableVars => [A]_tableVars
  <2>1. SUFFICES ASSUME TableInv, TableNext, walk # Null, walk' # Null, taken' = taken
                 PROVE  Precedes(walk, walk')
    OBVIOUS
  <2>2. TableTurn(table, Held, walk, leaving, walk', table')
    BY <2>1, WalkingStep
  <2>3. Before(walk, walk') /\ walk' \in Dom(table) /\ walk \in Dom(table)
    BY <2>1, <2>2 DEF TableTurn, TableInv
  <2>4. Dom(table) \subseteq AllPrefixes
    BY <2>1, TableType DEF TableInv, Exact, Trie
  <2> QED
    BY <2>3, <2>4, PrecedesIsBefore
<1> QED
  BY <1>1, TableInvHolds, PTL DEF TableSpec, WalkAdvances

-----------------------------------------------------------------------------
(* High availability *)

Message == [msg : Nat, age : Nat]

LEMMA SeqElements ==
  ASSUME NEW S, NEW q \in Seq(S)
  PROVE  Len(q) \in Nat /\ \A i \in 1..Len(q) : q[i] \in S
  OBVIOUS

LEMMA OlderType ==
  ASSUME NEW q \in Seq(Message)
  PROVE  Aged(q) \in Seq(Message) /\ (q = <<>> => Aged(q) = <<>>)
<1>1. \A i \in 1..Len(q) : q[i] \in Message
  OBVIOUS
<1>2. \A i \in 1..Len(q) : q[i].msg \in Nat /\ q[i].age \in Nat
  BY <1>1 DEF Message
<1>3. \A i \in 1..Len(q) :
        (IF q[i].age > Timeout THEN q[i].age ELSE q[i].age + 1) \in Nat
  BY <1>2
<1>4. \A i \in 1..Len(q) :
        [msg |-> q[i].msg, age |-> IF q[i].age > Timeout THEN q[i].age ELSE q[i].age + 1]
          \in Message
  BY <1>2, <1>3 DEF Message
<1>5. Aged(q) \in [1..Len(q) -> Message] /\ Len(q) \in Nat
  BY <1>4 DEF Aged
<1>6. Aged(q) \in Seq(Message)
  BY <1>5
<1>7. QED BY <1>6 DEF Aged

LEMMA HaTypeInit == HaInit => HaTypeOK
  BY TimesAssumption DEF HaInit, HaTypeOK

LEMMA FreshType ==
  ASSUME HaTypeOK, NEW d \in Daemons, Started(d), up' \in [Daemons -> BOOLEAN],
         UNCHANGED <<received, redis, emitted, kafka>>, faults' \in Nat, died' \subseteq Daemons
  PROVE  HaTypeOK'
<1>1. /\ timestamp_local' \in [Daemons -> Nat]
      /\ daemon_state' \in [Daemons -> BOOLEAN]
      /\ bmp_bgp_forwarding' \in [Daemons -> BOOLEAN]
      /\ old_forwarding' \in [Daemons -> BOOLEAN]
      /\ regenerate_timestamp' \in [Daemons -> BOOLEAN]
      /\ forced_mode' \in [Daemons -> BOOLEAN]
      /\ first' \in [Daemons -> BOOLEAN]
  BY DEF Started, HaTypeOK
<1>2. /\ rpc' \in [Daemons -> {"ready", "keys", "get", "forward", "start", "done"}]
      /\ todo' \in [Daemons -> SUBSET Daemons]
      /\ queue_dumping' \in [Daemons -> BOOLEAN]
      /\ dpc' \in [Daemons -> {"idle", "requested", "dumping", "closing"}]
      /\ pending' \in [Daemons -> Nat]
      /\ asked' \in [Daemons -> {"none", "active", "standby"}]
  BY DEF Started, HaTypeOK
<1>3. queue' \in [Daemons -> Seq([msg : Nat, age : Nat])]
  BY DEF Started, HaTypeOK
<1>4. QED BY <1>1, <1>2, <1>3 DEF HaTypeOK, redis

LEMMA HaTypeStep == HaTypeOK /\ [HaNext]_haVars => HaTypeOK'
<1> SUFFICES ASSUME HaTypeOK, [HaNext]_haVars PROVE HaTypeOK'
  OBVIOUS
<1> USE DEF flags, threads, redis, world
<1>1. ASSUME NEW d \in Daemons, Announce(d) PROVE HaTypeOK'
  <2>1. now' \in Nat /\ timestamp_local' \in [Daemons -> Nat]
    BY <1>1 DEF Announce, HaTypeOK
  <2>2. ttl' \in [Daemons -> 0..ExpTime]
    <3>1. ttl \in [Daemons -> 0..ExpTime] /\ ExpTime \in 0..ExpTime
      BY TimesAssumption DEF HaTypeOK
    <3>2. ttl' = ttl \/ ttl' = [ttl EXCEPT ![d] = ExpTime]
      BY <1>1 DEF Announce
    <3>3. QED BY <3>1, <3>2
  <2>3. stamp' \in [Daemons -> Nat]
    <3>1. stamp \in [Daemons -> Nat] /\ timestamp_local'[d] \in Nat
      BY <2>1 DEF HaTypeOK
    <3>2. stamp' = stamp \/ stamp' = [stamp EXCEPT ![d] = timestamp_local'[d]]
      BY <1>1 DEF Announce
    <3>3. QED BY <3>1, <3>2
  <2>4. QED BY <1>1, <2>1, <2>2, <2>3 DEF Announce, HaTypeOK
<1>2. ASSUME NEW d \in Daemons, Keys(d) PROVE HaTypeOK'
  <2>1. todo' \in [Daemons -> SUBSET Daemons]
    <3>1. todo \in [Daemons -> SUBSET Daemons]
      BY DEF HaTypeOK
    <3>2. PICK K \in SUBSET Daemons : todo' = todo \/ todo' = [todo EXCEPT ![d] = K]
      BY <1>2 DEF Keys
    <3>3. QED BY <3>1, <3>2
  <2>2. QED BY <1>2, <2>1 DEF Keys, HaTypeOK
<1>3. ASSUME NEW d \in Daemons, NEW state \in BOOLEAN, Checked(d, state) PROVE HaTypeOK'
  BY <1>3 DEF Checked, HaTypeOK
<1>4. ASSUME NEW d \in Daemons, NEW k \in Daemons, NextKey(d, k) PROVE HaTypeOK'
  BY <1>4 DEF NextKey, HaTypeOK
<1>5. ASSUME NEW d \in Daemons, NEW k \in Daemons, ReadKeyNil(d, k) PROVE HaTypeOK'
  <2>1. up' \in [Daemons -> BOOLEAN] /\ faults' \in Nat /\ died' \subseteq Daemons
    BY <1>5 DEF ReadKeyNil, HaTypeOK
  <2>2. QED BY <1>5, <2>1, FreshType DEF ReadKeyNil
<1>6. ASSUME NEW d \in Daemons, Forward(d) PROVE HaTypeOK'
  <2>1. bmp_bgp_forwarding' \in [Daemons -> BOOLEAN]
    BY <1>6 DEF Forward, HaTypeOK
  <2>2. QED BY <1>6, <2>1 DEF Forward, HaTypeOK
<1>7. ASSUME NEW d \in Daemons, StartDump(d) PROVE HaTypeOK'
  BY <1>7 DEF StartDump, HaTypeOK
<1>8. ASSUME NEW d \in Daemons, Receive(d) PROVE HaTypeOK'
  <2>1. received[d] + 1 \in Nat
    BY DEF HaTypeOK
  <2>2. received' \in [Daemons -> Nat]
    BY <1>8, <2>1 DEF Receive, HaTypeOK
  <2>3. pending' \in [Daemons -> Nat]
    BY <1>8, <2>1 DEF Receive, HaTypeOK
  <2>4. kafka' \subseteq Nat
    BY <1>8, <2>1 DEF Receive, HaTypeOK
  <2>5. QED BY <1>8, <2>2, <2>3, <2>4 DEF Receive, HaTypeOK
<1>9. ASSUME NEW d \in Daemons, Enqueue(d) PROVE HaTypeOK'
  <2>1. queue' \in [Daemons -> Seq([msg : Nat, age : Nat])]
    <3>1. [msg |-> pending[d], age |-> 0] \in [msg : Nat, age : Nat]
      BY DEF HaTypeOK
    <3>2. QED BY <1>9, <3>1 DEF Enqueue, HaTypeOK
  <2>2. QED BY <1>9, <2>1 DEF Enqueue, HaTypeOK
<1>10. ASSUME NEW d \in Daemons, Pop(d) PROVE HaTypeOK'
  <2>1. queue' \in [Daemons -> Seq([msg : Nat, age : Nat])]
    <3>1. queue \in [Daemons -> Seq(Message)]
      BY DEF HaTypeOK, Message
    <3>2. PICK k \in 1..Len(queue[d]) :
            queue' = [queue EXCEPT ![d] = SubSeq(queue[d], k + 1, Len(queue[d]))]
      BY <1>10 DEF Pop
    <3>3. SubSeq(queue[d], k + 1, Len(queue[d])) \in Seq(Message)
      BY <3>1
    <3>4. QED BY <3>1, <3>2, <3>3 DEF Message
  <2>2. QED BY <1>10, <2>1 DEF Pop, HaTypeOK
<1>11. ASSUME NEW d \in Daemons, DumpBegin(d) \/ DumpEnd(d) PROVE HaTypeOK'
  <2>1. CASE DumpBegin(d)
    BY <2>1 DEF DumpBegin, HaTypeOK
  <2>2. CASE DumpEnd(d)
    BY <2>2 DEF DumpEnd, HaTypeOK
  <2>3. QED BY <1>11, <2>1, <2>2
<1>12. ASSUME NEW d \in Daemons, DumpQueue(d) PROVE HaTypeOK'
  <2>1. kafka' \subseteq Nat
    <3>1. PICK n \in 0..Len(queue[d]) : kafka' = kafka \cup {queue[d][i].msg : i \in 1..n}
      <4>1. Len(queue[d]) \in 0..Len(queue[d])
        BY DEF HaTypeOK
      <4>2. QED BY <1>12, <4>1 DEF DumpQueue
    <3>2. \A i \in 1..n : queue[d][i].msg \in Nat
      <4>1. queue[d] \in Seq([msg : Nat, age : Nat])
        BY DEF HaTypeOK
      <4>2. /\ Len(queue[d]) \in Nat
            /\ \A i \in 1..Len(queue[d]) : queue[d][i] \in [msg : Nat, age : Nat]
        BY <4>1, SeqElements, Zenon
      <4>3. QED BY <4>2
    <3>3. kafka \subseteq Nat
      BY DEF HaTypeOK
    <3>4. QED BY <3>1, <3>2, <3>3
  <2>2. queue' \in [Daemons -> Seq([msg : Nat, age : Nat])]
    BY <1>12 DEF DumpQueue, HaTypeOK
  <2>3. QED BY <1>12, <2>1, <2>2 DEF DumpQueue, HaTypeOK
<1>13. ASSUME NEW d \in Daemons, Signal(d) PROVE HaTypeOK'
  <2>1. faults' \in Nat
    BY <1>13 DEF Signal, Regenerate, ForceState, SetToNormal, Fault, HaTypeOK
  <2>2. CASE Regenerate(d)
    BY <2>1, <2>2 DEF Regenerate, HaTypeOK
  <2>3. ASSUME NEW kind \in {"active", "standby"}, ForceState(d, kind) PROVE HaTypeOK'
    <3>1. forced_mode' \in [Daemons -> BOOLEAN]
      BY <2>3 DEF ForceState, HaTypeOK
    <3>2. daemon_state' \in [Daemons -> BOOLEAN]
      BY <2>3 DEF ForceState, HaTypeOK
    <3>3. asked' \in [Daemons -> {"none", "active", "standby"}]
      BY <2>3 DEF ForceState, HaTypeOK
    <3>4. QED BY <2>1, <2>3, <3>1, <3>2, <3>3 DEF ForceState, HaTypeOK
  <2>4. CASE SetToNormal(d)
    BY <2>1, <2>4 DEF SetToNormal, HaTypeOK
  <2>5. QED BY <1>13, <2>2, <2>3, <2>4 DEF Signal
<1>14. ASSUME NEW d \in Daemons, Crash(d) PROVE HaTypeOK'
  <2>1. up' \in [Daemons -> BOOLEAN] /\ faults' \in Nat /\ died' \subseteq Daemons
    BY <1>14 DEF Crash, Fault, HaTypeOK
  <2>2. QED BY <1>14, <2>1, FreshType DEF Crash
<1>15. ASSUME NEW d \in Daemons, Restart(d) \/ Expire(d) PROVE HaTypeOK'
  <2>1. CASE Restart(d)
    BY <2>1 DEF Restart, HaTypeOK
  <2>2. CASE Expire(d)
    <3>1. ttl' = [ttl EXCEPT ![d] = 0] /\ 0 \in 0..ExpTime
      BY <2>2, TimesAssumption DEF Expire
    <3>2. ttl' \in [Daemons -> 0..ExpTime]
      BY <3>1 DEF HaTypeOK
    <3>3. faults' \in Nat
      BY <2>2 DEF Expire, Fault, HaTypeOK
    <3>4. QED BY <2>2, <3>2, <3>3 DEF Expire, HaTypeOK
  <2>3. QED BY <1>15, <2>1, <2>2
<1>16. CASE Emit \/ RedisDown \/ RedisUp
  <2>1. CASE Emit
    BY <2>1 DEF Emit, HaTypeOK
  <2>2. CASE RedisDown
    <3>1. faults' \in Nat
      BY <2>2 DEF RedisDown, Fault, HaTypeOK
    <3>2. QED BY <2>2, <3>1 DEF RedisDown, HaTypeOK
  <2>3. CASE RedisUp
    BY <2>3 DEF RedisUp, HaTypeOK
  <2>4. QED BY <1>16, <2>1, <2>2, <2>3
<1>17. CASE HaTick
  <2>1. queue' \in [Daemons -> Seq([msg : Nat, age : Nat])]
    BY <1>17, OlderType DEF HaTick, HaTypeOK, Message
  <2>2. ttl' \in [Daemons -> 0..ExpTime]
    BY <1>17, TimesAssumption DEF HaTick, HaTypeOK
  <2>3. QED BY <1>17, <2>1, <2>2 DEF HaTick, HaTypeOK
<1>18. CASE UNCHANGED haVars
  BY <1>18 DEF haVars, HaTypeOK
<1>19. ASSUME NEW d \in Daemons, RedisThread(d) PROVE HaTypeOK'
  BY <1>1, <1>2, <1>3, <1>4, <1>5, <1>6, <1>7, <1>19
     DEF RedisThread, NoOlder, ReadKey, ReadKeyNoReply
<1>20. QED
  BY <1>8, <1>9, <1>10, <1>11, <1>12, <1>13, <1>14, <1>15, <1>16, <1>17, <1>18, <1>19
     DEF HaNext, BmpThread, DumpThread

(* Every variable of every collector keeps its type, whatever happens.     *)
THEOREM HaTypeCorrect == HaSpec => []HaTypeOK
<1>1. QED BY HaTypeInit, HaTypeStep, PTL DEF HaSpec

-----------------------------------------------------------------------------
(***************************************************************************)
(* The inductive invariant of the queue.  What the next dump relies on is  *)
(* old_forwarding, which lags behind the flag only between Forward and     *)
(* StartDump, and the first round, which never dumps and need not: before  *)
(* it ends nothing was enqueued by a collector that is active.             *)
(***************************************************************************)
NoPending(d) == bmp_bgp_forwarding[d] => pending[d] = 0

OldIsForwarding(d) == rpc[d] # "start" /\ old_forwarding[d] => bmp_bgp_forwarding[d]

FirstForwards(d) == first[d] => dpc[d] = "idle" /\ (rpc[d] # "start" => bmp_bgp_forwarding[d])

EmptyUnlessDump(d) ==
  bmp_bgp_forwarding[d] /\ (rpc[d] # "start" \/ old_forwarding[d] \/ first[d])
    /\ dpc[d] \in {"idle", "closing"} => queue[d] = <<>>

QInv(d) == NoPending(d) /\ OldIsForwarding(d) /\ FirstForwards(d) /\ EmptyUnlessDump(d)

QueueInv == \A d \in Daemons : QInv(d)

LEMMA QueueInit == HaInit => QueueInv
  BY DEF HaInit, QueueInv, QInv, NoPending, OldIsForwarding, FirstForwards, EmptyUnlessDump

(* What QueueInv says of collector d depends on these only.                *)
view(d) == <<bmp_bgp_forwarding[d], old_forwarding[d], first[d], rpc[d], dpc[d], queue[d], pending[d]>>

LEMMA SameView ==
  ASSUME NEW d \in Daemons, QInv(d), view(d)' = view(d)
  PROVE  QInv(d)'
  BY DEF QInv, view, NoPending, OldIsForwarding, FirstForwards, EmptyUnlessDump

(* The Redis thread moves on outside Forward and StartDump.                *)
LEMMA RoundStep ==
  ASSUME NEW d \in Daemons, QInv(d),
         bmp_bgp_forwarding'[d] = bmp_bgp_forwarding[d], old_forwarding'[d] = old_forwarding[d],
         first'[d] = first[d], dpc'[d] = dpc[d], pending'[d] = pending[d],
         queue[d] = <<>> => queue'[d] = <<>>,
         rpc[d] # "start", rpc'[d] # "start"
  PROVE  QInv(d)'
  BY DEF QInv, NoPending, OldIsForwarding, FirstForwards, EmptyUnlessDump

LEMMA FreshQueue ==
  ASSUME HaTypeOK, NEW d \in Daemons, Started(d), NEW e \in Daemons, QInv(e)
  PROVE  QInv(e)'
<1>1. CASE e = d
  <2>1. /\ bmp_bgp_forwarding'[d] /\ ~old_forwarding'[d] /\ first'[d] /\ rpc'[d] = "ready"
        /\ dpc'[d] = "idle" /\ queue'[d] = <<>> /\ pending'[d] = 0
    BY DEF Started, HaTypeOK
  <2>2. QED BY <1>1, <2>1 DEF QInv, NoPending, OldIsForwarding, FirstForwards, EmptyUnlessDump
<1>2. CASE e # d
  <2>1. view(e)' = view(e)
    BY <1>2 DEF Started, HaTypeOK, view
  <2>2. QED BY <2>1, SameView
<1>3. QED BY <1>1, <1>2

LEMMA QueueStep ==
  ASSUME ~Overlap, HaTypeOK, QueueInv, [HaNext]_haVars
  PROVE  QueueInv'
<1> SUFFICES ASSUME NEW e \in Daemons PROVE QInv(e)'
  BY DEF QueueInv
<1>0. QInv(e)
  BY DEF QueueInv
<1> USE DEF flags, threads, redis, world
<1>1. ASSUME NEW d \in Daemons,
             \/ Announce(d) \/ Keys(d)
             \/ \E state \in BOOLEAN : rpc[d] = "get" /\ Checked(d, state)
             \/ \E k \in Daemons : NextKey(d, k)
      PROVE  QInv(e)'
  <2>1. CASE e = d /\ ~(\E k \in Daemons : NextKey(d, k))
    <3>1. rpc[d] # "start" /\ rpc'[d] # "start"
      BY <1>1, <2>1 DEF Announce, Keys, Checked, HaTypeOK
    <3>2. UNCHANGED <<bmp_bgp_forwarding, old_forwarding, first, dpc, pending, queue>>
      BY <1>1, <2>1 DEF Announce, Keys, Checked
    <3>3. QED BY <1>0, <2>1, <3>1, <3>2, RoundStep
  <2>2. CASE e # d \/ (\E k \in Daemons : NextKey(d, k))
    <3>1. view(e)' = view(e)
      BY <1>1, <2>2 DEF Announce, Keys, Checked, NextKey, HaTypeOK, view
    <3>2. QED BY <1>0, <3>1, SameView
  <2>3. QED BY <2>1, <2>2
<1>2. ASSUME NEW d \in Daemons, Forward(d) PROVE QInv(e)'
  <2>1. CASE e # d
    <3>1. view(e)' = view(e)
      BY <1>2, <2>1 DEF Forward, HaTypeOK, view
    <3>2. QED BY <1>0, <3>1, SameView
  <2>2. CASE e = d
    <3>1. /\ rpc[d] = "forward" /\ rpc'[d] = "start" /\ pending[d] = 0
          /\ UNCHANGED <<old_forwarding, first, dpc, queue, pending>>
      BY <1>2 DEF Forward, HaTypeOK
    <3>2. old_forwarding[d] \/ first[d] => bmp_bgp_forwarding[d]
      BY <1>0, <2>2, <3>1 DEF QInv, OldIsForwarding, FirstForwards
    <3>3. (old_forwarding[d] \/ first[d]) /\ dpc[d] \in {"idle", "closing"} => queue[d] = <<>>
      BY <1>0, <2>2, <3>1, <3>2 DEF QInv, EmptyUnlessDump
    <3>4. first[d] => dpc[d] = "idle"
      BY <1>0, <2>2 DEF QInv, FirstForwards
    <3>5. QED
      BY <2>2, <3>1, <3>3, <3>4 DEF QInv, NoPending, OldIsForwarding, FirstForwards, EmptyUnlessDump
  <2>3. QED BY <2>1, <2>2
<1>3. ASSUME NEW d \in Daemons, StartDump(d) PROVE QInv(e)'
  <2>1. CASE e # d
    <3>1. view(e)' = view(e)
      BY <1>3, <2>1 DEF StartDump, HaTypeOK, view
    <3>2. QED BY <1>0, <3>1, SameView
  <2>2. CASE e = d
    <3>1. /\ rpc[d] = "start" /\ rpc'[d] = "done" /\ ~first'[d]
          /\ old_forwarding'[d] = bmp_bgp_forwarding[d]
          /\ UNCHANGED <<bmp_bgp_forwarding, queue, pending>>
      BY <1>3 DEF StartDump, HaTypeOK
    <3>2. \/ bmp_bgp_forwarding[d] /\ ~old_forwarding[d] /\ ~first[d] /\ dpc'[d] = "requested"
          \/ ~(bmp_bgp_forwarding[d] /\ ~old_forwarding[d] /\ ~first[d]) /\ dpc'[d] = dpc[d]
      BY <1>3 DEF StartDump, HaTypeOK
    <3>3. bmp_bgp_forwarding[d] /\ dpc'[d] \in {"idle", "closing"} => queue[d] = <<>>
      BY <1>0, <2>2, <3>1, <3>2 DEF QInv, EmptyUnlessDump
    <3>4. bmp_bgp_forwarding[d] => pending[d] = 0
      BY <1>0, <2>2 DEF QInv, NoPending
    <3>5. QED
      BY <2>2, <3>1, <3>3, <3>4 DEF QInv, NoPending, OldIsForwarding, FirstForwards, EmptyUnlessDump
  <2>3. QED BY <2>1, <2>2
<1>4. ASSUME NEW d \in Daemons, Receive(d) PROVE QInv(e)'
  <2>1. UNCHANGED <<bmp_bgp_forwarding, old_forwarding, first, rpc, dpc, queue>>
    BY <1>4 DEF Receive
  <2>2. pending'[e] = pending[e] \/ ~bmp_bgp_forwarding[e]
    BY <1>4 DEF Receive, HaTypeOK
  <2>3. QED
    BY <1>0, <2>1, <2>2 DEF QInv, NoPending, OldIsForwarding, FirstForwards, EmptyUnlessDump
<1>5. ASSUME NEW d \in Daemons, Enqueue(d) PROVE QInv(e)'
  <2>1. UNCHANGED <<bmp_bgp_forwarding, old_forwarding, first, rpc, dpc>>
    BY <1>5 DEF Enqueue
  <2>2. e = d => ~bmp_bgp_forwarding[e] 
    BY <1>0, <1>5 DEF Enqueue, QInv, NoPending
  <2>3. pending'[e] = 0 \/ pending'[e] = pending[e]
    BY <1>5 DEF Enqueue, HaTypeOK
  <2>4. e # d => queue'[e] = queue[e]
    BY <1>5 DEF Enqueue, HaTypeOK
  <2>5. QED
    BY <1>0, <2>1, <2>2, <2>3, <2>4
       DEF QInv, NoPending, OldIsForwarding, FirstForwards, EmptyUnlessDump
<1>6. ASSUME NEW d \in Daemons, Pop(d) PROVE QInv(e)'
  <2>1. UNCHANGED <<bmp_bgp_forwarding, old_forwarding, first, rpc, dpc, pending>>
    BY <1>6 DEF Pop
  <2>2. e = d => queue[e] # <<>>
    BY <1>6 DEF Pop, Discards
  <2>3. e # d => queue'[e] = queue[e]
    BY <1>6 DEF Pop, HaTypeOK
  <2>4. QED
    BY <1>0, <2>1, <2>2, <2>3
       DEF QInv, NoPending, OldIsForwarding, FirstForwards, EmptyUnlessDump
<1>7. ASSUME NEW d \in Daemons, DumpThread(d) PROVE QInv(e)'
  <2>1. UNCHANGED <<bmp_bgp_forwarding, old_forwarding, first, rpc, pending>>
    BY <1>7 DEF DumpThread, DumpBegin, DumpQueue, DumpEnd
  <2>2. CASE e # d
    <3>1. dpc'[e] = dpc[e] /\ queue'[e] = queue[e]
      BY <1>7, <2>2 DEF DumpThread, DumpBegin, DumpQueue, DumpEnd, HaTypeOK
    <3>2. view(e)' = view(e)
      BY <2>1, <3>1 DEF view
    <3>3. QED BY <1>0, <3>2, SameView
  <2>3. CASE e = d
    <3>1. dpc[d] # "idle"
      BY <1>7 DEF DumpThread, DumpBegin, DumpQueue, DumpEnd
    <3>2. ~first[d]
      BY <1>0, <2>3, <3>1 DEF QInv, FirstForwards
    <3>3. \/ dpc'[d] = "dumping"
          \/ queue'[d] = <<>>
          \/ dpc[d] = "closing" /\ queue'[d] = queue[d]
      BY <1>7 DEF DumpThread, DumpBegin, DumpQueue, DumpEnd, HaTypeOK
    <3>4. QED
      BY <1>0, <2>1, <2>3, <3>2, <3>3
         DEF QInv, NoPending, OldIsForwarding, FirstForwards, EmptyUnlessDump
  <2>4. QED BY <2>2, <2>3
<1>8. CASE UNCHANGED <<bmp_bgp_forwarding, old_forwarding, first, rpc, dpc, queue, pending>>
  <2>1. view(e)' = view(e)
    BY <1>8 DEF view
  <2>2. QED BY <1>0, <2>1, SameView
<1>9. ASSUME NEW d \in Daemons, Signal(d) \/ Restart(d) \/ Expire(d) PROVE QInv(e)'
  BY <1>8, <1>9 DEF Signal, Regenerate, ForceState, SetToNormal, Restart, Expire
<1>10. CASE Emit \/ RedisDown \/ RedisUp \/ UNCHANGED haVars
  BY <1>8, <1>10 DEF Emit, RedisDown, RedisUp, haVars
<1>11. CASE HaTick
  <2>1. queue[e] = <<>> => queue'[e] = <<>>
    BY <1>11, OlderType DEF HaTick, HaTypeOK, Message
  <2>2. UNCHANGED <<bmp_bgp_forwarding, old_forwarding, first, dpc, pending>>
    BY <1>11 DEF HaTick
  <2>3. rpc'[e] = rpc[e] \/ (rpc[e] # "start" /\ rpc'[e] # "start")
    BY <1>11 DEF HaTick
  <2>4. QED
    BY <1>0, <2>1, <2>2, <2>3
       DEF QInv, NoPending, OldIsForwarding, FirstForwards, EmptyUnlessDump
<1>12. ASSUME NEW d \in Daemons, Crash(d) \/ \E k \in Daemons : ReadKeyNil(d, k) PROVE QInv(e)'
  <2>1. Started(d)
    BY <1>12 DEF Crash, ReadKeyNil
  <2>2. QED BY <1>0, <2>1, FreshQueue
<1>13. ASSUME NEW d \in Daemons, RedisThread(d) PROVE QInv(e)'
  <2>1. CASE Announce(d) \/ Keys(d)
    BY <1>1, <2>1
  <2>2. CASE NoOlder(d) \/ \E k \in Daemons : ReadKey(d, k) \/ ReadKeyNoReply(d, k)
    <3>1. \/ \E state \in BOOLEAN : rpc[d] = "get" /\ Checked(d, state)
          \/ \E k \in Daemons : NextKey(d, k)
      BY <2>2, Zenon DEF NoOlder, ReadKey, ReadKeyNoReply
    <3>2. QED BY <1>1, <3>1
  <2>3. QED BY <1>2, <1>3, <1>12, <1>13, <2>1, <2>2 DEF RedisThread
<1>14. QED
  BY <1>4, <1>5, <1>6, <1>7, <1>9, <1>10, <1>11, <1>12, <1>13 DEF HaNext, BmpThread

(* When the flag does not change between the BMP/BGP thread's test and its *)
(* bmp_bgp_ha_enqueue(), no message of any cluster stays behind in the     *)
(* queue of an active collector, for any timing of rounds, dumps, signals, *)
(* crashes and failures of Redis and of Kafka.                             *)
THEOREM NothingStranded ==
  ASSUME ~Overlap
  PROVE  HaSpec => []ActiveQueueEmpty
<1>1. HaTypeOK /\ QueueInv /\ [HaNext]_haVars => (HaTypeOK /\ QueueInv)'
  BY HaTypeStep, QueueStep
<1>2. QueueInv => ActiveQueueEmpty
  BY DEF QueueInv, QInv, EmptyUnlessDump, ActiveQueueEmpty
<1>3. QED BY <1>1, <1>2, HaTypeInit, QueueInit, PTL DEF HaSpec

-----------------------------------------------------------------------------
(* High availability: no message is lost *)

(* One fault, and what the failover is designed for: rounds within their   *)
(* second, messages kept for the life of a key, a Kafka that takes them.   *)
Failover ==
  /\ Punctual /\ ~Overlap /\ ~KafkaFails
  /\ MaxQueue = 0 /\ ExpTime <= Timeout
  /\ MaxFaults <= 1 /\ Faults \subseteq {"crash", "redis", "regenerate"}
  /\ \E a, b \in Daemons : a # b

(* A collector's messages come from the router, in order.                  *)
Sound(d) ==
  /\ received[d] <= emitted /\ pending[d] <= received[d]
  /\ \A i \in 1..Len(queue[d]) : queue[d][i].msg \in 1..received[d]

(* Its threads, between the steps they share.                              *)
Round(d) ==
  /\ ~forced_mode[d]
  /\ \A k \in todo[d] : ttl[k] > 0
  /\ rpc[d] # "get" => todo[d] = {}
  /\ dpc[d] = "dumping" => queue_dumping[d]
  /\ timestamp_local[d] <= now /\ stamp[d] <= now
  /\ rpc[d] = "ready" => (first[d] <=> timestamp_local[d] = 0)
  /\ rpc[d] = "done" => ~first[d]
  /\ rpc[d] # "ready" => timestamp_local[d] # 0
  /\ ~up[d] => timestamp_local[d] = 0 /\ rpc[d] = "ready"

Sane == faults \in {0, 1} /\ \A d \in Daemons : Sound(d) /\ Round(d)

KeepsAll(d) ==
  \A m \in 1..emitted :
    m \in kafka \/ received[d] < m \/ pending[d] = m \/ m \in Queued(d)

(* What is left of d's queue to be dumped is not older than n seconds.     *)
Young(d, n) == \A i \in 1..Len(queue[d]) : queue[d][i].msg \in kafka \/ queue[d][i].age <= n

KeyIsOwn(k) == ttl[k] > 0 => timestamp_local[k] # 0 /\ stamp[k] = timestamp_local[k]

(* Until all but those of X have announced themselves no second passes.    *)
FirstSecond(X) ==
  \A d, k \in Daemons \ X :
    timestamp_local[k] = 0 /\ rpc[d] = "ready" => timestamp_local[d] = 0

Oldest(d, X) ==
  \A k \in Daemons \ X :
    timestamp_local[k] # 0 => timestamp_local[d] # 0 /\ timestamp_local[d] <= timestamp_local[k]

Leads(d) ==
  /\ bmp_bgp_forwarding[d] /\ daemon_state[d]
  /\ \A m \in 1..received[d] : m \in kafka

Undisturbed ==
  /\ redis_up
  /\ \A d \in Daemons :
       /\ up[d] /\ KeyIsOwn(d) /\ KeepsAll(d) /\ Young(d, 0)
       /\ Oldest(d, {}) => Leads(d)
       /\ regenerate_timestamp[d] =>
            faults = 1 /\ \A e \in Daemons : regenerate_timestamp[e] => e = d
  /\ FirstSecond({})

(* In this second d is in stand-by, or may yet be.                         *)
Passive(d) ==
  \/ rpc[d] = "forward" /\ ~daemon_state[d]
  \/ rpc[d] \in {"start", "done"} /\ ~bmp_bgp_forwarding[d]
  \/ ~redis_up /\ todo[d] # {}

Blocks(x, d) ==
  ttl[x] > 0 /\ (timestamp_local[d] = 0 \/ stamp[x] < timestamp_local[d])

InTimeToDump(d, X) ==
  \/ dpc[d] = "dumping"
  \/ /\ Young(d, Timeout)
     /\ Passive(d) => Young(d, Timeout - 1)
     /\ \A x \in X : Blocks(x, d) => Young(d, Timeout - ttl[x])

Heir(d, X) == KeepsAll(d) /\ InTimeToDump(d, X)

Disturbed(X) ==
  /\ faults = 1
  /\ \A x, y \in X : x = y
  /\ \A d \in Daemons : ~regenerate_timestamp[d]
  /\ \A d \in Daemons \ X :
       /\ up[d] /\ KeyIsOwn(d)
       /\ Oldest(d, X) => Heir(d, X)
  /\ FirstSecond(X)
  /\ \A x \in X, k \in Daemons \ X :
       /\ up[x] => timestamp_local[k] # 0
       /\ timestamp_local[k] <= timestamp_local[x] \/ timestamp_local[x] = 0

(* What an action of the message threads, or Emit, leaves alone.           *)
RoundSame ==
  UNCHANGED <<up, flags, rpc, todo, queue_dumping, redis, faults>>

MessageAction(d) == Receive(d) \/ Enqueue(d) \/ Pop(d) \/ DumpQueue(d)

LEMMA FailoverNumbers ==
  ASSUME Failover
  PROVE  /\ ExpTime \in Nat /\ Timeout \in Nat /\ 1 <= ExpTime /\ ExpTime <= Timeout
         /\ "expiry" \notin Faults /\ "active" \notin Faults /\ "standby" \notin Faults
         /\ "normal" \notin Faults
  BY TimesAssumption DEF Failover

LEMMA QueueTypes ==
  ASSUME HaTypeOK, NEW d \in Daemons, NEW i \in 1..Len(queue[d])
  PROVE  queue[d][i].msg \in Nat /\ queue[d][i].age \in Nat
<1>1. queue[d] \in Seq(Message)
  BY DEF HaTypeOK, Message
<1>2. queue[d][i] \in Message
  BY <1>1, SeqElements
<1> QED BY <1>2 DEF Message

(* Pop removes messages that are older than Timeout, from the head.        *)
LEMMA PopCuts ==
  ASSUME HaTypeOK, Failover, NEW d \in Daemons, Pop(d)
  PROVE  \E k \in 1..Len(queue[d]) :
           /\ queue' = [queue EXCEPT ![d] = SubSeq(queue[d], k + 1, Len(queue[d]))]
           /\ \A i \in 1..k : queue[d][i].age > Timeout
<1> DEFINE q == queue[d]
<1>1. q \in Seq(Message) /\ Len(q) \in Nat
  BY DEF HaTypeOK, Message
<1>2. PICK k \in 1..Len(q) :
        /\ \A i \in 1..(k - 1) : Discards(SubSeq(q, i + 1, Len(q)))
        /\ queue' = [queue EXCEPT ![d] = SubSeq(@, k + 1, Len(@))]
  BY DEF Pop
<1>3. Discards(q)
  BY DEF Pop
<1> HIDE DEF q
<1>4. ASSUME NEW i \in 1..k PROVE q[i].age > Timeout
  <2>1. CASE i = 1
    BY <1>1, <1>3, <2>1 DEF Discards, Failover
  <2>2. CASE i # 1
    <3>1. i - 1 \in 1..(k - 1) /\ (i - 1) + 1 = i
      BY <1>1, <2>2
    <3>2. Discards(SubSeq(q, i, Len(q)))
      BY <1>2, <3>1
    <3>3. Head(SubSeq(q, i, Len(q))) = q[i]
      BY <1>1
    <3> QED BY <3>2, <3>3 DEF Discards, Failover
  <2> QED BY <2>1, <2>2
<1> QED BY <1>2, <1>4 DEF q

(* A collector's queue after a step of one of its message threads.         *)
LEMMA QueueAfter ==
  ASSUME HaTypeOK, Failover, NEW d \in Daemons, MessageAction(d)
  PROVE  /\ \A e \in Daemons \ {d} : queue'[e] = queue[e] /\ received'[e] = received[e]
                                     /\ pending'[e] = pending[e] /\ dpc'[e] = dpc[e]
         /\ kafka \subseteq kafka'
         /\ emitted' = emitted
         /\ RoundSame
         /\ dpc'[d] = dpc[d] \/ (dpc'[d] = "closing" /\ queue'[d] = <<>>)
<1> USE DEF HaTypeOK, RoundSame, flags, redis, world
<1>1. CASE Receive(d)
  BY <1>1 DEF Receive
<1>2. CASE Enqueue(d)
  BY <1>2 DEF Enqueue
<1>3. CASE Pop(d)
  <2>1. \E q : queue' = [queue EXCEPT ![d] = q]
    BY <1>3, PopCuts
  <2> QED BY <1>3, <2>1 DEF Pop
<1>4. CASE DumpQueue(d)
  BY <1>4 DEF DumpQueue
<1> QED BY <1>1, <1>2, <1>3, <1>4 DEF MessageAction

(* What is in the queue after one of these steps was there or is new, and  *)
(* what has left it was old or is with Kafka.                              *)
LEMMA QueueChange ==
  ASSUME HaTypeOK, Failover, NEW d \in Daemons, MessageAction(d)
  PROVE  /\ \A j \in 1..Len(queue'[d]) :
              \/ \E i \in 1..Len(queue[d]) : queue'[d][j] = queue[d][i]
              \/ pending[d] # 0 /\ queue'[d][j] = [msg |-> pending[d], age |-> 0]
         /\ \A i \in 1..Len(queue[d]) :
              \/ \E j \in 1..Len(queue'[d]) : queue'[d][j] = queue[d][i]
              \/ queue[d][i].msg \in kafka'
              \/ queue[d][i].age > Timeout /\ Pop(d)
<1> DEFINE q == queue[d]
<1>0. q \in Seq(Message) /\ Len(q) \in Nat
  BY DEF HaTypeOK, Message
<1>1. CASE queue'[d] = q
  BY <1>1
<1>2. CASE Enqueue(d)
  <2>1. queue'[d] = Append(q, [msg |-> pending[d], age |-> 0]) /\ pending[d] # 0
    BY <1>2 DEF Enqueue, HaTypeOK
  <2> HIDE DEF q
  <2>2. /\ Len(queue'[d]) = Len(q) + 1
        /\ \A i \in 1..Len(q) : queue'[d][i] = q[i]
        /\ queue'[d][Len(q) + 1] = [msg |-> pending[d], age |-> 0]
    BY <1>0, <2>1
  <2>3. \A j \in 1..Len(queue'[d]) : j \in 1..Len(q) \/ j = Len(q) + 1
    BY <1>0, <2>2
  <2>4. \A i \in 1..Len(q) : i \in 1..Len(queue'[d])
    BY <1>0, <2>2
  <2> QED BY <2>1, <2>2, <2>3, <2>4 DEF q
<1>3. CASE Pop(d)
  <2>1. PICK k \in 1..Len(q) :
          /\ queue' = [queue EXCEPT ![d] = SubSeq(q, k + 1, Len(q))]
          /\ \A i \in 1..k : q[i].age > Timeout
    BY <1>3, PopCuts
  <2>2. queue'[d] = SubSeq(q, k + 1, Len(q))
    BY <2>1 DEF HaTypeOK
  <2> HIDE DEF q
  <2>3. /\ Len(queue'[d]) = Len(q) - k
        /\ \A j \in 1..(Len(q) - k) : queue'[d][j] = q[j + k]
    BY <1>0, <2>2
  <2>4. \A j \in 1..Len(queue'[d]) : j + k \in 1..Len(q)
    BY <1>0, <2>3
  <2>5. ASSUME NEW i \in 1..Len(q), i \notin 1..k
        PROVE  \E j \in 1..Len(queue'[d]) : queue'[d][j] = q[i]
    <3>1. i - k \in 1..Len(queue'[d]) /\ (i - k) + k = i
      BY <1>0, <2>3, <2>5
    <3> QED BY <2>3, <3>1
  <2> QED BY <1>3, <2>1, <2>3, <2>4, <2>5 DEF q
<1>4. CASE DumpQueue(d)
  <2>1. queue'[d] = <<>> /\ kafka' = kafka \cup {q[i].msg : i \in 1..Len(q)}
    BY <1>4 DEF DumpQueue, HaTypeOK, Failover
  <2> QED BY <2>1
<1>5. CASE Receive(d)
  BY <1>1, <1>5 DEF Receive
<1> QED BY <1>2, <1>3, <1>4, <1>5 DEF MessageAction

(* What the other daemons, and the threads of this one, hold on to.        *)
LEMMA HoldsKept ==
  ASSUME HaTypeOK, Failover, Sane, NEW d \in Daemons, MessageAction(d),
         NEW e \in Daemons, KeepsAll(e), Pop(e) => Young(e, Timeout)
  PROVE  KeepsAll(e)'
<1> SUFFICES ASSUME NEW m \in 1..emitted'
             PROVE  m \in kafka' \/ received'[e] < m \/ pending'[e] = m \/ m \in Queued(e)'
  BY DEF KeepsAll
<1>1. /\ \A x \in Daemons \ {d} : queue'[x] = queue[x] /\ received'[x] = received[x]
                                  /\ pending'[x] = pending[x]
      /\ kafka \subseteq kafka' /\ emitted' = emitted
  BY QueueAfter
<1>2. m \in kafka \/ received[e] < m \/ pending[e] = m \/ m \in Queued(e)
  BY <1>1 DEF KeepsAll
<1>3. CASE e # d
  BY <1>1, <1>2, <1>3 DEF Queued
<1>4. CASE e = d
  <2>1. CASE m \in Queued(d)
    <3>1. PICK i \in 1..Len(queue[d]) : queue[d][i].msg = m
      BY <2>1 DEF Queued
    <3>2. CASE \E j \in 1..Len(queue'[d]) : queue'[d][j] = queue[d][i]
      BY <1>4, <3>1, <3>2 DEF Queued
    <3>3. CASE queue[d][i].age > Timeout /\ Pop(d)
      <4>1. queue[d][i].msg \in kafka \/ queue[d][i].age <= Timeout
        BY <1>4, <3>3 DEF Young
      <4>2. queue[d][i].age \in Nat /\ Timeout \in Nat
        <5>2. queue[d][i].age \in Nat
          BY <3>1, QueueTypes
        <5>3. Timeout \in Nat
          BY FailoverNumbers
        <5> QED BY <5>2, <5>3
      <4> QED BY <1>1, <3>1, <3>3, <4>1, <4>2
    <3> QED BY <3>1, <3>2, <3>3, QueueChange
  <2>2. CASE received[d] < m
    <3>1. CASE Receive(d)
      <4>1. received'[d] = received[d] + 1 /\ received[d] \in Nat /\ m \in Nat
        BY <1>1, <3>1 DEF Receive, HaTypeOK
      <4>2. received'[d] \in kafka' \/ pending'[d] = received'[d]
        BY <3>1, <4>1 DEF Receive, HaTypeOK
      <4> QED BY <1>4, <2>2, <4>1, <4>2
    <3>2. CASE Enqueue(d) \/ Pop(d) \/ DumpQueue(d)
      BY <1>4, <2>2, <3>2 DEF Enqueue, Pop, DumpQueue
    <3> QED BY <3>1, <3>2 DEF MessageAction
  <2>3. CASE pending[d] = m
    <3>1. m # 0
      BY <1>1 DEF HaTypeOK
    <3>2. CASE Enqueue(d)
      <4>1. queue'[d] = Append(queue[d], [msg |-> m, age |-> 0])
        BY <2>3, <3>2 DEF Enqueue, HaTypeOK
      <4>2. /\ Len(queue[d]) + 1 \in 1..Len(queue'[d])
            /\ queue'[d][Len(queue[d]) + 1] = [msg |-> m, age |-> 0]
        <5>1. queue[d] \in Seq([msg : Nat, age : Nat]) /\ Len(queue[d]) \in Nat
          BY DEF HaTypeOK
        <5> QED BY <4>1, <5>1
      <4>3. m \in {queue'[d][i].msg : i \in 1..Len(queue'[d])}
        BY <4>2
      <4> QED BY <1>4, <4>3 DEF Queued
    <3>3. CASE Pop(d) \/ DumpQueue(d)
      BY <1>4, <2>3, <3>3 DEF Pop, DumpQueue
    <3>4. ~Receive(d)
      BY <2>3, <3>1 DEF Receive
    <3> QED BY <3>2, <3>3, <3>4 DEF MessageAction
  <2> QED BY <1>1, <1>2, <1>4, <2>1, <2>2, <2>3
<1> QED BY <1>3, <1>4

LEMMA YoungKept ==
  ASSUME HaTypeOK, Failover, NEW d \in Daemons, MessageAction(d),
         NEW e \in Daemons, NEW n \in Nat, Young(e, n)
  PROVE  Young(e, n)'
<1>1. /\ \A x \in Daemons \ {d} : queue'[x] = queue[x]
      /\ kafka \subseteq kafka'
  BY QueueAfter
<1>2. CASE e # d
  BY <1>1, <1>2 DEF Young
<1>3. CASE e = d
  <2> SUFFICES ASSUME NEW j \in 1..Len(queue'[d])
               PROVE  queue'[d][j].msg \in kafka' \/ queue'[d][j].age <= n
    BY <1>3 DEF Young
  <2>1. CASE \E i \in 1..Len(queue[d]) : queue'[d][j] = queue[d][i]
    BY <1>1, <1>3, <2>1 DEF Young
  <2>2. CASE queue'[d][j] = [msg |-> pending[d], age |-> 0]
    BY <2>2
  <2> QED BY <2>1, <2>2, QueueChange
<1> QED BY <1>2, <1>3

-----------------------------------------------------------------------------
LEMMA SaneMessage ==
  ASSUME HaTypeOK, Failover, Sane, NEW d \in Daemons, MessageAction(d)
  PROVE  Sane'
<1>1. /\ \A x \in Daemons \ {d} : queue'[x] = queue[x] /\ received'[x] = received[x]
                                  /\ pending'[x] = pending[x] /\ dpc'[x] = dpc[x]
      /\ emitted' = emitted
      /\ dpc'[d] = dpc[d] \/ dpc'[d] = "closing"
      /\ RoundSame
  BY QueueAfter
<1>2. ASSUME NEW e \in Daemons PROVE Round(e)'
  BY <1>1, <1>2 DEF Sane, Round, RoundSame, flags, redis
<1>3. ASSUME NEW e \in Daemons, e # d PROVE Sound(e)'
  BY <1>1, <1>3 DEF Sane, Sound
<1>4. Sound(d)'
  <2>1. Sound(d) /\ received[d] \in Nat /\ pending[d] \in Nat /\ emitted \in Nat
    BY DEF Sane, HaTypeOK
  <2>2. received[d] <= received'[d] /\ received'[d] <= emitted /\ received'[d] \in Nat
        /\ pending'[d] <= received'[d]
    BY <2>1 DEF MessageAction, Receive, Enqueue, Pop, DumpQueue, HaTypeOK, Sound
  <2>3. ASSUME NEW j \in 1..Len(queue'[d]) PROVE queue'[d][j].msg \in 1..received'[d]
    <3>1. CASE \E i \in 1..Len(queue[d]) : queue'[d][j] = queue[d][i]
      BY <2>1, <2>2, <3>1 DEF Sound
    <3>2. CASE pending[d] # 0 /\ queue'[d][j] = [msg |-> pending[d], age |-> 0]
      BY <2>1, <2>2, <3>2 DEF Sound
    <3> QED BY <3>1, <3>2, QueueChange
  <2> QED BY <1>1, <2>2, <2>3 DEF Sound
<1> QED BY <1>1, <1>2, <1>3, <1>4 DEF Sane, RoundSame

(* Steps that leave the messages alone.                                    *)
MessagesSame == UNCHANGED <<received, pending, queue, emitted, kafka>>

LEMMA SoundSame ==
  ASSUME Sane, UNCHANGED <<received, pending, queue, emitted>>
  PROVE  \A e \in Daemons : Sound(e)'
  BY DEF Sane, Sound

RoundAction(d) ==
  \/ Announce(d) \/ Keys(d) \/ NoOlder(d) \/ Forward(d) \/ StartDump(d)
  \/ \E k \in Daemons : ReadKey(d, k) \/ ReadKeyNoReply(d, k)

LEMMA SaneRound ==
  ASSUME HaTypeOK, Failover, Sane, NEW d \in Daemons, RoundAction(d)
  PROVE  Sane'
<1> USE DEF flags, threads, redis, world
<1>1. UNCHANGED <<received, pending, queue, emitted, faults>>
  BY DEF RoundAction, Announce, Keys, NoOlder, Forward, StartDump, ReadKey, ReadKeyNoReply,
         Checked, NextKey
<1>2. ASSUME NEW e \in Daemons PROVE Round(e)'
  <2>0. Round(e) /\ Round(d)
    BY DEF Sane
  <2>1. CASE Announce(d)
    <3>1. timestamp_local[e] \in Nat /\ stamp[e] \in Nat /\ now \in Nat /\ ExpTime \in Nat \ {0}
      BY TimesAssumption DEF HaTypeOK
    <3>2. /\ now' \in Nat /\ now <= now' /\ timestamp_local'[e] <= now'
          /\ timestamp_local'[d] # 0
          /\ e # d => timestamp_local'[e] = timestamp_local[e]
      BY <2>0, <2>1, <3>1 DEF Announce, Round, HaTypeOK
    <3>3. stamp'[e] <= now'
      BY <2>0, <2>1, <3>1, <3>2 DEF Announce, Round, HaTypeOK
    <3>4. \A k \in todo'[e] : ttl'[k] > 0
      <4>1. todo' = todo /\ \A k \in Daemons : ttl'[k] = ttl[k] \/ ttl'[k] = ExpTime
        BY <2>1 DEF Announce, HaTypeOK
      <4>2. todo[e] \subseteq Daemons
        BY DEF HaTypeOK
      <4> QED BY <2>0, <3>1, <4>1, <4>2 DEF Round
    <3>5. rpc'[d] = "keys" /\ (e # d => rpc'[e] = rpc[e])
      BY <2>1 DEF Announce, HaTypeOK
    <3>6. UNCHANGED <<up, forced_mode, dpc, queue_dumping, first, todo>> /\ up[d] /\ rpc[d] = "ready"
      BY <2>1 DEF Announce
    <3>7. e = d => todo[e] = {}
      BY <2>0, <3>6 DEF Round
    <3> QED BY <2>0, <3>2, <3>3, <3>4, <3>5, <3>6, <3>7 DEF Round
  <2>2. CASE Keys(d)
    <3>1. ttl' = ttl /\ \A k \in todo'[d] : ttl[k] > 0
      BY <2>0, <2>2 DEF Keys, HaTypeOK, Round
    <3> QED BY <2>0, <2>2, <3>1 DEF Keys, Round, HaTypeOK
  <2>3. CASE NoOlder(d)
    <3>1. Checked(d, TRUE) /\ up[d] /\ rpc[d] = "get"
      BY <2>3 DEF NoOlder
    <3>2. /\ rpc' = [rpc EXCEPT ![d] = "forward"] /\ todo' = [todo EXCEPT ![d] = {}]
          /\ UNCHANGED <<up, timestamp_local, forced_mode, first, dpc, queue_dumping, ttl, stamp, now>>
      BY <3>1 DEF Checked
    <3> QED BY <2>0, <3>1, <3>2 DEF Round, HaTypeOK
  <2>4. CASE Forward(d)
    BY <2>0, <2>4 DEF Forward, Round, HaTypeOK
  <2>5. CASE StartDump(d)
    BY <2>0, <2>5 DEF StartDump, Round, HaTypeOK
  <2>6. ASSUME NEW k \in Daemons, ReadKey(d, k) \/ ReadKeyNoReply(d, k) PROVE Round(e)'
    <3>1. CASE \E state \in BOOLEAN : up[d] /\ rpc[d] = "get" /\ Checked(d, state)
      <4>1. /\ rpc' = [rpc EXCEPT ![d] = "forward"] /\ todo' = [todo EXCEPT ![d] = {}]
            /\ UNCHANGED <<up, timestamp_local, forced_mode, first, dpc, queue_dumping, ttl, stamp, now>>
        BY <3>1 DEF Checked
      <4> QED BY <2>0, <3>1, <4>1 DEF Round, HaTypeOK
    <3>2. CASE up[d] /\ rpc[d] = "get" /\ NextKey(d, k)
      BY <2>0, <3>2 DEF NextKey, Round, HaTypeOK
    <3> QED BY <2>6, <3>1, <3>2, Zenon DEF ReadKey, ReadKeyNoReply
  <2> QED BY <2>1, <2>2, <2>3, <2>4, <2>5, <2>6 DEF RoundAction
<1> QED BY <1>1, <1>2, SoundSame DEF Sane

(* What a round changes after the announcement.                            *)
LEMMA RoundFrame ==
  ASSUME HaTypeOK, NEW d \in Daemons, RoundAction(d), ~Announce(d)
  PROVE  /\ MessagesSame
         /\ UNCHANGED <<up, timestamp_local, regenerate_timestamp, redis_up, ttl, stamp, faults>>
         /\ \A e \in Daemons \ {d} :
              /\ bmp_bgp_forwarding'[e] = bmp_bgp_forwarding[e] /\ daemon_state'[e] = daemon_state[e]
              /\ rpc'[e] = rpc[e] /\ todo'[e] = todo[e]
         /\ \A e \in Daemons : dpc[e] = "dumping" => dpc'[e] = "dumping"
         /\ rpc[d] # "ready" /\ rpc'[d] # "ready"
<1> USE DEF flags, threads, redis, world, MessagesSame
<1> DEFINE Goal ==
      /\ MessagesSame
      /\ UNCHANGED <<up, timestamp_local, regenerate_timestamp, redis_up, ttl, stamp, faults>>
      /\ \A e \in Daemons \ {d} :
           /\ bmp_bgp_forwarding'[e] = bmp_bgp_forwarding[e] /\ daemon_state'[e] = daemon_state[e]
           /\ rpc'[e] = rpc[e] /\ todo'[e] = todo[e]
      /\ \A e \in Daemons : dpc[e] = "dumping" => dpc'[e] = "dumping"
      /\ rpc[d] # "ready" /\ rpc'[d] # "ready"
<1>1. CASE Keys(d)
  BY <1>1 DEF Keys, HaTypeOK
<1>2. ASSUME rpc[d] = "get", Checked(d, TRUE) \/ Checked(d, FALSE) PROVE Goal
  BY <1>2 DEF Checked, HaTypeOK
<1>3. ASSUME rpc[d] = "get", NEW k \in Daemons, NextKey(d, k) PROVE Goal
  BY <1>3 DEF NextKey, HaTypeOK
<1>4. CASE Forward(d)
  BY <1>4 DEF Forward, HaTypeOK
<1>5. CASE StartDump(d)
  BY <1>5 DEF StartDump, HaTypeOK
<1> HIDE DEF Goal
<1>6. ASSUME NEW k \in Daemons, ReadKey(d, k) \/ ReadKeyNoReply(d, k) PROVE Goal
  <2>1. rpc[d] = "get"
    BY <1>6 DEF ReadKey, ReadKeyNoReply
  <2>2. Checked(d, FALSE) \/ NextKey(d, k)
    BY <1>6, Zenon DEF ReadKey, ReadKeyNoReply
  <2>3. CASE Checked(d, FALSE)
    BY <1>2, <2>1, <2>3
  <2>4. CASE NextKey(d, k)
    BY <1>3, <1>6, <2>1, <2>4
  <2> QED BY <2>2, <2>3, <2>4
<1>7. ASSUME NoOlder(d) PROVE Goal
  BY <1>2, <1>7 DEF NoOlder
<1>8. Goal
  BY <1>1, <1>4, <1>5, <1>6, <1>7 DEF RoundAction, Goal
<1> QED BY <1>8 DEF Goal

(* A collector that starts, or stops.                                      *)
LEMMA SaneCrash ==
  ASSUME HaTypeOK, Failover, Sane, NEW d \in Daemons, Crash(d)
  PROVE  Sane'
<1>1. /\ faults' = faults + 1 /\ faults < 1
      /\ UNCHANGED <<received, redis, emitted, kafka>>
  BY TimesAssumption DEF Crash, Fault, Failover, Sane
<1>2. ASSUME NEW e \in Daemons PROVE Round(e)'
  <2>0. Round(e) /\ now \in Nat
    BY DEF Sane, HaTypeOK
  <2>1. CASE e = d
    BY <1>1, <2>0, <2>1 DEF Crash, Started, Round, HaTypeOK, redis
  <2>2. CASE e # d
    BY <1>1, <2>0, <2>2 DEF Crash, Started, Round, HaTypeOK, redis
  <2> QED BY <2>1, <2>2
<1>3. ASSUME NEW e \in Daemons PROVE Sound(e)'
  <2>0. Sound(e) /\ received[e] \in Nat
    BY DEF Sane, HaTypeOK
  <2>1. CASE e = d
    <3>1. pending'[d] = 0 /\ queue'[d] = <<>>
      BY DEF Crash, Started, HaTypeOK
    <3> QED BY <1>1, <2>0, <2>1, <3>1 DEF Sound
  <2>2. CASE e # d
    <3>1. pending'[e] = pending[e] /\ queue'[e] = queue[e]
      BY <2>2 DEF Crash, Started, HaTypeOK
    <3> QED BY <1>1, <2>0, <3>1 DEF Sound
  <2> QED BY <2>1, <2>2
<1> QED BY <1>1, <1>2, <1>3 DEF Sane

LEMMA SaneRestart ==
  ASSUME HaTypeOK, Failover, Sane, NEW d \in Daemons, Restart(d)
  PROVE  Sane'
<1> USE DEF flags, redis, world
<1>1. ASSUME NEW e \in Daemons PROVE Round(e)'
  BY <1>1 DEF Restart, Sane, Round, HaTypeOK
<1>2. ASSUME NEW e \in Daemons PROVE Sound(e)'
  <2>0. Sound(e) /\ received[e] \in Nat /\ emitted \in Nat /\ pending[e] \in Nat
    BY DEF Sane, HaTypeOK
  <2>1. received'[e] = received[e] \/ received'[e] = emitted
    BY DEF Restart, HaTypeOK
  <2>2. UNCHANGED <<pending, queue, emitted>>
    BY DEF Restart
  <2>3. received'[e] \in Nat /\ received[e] <= received'[e] /\ received'[e] <= emitted
    BY <2>0, <2>1 DEF Sound
  <2>4. \A i \in 1..Len(queue[e]) : queue[e][i].msg \in 1..received'[e]
    BY <2>0, <2>3 DEF Sound
  <2> QED BY <2>0, <2>2, <2>3, <2>4 DEF Sound
<1> QED BY <1>1, <1>2 DEF Restart, Sane

LEMMA AgedQueue ==
  ASSUME HaTypeOK, HaTick, NEW e \in Daemons
  PROVE  /\ Len(queue'[e]) = Len(queue[e])
         /\ \A i \in 1..Len(queue[e]) :
              /\ queue'[e][i].msg = queue[e][i].msg
              /\ queue'[e][i].age = IF queue[e][i].age > Timeout THEN queue[e][i].age
                                    ELSE queue[e][i].age + 1
         /\ Queued(e)' = Queued(e)
<1>1. queue'[e] = Aged(queue[e]) /\ queue[e] \in Seq(Message) /\ Len(queue[e]) \in Nat
  BY DEF HaTick, HaTypeOK, Message
<1>2. Aged(queue[e]) \in Seq(Message)
  BY <1>1, OlderType
<1>3. Len(Aged(queue[e])) = Len(queue[e])
  BY <1>1, <1>2 DEF Aged
<1>4. \A i \in 1..Len(queue[e]) :
         /\ queue'[e][i].msg = queue[e][i].msg
         /\ queue'[e][i].age = IF queue[e][i].age > Timeout THEN queue[e][i].age
                               ELSE queue[e][i].age + 1
  BY <1>1 DEF Aged
<1> QED BY <1>1, <1>3, <1>4 DEF Queued

(* Every collector has finished its second.                                *)
LEMMA AllInTime ==
  ASSUME Failover, HaTick, NEW e \in Daemons, up[e]
  PROVE  rpc[e] = "done" /\ dpc[e] # "requested" /\ pending[e] = 0 /\ received[e] = emitted
  BY DEF Failover, HaTick, InTime

LEMMA SaneTick ==
  ASSUME HaTypeOK, Failover, Sane, HaTick
  PROVE  Sane'
<1> USE DEF flags, redis, world
<1>1. ASSUME NEW e \in Daemons PROVE Round(e)'
  <2>0. Round(e)
    BY DEF Sane
  <2>1. rpc[e] \in {"done", "ready"} /\ (up[e] => rpc[e] = "done")
    BY <2>0, AllInTime DEF Round
  <2>2. rpc'[e] = "ready" /\ todo'[e] = {}
    BY <2>0, <2>1 DEF HaTick, Round
  <2>3. UNCHANGED <<up, forced_mode, dpc, queue_dumping, first, timestamp_local, stamp, now>>
    BY DEF HaTick
  <2> QED BY <2>0, <2>1, <2>2, <2>3 DEF Round
<1>2. ASSUME NEW e \in Daemons PROVE Sound(e)'
  <2>1. UNCHANGED <<received, pending, emitted>>
    BY DEF HaTick
  <2> QED BY <2>1, AgedQueue DEF Sane, Sound
<1> QED BY <1>1, <1>2 DEF HaTick, Sane

-----------------------------------------------------------------------------
(* One of any set of collectors is the oldest.                             *)
LEMMA OldestExists ==
  ASSUME HaTypeOK, NEW X \in SUBSET Daemons, X # Daemons
  PROVE  \E d \in Daemons \ X : Oldest(d, X)
<1> DEFINE S == {timestamp_local[k] : k \in {j \in Daemons \ X : timestamp_local[j] # 0}}
<1>1. CASE S = {}
  <2>1. PICK d \in Daemons : d \notin X
    OBVIOUS
  <2>2. \A k \in Daemons \ X : timestamp_local[k] = 0
    BY <1>1
  <2> QED BY <2>1, <2>2 DEF Oldest
<1>2. CASE S # {}
  <2>1. S \in SUBSET Nat
    BY DEF HaTypeOK
  <2> HIDE DEF S
  <2>2. Min(S) \in S /\ \A y \in S : Min(S) <= y
    BY <1>2, <2>1, MinIn
  <2>3. PICK d \in Daemons \ X : timestamp_local[d] = Min(S) /\ timestamp_local[d] # 0
    BY <2>2 DEF S
  <2>4. \A k \in Daemons \ X : timestamp_local[k] # 0 => timestamp_local[k] \in S
    BY DEF S
  <2> QED BY <2>2, <2>3, <2>4 DEF Oldest
<1> QED BY <1>1, <1>2

(* An announcement makes nobody the oldest who was not.                    *)
LEMMA OldestBefore ==
  ASSUME HaTypeOK, Sane, NEW X \in SUBSET Daemons, NEW d \in Daemons, Announce(d),
         NEW e \in Daemons \ X, Oldest(e, X)',
         d \notin X => timestamp_local[d] = 0 \/ timestamp_local'[d] = timestamp_local[d]
  PROVE  Oldest(e, X)
<1>1. \A k \in Daemons : timestamp_local[k] \in Nat /\ timestamp_local[k] <= now /\ now \in Nat
  BY DEF Sane, Round, HaTypeOK
<1>2. /\ \A k \in Daemons \ {d} : timestamp_local'[k] = timestamp_local[k]
      /\ timestamp_local'[d] = timestamp_local[d] \/ timestamp_local'[d] = now + 1
  BY DEF Announce, HaTypeOK
<1>3. \A k \in Daemons \ X :
        timestamp_local'[k] # 0 => timestamp_local'[e] # 0 /\ timestamp_local'[e] <= timestamp_local'[k]
  BY DEF Oldest
<1>4. CASE d \in X \/ timestamp_local'[d] = timestamp_local[d]
  BY <1>2, <1>3, <1>4 DEF Oldest
<1>5. CASE d \notin X /\ timestamp_local[d] = 0 /\ timestamp_local'[d] = now + 1
  <2>1. CASE e = d
    <3>1. \A k \in Daemons \ X : timestamp_local[k] = 0
      BY <1>1, <1>2, <1>3, <1>5, <2>1
    <3> QED BY <3>1 DEF Oldest
  <2>2. CASE e # d
    BY <1>2, <1>3, <1>5, <2>2 DEF Oldest
  <2> QED BY <2>1, <2>2
<1> QED BY <1>2, <1>4, <1>5

-----------------------------------------------------------------------------
(* Before a fault, or with one that was asked for and is still to come.    *)
LEMMA QuietMessage ==
  ASSUME HaTypeOK, Failover, Sane, Undisturbed, NEW d \in Daemons, MessageAction(d)
  PROVE  Undisturbed'
<1> USE DEF RoundSame, flags, redis
<1>0. /\ \A x \in Daemons \ {d} : received'[x] = received[x]
      /\ kafka \subseteq kafka' /\ RoundSame
  BY QueueAfter
<1>1. ASSUME NEW e \in Daemons PROVE KeepsAll(e)' /\ Young(e, 0)'
  <2>1. KeepsAll(e) /\ Young(e, 0)
    BY DEF Undisturbed
  <2>2. Young(e, Timeout)
    <3>1. Timeout \in Nat
      BY FailoverNumbers
    <3>2. \A i \in 1..Len(queue[e]) : queue[e][i].age \in Nat
      BY QueueTypes
    <3> QED BY <2>1, <3>1, <3>2 DEF Young
  <2> QED BY <2>1, <2>2, HoldsKept, YoungKept
<1>2. ASSUME NEW e \in Daemons, Oldest(e, {})' PROVE Leads(e)'
  <2>1. Oldest(e, {})
    BY <1>0, <1>2 DEF Oldest
  <2>2. Leads(e)
    BY <2>1 DEF Undisturbed
  <2>3. CASE ~Receive(d) \/ e # d
    <3>1. received'[e] = received[e]
      BY <1>0, <2>3 DEF MessageAction, Enqueue, Pop, DumpQueue
    <3> QED BY <1>0, <2>2, <3>1 DEF Leads
  <2>4. CASE Receive(d) /\ e = d
    <3>1. /\ received'[e] = received[e] + 1 /\ received[e] \in Nat
          /\ received[e] + 1 \in kafka'
      BY <2>2, <2>4 DEF Receive, Leads, HaTypeOK
    <3>2. \A m \in 1..received'[e] : m \in 1..received[e] \/ m = received[e] + 1
      BY <3>1
    <3> QED BY <1>0, <2>2, <3>1, <3>2 DEF Leads
  <2> QED BY <2>3, <2>4
<1>3. FirstSecond({})'
  BY <1>0 DEF FirstSecond, Undisturbed
<1> QED BY <1>0, <1>1, <1>2, <1>3 DEF Undisturbed, KeyIsOwn

(* The messages are not concerned.                                         *)
LEMMA MessagesStay ==
  ASSUME MessagesSame, NEW e \in Daemons
  PROVE  KeepsAll(e)' = KeepsAll(e) /\ \A n \in Int : Young(e, n)' = Young(e, n)
  BY DEF MessagesSame, KeepsAll, Young, Queued

(* The oldest collector stays active whatever it reads.                    *)
LEMMA QuietRead ==
  ASSUME HaTypeOK, Failover, Sane, Undisturbed, NEW d \in Daemons, RoundAction(d), ~Announce(d)
  PROVE  Undisturbed'
<1> USE DEF flags, threads, redis, world
<1>1. /\ MessagesSame
      /\ UNCHANGED <<up, timestamp_local, regenerate_timestamp, redis_up, ttl, stamp, faults>>
      /\ \A e \in Daemons \ {d} : bmp_bgp_forwarding'[e] = bmp_bgp_forwarding[e]
                                  /\ daemon_state'[e] = daemon_state[e] /\ rpc'[e] = rpc[e]
      /\ rpc[d] # "ready" /\ rpc'[d] # "ready"
  BY RoundFrame
<1>2. ASSUME NEW e \in Daemons, Oldest(e, {})' PROVE Leads(e)'
  <2>1. Oldest(e, {})
    BY <1>1, <1>2 DEF Oldest
  <2>2. Leads(e)
    BY <2>1 DEF Undisturbed
  <2>3. CASE e # d
    BY <1>1, <2>2, <2>3 DEF Leads, MessagesSame
  <2>4. CASE e = d
    <3>1. bmp_bgp_forwarding'[d] /\ daemon_state'[d]
      <4>1. CASE Keys(d)
        BY <2>2, <2>4, <4>1 DEF Keys, Leads
      <4>2. CASE NoOlder(d)
        BY <2>2, <2>4, <4>2 DEF NoOlder, Checked, Leads, HaTypeOK
      <4>3. CASE Forward(d)
        BY <2>2, <2>4, <4>3 DEF Forward, Leads, HaTypeOK
      <4>4. CASE StartDump(d)
        BY <2>2, <2>4, <4>4 DEF StartDump, Leads
      <4>5. ASSUME NEW k \in Daemons, ReadKey(d, k)
            PROVE  bmp_bgp_forwarding'[d] /\ daemon_state'[d]
        <5>1. timestamp_local[k] # 0 /\ stamp[k] = timestamp_local[k]
          BY <4>5 DEF ReadKey, Undisturbed, KeyIsOwn
        <5>2. timestamp_local[d] <= stamp[k] /\ timestamp_local[d] \in Nat /\ stamp[k] \in Nat
          BY <2>1, <2>4, <5>1 DEF Oldest, HaTypeOK
        <5>3. ~(stamp[k] < timestamp_local[d])
          BY <5>2
        <5>4. NextKey(d, k)
          BY <4>5, <5>3, Zenon DEF ReadKey
        <5> QED BY <2>2, <2>4, <5>4 DEF NextKey, Leads
      <4>6. \A k \in Daemons : ~ReadKeyNoReply(d, k)
        BY DEF ReadKeyNoReply, Undisturbed
      <4> QED BY <4>1, <4>2, <4>3, <4>4, <4>5, <4>6 DEF RoundAction
    <3> QED BY <1>1, <2>2, <2>4, <3>1 DEF Leads, MessagesSame
  <2> QED BY <2>3, <2>4
<1>3. FirstSecond({})'
  BY <1>1 DEF FirstSecond, Undisturbed
<1>4. \A e \in Daemons : KeepsAll(e)' /\ Young(e, 0)'
  BY <1>1, MessagesStay DEF Undisturbed
<1> QED BY <1>1, <1>2, <1>3, <1>4 DEF Undisturbed, KeyIsOwn

(* A new timestamp makes way for the next collector, a first one does not. *)
LEMMA QuietAnnounce ==
  ASSUME HaTypeOK, HaTypeOK', Failover, Sane, Undisturbed, NEW d \in Daemons, Announce(d)
  PROVE  Undisturbed' \/ Disturbed({d})'
<1> USE DEF threads, world
<1>1. /\ MessagesSame /\ up[d] /\ rpc[d] = "ready" /\ redis_up
      /\ UNCHANGED <<up, bmp_bgp_forwarding, daemon_state, redis_up, faults>>
      /\ rpc' = [rpc EXCEPT ![d] = "keys"]
      /\ regenerate_timestamp' = [regenerate_timestamp EXCEPT ![d] = FALSE]
      /\ ttl' = [ttl EXCEPT ![d] = ExpTime]
      /\ stamp' = [stamp EXCEPT ![d] = timestamp_local'[d]]
  BY DEF Announce, MessagesSame, Undisturbed
<1>2. /\ \A k \in Daemons \ {d} : timestamp_local'[k] = timestamp_local[k]
      /\ timestamp_local'[d] =
           IF first[d] \/ regenerate_timestamp[d] THEN now + 1 ELSE timestamp_local[d]
  <2>1. timestamp_local' =
          IF first[d] \/ regenerate_timestamp[d]
          THEN [timestamp_local EXCEPT ![d] = now + 1] ELSE timestamp_local
    BY DEF Announce
  <2> QED BY <2>1 DEF HaTypeOK
<1>3. \A k \in Daemons : timestamp_local[k] \in Nat /\ timestamp_local[k] <= now /\ now \in Nat
  BY DEF Sane, Round, HaTypeOK
<1>4. first[d] <=> timestamp_local[d] = 0
  BY <1>1 DEF Sane, Round
<1>5. \A e \in Daemons : KeyIsOwn(e)'
  <2>1. \A e \in Daemons \ {d} : ttl'[e] = ttl[e] /\ stamp'[e] = stamp[e]
    BY <1>1 DEF HaTypeOK
  <2>2. stamp'[d] = timestamp_local'[d] /\ timestamp_local'[d] # 0
    BY <1>1, <1>2, <1>3, <1>4 DEF HaTypeOK
  <2> QED BY <1>2, <2>1, <2>2 DEF Undisturbed, KeyIsOwn
<1>6. \A e \in Daemons : KeepsAll(e)' /\ Young(e, 0)'
  BY <1>1, MessagesStay DEF Undisturbed
<1>7. \A e, k \in Daemons : timestamp_local'[k] = 0 /\ rpc'[e] = "ready" => timestamp_local'[e] = 0
  <2>1. \A e \in Daemons \ {d} : rpc'[e] = rpc[e]
    BY <1>1 DEF HaTypeOK
  <2>2. rpc'[d] = "keys"
    BY <1>1 DEF HaTypeOK
  <2>3. \A k \in Daemons : timestamp_local'[k] = 0 => timestamp_local[k] = 0
    BY <1>2, <1>3, <1>4
  <2> QED BY <1>2, <2>1, <2>2, <2>3 DEF Undisturbed, FirstSecond
<1>8. CASE first[d] \/ ~regenerate_timestamp[d]
  <2>1. ASSUME NEW e \in Daemons, Oldest(e, {})' PROVE Leads(e)'
    <3>1. Oldest(e, {})
      BY <1>2, <1>4, <1>8, <2>1, OldestBefore
    <3> QED BY <1>1, <3>1 DEF Undisturbed, Leads, MessagesSame
  <2>2. FirstSecond({})'
    BY <1>7 DEF FirstSecond
  <2>3. \A e \in Daemons : regenerate_timestamp'[e] => regenerate_timestamp[e]
    BY <1>1 DEF HaTypeOK
  <2> QED BY <1>1, <1>5, <1>6, <2>1, <2>2, <2>3 DEF Undisturbed
<1>9. CASE ~first[d] /\ regenerate_timestamp[d]
  <2>1. \A k \in Daemons : timestamp_local[k] # 0
    BY <1>1, <1>4, <1>9 DEF Undisturbed, FirstSecond
  <2>2. faults' = 1 /\ \A e \in Daemons : ~regenerate_timestamp'[e]
    BY <1>1, <1>9 DEF Undisturbed, HaTypeOK
  <2>3. \A e \in Daemons : Heir(e, {d})'
    <3>1. ttl' \in [Daemons -> 0..ExpTime]
      BY DEF HaTypeOK
    <3>2. \A e \in Daemons : InTimeToDump(e, {d})'
      <4> SUFFICES ASSUME NEW e \in Daemons PROVE InTimeToDump(e, {d})'
        OBVIOUS
      <4>1. \A n \in Nat : Young(e, n)'
        BY <1>1, <1>6, QueueTypes DEF Young, MessagesSame
      <4>2. Timeout \in Nat /\ Timeout - 1 \in Nat /\ \A x \in Daemons : Timeout - ttl'[x] \in Nat
        BY <3>1, FailoverNumbers
      <4> QED BY <4>1, <4>2 DEF InTimeToDump
    <3> QED BY <1>6, <3>2 DEF Heir
  <2>4. FirstSecond({d})'
    BY <1>7 DEF FirstSecond
  <2>5. \A k \in Daemons \ {d} : timestamp_local'[k] # 0 /\ timestamp_local'[k] <= timestamp_local'[d]
    BY <1>2, <1>3, <1>9, <2>1
  <2> QED BY <1>1, <1>5, <2>2, <2>3, <2>4, <2>5 DEF Disturbed, Undisturbed
<1> QED BY <1>8, <1>9

(* The first fault: a crash, or an outage of Redis.                        *)
LEMMA QuietCrash ==
  ASSUME HaTypeOK, HaTypeOK', Failover, Sane, Undisturbed, NEW d \in Daemons, Crash(d)
  PROVE  Disturbed({d})'
<1> DEFINE Others == Daemons \ {d}
<1>1. /\ faults = 0 /\ faults' = 1
      /\ UNCHANGED <<received, redis_up, ttl, stamp, now, emitted, kafka>>
  BY TimesAssumption DEF Crash, Fault, Failover, Sane, redis
<1>2. \A e \in Others :
         /\ up'[e] = up[e] /\ timestamp_local'[e] = timestamp_local[e]
         /\ regenerate_timestamp'[e] = regenerate_timestamp[e]
         /\ rpc'[e] = rpc[e] /\ queue'[e] = queue[e] /\ pending'[e] = pending[e]
  BY DEF Crash, Started, HaTypeOK
<1>3. ~up'[d] /\ timestamp_local'[d] = 0 /\ ~regenerate_timestamp'[d]
  BY DEF Crash, Started, HaTypeOK
<1>4. \A e \in Others : KeepsAll(e)' /\ Young(e, 0)'
  BY <1>1, <1>2 DEF Undisturbed, KeepsAll, Young, Queued
<1>5. \A e \in Others : Heir(e, {d})'
  <2> SUFFICES ASSUME NEW e \in Others PROVE InTimeToDump(e, {d})'
    BY <1>4 DEF Heir
  <2>1. \A n \in Nat : Young(e, n)'
    <3>1. \A i \in 1..Len(queue[e]) : queue[e][i].age \in Nat
      BY QueueTypes
    <3>2. Young(e, 0)' /\ queue'[e] = queue[e]
      BY <1>2, <1>4
    <3> QED BY <3>1, <3>2 DEF Young
  <2>2. Timeout \in Nat /\ Timeout - 1 \in Nat /\ \A x \in Daemons : Timeout - ttl'[x] \in Nat
    <3>1. ttl' \in [Daemons -> 0..ExpTime]
      BY <1>1 DEF HaTypeOK
    <3> QED BY <3>1, FailoverNumbers
  <2> QED BY <2>1, <2>2 DEF InTimeToDump
<1>6. \A e \in Others : up'[e] /\ KeyIsOwn(e)' /\ ~regenerate_timestamp'[e]
  BY <1>1, <1>2 DEF Undisturbed, KeyIsOwn
<1>7. FirstSecond({d})'
  BY <1>2 DEF Undisturbed, FirstSecond
<1> QED BY <1>1, <1>3, <1>5, <1>6, <1>7 DEF Disturbed

LEMMA QuietRedisDown ==
  ASSUME HaTypeOK, Failover, Sane, Undisturbed, RedisDown
  PROVE  Disturbed({})'
<1> USE DEF flags, threads
<1>1. /\ faults = 0 /\ faults' = 1 /\ MessagesSame
      /\ UNCHANGED <<up, timestamp_local, regenerate_timestamp, rpc, ttl, stamp, dpc>>
  BY TimesAssumption DEF RedisDown, Fault, Failover, Sane, MessagesSame
<1>2. ASSUME NEW e \in Daemons PROVE Heir(e, {})'
  <2>1. KeepsAll(e) /\ Young(e, 0)
    BY DEF Undisturbed
  <2>2. \A n \in Nat : Young(e, n)
    BY <2>1, QueueTypes DEF Young
  <2>3. Timeout \in Nat /\ Timeout - 1 \in Nat
    BY FailoverNumbers
  <2>4. Young(e, Timeout)' /\ Young(e, Timeout - 1)' /\ KeepsAll(e)'
    BY <1>1, <2>1, <2>2, <2>3, MessagesStay
  <2> QED BY <2>4 DEF Heir, InTimeToDump
<1>3. \A e \in Daemons : ~regenerate_timestamp'[e] /\ up'[e] /\ KeyIsOwn(e)'
  BY <1>1 DEF Undisturbed, KeyIsOwn
<1>4. FirstSecond({})'
  BY <1>1 DEF Undisturbed, FirstSecond
<1> QED BY <1>1, <1>2, <1>3, <1>4 DEF Disturbed

(* A second in which everybody was active or has kept everything.          *)
LEMMA QuietTick ==
  ASSUME HaTypeOK, Failover, Sane, Undisturbed, HaTick
  PROVE  Undisturbed'
<1> USE DEF flags, world
<1>1. \A e \in Daemons :
         rpc[e] = "done" /\ pending[e] = 0 /\ received[e] = emitted /\ timestamp_local[e] # 0
  BY AllInTime DEF Undisturbed, Sane, Round
<1>2. UNCHANGED <<up, timestamp_local, regenerate_timestamp, bmp_bgp_forwarding, daemon_state,
                  redis_up, stamp, faults, received, pending, emitted, kafka>>
  BY DEF HaTick
<1>3. \A m \in 1..emitted : m \in kafka
  <2>1. PICK L \in Daemons : Oldest(L, {})
    <3>1. {} # Daemons /\ {} \in SUBSET Daemons
      BY DEF Failover
    <3> QED BY <3>1, OldestExists
  <2> QED BY <1>1, <2>1 DEF Undisturbed, Leads
<1>4. \A e \in Daemons : KeepsAll(e)' /\ Young(e, 0)'
  <2> SUFFICES ASSUME NEW e \in Daemons PROVE KeepsAll(e)' /\ Young(e, 0)'
    OBVIOUS
  <2>1. KeepsAll(e)'
    BY <1>2, <1>3 DEF KeepsAll
  <2>2. ASSUME NEW i \in 1..Len(queue'[e]) PROVE queue'[e][i].msg \in kafka'
    <3>1. queue'[e][i].msg \in 1..emitted
      BY <1>1, <2>2, AgedQueue DEF Sane, Sound
    <3> QED BY <1>2, <1>3, <3>1
  <2> QED BY <2>1, <2>2 DEF Young
<1>5. \A e \in Daemons : KeyIsOwn(e)'
  <2>1. \A e \in Daemons : ttl'[e] > 0 => ttl[e] > 0
    BY DEF HaTick, HaTypeOK
  <2> QED BY <1>2, <2>1 DEF Undisturbed, KeyIsOwn
<1>6. \A e \in Daemons : Oldest(e, {})' => Leads(e)'
  BY <1>2 DEF Undisturbed, Oldest, Leads
<1>7. FirstSecond({})'
  BY <1>1, <1>2 DEF FirstSecond
<1> QED BY <1>2, <1>4, <1>5, <1>6, <1>7 DEF Undisturbed

(* Steps that matter neither to the rounds nor to the messages.            *)
LEMMA QuietOther ==
  ASSUME HaTypeOK, Failover, Sane, Undisturbed, NEW d \in Daemons,
         DumpBegin(d) \/ DumpEnd(d) \/ Regenerate(d) \/ Emit \/ UNCHANGED haVars
  PROVE  Undisturbed'
<1> USE DEF flags, threads, redis, world
<1>1. CASE DumpBegin(d) \/ DumpEnd(d) \/ UNCHANGED haVars
  <2>1. MessagesSame /\ UNCHANGED <<up, flags, rpc, redis, faults>>
    BY <1>1 DEF DumpBegin, DumpEnd, haVars, MessagesSame
  <2> QED
    BY <2>1, MessagesStay
       DEF Undisturbed, MessagesSame, Leads, Oldest, KeyIsOwn, FirstSecond
<1>2. CASE Regenerate(d)
  <2>1. /\ MessagesSame /\ faults = 0 /\ faults' = 1
        /\ UNCHANGED <<up, timestamp_local, bmp_bgp_forwarding, daemon_state, rpc, redis>>
        /\ regenerate_timestamp' = [regenerate_timestamp EXCEPT ![d] = TRUE]
    BY <1>2, TimesAssumption DEF Regenerate, Fault, Failover, Sane, MessagesSame
  <2>2. \A e \in Daemons : regenerate_timestamp'[e] => e = d
    BY <2>1 DEF Undisturbed, HaTypeOK
  <2> QED
    BY <2>1, <2>2, MessagesStay
       DEF Undisturbed, MessagesSame, Leads, Oldest, KeyIsOwn, FirstSecond
<1>3. CASE Emit
  <2>1. /\ emitted' = emitted + 1 /\ emitted \in Nat
        /\ UNCHANGED <<up, flags, threads, redis, kafka, faults>>
    BY <1>3 DEF Emit, HaTypeOK
  <2>2. ASSUME NEW e \in Daemons PROVE KeepsAll(e)' /\ Young(e, 0)'
    <3>1. received[e] <= emitted /\ received[e] \in Nat
      BY DEF Sane, Sound, HaTypeOK
    <3>2. \A m \in 1..emitted' : m \in 1..emitted \/ received[e] < m
      BY <2>1, <3>1
    <3> QED BY <2>1, <3>2 DEF Undisturbed, KeepsAll, Young, Queued
  <2> QED
    BY <2>1, <2>2 DEF Undisturbed, Leads, Oldest, KeyIsOwn, FirstSecond
<1> QED BY <1>1, <1>2, <1>3

-----------------------------------------------------------------------------
(* After the fault, all but the collectors of X go on as before.           *)
LEMMA DisturbedMessage ==
  ASSUME HaTypeOK, Failover, Sane, NEW X \in SUBSET Daemons, Disturbed(X),
         NEW d \in Daemons, MessageAction(d)
  PROVE  Disturbed(X)'
<1> USE DEF RoundSame, flags, redis
<1>0. /\ \A x \in Daemons \ {d} : dpc'[x] = dpc[x]
      /\ dpc'[d] = dpc[d] \/ (dpc'[d] = "closing" /\ queue'[d] = <<>>)
      /\ RoundSame
  BY QueueAfter
<1>1. ASSUME NEW e \in Daemons \ X, Oldest(e, X)' PROVE Heir(e, X)'
  <2>1. Heir(e, X)
    BY <1>0, <1>1 DEF Oldest, Disturbed
  <2>2. KeepsAll(e)'
    <3>1. Pop(e) => Young(e, Timeout)
      BY <2>1 DEF Heir, InTimeToDump, Pop, Sane, Round
    <3> QED BY <2>1, <3>1, HoldsKept DEF Heir
  <2>3. CASE queue'[e] = <<>>
    BY <2>2, <2>3 DEF Heir, InTimeToDump, Young
  <2>4. CASE dpc[e] = "dumping" /\ dpc'[e] = dpc[e]
    BY <2>2, <2>4 DEF Heir, InTimeToDump
  <2>5. CASE dpc[e] # "dumping"
    <3>1. /\ Young(e, Timeout)
          /\ Passive(e) => Young(e, Timeout - 1)
          /\ \A x \in X : Blocks(x, e) => Young(e, Timeout - ttl[x])
      BY <2>1, <2>5 DEF Heir, InTimeToDump
    <3>2. Timeout \in Nat /\ Timeout - 1 \in Nat /\ \A x \in X : Timeout - ttl[x] \in Nat
      <4>1. ttl \in [Daemons -> 0..ExpTime]
        BY DEF HaTypeOK
      <4> QED BY <4>1, FailoverNumbers
    <3>3. \A n \in Nat : Young(e, n) => Young(e, n)'
      BY YoungKept
    <3>4. Passive(e)' = Passive(e) /\ \A x \in X : Blocks(x, e)' = Blocks(x, e)
      BY <1>0 DEF Passive, Blocks
    <3>5. Young(e, Timeout)' /\ (Passive(e)' => Young(e, Timeout - 1)')
      BY <3>1, <3>2, <3>3, <3>4
    <3>6. ASSUME NEW x \in X, Blocks(x, e)' PROVE Young(e, Timeout - ttl[x])'
      <4>1. Young(e, Timeout - ttl[x]) /\ Timeout - ttl[x] \in Nat /\ ttl'[x] = ttl[x]
        BY <1>0, <3>1, <3>2, <3>4, <3>6
      <4>2. PICK n \in Nat : n = Timeout - ttl[x]
        BY <4>1
      <4>3. Young(e, n)'
        BY <3>3, <4>1, <4>2
      <4>4. n = (Timeout - ttl[x])'
        BY <4>1, <4>2
      <4> QED BY <4>3, <4>4 DEF Young
    <3> QED BY <1>0, <2>2, <3>5, <3>6 DEF Heir, InTimeToDump
  <2> QED BY <1>0, <2>3, <2>4, <2>5
<1>2. FirstSecond(X)'
  BY <1>0 DEF FirstSecond, Disturbed
<1> QED BY <1>0, <1>1, <1>2 DEF Disturbed, KeyIsOwn

(* An heir stays one when it turns passive only if it is blocked, and no   *)
(* collector that does not block it begins to.                             *)
LEMMA HeirStays ==
  ASSUME HaTypeOK, Failover, MessagesSame, NEW X \in SUBSET Daemons, NEW e \in Daemons \ X,
         Heir(e, X),
         dpc[e] = "dumping" => dpc'[e] = "dumping",
         Passive(e)' => Passive(e) \/ \E x \in X : Blocks(x, e),
         \A x \in X : Blocks(x, e)' => Blocks(x, e) /\ ttl'[x] = ttl[x]
  PROVE  Heir(e, X)'
<1>1. KeepsAll(e)' /\ \A n \in Int : Young(e, n)' = Young(e, n)
  BY MessagesStay DEF Heir
<1>2. CASE dpc[e] = "dumping"
  BY <1>1, <1>2 DEF Heir, InTimeToDump
<1>3. CASE dpc[e] # "dumping"
  <2>1. /\ Young(e, Timeout)
        /\ Passive(e) => Young(e, Timeout - 1)
        /\ \A x \in X : Blocks(x, e) => Young(e, Timeout - ttl[x])
    BY <1>3 DEF Heir, InTimeToDump
  <2>2. Timeout \in Int /\ Timeout - 1 \in Int
    BY FailoverNumbers
  <2>3. Passive(e)' => Young(e, Timeout - 1)
    <3>1. ASSUME NEW x \in X, Blocks(x, e) PROVE Young(e, Timeout - 1)
      <4>1. Young(e, Timeout - ttl[x])
        BY <2>1, <3>1
      <4>2. ttl[x] \in Nat /\ ttl[x] >= 1 /\ Timeout \in Nat
        BY <3>1, FailoverNumbers DEF Blocks, HaTypeOK
      <4> QED BY <4>1, <4>2, QueueTypes DEF Young
    <3> QED BY <2>1, <3>1
  <2>4. \A x \in X : Blocks(x, e)' => Young(e, Timeout - ttl[x])'
    <3>1. \A x \in X : Timeout - ttl[x] \in Int
      BY FailoverNumbers DEF HaTypeOK
    <3> QED BY <1>1, <2>1, <3>1
  <2>5. \A x \in X : Blocks(x, e)' => Young(e, Timeout - ttl[x])' /\ ttl'[x] = ttl[x]
    BY <2>4
  <2> QED BY <1>1, <2>1, <2>2, <2>3, <2>5 DEF Heir, InTimeToDump
<1> QED BY <1>2, <1>3

(* What d reads makes it passive only if it is blocked.                    *)
LEMMA DisturbedRead ==
  ASSUME HaTypeOK, Failover, Sane, NEW X \in SUBSET Daemons, Disturbed(X),
         NEW d \in Daemons, RoundAction(d), ~Announce(d)
  PROVE  Disturbed(X)'
<1> USE DEF flags, threads, redis, world
<1>1. /\ MessagesSame
      /\ UNCHANGED <<up, timestamp_local, regenerate_timestamp, redis_up, ttl, stamp, faults>>
      /\ \A e \in Daemons \ {d} :
           /\ bmp_bgp_forwarding'[e] = bmp_bgp_forwarding[e] /\ daemon_state'[e] = daemon_state[e]
           /\ rpc'[e] = rpc[e] /\ todo'[e] = todo[e]
      /\ \A e \in Daemons : dpc[e] = "dumping" => dpc'[e] = "dumping"
      /\ rpc[d] # "ready" /\ rpc'[d] # "ready"
  BY RoundFrame
<1>2. ASSUME NEW e \in Daemons \ X, Oldest(e, X)' PROVE Heir(e, X)'
  <2>1. Oldest(e, X) /\ Heir(e, X)
    BY <1>1, <1>2 DEF Oldest, Disturbed
  <2>2. \A x \in X : Blocks(x, e)' => Blocks(x, e) /\ ttl'[x] = ttl[x]
    BY <1>1 DEF Blocks
  <2>3. Passive(e)' => Passive(e) \/ \E x \in X : Blocks(x, e)
    <3>1. CASE e # d
      BY <1>1, <3>1 DEF Passive
    <3>2. CASE e = d
      <4>1. CASE Keys(d)
        BY <3>2, <4>1 DEF Keys, Passive, HaTypeOK, Sane, Round
      <4>2. CASE NoOlder(d)
        BY <3>2, <4>2 DEF NoOlder, Checked, Passive, HaTypeOK
      <4>3. CASE Forward(d)
        BY <3>2, <4>3 DEF Forward, Passive, HaTypeOK
      <4>4. CASE StartDump(d)
        BY <3>2, <4>4 DEF StartDump, Passive, HaTypeOK
      <4>5. ASSUME NEW k \in Daemons, ReadKey(d, k), ~(\E x \in X : Blocks(x, e))
            PROVE  ~Passive(e)'
        <5>1. ttl[k] > 0 /\ redis_up /\ rpc[d] = "get"
          BY <4>5 DEF ReadKey
        <5>2. timestamp_local[d] # 0 /\ timestamp_local[d] \in Nat /\ stamp[k] \in Nat
          BY <5>1 DEF Sane, Round, HaTypeOK
        <5>3. timestamp_local[d] <= stamp[k]
          <6>1. CASE k \in X
            BY <3>2, <4>5, <5>1, <5>2, <6>1 DEF Blocks
          <6>2. CASE k \notin X
            BY <2>1, <3>2, <5>1, <6>2 DEF Disturbed, KeyIsOwn, Oldest
          <6> QED BY <6>1, <6>2
        <5>4. ~(stamp[k] < timestamp_local[d])
          BY <5>2, <5>3
        <5>5. NextKey(d, k)
          BY <4>5, <5>4, Zenon DEF ReadKey
        <5> QED BY <3>2, <5>1, <5>5 DEF NextKey, Passive
      <4>6. ASSUME NEW k \in Daemons, ReadKeyNoReply(d, k) PROVE Passive(e)
        BY <3>2, <4>6 DEF ReadKeyNoReply, Passive
      <4> QED BY <4>1, <4>2, <4>3, <4>4, <4>5, <4>6 DEF RoundAction
    <3> QED BY <3>1, <3>2
  <2> QED BY <1>1, <2>1, <2>2, <2>3, HeirStays
<1>3. FirstSecond(X)'
  BY <1>1 DEF FirstSecond, Disturbed
<1> QED BY <1>1, <1>2, <1>3 DEF Disturbed, KeyIsOwn

(* The key of a collector that comes back no longer blocks anybody.        *)
LEMMA DisturbedAnnounce ==
  ASSUME HaTypeOK, Failover, Sane, NEW X \in SUBSET Daemons, Disturbed(X),
         NEW d \in Daemons, Announce(d)
  PROVE  Disturbed(X)'
<1> USE DEF threads, world
<1>1. /\ MessagesSame /\ up[d] /\ rpc[d] = "ready"
      /\ UNCHANGED <<up, bmp_bgp_forwarding, daemon_state, redis_up, todo, dpc, faults>>
      /\ rpc' = [rpc EXCEPT ![d] = "keys"]
      /\ regenerate_timestamp' = [regenerate_timestamp EXCEPT ![d] = FALSE]
  BY DEF Announce, MessagesSame
<1>2. /\ \A k \in Daemons \ {d} : timestamp_local'[k] = timestamp_local[k]
      /\ timestamp_local'[d] = IF first[d] THEN now + 1 ELSE timestamp_local[d]
  <2>1. ~regenerate_timestamp[d]
    BY DEF Disturbed
  <2>2. timestamp_local' = IF first[d] THEN [timestamp_local EXCEPT ![d] = now + 1]
                           ELSE timestamp_local
    BY <2>1 DEF Announce
  <2> QED BY <2>2 DEF HaTypeOK
<1>3. \A k \in Daemons : timestamp_local[k] \in Nat /\ timestamp_local[k] <= now /\ now \in Nat
  BY DEF Sane, Round, HaTypeOK
<1>4. first[d] <=> timestamp_local[d] = 0
  BY <1>1 DEF Sane, Round
<1>5. /\ \A k \in Daemons \ {d} : ttl'[k] = ttl[k] /\ stamp'[k] = stamp[k]
      /\ IF redis_up THEN stamp'[d] = timestamp_local'[d]
         ELSE ttl'[d] = ttl[d] /\ stamp'[d] = stamp[d]
  BY DEF Announce, HaTypeOK
<1>6. timestamp_local'[d] # 0 /\ \A k \in Daemons : timestamp_local'[k] = 0 => timestamp_local[k] = 0
  BY <1>2, <1>3, <1>4
<1>7. \A e \in Daemons \ X : KeyIsOwn(e)'
  <2>1. CASE redis_up
    BY <1>2, <1>5, <1>6, <2>1 DEF Disturbed, KeyIsOwn
  <2>2. CASE ~redis_up
    BY <1>2, <1>4, <1>5, <1>6, <2>2 DEF Disturbed, KeyIsOwn
  <2> QED BY <2>1, <2>2
<1>8. ASSUME NEW e \in Daemons \ X, Oldest(e, X)' PROVE Heir(e, X)'
  <2>1. Oldest(e, X)
    BY <1>2, <1>4, <1>8, OldestBefore
  <2>2. Heir(e, X)
    BY <2>1 DEF Disturbed
  <2>3. Passive(e)' => Passive(e)
    BY <1>1 DEF Passive, HaTypeOK
  <2>4. ASSUME NEW x \in X, Blocks(x, e)' PROVE Blocks(x, e) /\ ttl'[x] = ttl[x]
    <3>1. CASE x # d
      BY <1>2, <1>4, <1>5, <2>4, <3>1 DEF Blocks
    <3>2. CASE x = d
      <4>1. timestamp_local[e] # 0 /\ timestamp_local'[e] = timestamp_local[e]
        BY <1>1, <1>2, <3>2 DEF Disturbed
      <4>2. timestamp_local[e] <= timestamp_local'[d]
        BY <1>2, <1>3, <1>4, <2>4, <3>2 DEF Disturbed
      <4>3. CASE redis_up
        <5>1. stamp'[d] < timestamp_local'[e]
          BY <2>4, <3>2, <4>1 DEF Blocks
        <5> QED BY <1>2, <1>3, <1>5, <4>1, <4>2, <4>3, <5>1
      <4>4. CASE ~redis_up
        BY <1>5, <2>4, <3>2, <4>1, <4>4 DEF Blocks
      <4> QED BY <4>3, <4>4
    <3> QED BY <3>1, <3>2
  <2> QED BY <1>1, <2>2, <2>3, <2>4, HeirStays
<1>9. FirstSecond(X)'
  <2>1. \A e \in Daemons : rpc'[e] = "ready" => e # d /\ rpc[e] = "ready"
    BY <1>1 DEF HaTypeOK
  <2> QED BY <1>2, <1>6, <2>1 DEF FirstSecond, Disturbed
<1>10. ASSUME NEW x \in X, NEW k \in Daemons \ X
       PROVE  /\ up'[x] => timestamp_local'[k] # 0
              /\ timestamp_local'[k] <= timestamp_local'[x] \/ timestamp_local'[x] = 0
  <2>1. /\ up[x] => timestamp_local[k] # 0
        /\ timestamp_local[k] <= timestamp_local[x] \/ timestamp_local[x] = 0
    BY DEF Disturbed
  <2>2. ~up[x] => timestamp_local[x] = 0
    BY DEF Sane, Round
  <2> QED BY <1>1, <1>2, <1>3, <1>4, <1>6, <2>1, <2>2
<1>11. \A e \in Daemons : ~regenerate_timestamp'[e]
  BY <1>1 DEF Disturbed, HaTypeOK
<1> QED BY <1>1, <1>7, <1>8, <1>9, <1>10, <1>11 DEF Disturbed

(* Who comes back while others run finds that they have announced          *)
(* themselves.                                                             *)
LEMMA DisturbedRestart ==
  ASSUME HaTypeOK, Failover, Sane, NEW X \in SUBSET Daemons, Disturbed(X),
         NEW d \in Daemons, Restart(d)
  PROVE  Disturbed(X)'
<1> USE DEF flags, redis, world
<1>1. /\ ~up[d] /\ d \in X
      /\ up' = [up EXCEPT ![d] = TRUE] /\ received' = [received EXCEPT ![d] = emitted]
      /\ UNCHANGED <<flags, rpc, todo, queue, queue_dumping, dpc, pending, redis, world>>
  BY DEF Restart, Disturbed
<1>2. \A k \in Daemons \ X : timestamp_local[k] # 0
  <2>1. \A k \in Daemons \ X : up[k] /\ ~first[k]
    BY DEF Restart, Failover, Disturbed
  <2> QED BY <2>1 DEF Sane, Round
<1>3. ASSUME NEW e \in Daemons \ X, Oldest(e, X)' PROVE Heir(e, X)'
  <2>1. Heir(e, X)
    BY <1>1, <1>3 DEF Oldest, Disturbed
  <2>2. received'[e] = received[e]
    BY <1>1 DEF HaTypeOK
  <2> QED
    BY <1>1, <2>1, <2>2 DEF Heir, KeepsAll, Queued, InTimeToDump, Young, Passive, Blocks
<1>4. FirstSecond(X)'
  BY <1>1 DEF FirstSecond, Disturbed
<1>5. \A e \in Daemons \ X : up'[e] /\ KeyIsOwn(e)'
  BY <1>1 DEF Disturbed, KeyIsOwn, HaTypeOK
<1> QED BY <1>1, <1>2, <1>3, <1>4, <1>5 DEF Disturbed

(* A second older is not too old: whoever blocks the heir has a second     *)
(* less, and an heir that was passive without a reason will be active.     *)
LEMMA DisturbedTick ==
  ASSUME HaTypeOK, QueueInv, Failover, Sane, NEW X \in SUBSET Daemons, Disturbed(X), HaTick
  PROVE  Disturbed(X)'
<1> USE DEF flags, world
<1>1. \A e \in Daemons \ X :
         /\ rpc[e] = "done" /\ dpc[e] # "requested" /\ todo[e] = {}
         /\ pending[e] = 0 /\ received[e] = emitted /\ timestamp_local[e] # 0
  BY AllInTime DEF Disturbed, Sane, Round
<1>2. /\ UNCHANGED <<up, flags, todo, dpc, redis_up, stamp, faults, received, pending, emitted, kafka>>
      /\ \A k \in Daemons : ttl'[k] = IF ttl[k] = 0 THEN 0 ELSE ttl[k] - 1
      /\ \A k \in Daemons \ X : rpc'[k] = "ready"
  BY <1>1 DEF HaTick, HaTypeOK
<1>3. ASSUME NEW e \in Daemons \ X, Oldest(e, X)' PROVE Heir(e, X)'
  <2>1. Heir(e, X)
    BY <1>2, <1>3 DEF Oldest, Disturbed
  <2>2. KeepsAll(e)'
    BY <1>2, <2>1, AgedQueue DEF Heir, KeepsAll
  <2>3. ~Passive(e)'
    BY <1>1, <1>2 DEF Passive
  <2>4. \A n \in Nat : n < Timeout /\ Young(e, n) => Young(e, n + 1)'
    <3> SUFFICES ASSUME NEW n \in Nat, n < Timeout, Young(e, n) PROVE Young(e, n + 1)'
      OBVIOUS
    <3> SUFFICES ASSUME NEW i \in 1..Len(queue'[e])
                 PROVE  queue'[e][i].msg \in kafka' \/ queue'[e][i].age <= n + 1
      BY DEF Young
    <3>1. /\ i \in 1..Len(queue[e]) /\ queue'[e][i].msg = queue[e][i].msg
          /\ queue'[e][i].age = IF queue[e][i].age > Timeout THEN queue[e][i].age
                                ELSE queue[e][i].age + 1
      BY AgedQueue
    <3>2. queue[e][i].msg \in kafka \/ queue[e][i].age <= n
      BY <3>1 DEF Young
    <3>3. queue[e][i].age \in Nat /\ Timeout \in Nat
      BY <3>1, QueueTypes, FailoverNumbers
    <3> QED BY <1>2, <3>1, <3>2, <3>3
  <2>5. \A x \in X : Blocks(x, e)' => Blocks(x, e) /\ ttl'[x] = ttl[x] - 1
    BY <1>2 DEF Blocks, HaTypeOK
  <2>6. CASE dpc[e] = "dumping"
    BY <1>2, <2>2, <2>6 DEF Heir, InTimeToDump
  <2>7. CASE queue[e] = <<>>
    <3>1. Len(queue'[e]) = 0
      BY <2>7, AgedQueue
    <3> QED BY <2>2, <3>1 DEF Heir, InTimeToDump, Young
  <2>8. CASE dpc[e] # "dumping" /\ ~bmp_bgp_forwarding[e]
    <3>1. /\ Young(e, Timeout - 1)
          /\ \A x \in X : Blocks(x, e) => Young(e, Timeout - ttl[x])
      BY <1>1, <2>1, <2>8 DEF Heir, InTimeToDump, Passive
    <3>2. Timeout \in Nat /\ Timeout - 1 \in Nat /\ Timeout - 1 < Timeout /\ (Timeout - 1) + 1 = Timeout
      BY FailoverNumbers
    <3>3. Young(e, Timeout)'
      <4>1. PICK n \in Nat : n = Timeout - 1
        BY <3>2
      <4>2. Young(e, n + 1)'
        BY <2>4, <3>1, <3>2, <4>1
      <4> QED BY <3>2, <4>1, <4>2
    <3>4. ASSUME NEW x \in X, Blocks(x, e)' PROVE Young(e, Timeout - ttl[x])'
      <4>1. Blocks(x, e) /\ ttl'[x] = ttl[x] - 1 /\ ttl[x] \in 1..ExpTime
        BY <2>5, <3>4 DEF Blocks, HaTypeOK
      <4>2. PICK n \in Nat : n = Timeout - ttl[x] /\ n < Timeout
        BY <4>1, FailoverNumbers
      <4>3. Young(e, n + 1)'
        BY <2>4, <3>1, <4>1, <4>2
      <4>4. n + 1 = (Timeout - ttl[x])'
        BY <3>2, <4>1, <4>2
      <4> QED BY <4>3, <4>4 DEF Young
    <3> QED BY <2>2, <2>3, <3>3, <3>4 DEF Heir, InTimeToDump
  <2>9. CASE dpc[e] # "dumping" /\ bmp_bgp_forwarding[e]
    <3>1. queue[e] = <<>>
      BY <1>1, <2>9 DEF QueueInv, QInv, EmptyUnlessDump, HaTypeOK
    <3> QED BY <2>7, <3>1
  <2> QED BY <2>6, <2>8, <2>9
<1>4. \A e \in Daemons \ X : KeyIsOwn(e)'
  <2>1. \A e \in Daemons : ttl'[e] > 0 => ttl[e] > 0
    BY <1>2 DEF HaTypeOK
  <2> QED BY <1>2, <2>1 DEF Disturbed, KeyIsOwn
<1>5. FirstSecond(X)'
  BY <1>1, <1>2 DEF FirstSecond
<1> QED BY <1>1, <1>2, <1>3, <1>4, <1>5 DEF Disturbed

LEMMA DisturbedOther ==
  ASSUME HaTypeOK, Failover, Sane, NEW X \in SUBSET Daemons, Disturbed(X), NEW d \in Daemons,
         DumpBegin(d) \/ DumpEnd(d) \/ RedisUp \/ Emit \/ UNCHANGED haVars
  PROVE  Disturbed(X)'
<1> USE DEF flags, threads, redis, world
<1>1. UNCHANGED <<up, flags, rpc, todo, queue, received, pending, ttl, stamp, now, kafka, faults>>
  BY DEF DumpBegin, DumpEnd, RedisUp, Emit, haVars
<1>2. /\ \A e \in Daemons : dpc[e] = "dumping" => dpc'[e] = "dumping"
      /\ redis_up => redis_up'
  BY DEF DumpBegin, DumpEnd, RedisUp, Emit, haVars, HaTypeOK
<1>3. ASSUME NEW e \in Daemons \ X, Oldest(e, X)' PROVE Heir(e, X)'
  <2>1. Heir(e, X)
    BY <1>1, <1>3 DEF Oldest, Disturbed
  <2>2. InTimeToDump(e, X)'
    BY <1>1, <1>2, <2>1 DEF Heir, InTimeToDump, Young, Passive, Blocks
  <2>3. KeepsAll(e)'
    <3>1. CASE emitted' = emitted
      BY <1>1, <2>1, <3>1 DEF Heir, KeepsAll, Queued
    <3>2. CASE Emit
      <4>1. emitted' = emitted + 1 /\ emitted \in Nat
        BY <3>2 DEF Emit, HaTypeOK
      <4>2. received[e] <= emitted /\ received[e] \in Nat
        BY DEF Sane, Sound, HaTypeOK
      <4>3. \A m \in 1..emitted' : m \in 1..emitted \/ received[e] < m
        BY <4>1, <4>2
      <4> QED BY <1>1, <2>1, <4>3 DEF Heir, KeepsAll, Queued
    <3> QED BY <3>1, <3>2 DEF DumpBegin, DumpEnd, RedisUp, haVars
  <2> QED BY <2>2, <2>3 DEF Heir
<1>4. FirstSecond(X)'
  BY <1>1 DEF FirstSecond, Disturbed
<1> QED BY <1>1, <1>3, <1>4 DEF Disturbed, KeyIsOwn

LEMMA SaneOther ==
  ASSUME HaTypeOK, Failover, Sane, NEW d \in Daemons,
         \/ DumpBegin(d) \/ DumpEnd(d) \/ Regenerate(d) \/ RedisUp \/ RedisDown \/ Emit
         \/ UNCHANGED haVars
  PROVE  Sane'
<1> USE DEF flags, threads, redis, world
<1>1. UNCHANGED <<up, timestamp_local, forced_mode, first, rpc, todo, queue, received, pending,
                  ttl, stamp, now>>
  BY DEF DumpBegin, DumpEnd, Regenerate, RedisUp, RedisDown, Emit, haVars
<1>2. \A e \in Daemons : dpc'[e] = "dumping" => queue_dumping'[e]
  BY DEF DumpBegin, DumpEnd, Regenerate, RedisUp, RedisDown, Emit, haVars, HaTypeOK, Sane, Round
<1>3. faults' \in {0, 1}
  BY TimesAssumption DEF DumpBegin, DumpEnd, Regenerate, RedisUp, RedisDown, Emit, haVars, Sane, Fault, Failover
<1>4. emitted' \in Nat /\ emitted <= emitted'
  BY DEF DumpBegin, DumpEnd, Regenerate, RedisUp, RedisDown, Emit, haVars, HaTypeOK
<1>5. \A e \in Daemons : Round(e)'
  BY <1>1, <1>2 DEF Sane, Round
<1>6. \A e \in Daemons : Sound(e)'
  <2>1. \A e \in Daemons : received[e] \in Nat /\ emitted \in Nat
    BY DEF HaTypeOK
  <2> QED BY <1>1, <1>4, <2>1 DEF Sane, Sound
<1> QED BY <1>3, <1>5, <1>6 DEF Sane

FailoverInv == Sane /\ (Undisturbed \/ \E X \in SUBSET Daemons : Disturbed(X))

LEMMA FailoverInit ==
  ASSUME Failover, HaInit
  PROVE  FailoverInv
<1>1. Sane
  BY DEF HaInit, Sane, Sound, Round
<1>2. Undisturbed
  BY DEF HaInit, Undisturbed, KeyIsOwn, KeepsAll, Young, Leads, FirstSecond
<1> QED BY <1>1, <1>2 DEF FailoverInv

(* There is one fault, and no reply is nil.                                *)
LEMMA FailoverStep ==
  ASSUME Failover, HaTypeOK, HaTypeOK', QueueInv, FailoverInv, [HaNext]_haVars
  PROVE  FailoverInv'
<1>0. Sane
  BY DEF FailoverInv
<1> DEFINE Goal == Sane' /\ (Undisturbed' \/ \E X \in SUBSET Daemons : Disturbed(X)')
<1> SUFFICES Goal
  BY DEF FailoverInv
<1>1. Undisturbed \/ \E X \in SUBSET Daemons : Disturbed(X)
  BY DEF FailoverInv
<1>2. \A d \in Daemons : {d} \in SUBSET Daemons /\ {} \in SUBSET Daemons
  OBVIOUS
<1>3. PICK a \in Daemons : TRUE
  BY DEF Failover
<1>4. (\E X \in SUBSET Daemons : Disturbed(X)) => \A kind \in {"crash", "redis", "regenerate"} : ~Fault(kind)
  BY TimesAssumption DEF Disturbed, Fault, Failover
<1>5. ASSUME NEW d \in Daemons, MessageAction(d) PROVE Goal
  BY <1>0, <1>1, <1>5, SaneMessage, QuietMessage, DisturbedMessage
<1>6. ASSUME NEW d \in Daemons, RoundAction(d), ~Announce(d) PROVE Goal
  BY <1>0, <1>1, <1>6, SaneRound, QuietRead, DisturbedRead
<1>7. ASSUME NEW d \in Daemons, Announce(d) PROVE Goal
  <2>1. Sane'
    BY <1>0, <1>7, SaneRound DEF RoundAction
  <2> QED BY <1>0, <1>1, <1>2, <1>7, <2>1, QuietAnnounce, DisturbedAnnounce
<1>8. ASSUME NEW d \in Daemons, Crash(d) PROVE Goal
  <2>1. Undisturbed
    BY <1>1, <1>4, <1>8 DEF Crash
  <2> QED BY <1>0, <1>2, <1>8, <2>1, SaneCrash, QuietCrash
<1>9. ASSUME NEW d \in Daemons, Restart(d) PROVE Goal
  <2>1. ~Undisturbed
    BY <1>9 DEF Undisturbed, Restart
  <2> QED BY <1>0, <1>1, <1>9, <2>1, SaneRestart, DisturbedRestart
<1>10. CASE RedisDown
  <2>1. Undisturbed
    BY <1>1, <1>4, <1>10 DEF RedisDown
  <2> QED BY <1>0, <1>2, <1>3, <1>10, <2>1, SaneOther, QuietRedisDown
<1>11. CASE RedisUp
  <2>1. ~Undisturbed
    BY <1>11 DEF Undisturbed, RedisUp
  <2> QED BY <1>0, <1>1, <1>3, <1>11, <2>1, SaneOther, DisturbedOther
<1>12. CASE HaTick
  BY <1>0, <1>1, <1>12, SaneTick, QuietTick, DisturbedTick
<1>13. ASSUME NEW d \in Daemons, DumpBegin(d) \/ DumpEnd(d) \/ Emit \/ UNCHANGED haVars PROVE Goal
  BY <1>0, <1>1, <1>13, SaneOther, QuietOther, DisturbedOther
<1>14. ASSUME NEW d \in Daemons, Regenerate(d) PROVE Goal
  <2>1. Undisturbed
    BY <1>1, <1>4, <1>14 DEF Regenerate
  <2> QED BY <1>0, <1>14, <2>1, SaneOther, QuietOther
<1>15. /\ \A d \in Daemons : ~ForceState(d, "active") /\ ~ForceState(d, "standby") /\ ~SetToNormal(d)
       /\ \A k \in Daemons : ~Expire(k)
  BY FailoverNumbers DEF ForceState, SetToNormal, Expire, Fault
<1>16. \A d, k \in Daemons : ~ReadKeyNil(d, k)
  BY <1>0 DEF Sane, Round, ReadKeyNil
<1> HIDE DEF Goal
<1>17. ASSUME NEW d \in Daemons, RedisThread(d) PROVE Goal
  BY <1>6, <1>7, <1>16, <1>17 DEF RedisThread, RoundAction
<1>18. ASSUME NEW d \in Daemons,
              \/ BmpThread(d) \/ DumpThread(d) \/ Pop(d) \/ Signal(d) \/ Crash(d) \/ Restart(d)
              \/ Expire(d)
       PROVE  Goal
  BY <1>5, <1>8, <1>9, <1>13, <1>14, <1>15, <1>18
     DEF BmpThread, DumpThread, Signal, MessageAction
<1> QED BY <1>3, <1>10, <1>11, <1>12, <1>13, <1>17, <1>18 DEF HaNext

(* "This makes sure that no BMP/BGP messages are dropped during the        *)
(* failover period" (README_BGP_BMP_HA.md:129): with one crash, outage of  *)
(* Redis or new timestamp, whenever it happens, a message that is not in   *)
(* Kafka is with a running collector, for any number of collectors and of  *)
(* messages.                                                               *)
THEOREM NothingDropped ==
  ASSUME Failover
  PROVE  HaSpec => []NoMessageLost
<1>1. FailoverInv /\ HaTypeOK => NoMessageLost
  <2> SUFFICES ASSUME FailoverInv, HaTypeOK PROVE NoMessageLost
    OBVIOUS
  <2>1. \E d \in Daemons : up[d] /\ KeepsAll(d)
    <3>1. CASE Undisturbed
      BY <3>1 DEF Undisturbed, Failover
    <3>2. ASSUME NEW X \in SUBSET Daemons, Disturbed(X) PROVE \E d \in Daemons : up[d] /\ KeepsAll(d)
      <4>1. X # Daemons
        BY <3>2 DEF Disturbed, Failover
      <4> QED BY <3>2, <4>1, OldestExists DEF Disturbed, Heir
    <3> QED BY <3>1, <3>2 DEF FailoverInv
  <2> QED BY <2>1 DEF KeepsAll, NoMessageLost
<1>2. Failover /\ ~Overlap
  BY DEF Failover
<1>3. HaInit => HaTypeOK /\ QueueInv /\ FailoverInv
  BY <1>2, HaTypeInit, QueueInit, FailoverInit
<1>4. (HaTypeOK /\ QueueInv /\ FailoverInv) /\ [HaNext]_haVars => (HaTypeOK /\ QueueInv /\ FailoverInv)'
  BY <1>2, HaTypeStep, QueueStep, FailoverStep
<1> QED BY <1>1, <1>3, <1>4, PTL DEF HaSpec
=============================================================================
