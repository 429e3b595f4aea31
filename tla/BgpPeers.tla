------------------------------ MODULE BgpPeers ------------------------------
(***************************************************************************)
(* The sessions of the BGP daemon (skinny_bgp_daemon_online, bgp/bgp.c,    *)
(* with bgp_msg.c and bgp_util.c): one thread that waits in select(),      *)
(* takes at most one new connection and reads from at most one peer per    *)
(* turn.  Peers live in a fixed array of slots; a slot is free when its    *)
(* descriptor is 0.                                                        *)
(*                                                                         *)
(* Times are kept as ages, counted up to Old: the code only compares       *)
(* differences of now with the hold time, its half and the batch interval. *)
(* The content of a message is its type and what the session or the RIB    *)
(* takes from it; the bytes of its framing are abstracted to "not yet      *)
(* complete".  The RIB holds, per prefix, bucket and peer, the attributes  *)
(* and the label last stored; its trie is module BgpTable.  Sends succeed. *)
(* Cross-connects and the looking glass' peer cache are left out, and so   *)
(* are two options that are off by default: tmp_bgp_lookup_compare_ports,  *)
(* with which connections of one address from different ports are those of *)
(* different peers (Doomed), and bgp_disable_router_id_check, with which   *)
(* identifiers are not compared (Known).                                   *)
(***************************************************************************)
EXTENDS Naturals, FiniteSets, FiniteSetsExt

CONSTANTS
  MaxPeers,     \* bgp_daemon_max_peers
  Addrs,        \* addresses that connect
  Allowed,      \* those the bgp_daemon_allow_file admits
  Ids,          \* router identifiers
  Unset,        \* a zeroed address or identifier
  MinHold,      \* least hold time, 5 s in bgp_parse_open_msg
  Holds,        \* hold times that peers propose
  Nets, Attrs, Labels,
  Buckets,      \* bgp_table_peer_buckets
  BatchNum, BatchInterval,  \* bgp_daemon_batch, bgp_daemon_batch_interval
  Old           \* ages are counted up to here

Slots == 0..(MaxPeers - 1)
Fds == 1..(MaxPeers + 1)          \* 0 is "none"; one more than the slots
HoldTime(h) == IF h > MinHold THEN h ELSE MinHold

ASSUME PeersAssumption ==
  /\ MaxPeers \in Nat \ {0} /\ MinHold \in Nat /\ Holds \subseteq Nat
  /\ Allowed \subseteq Addrs /\ Unset \notin Addrs \cup Ids
  /\ Buckets \in Nat \ {0} /\ BatchNum \in Nat /\ BatchInterval \in Nat
  /\ (BatchNum = 0 <=> BatchInterval = 0)
  /\ Old \in Nat /\ \A h \in Holds : 2 * HoldTime(h) < Old
  /\ BatchInterval < Old

VARIABLES
  fd, addr, id, status, ht,  \* struct bgp_peer, per slot
  age,        \* now - last_keepalive, per slot
  silent,     \* time since a message arrived, per slot (not in the code)
  watched,    \* bkp_read_descs, without the listening socket
  recalc, selectFd, maxIdx,  \* recalc_fds, bkp_select_fd, max_peers_idx
  rr,         \* peers_idx_rr
  room, batchAge,            \* the batch: num_current, now - base_stamp
  rib,        \* routes: [prefix, bucket, slot, attr, label]
  announced,  \* per slot, what the peer of the session has announced
              \* since its connection was accepted (not in the code)
  pc,         \* "select", or "read" when connections were dealt with
  readable,   \* read_descs
  bypass,     \* reads of others since the slot has been readable, up to
  shifted     \* MaxPeers, and the slots for which maxIdx has changed since
              \* then (not in the code)

session == <<fd, addr, id, status, ht>>
loop == <<watched, recalc, selectFd, maxIdx, rr>>
waiting == <<bypass, shifted>>
vars == <<session, age, silent, loop, room, batchAge, rib, announced, pc, readable, waiting>>

-----------------------------------------------------------------------------
Bucket(f) == f % Buckets                 \* bgp_route_info_modulo_pathid

(* bgp_table_info_delete of one peer: it looks in the bucket of its descriptor *)
RoutesOf(s, f) == {r \in rib : r.slot = s /\ r.bucket = Bucket(f)}

(* bgp_peer_close of the slots C, whose descriptors are F; the ones to be     *)
(* closed are cleared from the watched descriptors before.  The status and    *)
(* the times stay until bgp_peer_init clears them.                            *)
PeerClose(C, F) ==
  /\ fd' = [s \in Slots |-> IF s \in C THEN 0 ELSE F[s]]
  /\ id' = [s \in Slots |-> IF s \in C THEN Unset ELSE id[s]]
  /\ rib' = rib \ UNION {RoutesOf(s, F[s]) : s \in C}

(* The descriptor that accept() returns: the lowest one not in use *)
NewFd == Min(Fds \ {fd[s] : s \in Slots})

Init ==
  /\ fd = [s \in Slots |-> 0]
  /\ addr = [s \in Slots |-> Unset]
  /\ id = [s \in Slots |-> Unset]
  /\ status = [s \in Slots |-> "Idle"]
  /\ ht = [s \in Slots |-> 0]
  /\ age = [s \in Slots |-> Old]
  /\ silent = [s \in Slots |-> 0]
  /\ watched = {}
  /\ recalc = TRUE /\ selectFd = 0 /\ maxIdx = 0 /\ rr = 0
  /\ room = 0 /\ batchAge = Old
  /\ rib = {}
  /\ announced = [s \in Slots |-> {}]
  /\ pc = "select" /\ readable = {} /\ bypass = [s \in Slots |-> 0]
  /\ shifted = {}

(* The head of the loop: the bounds of select() and of the search for a peer *)
(* are computed anew if a slot was taken or freed.                           *)
Open == {s \in Slots : fd[s] # 0}

Recalculate ==
  IF ~recalc THEN UNCHANGED <<selectFd, maxIdx>>
  ELSE /\ selectFd' = Max({fd[s] : s \in Slots}) + 1
       /\ maxIdx' = IF Open = {} THEN 0 ELSE Max(Open) + 1

(* select() sees the descriptors it watches that are below selectFd; taken   *)
(* says whether the connection dealt with next takes a slot.                 *)
Selected(R, taken) ==
  /\ pc = "select"
  /\ Recalculate
  /\ recalc' = taken
  /\ R \subseteq {f \in watched : f < selectFd'}
  /\ readable' = R
  /\ pc' = "read"
  /\ shifted' = IF maxIdx' = maxIdx THEN shifted ELSE {s \in Slots : bypass[s] > 0}
  /\ UNCHANGED bypass

NoConnection(R) ==
  /\ Selected(R, FALSE)
  /\ R # {}
  /\ UNCHANGED <<session, age, silent, watched, rr, room, batchAge, rib, announced>>

-----------------------------------------------------------------------------
(* A new connection *)

FreeSlots == Slots \ Open
BatchExpired == batchAge > BatchInterval
Admitted == room > 0 \/ BatchExpired        \* bgp_batch_is_admitted

(* Not allowed, throttled, or no slot left: the connection is dropped. *)
Drop(a, R) ==
  /\ a \notin Allowed \/ FreeSlots = {} \/ ~Admitted
  /\ Selected(R, FALSE)
  /\ UNCHANGED <<session, age, silent, watched, rr, room, batchAge, rib, announced>>

TakeRoom ==
  IF BatchNum = 0 THEN UNCHANGED <<room, batchAge>>
  ELSE /\ batchAge' = IF BatchExpired THEN 0 ELSE batchAge
       /\ room' = (IF BatchExpired THEN BatchNum ELSE room) - 1

(* Mutant of Doomed: connections are not compared. *)
DoomedNot(s, a) == {}

Stale(c) == age[c] > ht[c]
SameAddr(s, a) == {c \in Slots \ {s} : addr[c] = a}
Firm(s, a) == {c \in SameAddr(s, a) : ~Stale(c)}

(* Sessions of the address in other slots: each stale one met on the way is  *)
(* closed, the first one that is not ends the search and closes the new one. *)
(* Ports are not compared (tmp_bgp_lookup_compare_ports is off).             *)
Doomed(s, a) ==
  {c \in SameAddr(s, a) : Stale(c) /\ \A k \in Firm(s, a) : c < k}
  \cup (IF Firm(s, a) = {} THEN {} ELSE {s})

Accept(a, R) ==
  /\ a \in Allowed /\ FreeSlots # {} /\ Admitted
  /\ Selected(R, TRUE)
  /\ LET s == Min(FreeSlots)
         C == Doomed(s, a)
     IN /\ PeerClose(C, [fd EXCEPT ![s] = NewFd])
        /\ addr' = [c \in Slots |-> IF c \in C THEN Unset ELSE IF c = s THEN a ELSE addr[c]]
        /\ status' = [status EXCEPT ![s] = "Idle"]
        /\ ht' = [ht EXCEPT ![s] = 0]
        /\ age' = [age EXCEPT ![s] = Old]
        /\ silent' = [silent EXCEPT ![s] = 0]
        /\ announced' = [announced EXCEPT ![s] = {}]
        /\ watched' = (watched \cup {NewFd}) \ {IF c = s THEN NewFd ELSE fd[c] : c \in C}
  /\ TakeRoom
  /\ UNCHANGED rr

-----------------------------------------------------------------------------
(* Reading from one peer *)

Ready(s) == fd[s] # 0 /\ fd[s] \in readable

(* The search for a readable peer starts from peers_idx_rr. *)
Turn(i) == (i + rr) % maxIdx
Found == {i \in 0..(maxIdx - 1) : Ready(Turn(i))}
Reader == Turn(Min(Found))

(* Mutant of Advance: the search always starts from the first slot. *)
AdvanceNot == rr' = rr

Advance == rr' = (rr + 1) % maxIdx

Serve(x) ==
  /\ pc = "read" /\ maxIdx > 0 /\ Found # {} /\ x = Reader
  /\ pc' = "select" /\ readable' = {}
  /\ Advance
  /\ bypass' = [s \in Slots |->
       IF s = x \/ ~Ready(s) THEN 0
       ELSE IF bypass[s] < MaxPeers THEN bypass[s] + 1 ELSE MaxPeers]
  /\ shifted' = {s \in shifted : bypass'[s] > 0}
  /\ UNCHANGED <<selectFd, maxIdx, room, batchAge>>

NobodyReadable ==
  /\ pc = "read"
  /\ maxIdx = 0 \/ Found = {}
  /\ pc' = "select" /\ readable' = {}
  /\ bypass' = [s \in Slots |-> 0] /\ shifted' = {}
  /\ UNCHANGED <<session, age, silent, loop, room, batchAge, rib, announced>>

(* Mutants of Shut: the descriptor is cleared before the routes are deleted; *)
(* it stays watched.                                                         *)
ShutFdFirst(x) ==
  /\ PeerClose({x}, [fd EXCEPT ![x] = 0])
  /\ addr' = [addr EXCEPT ![x] = Unset]
  /\ watched' = watched \ {fd[x]} /\ recalc' = TRUE
  /\ UNCHANGED <<status, ht, announced>>
ShutWatched(x) ==
  /\ PeerClose({x}, fd)
  /\ addr' = [addr EXCEPT ![x] = Unset]
  /\ recalc' = TRUE
  /\ UNCHANGED <<status, ht, announced, watched>>

Shut(x) ==
  /\ PeerClose({x}, fd)
  /\ addr' = [addr EXCEPT ![x] = Unset]
  /\ watched' = watched \ {fd[x]} /\ recalc' = TRUE
  /\ UNCHANGED <<status, ht, announced>>

Established(s) == fd[s] # 0 /\ status[s] = "Established"

(* Part of a message: the rest is awaited. *)
ReadPart ==
  \E x \in Slots : /\ Serve(x)
                   /\ UNCHANGED <<session, age, silent, watched, recalc, rib, announced>>

(* recv() fails or ends, or the marker of the header is wrong *)
ReadReset ==
  \E x \in Slots : /\ Serve(x) /\ Shut(x)
                   /\ UNCHANGED <<age, silent>>

(* A complete message; a KEEPALIVE is sent first if the last one is older    *)
(* than half the hold time.                                                  *)
KeptAlive(x) == Established(x) /\ age[x] > ht[x] \div 2
Heard(x) == silent' = [silent EXCEPT ![x] = 0]

(* Mutant of Replied: only a KEEPALIVE of the peer is answered. *)
RepliedOnly(x, answered) == age' = IF answered THEN [age EXCEPT ![x] = 0] ELSE age

Replied(x, answered) ==
  age' = IF answered \/ KeptAlive(x) THEN [age EXCEPT ![x] = 0] ELSE age

(* Messages that end the session: NOTIFICATION, an unknown type, a malformed *)
(* OPEN or UPDATE, an OPEN in a session, an UPDATE outside of one.           *)
ReadFatal ==
  \E x \in Slots : /\ Serve(x) /\ Heard(x) /\ Shut(x) /\ Replied(x, FALSE)

(* bgp_router_id_check, unless bgp_disable_router_id_check is set. *)
Known(x, i) == \E c \in Slots \ {x} : id[c] = i

(* bgp_parse_open_msg *)
ReadOpen(i, h) ==
  \E x \in Slots :
    /\ Serve(x) /\ Heard(x)
    /\ status[x] = "Idle"
    /\ IF Known(x, i) THEN Shut(x) /\ UNCHANGED age
       ELSE /\ id' = [id EXCEPT ![x] = i]
            /\ ht' = [ht EXCEPT ![x] = HoldTime(h)]
            /\ status' = [status EXCEPT ![x] = "Established"]
            /\ age' = [age EXCEPT ![x] = 0]
            /\ UNCHANGED <<fd, addr, watched, recalc, rib, announced>>

(* A KEEPALIVE, answered within a session, ignored before it; or a            *)
(* ROUTE-REFRESH, ignored.                                                    *)
ReadIdle(keepalive) ==
  \E x \in Slots :
    /\ Serve(x) /\ Heard(x)
    /\ Replied(x, keepalive /\ Established(x))
    /\ UNCHANGED <<session, watched, recalc, rib, announced>>

Previous(x, p) == {r \in RoutesOf(x, fd[x]) : r.prefix = p}

(* bgp_process_update: "Received same information" is decided from the        *)
(* attributes, without the label.                                             *)
Installed(x, p, a, l) ==
  IF \E r \in Previous(x, p) : r.attr = a THEN rib
  ELSE (rib \ Previous(x, p))
       \cup {[prefix |-> p, bucket |-> Bucket(fd[x]), slot |-> x, attr |-> a, label |-> l]}

ReadUpdate(p, a, l) ==
  \E x \in Slots :
    /\ Serve(x) /\ Heard(x)
    /\ Established(x)
    /\ Replied(x, FALSE)
    /\ rib' = Installed(x, p, a, l)
    /\ announced' = [announced EXCEPT ![x] =
         {r \in @ : r.prefix # p} \cup {[prefix |-> p, attr |-> a, label |-> l]}]
    /\ UNCHANGED <<session, watched, recalc>>

(* bgp_process_withdraw *)
ReadWithdraw(p) ==
  \E x \in Slots :
    /\ Serve(x) /\ Heard(x)
    /\ Established(x)
    /\ Replied(x, FALSE)
    /\ rib' = rib \ Previous(x, p)
    /\ announced' = [announced EXCEPT ![x] = {r \in @ : r.prefix # p}]
    /\ UNCHANGED <<session, watched, recalc>>

-----------------------------------------------------------------------------
(* Time passes while the thread waits in select(). *)
Older(n) == IF n < Old THEN n + 1 ELSE Old

Tick ==
  /\ pc = "select"
  /\ age' = [s \in Slots |-> IF fd[s] # 0 THEN Older(age[s]) ELSE Old]
  /\ silent' = [s \in Slots |-> IF fd[s] # 0 THEN Older(silent[s]) ELSE 0]
  /\ batchAge' = Older(batchAge)
  /\ UNCHANGED <<session, loop, room, rib, announced, pc, readable, waiting>>

Next ==
  \/ \E R \in SUBSET Fds : NoConnection(R)
  \/ \E a \in Addrs, R \in SUBSET Fds : Drop(a, R)
  \/ \E a \in Addrs, R \in SUBSET Fds : Accept(a, R)
  \/ NobodyReadable
  \/ ReadPart
  \/ ReadReset
  \/ ReadFatal
  \/ \E i \in Ids, h \in Holds : ReadOpen(i, h)
  \/ \E keepalive \in BOOLEAN : ReadIdle(keepalive)
  \/ \E p \in Nets, a \in Attrs, l \in Labels : ReadUpdate(p, a, l)
  \/ \E p \in Nets : ReadWithdraw(p)
  \/ Tick

Spec == Init /\ [][Next]_vars

-----------------------------------------------------------------------------
(* Properties *)

Route == [prefix : Nets, bucket : 0..(Buckets - 1), slot : Slots, attr : Attrs, label : Labels]
Announcement == [prefix : Nets, attr : Attrs, label : Labels]

(* The fields of the peers, the loop and the batch have their types; the      *)
(* batch never counts below zero or above its size.                           *)
TypeOK ==
  /\ fd \in [Slots -> Fds \cup {0}] /\ addr \in [Slots -> Addrs \cup {Unset}]
  /\ id \in [Slots -> Ids \cup {Unset}] /\ status \in [Slots -> {"Idle", "Established"}]
  /\ ht \in [Slots -> Nat] /\ age \in [Slots -> 0..Old] /\ silent \in [Slots -> 0..Old]
  /\ watched \subseteq Fds /\ recalc \in BOOLEAN /\ selectFd \in Nat
  /\ maxIdx \in 0..MaxPeers /\ rr \in Nat
  /\ room \in 0..BatchNum /\ batchAge \in 0..Old
  /\ rib \subseteq Route
  /\ announced \in [Slots -> SUBSET Announcement]
  /\ pc \in {"select", "read"} /\ readable \subseteq Fds /\ bypass \in [Slots -> 0..MaxPeers]
  /\ shifted \subseteq Slots

(* No session is forgotten: exactly the descriptors of the open slots are     *)
(* watched, no two slots share one, and unless the bounds are about to be     *)
(* recomputed every open slot is within them.                                 *)
EverySessionWatched ==
  /\ TypeOK
  /\ watched = {fd[s] : s \in Open}
  /\ \A s, c \in Open : fd[s] = fd[c] => s = c
  /\ ~recalc => \A s \in Open : s < maxIdx /\ fd[s] < selectFd

(* "Check: more than one TCP connection from a peer", "Check: duplicate       *)
(* Router-IDs": an address has at most one session, and no two established    *)
(* sessions the same identifier, however connections, resets and hold times   *)
(* fall together.                                                             *)
OneSession ==
  /\ \A s, c \in Open : addr[s] = addr[c] => s = c
  /\ \A s, c \in Slots : Established(s) /\ Established(c) /\ id[s] = id[c] => s = c

(* The RIB holds for each session exactly the routes its peer announced in    *)
(* it and did not withdraw, and nothing for a slot that is free: the next     *)
(* session in the slot starts from nothing.                                   *)
RibIsAnnounced ==
  \A s \in Slots :
    {<<r.prefix, r.attr>> : r \in {q \in rib : q.slot = s}}
    = IF Established(s) THEN {<<r.prefix, r.attr>> : r \in announced[s]} ELSE {}

(* A new connection of the same address replaces an established session only  *)
(* if nothing was heard in it for more than half its hold time: what the code *)
(* looks at is when it last sent a KEEPALIVE itself.                          *)
ReplacedWhenSilent ==
  [][pc = "select" => \A s \in Slots :
       Established(s) /\ fd'[s] = 0 => silent[s] > ht[s] - ht[s] \div 2]_vars

(* "To avoid starvation of the later established peers": a peer with data to  *)
(* read is passed over fewer times than there are slots to search, as long as *)
(* no connection or reset changes their number.                               *)
NoStarvation == \A s \in Slots \ shifted : bypass[s] = 0 \/ bypass[s] < maxIdx

(* The same, whatever the other peers do.                                     *)
NeverStarves == \A s \in Slots : bypass[s] < MaxPeers

(* The label stored with a route is the one last announced.                   *)
LabelIsAnnounced ==
  \A s \in Slots : \A r \in {q \in rib : q.slot = s} :
    Established(s) => [prefix |-> r.prefix, attr |-> r.attr, label |-> r.label] \in announced[s]

=============================================================================
