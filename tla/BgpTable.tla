------------------------------ MODULE BgpTable ------------------------------
(***************************************************************************)
(* The routing table of the BGP, BMP and RPKI threads (bgp/bgp_table.c):   *)
(* a Patricia trie of prefixes whose nodes count the references to them    *)
(* and disappear with the last one.  The BGP thread installs and withdraws *)
(* routes (bgp_process_update, bgp_process_withdraw) and, when a session   *)
(* ends, walks the whole trie deleting the routes of that peer             *)
(* (bgp_table_info_delete); the core process looks addresses up meanwhile  *)
(* (bgp_node_match).                                                       *)
(*                                                                         *)
(* A node is identified with its prefix, a sequence of bits: bgp_node_get  *)
(* never makes a second node for a prefix it can reach, and TrieSound says *)
(* that it can reach them all.  The information lists of a node are        *)
(* abstracted to the set of peers that have a route there (one path each;  *)
(* attributes, path identifiers and buckets are left out).  The steps of   *)
(* two threads interleave between, not inside, the operations: the code    *)
(* has no lock at all here, so a torn read is beyond this module.          *)
(***************************************************************************)
EXTENDS Naturals, FiniteSets, Sequences, FiniteSetsExt, SequencesExt

CONSTANTS
  MaxLen,       \* length of an address, 32 or 128 bits
  Routes,       \* prefixes that peers announce
  Peers,
  Null,         \* the null pointer
  LockBits,     \* width of bgp_node.lock: 32, an unsigned int
  MaxLookups    \* bound on the lookups that find a route

AllPrefixes == UNION {[1..n -> {0, 1}] : n \in 0..MaxLen}
Addresses == [1..MaxLen -> {0, 1}]

ASSUME TableAssumption ==
  /\ MaxLen \in Nat /\ LockBits \in Nat \ {0} /\ MaxLookups \in Nat
  /\ Routes \subseteq AllPrefixes /\ IsFiniteSet(Peers) /\ Null \notin AllPrefixes

VARIABLES
  table,     \* [node, top, count, aborted]: the trie; node is defined on the
             \* prefixes that have one
  walk,      \* node a bgp_table_info_delete has reached, or Null
  leaving,   \* the peer it deletes
  taken      \* how often a lookup has returned each prefix

tableVars == <<table, walk, leaving, taken>>

-----------------------------------------------------------------------------
(* Locks, and the deletion of a node by its last unlock *)

Modulus == 2^LockBits

(* What a proof needs to know of the power. *)
ASSUME ModulusAssumption == Modulus \in Nat \ {0}

(* bgp_lock_node *)
Lock(T, n) == [T EXCEPT !.node[n].lock = (@ + 1) % Modulus]

(* One level of bgp_node_delete: the node must be empty (the assertion); one *)
(* with two children stays, otherwise its child, if any, takes its place.    *)
Child(T, n) ==
  IF T.node[n].link[0] # Null THEN T.node[n].link[0] ELSE T.node[n].link[1]

TwoChildren(T, n) == T.node[n].link[0] # Null /\ T.node[n].link[1] # Null

Unlinked(T, n) ==
  LET child == Child(T, n)
      parent == T.node[n].parent
      relinked == [m \in DOMAIN T.node \ {n} |->
        [T.node[m] EXCEPT
           !.parent = IF m = child THEN parent ELSE @,
           !.link = IF m # parent THEN @
                    ELSE IF @[0] = n THEN [@ EXCEPT ![0] = child]
                    ELSE [@ EXCEPT ![1] = child]]]
  IN [T EXCEPT !.node = relinked,
               !.top = IF parent = Null THEN child ELSE @,
               !.count = @ - 1]

(* bgp_node_delete: "If parent node is stub then delete it also." *)
DeleteStep(d) ==
  LET T == d.table
      n == d.at
      asserted == [T EXCEPT !.aborted = @ \/ T.node[n].info # {}]
      parent == T.node[n].parent
      stub == parent # Null /\ T.node[parent].lock = 0
  IN IF TwoChildren(T, n) THEN [table |-> asserted, at |-> Null]
     ELSE [table |-> Unlinked(asserted, n), at |-> IF stub THEN parent ELSE Null]

Delete(T, n) ==
  LET up[i \in 0..(MaxLen + 1)] ==
        IF i = 0 THEN [table |-> T, at |-> n]
        ELSE LET d == up[i - 1] IN IF d.at = Null THEN d ELSE DeleteStep(d)
  IN up[MaxLen + 1].table

(* bgp_unlock_node *)
Unlock(T, n) ==
  LET unlocked == [T EXCEPT !.node[n].lock = (@ + Modulus - 1) % Modulus]
  IN IF unlocked.node[n].lock = 0 THEN Delete(unlocked, n) ELSE unlocked

-----------------------------------------------------------------------------
(* Walking down the trie *)

Bit(p, n) == p[Len(n) + 1]    \* check_bit(&p->u.prefix, n->p.prefixlen)

(* The nodes the search for p passes: from the top, while the node is a      *)
(* prefix of p, along the link that p's next bit selects.                    *)
OnTheWay(T, p) ==
  LET at[i \in 0..(MaxLen + 1)] ==
        IF i = 0 THEN T.top
        ELSE LET n == at[i - 1]
             IN IF n = Null THEN Null
                ELSE IF ~IsPrefix(n, p) \/ n = p THEN Null
                ELSE T.node[n].link[Bit(p, n)]
  IN {at[i] : i \in 0..(MaxLen + 1)} \ {Null}

Matching(T, p) == {n \in OnTheWay(T, p) : IsPrefix(n, p)}

Longest(S) == CHOOSE n \in S : \A m \in S : Len(m) <= Len(n)

(* route_common *)
Common(n, p) == LongestCommonPrefix({n, p})

-----------------------------------------------------------------------------
(* bgp_node_get: the node of p, created if there is none, locked *)

NewNode == [parent |-> Null, link |-> [b \in {0, 1} |-> Null], lock |-> 0, info |-> {}]

WithNode(T, p) ==
  [T EXCEPT !.node = [m \in DOMAIN @ \cup {p} |-> IF m = p THEN NewNode ELSE @[m]],
            !.count = @ + 1]

(* Mutant of SetLink: one direction of the link only. *)
SetLinkDown(T, n, new) ==
  IF n = Null THEN [T EXCEPT !.top = new]
  ELSE [T EXCEPT !.node[n].link[Bit(new, n)] = new]

(* set_link, or table->top = new when there is no node above *)
SetLink(T, n, new) ==
  IF n = Null THEN [T EXCEPT !.top = new]
  ELSE [T EXCEPT !.node[n].link[Bit(new, n)] = new, !.node[new].parent = n]

(* Mutant of Inserted: no joint, the new node takes the place of the old one. *)
InsertedOver(T, p) ==
  SetLink(WithNode(T, p),
          IF Matching(T, p) = {} THEN Null ELSE Longest(Matching(T, p)), p)

(* Between match, above, and node, below, a node for the common prefix goes  *)
(* in; if that is not p itself, p becomes its other child.                   *)
Inserted(T, p) ==
  LET matching == Matching(T, p)
      match == IF matching = {} THEN Null ELSE Longest(matching)
      node == IF match = Null THEN T.top ELSE T.node[match].link[Bit(p, match)]
      joint == Common(node, p)
      joined == SetLink(SetLink(WithNode(T, joint), joint, node), match, joint)
  IN IF node = Null THEN SetLink(WithNode(T, p), match, p)
     ELSE IF joint = p THEN joined
     ELSE SetLink(WithNode(joined, p), joint, p)

Get(T, p) == Lock(IF p \in Matching(T, p) THEN T ELSE Inserted(T, p), p)

(* Mutant of InfoAdd: the route takes no reference. *)
InfoAddUnlocked(T, n, peer) == [T EXCEPT !.node[n].info = @ \cup {peer}]

(* bgp_info_add and bgp_info_delete *)
InfoAdd(T, n, peer) == Lock([T EXCEPT !.node[n].info = @ \cup {peer}], n)
InfoDelete(T, n, peer) == Unlock([T EXCEPT !.node[n].info = @ \ {peer}], n)

(* bgp_node_match: the deepest node on the way that has a route of the peer *)
Matches(T, p, peer) == {n \in Matching(T, p) : peer \in T.node[n].info}

-----------------------------------------------------------------------------
(* The operations *)

EmptyTable == [node |-> [n \in {} |-> NewNode], top |-> Null, count |-> 0, aborted |-> FALSE]

TableInit ==
  /\ table = EmptyTable
  /\ walk = Null
  /\ leaving \in Peers
  /\ taken = [n \in AllPrefixes |-> 0]

Working == walk = Null /\ ~table.aborted

(* bgp_process_update: a first route of the peer for the prefix, or one that *)
(* replaces what it announced before.                                        *)
Update(p, peer) ==
  /\ Working
  /\ LET got == Get(table, p)
         added == IF peer \in got.node[p].info THEN got ELSE InfoAdd(got, p, peer)
     IN table' = Unlock(added, p)
  /\ UNCHANGED <<walk, leaving, taken>>

(* Mutant of Withdraw: nothing to withdraw, nothing to unlock. *)
WithdrawReturns(p, peer) ==
  /\ Working
  /\ LET got == Get(table, p)
     IN table' = IF peer \in got.node[p].info THEN Unlock(InfoDelete(got, p, peer), p) ELSE got
  /\ UNCHANGED <<walk, leaving, taken>>

(* bgp_process_withdraw, also of a route that was never announced *)
Withdraw(p, peer) ==
  /\ Working
  /\ LET got == Get(table, p)
         deleted == IF peer \in got.node[p].info THEN InfoDelete(got, p, peer) ELSE got
     IN table' = Unlock(deleted, p)
  /\ UNCHANGED <<walk, leaving, taken>>

(* bgp_table_top, for the peer whose session ends *)
WalkStart(peer) ==
  /\ Working
  /\ table.top # Null
  /\ walk' = table.top
  /\ leaving' = peer
  /\ table' = Lock(table, table.top)
  /\ UNCHANGED taken

(* Mutants of After: the climb stops at the first ancestor; any right link of *)
(* an ancestor will do.                                                       *)
AfterParent(T, n) ==
  LET parent == T.node[n].parent
  IN IF Child(T, n) # Null THEN Child(T, n)
     ELSE IF parent = Null THEN Null
     ELSE IF T.node[parent].link[0] = n THEN T.node[parent].link[1] ELSE Null
AfterAnyRight(T, n) ==
  IF Child(T, n) # Null THEN Child(T, n)
  ELSE IF T.node[n].parent = Null THEN Null ELSE T.node[T.node[n].parent].link[1]

(* bgp_route_next: first child, else the right link of the nearest ancestor  *)
(* that is reached from its left one.                                        *)
After(T, n) ==
  LET up[i \in 0..MaxLen] ==
        IF i = 0 THEN n
        ELSE LET m == up[i - 1] IN IF m = Null THEN Null ELSE T.node[m].parent
      turns == {i \in 1..MaxLen : /\ up[i] # Null
                                  /\ T.node[up[i]].link[0] = up[i - 1]
                                  /\ T.node[up[i]].link[1] # Null}
  IN IF Child(T, n) # Null THEN Child(T, n)
     ELSE IF turns = {} THEN Null
     ELSE T.node[up[Min(turns)]].link[1]

(* One turn of the loop of bgp_table_info_delete *)
WalkStep ==
  /\ walk # Null /\ ~table.aborted
  /\ LET cleared == IF leaving \in table.node[walk].info
                    THEN InfoDelete(table, walk, leaving) ELSE table
         next == After(cleared, walk)
         locked == IF next = Null THEN cleared ELSE Lock(cleared, next)
     IN /\ table' = Unlock(locked, walk)
        /\ walk' = next
  /\ UNCHANGED <<leaving, taken>>

Total == MapThenSumSet(LAMBDA n : taken[n], AllPrefixes)

(* A lookup of the core process: bgp_node_match locks the node it returns,   *)
(* and no caller in bgp_lookup.c ever unlocks it.                            *)
Lookup(p, peer) ==
  /\ ~table.aborted
  /\ Total < MaxLookups
  /\ Matches(table, p, peer) # {}
  /\ LET n == Longest(Matches(table, p, peer))
     IN /\ table' = Lock(table, n)
        /\ taken' = [taken EXCEPT ![n] = @ + 1]
  /\ UNCHANGED <<walk, leaving>>

TableNext ==
  \/ \E p \in Routes, peer \in Peers : Update(p, peer)
  \/ \E p \in Routes, peer \in Peers : Withdraw(p, peer)
  \/ \E peer \in Peers : WalkStart(peer)
  \/ WalkStep
  \/ \E p \in Addresses, peer \in Peers : Lookup(p, peer)

TableSpec == TableInit /\ [][TableNext]_tableVars

-----------------------------------------------------------------------------
(* Properties *)

Nodes == DOMAIN table.node

Node == [parent : AllPrefixes \cup {Null}, link : [{0, 1} -> AllPrefixes \cup {Null}],
         lock : 0..(Modulus - 1), info : SUBSET Peers]

(* Every node, the cursor of the walk and the lookup counts have their types, *)
(* and the cursor is on a node that exists.                                   *)
TableTypeOK ==
  /\ Nodes \subseteq AllPrefixes
  /\ \A n \in Nodes : table.node[n] \in Node
  /\ table.top \in Nodes \cup {Null} /\ table.count \in Nat /\ table.aborted \in BOOLEAN
  /\ walk \in Nodes \cup {Null} /\ leaving \in Peers
  /\ taken \in [AllPrefixes -> Nat]

(* The trie stays one: the two directions of a link agree, a child extends    *)
(* its parent's prefix by the bit of its link, only the top has no parent,    *)
(* and table->count is the number of nodes.                                   *)
TrieSound ==
  /\ TableTypeOK
  /\ \A n \in Nodes : \A b \in {0, 1} :
       LET m == table.node[n].link[b]
       IN m # Null => /\ m \in Nodes /\ table.node[m].parent = n
                      /\ IsStrictPrefix(n, m) /\ Bit(m, n) = b
  /\ \A n \in Nodes : LET m == table.node[n].parent
                      IN IF m = Null THEN table.top = n
                         ELSE m \in Nodes /\ \E b \in {0, 1} : table.node[m].link[b] = n
  /\ table.count = Cardinality(Nodes)

(* A node's lock counts its routes, the lookups that returned it and the walk *)
(* that stands on it: no operation loses or keeps a reference.  Nothing is    *)
(* left behind either: a node without references joins two branches, a stub   *)
(* goes with the branch that needed it, and what a lookup returned lives on.  *)
LocksExact ==
  /\ \A n \in Nodes :
       /\ table.node[n].lock = Cardinality(table.node[n].info) + taken[n]
                               + (IF walk = n THEN 1 ELSE 0)
       /\ table.node[n].lock = 0 => TwoChildren(table, n)
  /\ \A n \in AllPrefixes : taken[n] > 0 => n \in Nodes

(* The lookup follows one path down the trie; what it finds is the longest of *)
(* all the prefixes of the address for which the peer has a route.            *)
MatchIsLongest ==
  \A p \in Addresses, peer \in Peers :
    LET covering == {n \in Nodes : IsPrefix(n, p) /\ peer \in table.node[n].info}
    IN Matches(table, p, peer) = covering

(* The assertion of bgp_node_delete: a node is deleted only when no peer has  *)
(* a route there.                                                             *)
NeverAborts == ~table.aborted

(* When the walk ends no route of the peer is left, whatever nodes went away  *)
(* under the walk, and no route of another peer was touched on the way.       *)
WalkClears ==
  [][walk # Null => /\ walk' = Null => \A n \in DOMAIN table'.node : leaving \notin table'.node[n].info
                    /\ \A peer \in Peers \ {leaving} :
                         {n \in Nodes : peer \in table.node[n].info}
                         = {n \in DOMAIN table'.node : peer \in table'.node[n].info}]_tableVars

(* The walk goes through the trie in one direction, whatever is deleted under *)
(* it and whatever lookups keep alive: it never comes back to a node, so it   *)
(* ends.  (That no route of the peer is skipped is WalkClears.)               *)
Precedes(n, m) ==
  \/ IsStrictPrefix(n, m)
  \/ \E i \in 1..MaxLen : /\ i <= Len(n) /\ i <= Len(m)
                          /\ n[i] < m[i] /\ \A k \in 1..(i - 1) : n[k] = m[k]

WalkAdvances == [][walk # Null /\ walk' # Null /\ taken' = taken => Precedes(walk, walk')]_tableVars

=============================================================================
