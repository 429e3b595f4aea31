-------------------------- MODULE PluginChannelProofs --------------------------
(***************************************************************************)
(* Proofs about the core-to-plugin queue for any number of slots, size of  *)
(* buffers and of records, and with both processes running freely.         *)
(***************************************************************************)
EXTENDS PluginChannel, ListsAndSums, SequenceTheorems

(* The plugin dereferences rg->ptr only inside the ring.                   *)
ReaderInRing == ppc \in {"reseq", "copy", "records"} => pptr \in Ring

LEMMA Modulo ==
  ASSUME NEW n \in Nat, NEW m \in Nat \ {0}
  PROVE  n % m \in 0..(m - 1)
  OBVIOUS

LEMMA SeqSuccessor ==
  ASSUME NEW q \in {NoSeq} \cup 0..(MaxSeq - 1)
  PROVE  (q + 1) % MaxSeq \in 0..(MaxSeq - 1)
<1>1. q + 1 \in Nat
  BY BoundsAssumption DEF NoSeq
<1>2. QED BY <1>1, Modulo, BoundsAssumption

(* Writes to the header and to the records of a slot.                      *)
SlotSeq == {NoSeq} \cup 0..(MaxSeq - 1)
SlotType == [seq : SlotSeq, num : Nat, data : Nat]

LEMMA SlotWrites ==
  ASSUME slot \in [Ring -> SlotType], NEW c \in Ring, NEW q \in SlotSeq, NEW n \in Nat,
         NEW d \in Nat
  PROVE  /\ [slot EXCEPT ![c].data = d] \in [Ring -> SlotType]
         /\ [slot EXCEPT ![c].num = n] \in [Ring -> SlotType]
         /\ [slot EXCEPT ![c].seq = q, ![c].data = d] \in [Ring -> SlotType]
         /\ [slot EXCEPT ![c].seq = q, ![c].num = n] \in [Ring -> SlotType]
<1>1. slot[c] \in SlotType
  OBVIOUS
<1>2. /\ [slot[c] EXCEPT !.data = d] \in SlotType
      /\ [slot[c] EXCEPT !.num = n] \in SlotType
      /\ [[slot[c] EXCEPT !.seq = q] EXCEPT !.data = d] \in SlotType
      /\ [[slot[c] EXCEPT !.seq = q] EXCEPT !.num = n] \in SlotType
  BY <1>1 DEF SlotType
<1>3. [slot EXCEPT ![c].data = d] \in [Ring -> SlotType]
  BY <1>2
<1>4. [slot EXCEPT ![c].num = n] \in [Ring -> SlotType]
  BY <1>2
<1>5. [slot EXCEPT ![c].seq = q, ![c].data = d] \in [Ring -> SlotType]
  BY <1>2
<1>6. [slot EXCEPT ![c].seq = q, ![c].num = n] \in [Ring -> SlotType]
  BY <1>2
<1>7. QED BY <1>3, <1>4, <1>5, <1>6

(* TypeOK's view of the ring.                                              *)
LEMMA SlotTyped == TypeOK => slot \in [Ring -> SlotType] /\ cptr \in Ring
  BY DEF TypeOK, SlotType, SlotSeq

LEMMA RingInit == Init => TypeOK /\ ReaderInRing /\ NoSlotOverflow
<1> SUFFICES ASSUME Init PROVE TypeOK /\ ReaderInRing /\ NoSlotOverflow
  OBVIOUS
<1>1. slot \in [Ring -> SlotType]
  BY BoundsAssumption DEF Init, SlotType, SlotSeq
<1>2. 0 \in Ring /\ 0 \in 0..(MaxSeq - 1) /\ 1 \in {NoSeq} \cup 0..(MaxSeq - 1)
  BY BoundsAssumption DEF Ring
<1>3. QED
  BY <1>1, <1>2, BoundsAssumption
     DEF Init, TypeOK, ReaderInRing, NoSlotOverflow, SlotType, SlotSeq

LEMMA TypeStep == TypeOK /\ ReaderInRing /\ [Next]_vars => TypeOK' /\ ReaderInRing'
<1> SUFFICES ASSUME TypeOK, ReaderInRing, [Next]_vars PROVE TypeOK' /\ ReaderInRing'
  OBVIOUS
<1> USE DEF TypeOK, ReaderInRing, core, plugin, shared
<1>0. ASSUME NEW size \in Nat, PutRecord(size)
      PROVE  /\ slot' \in [Ring -> SlotType] /\ hdr_num' \in Nat
             /\ bufptr' \in Nat /\ reprocess' = 0 /\ cpc' \in {"pack", "seq"}
  <2>1. slot' \in [Ring -> SlotType]
    <3>1. slot \in [Ring -> SlotType] /\ cptr \in Ring /\ bufno \in Nat /\ 0 \in SlotSeq
      BY SlotTyped, BoundsAssumption DEF SlotSeq
    <3>2. QED BY <1>0, <3>1, SlotWrites DEF PutRecord
  <2>2. bufptr' \in Nat /\ hdr_num' \in Nat
    <3>1. bufptr' = bufptr + size /\ hdr_num' = hdr_num + 1
      BY <1>0, Zenon DEF PutRecord
    <3>2. bufptr \in Nat /\ hdr_num \in Nat
      BY Zenon
    <3> HIDE DEF TypeOK, ReaderInRing
    <3>3. QED BY <3>1, <3>2
  <2>3. reprocess' = 0 /\ cpc' \in {"pack", "seq"}
    BY <1>0 DEF PutRecord
  <2>4. QED BY <2>1, <2>2, <2>3
<1>1. ASSUME NEW size \in Sizes, Pack(size) PROVE TypeOK' /\ ReaderInRing'
  <2>1. size \in Nat /\ BufEnd \in Nat
    BY SizesAssumption, BoundsAssumption
  <2>0. packets' \in Nat
    <3>1. packets' = packets + 1
      BY <1>1, Zenon DEF Pack
    <3>2. packets \in Nat
      BY Zenon
    <3> HIDE DEF TypeOK, ReaderInRing
    <3>3. QED BY <3>1, <3>2
  <2>2. CASE PutRecord(size)
    BY <1>0, <1>1, <2>0, <2>1, <2>2 DEF Pack, SlotType, SlotSeq
  <2>3. CASE bufptr' = BufEnd /\ reprocess' = size /\ cpc' = "seq" /\ UNCHANGED <<slot, hdr_num>>
    BY <1>1, <2>1, <2>3 DEF Pack
  <2>4. QED BY <1>1, <2>2, <2>3 DEF Pack
<1>2. CASE Reprocess
  <2>1. reprocess \in Nat
    BY SizesAssumption
  <2>2. CASE PutRecord(reprocess)
    BY <1>0, <1>2, <2>1, <2>2 DEF Reprocess, SlotType, SlotSeq
  <2>3. CASE cpc' = "exited" /\ UNCHANGED <<slot, hdr_num, bufptr, reprocess>>
    BY <1>2, <2>3 DEF Reprocess
  <2>4. QED BY <1>2, <2>2, <2>3 DEF Reprocess
<1>3. CASE Fill
  BY <1>3 DEF Fill
<1>4. CASE CommitSeq
  <2>1. (hdr_seq + 1) % MaxSeq \in 0..(MaxSeq - 1)
    BY SeqSuccessor
  <2>2. slot' \in [Ring -> SlotType]
    <3>1. (hdr_seq + 1) % MaxSeq \in SlotSeq /\ bufno \in Nat
      BY <2>1 DEF SlotSeq
    <3>2. QED BY <1>4, <3>1, SlotTyped, SlotWrites DEF CommitSeq
  <2>3. hdr_seq' \in 0..(MaxSeq - 1) /\ recs' \in Seq(Nat)
    BY <1>4, <2>1 DEF CommitSeq
  <2>4. QED BY <1>4, <2>2, <2>3 DEF CommitSeq, SlotType, SlotSeq
<1>5. CASE CommitNum
  <2>1. slot' \in [Ring -> SlotType]
    <3>1. 0 \in SlotSeq /\ hdr_num \in Nat
      BY BoundsAssumption DEF SlotSeq
    <3>2. QED BY <1>5, <3>1, SlotTyped, SlotWrites DEF CommitNum
  <2>2. QED BY <1>5, <2>1 DEF CommitNum, SlotType, SlotSeq
<1>6. CASE CommitOff
  BY <1>6 DEF CommitOff
<1>7. CASE Kick
  BY <1>7 DEF Kick, AfterKick
<1>8. CASE WriteToken
  BY <1>8, BoundsAssumption DEF WriteToken, AfterKick
<1>9. CASE Advance
  <2>0. cptr + 1 \in Nat /\ Slots \in Nat \ {0}
    BY BoundsAssumption DEF Ring
  <2>1. (cptr + 1) % Slots \in Ring
    BY <2>0, Modulo DEF Ring
  <2>2. slot' \in [Ring -> SlotType]
    <3> DEFINE c == (cptr + 1) % Slots
    <3>1. c \in Ring /\ NoSeq \in SlotSeq /\ 0 \in Nat
      BY <2>1 DEF SlotSeq
    <3>2. slot' = [slot EXCEPT ![c].seq = NoSeq, ![c].num = 0]
      BY <1>9 DEF Advance
    <3> HIDE DEF c
    <3>3. QED BY <3>1, <3>2, SlotTyped, SlotWrites
  <2>3. cptr' \in Ring /\ bufptr' \in Nat /\ hdr_num' \in Nat /\ bufno' \in Nat /\ cpc' = "pack"
    <3>1. /\ cptr' = (cptr + 1) % Slots /\ bufptr' = 0 /\ hdr_num' = 0
          /\ bufno' = bufno + 1 /\ cpc' = "pack"
      BY <1>9, Zenon DEF Advance
    <3>2. bufno \in Nat
      BY Zenon
    <3> HIDE DEF TypeOK, ReaderInRing
    <3>3. QED BY <2>1, <3>1, <3>2
  <2>4. QED BY <1>9, <2>2, <2>3 DEF Advance, SlotType, SlotSeq
<1>10. CASE PollAgain
  BY <1>10 DEF PollAgain
<1>11. CASE PollTimeout
  BY <1>11 DEF PollTimeout
<1>12. CASE ReadToken
  BY <1>12, BoundsAssumption DEF ReadToken
<1>13. CASE Recheck
  BY <1>13, BoundsAssumption DEF Recheck, Wrap, Ring
<1>14. CASE Resync
  BY <1>14, BoundsAssumption DEF Resync, Ring
<1>15. CASE Reseq
  BY <1>15 DEF Reseq
<1>16. CASE NextSlot
  <2>1. (seq + 1) % MaxSeq \in 0..(MaxSeq - 1)
    BY SeqSuccessor
  <2>2. QED BY <1>16, <2>1, BoundsAssumption DEF NextSlot, Wrap, Ring
<1>17. CASE CopyHeader
  BY <1>17 DEF CopyHeader
<1>18. CASE CopyRecords
  <2>1. pptr \in Ring /\ slot[pptr].data \in Nat
    BY <1>18 DEF CopyRecords
  <2>2. consumed' \in Seq([buf : Nat, num : Nat])
    BY <1>18, <2>1 DEF CopyRecords
  <2>3. QED BY <1>18, <2>1, <2>2, BoundsAssumption DEF CopyRecords, Ring
<1>19. CASE UNCHANGED vars
  BY <1>19 DEF vars
<1>20. QED
  BY <1>1, <1>2, <1>3, <1>4, <1>5, <1>6, <1>7, <1>8, <1>9, <1>10, <1>11, <1>12, <1>13,
     <1>14, <1>15, <1>16, <1>17, <1>18, <1>19
     DEF Next, Core, Plugin, Quiet

LEMMA OverflowStep ==
  TypeOK /\ NoSlotOverflow /\ [Next]_vars => NoSlotOverflow'
<1> SUFFICES ASSUME TypeOK, NoSlotOverflow, [Next]_vars PROVE NoSlotOverflow'
  OBVIOUS
<1> USE DEF NoSlotOverflow
<1>0. bufptr \in Nat /\ BufEnd \in Nat \ {0} /\ \A size \in Sizes \cup {0} : size \in Nat
  BY SizesAssumption, BoundsAssumption DEF TypeOK
<1>1. ASSUME NEW size \in Sizes, Pack(size) PROVE NoSlotOverflow'
  <2>1. size \in Nat \ {0}
    BY SizesAssumption
  <2>2. CASE Fits(size) /\ PutRecord(size)
    BY <1>0, <1>1, <2>1, <2>2 DEF Pack, Fits, PutRecord
  <2>3. CASE bufptr' = BufEnd /\ cpc' = "seq"
    BY <1>0, <2>3
  <2>4. QED BY <1>1, <2>2, <2>3 DEF Pack
<1>2. CASE Reprocess
  <2>1. reprocess \in Nat \ {0}
    BY <1>0, <1>2 DEF Reprocess, TypeOK
  <2>2. CASE Fits(reprocess) /\ PutRecord(reprocess)
    BY <1>0, <1>2, <2>1, <2>2 DEF Reprocess, Fits, PutRecord
  <2>3. CASE bufptr' = bufptr /\ cpc' = "exited"
    BY <1>0, <2>3
  <2>4. QED BY <1>2, <2>2, <2>3 DEF Reprocess
<1>3. CASE Advance
  BY <1>0, <1>3 DEF Advance
<1>4. CASE bufptr' = bufptr /\ (cpc' = "pack" => cpc = "pack")
  BY <1>4
<1>5. QED
  BY <1>1, <1>2, <1>3, <1>4
     DEF Next, Core, Plugin, Quiet, vars, core, Fill, CommitSeq, CommitNum, CommitOff, Kick,
         AfterKick, WriteToken, PollAgain, PollTimeout, ReadToken, Recheck, Resync, Reseq,
         NextSlot, CopyHeader, CopyRecords

(* Every access of exec_plugins() and of the plugin's loop falls inside    *)
(* the ring, whatever the two processes do to each other.                  *)
THEOREM ChannelTypes == Spec => []TypeOK
<1>1. QED BY RingInit, TypeStep, PTL DEF Spec

(* No record is written past the end of its slot, for any size of buffers  *)
(* and any mix of fixed-size and variable-length records.                  *)
THEOREM NoOverflow == Spec => []NoSlotOverflow
<1>1. TypeOK /\ ReaderInRing /\ NoSlotOverflow /\ [Next]_vars
        => (TypeOK /\ ReaderInRing /\ NoSlotOverflow)'
  BY TypeStep, OverflowStep
<1>2. QED BY <1>1, RingInit, PTL DEF Spec

-----------------------------------------------------------------------------
(* The recursive equation of Committed over a sequence of counts, and its  *)
(* solution.                                                               *)
Adding(s, g) == [n \in 0..Len(s) |-> IF n = 0 THEN 0 ELSE g[n - 1] + s[n]]
Added(s) == CHOOSE g : g = Adding(s, g)

LEMMA AddingExists ==
  ASSUME NEW s \in Seq(Nat)
  PROVE  Added(s) = Adding(s, Added(s))
<1> DEFINE Rhs(g, i) == IF i = 0 THEN 0 ELSE g[i - 1] + s[i]
           Good(g, n) == /\ DOMAIN g = 0..Len(s) /\ g = [i \in 0..Len(s) |-> g[i]]
                         /\ \A i \in 0..Len(s) : i <= n => g[i] = Rhs(g, i)
           Q == {n \in Nat : \E g : Good(g, n)}
<1>1. 0 \in Q
  <2> DEFINE g == [i \in 0..Len(s) |-> 0]
  <2>1. Good(g, 0)
    OBVIOUS
  <2> QED
    BY <2>1
<1>2. \A n \in Nat : n \in Q => n + 1 \in Q
  <2> SUFFICES ASSUME NEW n \in Nat, n \in Q PROVE n + 1 \in Q
    OBVIOUS
  <2>1. PICK g : Good(g, n)
    OBVIOUS
  <2> DEFINE h == [i \in 0..Len(s) |-> IF i = n + 1 THEN Rhs(g, i) ELSE g[i]]
  <2> HIDE DEF Rhs
  <2>2. DOMAIN h = 0..Len(s) /\ h = [i \in 0..Len(s) |-> h[i]]
    OBVIOUS
  <2>3. ASSUME NEW i \in 0..Len(s), i <= n + 1 PROVE h[i] = Rhs(h, i)
    <3>1. i # 0 => h[i - 1] = g[i - 1]
      BY <2>3
    <3>2. Rhs(h, i) = Rhs(g, i)
      BY <3>1 DEF Rhs
    <3>3. i # n + 1 => g[i] = Rhs(g, i)
      BY <2>1, <2>3
    <3> QED
      BY <3>2, <3>3
  <2>4. Good(h, n + 1)
    BY <2>2, <2>3
  <2> HIDE DEF Good, h
  <2> QED
    BY <2>4
<1>3. Len(s) \in Q
  <2>1. Nat \subseteq Q
    BY <1>1, <1>2, NaturalsBySet
  <2> QED
    BY <2>1
<1>4. PICK g : Good(g, Len(s))
  BY <1>3
<1> HIDE DEF Rhs
<1>5. \A i \in 0..Len(s) : g[i] = Rhs(g, i)
  BY <1>4
<1>6. g = [i \in 0..Len(s) |-> Rhs(g, i)]
  BY <1>4, <1>5
<1>7. g = Adding(s, g)
  BY <1>6 DEF Adding, Rhs
<1> QED
  BY <1>7 DEF Added

(* What Committed counts of a sequence, and of a longer one.               *)
LEMMA AddedEquation ==
  ASSUME NEW s \in Seq(Nat), NEW i \in 0..Len(s)
  PROVE  Added(s)[i] = IF i = 0 THEN 0 ELSE Added(s)[i - 1] + s[i]
<1>1. Added(s) = Adding(s, Added(s))
  BY AddingExists
<1> QED
  BY <1>1 DEF Adding

LEMMA AddedAppend ==
  ASSUME NEW s \in Seq(Nat), NEW m \in Nat
  PROVE  /\ Added(s)[Len(s)] \in Nat
         /\ Added(Append(s, m))[Len(Append(s, m))] = Added(s)[Len(s)] + m
<1> DEFINE t == Append(s, m)
           Fine(n) == Added(s)[n] \in Nat /\ Added(t)[n] = Added(s)[n]
           Q == {n \in Nat : n <= Len(s) => Fine(n)}
<1>1. /\ t \in Seq(Nat) /\ Len(t) = Len(s) + 1 /\ Len(s) \in Nat /\ t[Len(s) + 1] = m
      /\ \A i \in 1..Len(s) : t[i] = s[i] /\ s[i] \in Nat
  OBVIOUS
<1> HIDE DEF t
<1>2. \A i \in 0..Len(s) : Added(s)[i] = IF i = 0 THEN 0 ELSE Added(s)[i - 1] + s[i]
  BY AddedEquation
<1>3. \A i \in 0..Len(t) : Added(t)[i] = IF i = 0 THEN 0 ELSE Added(t)[i - 1] + t[i]
  BY <1>1, AddedEquation
<1>4. 0 \in Q
  BY <1>1, <1>2, <1>3
<1>5. \A n \in Nat : n \in Q => n + 1 \in Q
  <2> SUFFICES ASSUME NEW n \in Nat, n \in Q, n + 1 <= Len(s) PROVE Fine(n + 1)
    OBVIOUS
  <2>1. Added(s)[n] \in Nat /\ Added(t)[n] = Added(s)[n]
    BY <1>1
  <2>2. Added(s)[n + 1] = Added(s)[n] + s[n + 1]
    BY <1>1, <1>2
  <2>3. Added(t)[n + 1] = Added(t)[n] + t[n + 1]
    BY <1>1, <1>3
  <2>4. t[n + 1] = s[n + 1] /\ s[n + 1] \in Nat
    BY <1>1
  <2> QED
    BY <2>1, <2>2, <2>3, <2>4
<1>6. Nat \subseteq Q
  <2> HIDE DEF Q
  <2> QED BY <1>4, <1>5, NaturalsBySet
<1>7. Added(s)[Len(s)] \in Nat /\ Added(t)[Len(s)] = Added(s)[Len(s)]
  BY <1>1, <1>6
<1>8. Added(t)[Len(s) + 1] = Added(t)[Len(s)] + m
  BY <1>1, <1>3
<1> QED
  BY <1>1, <1>7, <1>8 DEF t

(* The inductive form of RecordsConserved: between CommitSeq and Advance   *)
(* the current buffer is among the committed ones, and a core that gives a *)
(* too long record up has nothing in its buffer.                           *)
Sent == Added(recs)[Len(recs)]
Balance ==
  packets = Sent + (IF cpc \in {"pack", "seq"} THEN hdr_num ELSE 0)
            + (IF reprocess # 0 THEN 1 ELSE 0)

EmptyAfterSend == cpc = "pack" /\ reprocess # 0 => hdr_num = 0

LEMMA BalanceInit == Init => Balance /\ EmptyAfterSend
<1> SUFFICES ASSUME Init PROVE Balance /\ EmptyAfterSend
  OBVIOUS
<1>1. recs = <<>> /\ recs \in Seq(Nat) /\ Len(recs) = 0
  BY DEF Init
<1>2. ASSUME NEW s \in Seq(Nat), Len(s) = 0 PROVE Added(s)[Len(s)] = 0
  <2>1. 0 \in 0..Len(s)
    BY <1>2
  <2>2. Added(s)[0] = IF 0 = 0 THEN 0 ELSE Added(s)[0 - 1] + s[0]
    BY ONLY <2>1, s \in Seq(Nat), AddedEquation
  <2> QED
    BY <1>2, <2>2
<1>3. Sent = 0
  BY <1>1, <1>2 DEF Sent
<1> QED
  BY <1>3 DEF Init, Balance, EmptyAfterSend

LEMMA BalanceStep ==
  TypeOK /\ Balance /\ EmptyAfterSend /\ [Next]_vars => Balance' /\ EmptyAfterSend'
<1> SUFFICES ASSUME TypeOK, Balance, EmptyAfterSend, [Next]_vars
             PROVE  Balance' /\ EmptyAfterSend'
  OBVIOUS
<1>0. recs \in Seq(Nat) /\ hdr_num \in Nat /\ packets \in Nat /\ Sent \in Nat
  BY AddedAppend DEF TypeOK, Sent
<1>s. recs' = recs => Sent' = Sent
  BY DEF Sent
<1> HIDE DEF Sent
<1>p. ASSUME cpc = "pack", recs' = recs, NEW size \in Nat, PutRecord(size),
             packets' = IF reprocess # 0 THEN packets ELSE packets + 1
      PROVE  Balance' /\ EmptyAfterSend'
  <2>1. /\ hdr_num' = hdr_num + 1 /\ reprocess' = 0
        /\ cpc' \in {"pack", "seq"}
    BY <1>p DEF PutRecord
  <2> QED
    BY <1>0, <1>s, <1>p, <2>1 DEF Balance, EmptyAfterSend
<1>1. ASSUME NEW size \in Sizes, Pack(size) PROVE Balance' /\ EmptyAfterSend'
  <2>1. CASE PutRecord(size)
    BY <1>p, <1>1, <2>1, SizesAssumption DEF Pack
  <2>2. CASE reprocess' = size /\ cpc' = "seq" /\ UNCHANGED <<slot, hdr_num>>
    <3>1. /\ cpc = "pack" /\ reprocess = 0 /\ recs' = recs /\ packets' = packets + 1
          /\ size # 0
      BY <1>1, SizesAssumption DEF Pack
    <3> QED
      BY <1>0, <1>s, <2>2, <3>1 DEF Balance, EmptyAfterSend
  <2> QED
    BY <1>1, <2>1, <2>2 DEF Pack
<1>2. CASE Reprocess
  <2>1. CASE PutRecord(reprocess)
    BY <1>p, <1>2, <2>1, SizesAssumption DEF Reprocess, TypeOK
  <2>2. CASE cpc' = "exited" /\ UNCHANGED <<slot, hdr_num, bufptr, reprocess>>
    <3>1. cpc = "pack" /\ hdr_num = 0 /\ recs' = recs /\ packets' = packets
      BY <1>2, <2>2 DEF Reprocess, EmptyAfterSend
    <3> QED
      BY <1>0, <1>s, <2>2, <3>1 DEF Balance, EmptyAfterSend
  <2> QED
    BY <1>2, <2>1, <2>2 DEF Reprocess
<1>3. CASE CommitSeq
  <2>1. /\ recs' = Append(recs, hdr_num) /\ cpc = "seq" /\ cpc' = "num"
        /\ packets' = packets /\ reprocess' = reprocess
    BY <1>3 DEF CommitSeq
  <2>2. Sent' = Sent + hdr_num
    BY <1>0, <2>1, AddedAppend DEF Sent
  <2> QED
    BY <1>0, <2>1, <2>2 DEF Balance, EmptyAfterSend
<1>4. CASE Advance
  <2>1. /\ cpc = "advance" /\ cpc' = "pack" /\ hdr_num' = 0 /\ recs' = recs
        /\ packets' = packets /\ reprocess' = reprocess
    BY <1>4 DEF Advance
  <2> QED
    BY <1>0, <1>s, <2>1 DEF Balance, EmptyAfterSend
<1>5. CASE Fill
  BY <1>0, <1>5, <1>s DEF Fill, Balance, EmptyAfterSend
<1>6. CASE CommitNum \/ CommitOff \/ Kick \/ WriteToken
  <2>1. /\ cpc \notin {"pack", "seq"} /\ cpc' \notin {"pack", "seq"}
        /\ packets' = packets /\ recs' = recs /\ reprocess' = reprocess
    BY <1>6 DEF CommitNum, CommitOff, Kick, WriteToken, AfterKick
  <2> QED
    BY <1>s, <2>1 DEF Balance, EmptyAfterSend
<1>7. CASE UNCHANGED core
  BY <1>s, <1>7 DEF core, Balance, EmptyAfterSend
<1> QED
  BY <1>1, <1>2, <1>3, <1>4, <1>5, <1>6, <1>7
     DEF Next, Core, Plugin, Quiet, vars, PollAgain, PollTimeout, ReadToken, Recheck,
         Resync, Reseq, NextSlot, CopyHeader, CopyRecords

(* Every record the core is given is in exactly one buffer, for any mix of *)
(* sizes: sending a buffer early, jumping back to reprocess and stopping   *)
(* neither lose nor repeat one.                                            *)
THEOREM RecordsAreConserved == Spec => []RecordsConserved
<1>1. TypeOK /\ Balance => RecordsConserved
  BY DEF Balance, RecordsConserved, Sent, Committed, Added, Adding, TypeOK
<1>2. TypeOK /\ ReaderInRing /\ Balance /\ EmptyAfterSend /\ [Next]_vars
        => (TypeOK /\ ReaderInRing /\ Balance /\ EmptyAfterSend)'
  BY TypeStep, BalanceStep
<1>3. QED BY <1>1, <1>2, RingInit, BalanceInit, PTL DEF Spec

-----------------------------------------------------------------------------
(***************************************************************************)
(* A plugin that keeps up.  NumIn is the number of the buffer that slot s  *)
(* was last meant for when the core writes buffer b in slot c; it is not   *)
(* positive for a slot that the core has not come to.                      *)
(***************************************************************************)
NumIn(b, c, s) == b - c + s - (IF s <= c THEN 0 ELSE Slots)
Num(s) == NumIn(bufno, cptr, s)

(* The buffers whose sequence number has been put in the ring.             *)
Count == Len(recs)

(* The slots that the packet in hand will still move the core on.          *)
Steps == IF cpc = "exited" \/ filling THEN 0
         ELSE (IF cpc = "pack" THEN 0 ELSE 1) + (IF reprocess # 0 THEN 1 ELSE 0)

(* The core: its counters go together.                                     *)
WriterInv ==
  /\ bufno >= 1
  /\ Count = IF cpc \in {"pack", "seq"} \/ (cpc = "exited" /\ ~filling)
             THEN bufno - 1 ELSE bufno
  /\ bufno + Steps <= MaxBufs + 2
  /\ hdr_seq = Count
  /\ (cpc # "pack" /\ ~filling) \/ bufno > 1 => Slots >= 4
  /\ cpc \in {"off", "advance"} => ~filling
  /\ cpc = "pack" => ~filling

(* The ring: a slot whose buffer is committed has its number and data.     *)
RingInv ==
  \A s \in Ring : IF Num(s) \in 1..Count
                  THEN slot[s].seq = Num(s) /\ slot[s].data = Num(s)
                  ELSE slot[s].seq <= 0

(* status->last_buf_off is at most one buffer behind.                      *)
OffInv ==
  /\ Num(last_buf_off) >= 1
  /\ Num(last_buf_off) >= Count - 1
  /\ Count > 0 => Num(last_buf_off) <= Count
  /\ cpc \in {"pack", "seq", "advance"} \/ (cpc \in {"kick", "write"} /\ ~filling)
       => Num(last_buf_off) >= Count

(* The plugin: the buffer it expects, and where it expects it.             *)
ReaderInv ==
  /\ LastRead \in 0..Count
  /\ tokens > 0 \/ ppc \in {"recheck", "resync", "reseq"} \/ cpc = "write" => Count > 0
  /\ ppc \in {"top", "poll", "recheck"} =>
       /\ seq = LastRead + 1
       /\ Num(Wrap(pptr)) = IF seq <= bufno THEN seq ELSE seq - Slots
  /\ ppc = "reseq" => Num(pptr) \in 1..Count /\ LastRead - 1 <= Num(pptr)
  /\ ppc \in {"copy", "records"} =>
       Num(pptr) = seq /\ seq \in 1..Count /\ LastRead - 1 <= seq
  /\ ppc = "next" => seq = LastRead /\ seq > 0 /\ pptr > 0 /\ Num(pptr - 1) = seq

(* The distance between the two: two slots, or one while the plugin reads  *)
(* a buffer for the second time.                                           *)
Rereading ==
  /\ ppc \in {"copy", "records", "next"}
  /\ LastRead + 1 <= Count
  /\ ppc # "next" => seq = LastRead + 1
WindowInv ==
  \/ bufno = 1 /\ Steps = 0
  \/ bufno + Steps <= LastRead + Slots - 2
  \/ Rereading /\ bufno + Steps <= LastRead + Slots - 1

(* The jumps that JumpsAreCounted counts, and the one that is coming.      *)
Jumps(c) == {k \in 1..(Len(c) - 1) : c[k + 1].buf # c[k].buf + 1}
Jumping == ppc \in {"resync", "reseq"} \/ (ppc \in {"copy", "records"} /\ seq # LastRead + 1)
CountInv ==
  /\ Cardinality(Jumps(consumed)) <= rg_err_count
  /\ Jumping => Cardinality(Jumps(consumed)) + 1 <= rg_err_count

KeepInv == WriterInv /\ RingInv /\ OffInv /\ ReaderInv /\ WindowInv /\ CountInv

(* The plugin keeps up, and the sequence number does not wrap.             *)
Calm == KeepsUp /\ MaxBufs + 3 < MaxSeq

(* Arithmetic of the ring: one slot per number, the next slot, and the one *)
(* that follows the slot of a number.                                      *)
LEMMA NumRange ==
  ASSUME NEW b \in Nat, NEW c \in Ring, NEW s \in Ring
  PROVE  /\ NumIn(b, c, s) \in Int
         /\ b - Slots < NumIn(b, c, s) /\ NumIn(b, c, s) <= b
         /\ NumIn(b, c, s) = b <=> s = c
         /\ NumIn(b, c, s) = b + 1 - Slots <=> s = (IF c + 1 = Slots THEN 0 ELSE c + 1)
  BY BoundsAssumption DEF NumIn, Ring

LEMMA NumNext ==
  ASSUME NEW b \in Nat, NEW c \in Ring, NEW s \in Ring, NEW d,
         d = IF c + 1 = Slots THEN 0 ELSE c + 1
  PROVE  NumIn(b + 1, d, s) = IF s = d THEN b + 1 ELSE NumIn(b, c, s)
  BY BoundsAssumption DEF NumIn, Ring

LEMMA NumAfter ==
  ASSUME NEW b \in Nat, NEW c \in Ring, NEW p \in 1..Slots, NEW n,
         n = NumIn(b, c, p - 1)
  PROVE  /\ Wrap(p) \in Ring
         /\ NumIn(b, c, Wrap(p)) = IF n + 1 <= b THEN n + 1 ELSE n + 1 - Slots
  BY BoundsAssumption DEF NumIn, Ring, Wrap

LEMMA NextInRing ==
  ASSUME NEW c \in Ring
  PROVE  (c + 1) % Slots = IF c + 1 = Slots THEN 0 ELSE c + 1
<1>1. c \in Int /\ Slots \in Nat \ {0} /\ 0 <= c /\ c < Slots
  BY BoundsAssumption DEF Ring
<1>2. CASE c + 1 = Slots
  BY <1>1, <1>2
<1>3. CASE c + 1 < Slots
  BY <1>1, <1>3
<1> QED
  BY <1>1, <1>2, <1>3

LEMMA SeqNext ==
  ASSUME NEW q \in Nat, q + 1 < MaxSeq
  PROVE  (q + 1) % MaxSeq = q + 1
  BY BoundsAssumption

(* Types of what the invariant relates.                                    *)
LEMMA Numbers ==
  ASSUME TypeOK
  PROVE  /\ bufno \in Nat /\ cptr \in Ring /\ Count \in Nat /\ LastRead \in Nat
         /\ Slots \in Nat \ {0} /\ MaxBufs \in Nat /\ MaxSeq \in Nat
         /\ last_buf_off \in Ring /\ Wrap(pptr) \in Ring /\ seq \in Int
         /\ reprocess \in Nat /\ hdr_seq \in Nat /\ filling \in BOOLEAN
         /\ rg_err_count \in Nat
<1>1. LastRead \in Nat
  <2>1. ASSUME NEW c \in Seq([buf : Nat, num : Nat]), c # <<>>
        PROVE  c[Len(c)].buf \in Nat
    <3>1. Len(c) \in 1..Len(c)
      BY <2>1
    <3>2. c[Len(c)] \in [buf : Nat, num : Nat]
      BY ONLY <3>1, c \in Seq([buf : Nat, num : Nat]), ElementOfSeq
    <3> QED
      BY ONLY <3>2
  <2>2. consumed \in Seq([buf : Nat, num : Nat])
    BY DEF TypeOK
  <2> QED
    BY ONLY <2>1, <2>2, 0 \in Nat DEF LastRead
<1>2. Count \in Nat
  BY DEF TypeOK, Count
<1>3. Wrap(pptr) \in Ring
  BY BoundsAssumption DEF TypeOK, Wrap, Ring
<1>4. seq \in Int
  BY BoundsAssumption DEF TypeOK, NoSeq
<1> QED
  BY <1>1, <1>2, <1>3, <1>4, BoundsAssumption, SizesAssumption DEF TypeOK

(* The jumps of a longer sequence.                                         *)
LEMMA JumpsFinite ==
  ASSUME NEW c \in Seq([buf : Nat, num : Nat])
  PROVE  IsFiniteSet(Jumps(c)) /\ Cardinality(Jumps(c)) \in Nat
<1>1. Jumps(c) \subseteq 1..(Len(c) - 1) /\ Len(c) - 1 \in Int
  BY DEF Jumps
<1>2. IsFiniteSet(1..(Len(c) - 1))
  BY ONLY <1>1, 1 \in Int, FS_Interval
<1>3. IsFiniteSet(Jumps(c))
  BY ONLY <1>1, <1>2, FS_Subset
<1> QED
  BY ONLY <1>3, FS_CardinalityType

LEMMA JumpsAppend ==
  ASSUME NEW c \in Seq([buf : Nat, num : Nat]), NEW r \in [buf : Nat, num : Nat]
  PROVE  /\ Cardinality(Jumps(Append(c, r))) <= Cardinality(Jumps(c)) + 1
         /\ (c = <<>> \/ r.buf = c[Len(c)].buf + 1) => Jumps(Append(c, r)) = Jumps(c)
<1> DEFINE d == Append(c, r)
<1>1. /\ Len(d) = Len(c) + 1 /\ Len(c) \in Nat /\ d[Len(c) + 1] = r
      /\ \A k \in 1..Len(c) : d[k] = c[k]
  OBVIOUS
<1>2. c = <<>> => Len(c) = 0
  OBVIOUS
<1> HIDE DEF d
<1>3. ASSUME NEW k \in 1..(Len(c) - 1) PROVE k \in Jumps(d) <=> k \in Jumps(c)
  BY <1>1, <1>3 DEF Jumps
<1>4. Jumps(d) \subseteq 1..Len(c) /\ Jumps(c) \subseteq 1..(Len(c) - 1)
  BY <1>1 DEF Jumps
<1>5. Jumps(d) \subseteq Jumps(c) \union {Len(c)}
  BY <1>1, <1>3, <1>4
<1>6. Cardinality(Jumps(d)) <= Cardinality(Jumps(c)) + 1
  <2>1. IsFiniteSet(Jumps(c)) /\ Cardinality(Jumps(c)) \in Nat
    BY JumpsFinite
  <2>2. /\ IsFiniteSet(Jumps(c) \union {Len(c)})
        /\ Cardinality(Jumps(c) \union {Len(c)}) <= Cardinality(Jumps(c)) + 1
    <3>1. /\ IsFiniteSet(Jumps(c) \union {Len(c)})
          /\ Cardinality(Jumps(c) \union {Len(c)})
               = IF Len(c) \in Jumps(c) THEN Cardinality(Jumps(c)) ELSE Cardinality(Jumps(c)) + 1
      BY ONLY <2>1, FS_AddElement
    <3> QED
      BY ONLY <2>1, <3>1
  <2>3. Cardinality(Jumps(d)) <= Cardinality(Jumps(c) \union {Len(c)})
    BY <1>5, <2>2, FS_Subset
  <2>4. Cardinality(Jumps(d)) \in Nat /\ Cardinality(Jumps(c) \union {Len(c)}) \in Nat
    BY <1>5, <2>2, FS_Subset, FS_CardinalityType
  <2> QED
    BY <2>1, <2>2, <2>3, <2>4
<1>7. ASSUME c = <<>> \/ r.buf = c[Len(c)].buf + 1 PROVE Jumps(d) = Jumps(c)
  <2>1. Len(c) \notin Jumps(d)
    BY <1>1, <1>2, <1>7 DEF Jumps
  <2>2. \A k \in 1..Len(c) : k # Len(c) => k \in 1..(Len(c) - 1)
    BY <1>1
  <2>3. 1..(Len(c) - 1) \subseteq 1..Len(c)
    BY <1>1
  <2> QED
    BY ONLY <1>3, <1>4, <2>1, <2>2, <2>3
<1> QED
  BY <1>6, <1>7 DEF d

LEMMA KeepInit == Init => KeepInv
<1> SUFFICES ASSUME Init PROVE KeepInv
  OBVIOUS
<1>1. /\ bufno = 1 /\ cptr = 0 /\ Count = 0 /\ LastRead = 0 /\ consumed = <<>>
      /\ cpc = "pack" /\ ~filling /\ reprocess = 0 /\ Slots \in Nat \ {0} /\ MaxBufs \in Nat
      /\ 0 \in Ring
  BY BoundsAssumption DEF Init, Count, LastRead, Ring
<1>2. Num(0) = 1 /\ Wrap(0) = 0
  BY <1>1 DEF Num, NumIn, Wrap
<1>3. \A s \in Ring : slot[s].seq = 0
  BY DEF Init
<1>4. Steps = 0
  BY <1>1 DEF Steps
<1>5. WriterInv
  BY <1>1, <1>4 DEF Init, WriterInv
<1>6. RingInv
  <2>1. \A s \in Ring : Num(s) \notin 1..Count /\ slot[s].seq <= 0
    BY <1>1, <1>3
  <2> QED
    BY <2>1 DEF RingInv
<1>7. OffInv
  BY <1>1, <1>2 DEF Init, OffInv
<1>8. ReaderInv
  BY <1>1, <1>2 DEF Init, ReaderInv
<1>9. WindowInv
  BY <1>1, <1>4 DEF WindowInv
<1>10. CountInv
  <2>1. \A k \in 1..(Len(<<>>) - 1) : FALSE
    OBVIOUS
  <2>2. Jumps(consumed) = {}
    BY <1>1, <2>1 DEF Jumps
  <2> QED
    BY <2>2, FS_EmptySet DEF Init, CountInv, Jumping
<1> QED
  BY <1>5, <1>6, <1>7, <1>8, <1>9, <1>10 DEF KeepInv

(* Parts that steps leave alone.                                           *)
LEMMA RingKept ==
  ASSUME RingInv, UNCHANGED <<bufno, cptr, recs>>, TypeOK,
         \A s \in Ring : slot'[s].seq = slot[s].seq
                         /\ (Num(s) \in 1..Count => slot'[s].data = slot[s].data)
  PROVE  RingInv'
  BY DEF RingInv, Num, Count

LEMMA ReaderKept ==
  ASSUME ReaderInv, UNCHANGED <<bufno, cptr, recs, plugin>>,
         tokens' > 0 \/ cpc' = "write" => tokens > 0 \/ cpc = "write" \/ Count > 0
  PROVE  ReaderInv'
  BY DEF ReaderInv, Num, Count, LastRead, plugin

LEMMA CountKept ==
  ASSUME CountInv, UNCHANGED plugin
  PROVE  CountInv'
  BY DEF CountInv, plugin, Jumping, LastRead

LEMMA WindowKept ==
  ASSUME TypeOK, WindowInv, UNCHANGED <<bufno, recs, plugin>>, Steps' <= Steps,
         Steps \in Nat, Steps' \in Nat
  PROVE  WindowInv'
<1>1. LastRead' = LastRead /\ (Rereading => Rereading')
  BY DEF LastRead, Rereading, plugin, Count
<1> DEFINE u == Steps'
<1>2. u \in Nat /\ u <= Steps
  OBVIOUS
<1> HIDE DEF u
<1>3. \/ bufno = 1 /\ u = 0
      \/ bufno + u <= LastRead + Slots - 2
      \/ Rereading' /\ bufno + u <= LastRead + Slots - 1
  BY <1>1, <1>2, Numbers DEF WindowInv
<1>4. bufno' = bufno
  OBVIOUS
<1> QED
  BY ONLY <1>1, <1>3, <1>4 DEF WindowInv, u

(* Records are put into the slot of the core.                              *)
LEMMA PutKeepsRing ==
  ASSUME TypeOK, RingInv, WriterInv, cpc = "pack", NEW size, PutRecord(size),
         UNCHANGED <<bufno, cptr, recs>>
  PROVE  RingInv'
<1>1. \A s \in Ring : slot'[s].seq = slot[s].seq /\ (s # cptr => slot'[s].data = slot[s].data)
  BY DEF PutRecord, TypeOK
<1>2. Num(cptr) = bufno /\ Num(cptr) \notin 1..Count
  BY Numbers, NumRange DEF Num, WriterInv
<1>3. \A s \in Ring : slot'[s].seq = slot[s].seq
                      /\ (Num(s) \in 1..Count => slot'[s].data = slot[s].data)
  BY <1>1, <1>2
<1> QED
  BY <1>3, RingKept

LEMMA StepsType == TypeOK => Steps \in Nat
  BY DEF Steps
LEMMA StepsType2 == TypeOK' => Steps' \in Nat
  BY DEF Steps

LEMMA PackKeeps ==
  ASSUME TypeOK, TypeOK', KeepInv, Calm, NEW size \in Sizes, Pack(size)
  PROVE  KeepInv'
<1>1. /\ cpc = "pack" /\ reprocess = 0 /\ bufno <= MaxBufs /\ InStep(size)
      /\ UNCHANGED <<bufno, cptr, recs, plugin, tokens, hdr_seq, filling, last_buf_off>>
      /\ cpc' \in {"pack", "seq"} /\ (cpc' = "pack" => reprocess' = 0)
      /\ (Fits(size) => reprocess' = 0) /\ ~filling
  BY DEF Pack, Calm, PutRecord, KeepInv, WriterInv
<1>2. /\ Count' = Count /\ LastRead' = LastRead /\ Count = bufno - 1
      /\ \A s \in Ring : Num(s)' = Num(s)
  BY <1>1 DEF Count, LastRead, plugin, Num, KeepInv, WriterInv
<1>3. RingInv'
  <2>1. CASE PutRecord(size)
    BY <1>1, <2>1, PutKeepsRing DEF KeepInv
  <2>2. CASE slot' = slot
    BY <1>1, <2>2, RingKept DEF KeepInv
  <2> QED
    BY <2>1, <2>2 DEF Pack
<1>4. OffInv'
  BY <1>1, <1>2, Numbers DEF KeepInv, OffInv, Num
<1>5. ReaderInv' /\ CountInv'
  BY <1>1, ReaderKept, CountKept DEF KeepInv
<1>6. /\ Slots >= 4 /\ bufno + Steps' <= LastRead + Slots - 2
      /\ bufno + Steps' <= MaxBufs + 2
  <2>1. LastRead <= Count
    BY Numbers DEF KeepInv, ReaderInv
  <2>2. Steps' \in {0, 1, 2} /\ (Fits(size) => Steps' <= 1)
    BY <1>1 DEF Steps
  <2> DEFINE u == Steps'
  <2>3. u \in {0, 1, 2} /\ (Fits(size) => u <= 1)
    BY <2>2
  <2> HIDE DEF u
  <2>4. Slots >= 4 /\ bufno + u <= LastRead + Slots - 2 /\ bufno + u <= MaxBufs + 2
    BY <1>1, <1>2, <2>1, <2>3, Numbers DEF InStep
  <2> QED
    BY <2>4 DEF u
<1>7. WindowInv'
  BY <1>1, <1>2, <1>6 DEF WindowInv
<1>8. WriterInv'
  BY <1>1, <1>2, <1>6 DEF KeepInv, WriterInv
<1> QED
  BY <1>3, <1>4, <1>5, <1>7, <1>8 DEF KeepInv

LEMMA ReprocessKeeps ==
  ASSUME TypeOK, TypeOK', KeepInv, Calm, Reprocess
  PROVE  KeepInv'
<1>1. /\ cpc = "pack" /\ reprocess # 0
      /\ UNCHANGED <<bufno, cptr, recs, plugin, tokens, hdr_seq, filling, last_buf_off>>
      /\ cpc' \in {"pack", "seq", "exited"} /\ (cpc' # "exited" => reprocess' = 0)
      /\ ~filling
  BY DEF Reprocess, Calm, PutRecord, KeepInv, WriterInv
<1>2. /\ Count' = Count /\ LastRead' = LastRead /\ Count = bufno - 1
      /\ \A s \in Ring : Num(s)' = Num(s)
  BY <1>1 DEF Count, LastRead, plugin, Num, KeepInv, WriterInv
<1>3. RingInv'
  <2>1. CASE PutRecord(reprocess)
    BY <1>1, <2>1, PutKeepsRing DEF KeepInv
  <2>2. CASE slot' = slot
    BY <1>1, <2>2, RingKept DEF KeepInv
  <2> QED
    BY <2>1, <2>2 DEF Reprocess
<1>4. OffInv'
  BY <1>1, <1>2, Numbers DEF KeepInv, OffInv, Num
<1>5. ReaderInv' /\ CountInv'
  BY <1>1, ReaderKept, CountKept DEF KeepInv
<1>6. Steps = 1 /\ Steps' \in {0, 1}
  BY <1>1 DEF Steps
<1>7. WindowInv'
  BY <1>1, <1>6, WindowKept DEF KeepInv
<1>8. WriterInv'
  <2> DEFINE u == Steps'
  <2>1. u \in {0, 1}
    BY <1>6
  <2> HIDE DEF u
  <2>2. bufno + u <= MaxBufs + 2 /\ Slots >= 4
    <3>1. bufno + 1 <= MaxBufs + 2
      BY <1>6 DEF KeepInv, WriterInv
    <3>2. LastRead <= Count /\ (bufno > 1 => Slots >= 4) /\ bufno >= 1
      BY <1>1, Numbers DEF KeepInv, WriterInv, ReaderInv
    <3>3. bufno + 1 <= LastRead + Slots - 2 \/ LastRead + 1 <= Count
      BY <1>6, Numbers DEF KeepInv, WindowInv, Rereading
    <3> QED
      BY <1>2, <2>1, <3>1, <3>2, <3>3, Numbers
  <2>3. bufno' + Steps' <= MaxBufs + 2
    BY <1>1, <2>2 DEF u
  <2> QED
    BY <1>1, <1>2, <2>2, <2>3 DEF KeepInv, WriterInv
<1> QED
  BY <1>3, <1>4, <1>5, <1>7, <1>8 DEF KeepInv

(* fill_pipe_buffer() and the steps of a commit that change neither the    *)
(* ring's numbers nor last_buf_off.                                        *)
LEMMA CommitKeeps ==
  ASSUME TypeOK, TypeOK', KeepInv, Calm, Fill \/ CommitNum \/ Kick \/ WriteToken
  PROVE  KeepInv'
<1>1. UNCHANGED <<bufno, cptr, recs, plugin, hdr_seq, last_buf_off, reprocess>>
  BY DEF Fill, CommitNum, Kick, WriteToken, shared
<1>2. /\ Count' = Count /\ LastRead' = LastRead
      /\ \A s \in Ring : Num(s)' = Num(s)
  BY <1>1 DEF Count, LastRead, plugin, Num
<1>3. RingInv'
  <2>1. \A s \in Ring : slot'[s].seq = slot[s].seq /\ slot'[s].data = slot[s].data
    <3>1. CASE CommitNum
      <4>1. slot' = [slot EXCEPT ![cptr].num = hdr_num] /\ slot \in [Ring -> SlotType]
        BY <3>1, SlotTyped DEF CommitNum
      <4>2. \A s \in Ring : slot[s] \in SlotType
        BY <4>1
      <4> QED
        BY <4>1, <4>2 DEF SlotType
    <3>2. CASE Fill \/ Kick \/ WriteToken
      BY <3>2 DEF Fill, Kick, WriteToken, shared
    <3> QED
      BY <3>1, <3>2
  <2> QED
    BY <1>1, <2>1, RingKept DEF KeepInv
<1>4. /\ Fill => cpc = "pack" /\ reprocess = 0 /\ cpc' = "seq" /\ filling' /\ tokens' = tokens
      /\ CommitNum => cpc = "num" /\ cpc' = (IF filling THEN "kick" ELSE "off")
                      /\ tokens' = tokens /\ filling' = filling
      /\ Kick => cpc = "kick" /\ cpc' \in {"write", IF filling THEN "exited" ELSE "advance"}
                 /\ tokens' = tokens /\ filling' = filling
      /\ WriteToken => cpc = "write" /\ cpc' = (IF filling THEN "exited" ELSE "advance")
                       /\ filling' = filling
  BY DEF Fill, CommitNum, Kick, WriteToken, AfterKick, shared
<1>5. cpc \in {"num", "kick", "write"} => Count = bufno /\ bufno >= 1
  BY DEF KeepInv, WriterInv
<1>6. ReaderInv' /\ CountInv'
  <2>1. tokens' > 0 \/ cpc' = "write" => tokens > 0 \/ cpc = "write" \/ Count > 0
    BY <1>4, <1>5, Numbers
  <2> QED
    BY <1>1, <2>1, ReaderKept, CountKept DEF KeepInv
<1>7. OffInv'
  BY <1>1, <1>2, <1>4, Numbers DEF KeepInv, OffInv, WriterInv, Num
<1>8. Steps' <= Steps /\ Steps \in Nat /\ Steps' \in Nat
  BY <1>1, <1>4 DEF Steps, KeepInv, WriterInv
<1>9. WindowInv'
  BY <1>1, <1>8, WindowKept DEF KeepInv
<1>10. WriterInv'
  <2> DEFINE u == Steps'
  <2>1. u \in Nat /\ u <= Steps
    BY <1>8
  <2> HIDE DEF u
  <2>2. bufno + u <= MaxBufs + 2
    BY <1>8, <2>1, Numbers DEF KeepInv, WriterInv
  <2>3. bufno' + Steps' <= MaxBufs + 2
    BY <1>1, <2>2 DEF u
  <2> QED
    BY <1>1, <1>2, <1>4, <2>3 DEF KeepInv, WriterInv
<1> QED
  BY <1>3, <1>6, <1>7, <1>9, <1>10 DEF KeepInv

(* The sequence number goes into the ring.                                 *)
LEMMA CommitSeqKeeps ==
  ASSUME TypeOK, TypeOK', KeepInv, Calm, CommitSeq
  PROVE  KeepInv'
<1>1. /\ cpc = "seq" /\ cpc' = "num"
      /\ UNCHANGED <<bufno, cptr, plugin, tokens, last_buf_off, reprocess, filling>>
  BY DEF CommitSeq
<1>2. /\ Count' = Count + 1 /\ Count + 1 = bufno /\ LastRead' = LastRead
      /\ \A s \in Ring : Num(s)' = Num(s)
  <2>1. \A s \in Seq(Nat), n \in Nat : Len(Append(s, n)) = Len(s) + 1
    OBVIOUS
  <2>2. Count' = Count + 1
    BY <2>1 DEF CommitSeq, TypeOK, Count
  <2> QED
    BY <1>1, <2>2, Numbers DEF Num, plugin, LastRead, KeepInv, WriterInv
<1>3. hdr_seq' = bufno
  <2>1. hdr_seq = Count /\ Count \in Nat /\ bufno <= MaxBufs + 2
    <3>1. Steps \in Nat
      BY StepsType
    <3> QED
      BY <3>1, Numbers DEF KeepInv, WriterInv
  <2>2. hdr_seq + 1 < MaxSeq
    BY <1>2, <2>1, Numbers DEF Calm
  <2> QED
    BY <1>2, <2>1, <2>2, SeqNext DEF CommitSeq
<1>4. RingInv'
  <2>1. slot' = [slot EXCEPT ![cptr].seq = bufno, ![cptr].data = bufno]
    BY <1>3 DEF CommitSeq
  <2>2. slot'[cptr].seq = bufno /\ slot'[cptr].data = bufno
    BY <2>1, Numbers DEF TypeOK
  <2>3. \A s \in Ring : s # cptr => slot'[s] = slot[s]
    BY <2>1 DEF TypeOK
  <2>4. ASSUME NEW s \in Ring
        PROVE  IF Num(s) \in 1..bufno THEN slot'[s].seq = Num(s) /\ slot'[s].data = Num(s)
               ELSE slot'[s].seq <= 0
    <3>1. Num(s) \in Int /\ Num(s) <= bufno /\ (Num(s) = bufno <=> s = cptr)
      BY Numbers, NumRange DEF Num
    <3>2. CASE s = cptr
      BY <2>2, <3>1, <3>2, <1>2, Numbers
    <3>3. CASE s # cptr
      <4>1. Num(s) \in 1..bufno <=> Num(s) \in 1..Count
        BY <1>2, <3>1, <3>3, Numbers
      <4> QED
        BY <2>3, <3>3, <4>1 DEF KeepInv, RingInv
    <3> QED
      BY <3>2, <3>3
  <2> QED
    BY <1>2, <2>4 DEF RingInv
<1>5. Num(last_buf_off) \in Int /\ Num(last_buf_off) <= bufno
  BY Numbers, NumRange DEF Num
<1>6. OffInv'
  <2>1. (Num(last_buf_off))' = Num(last_buf_off)
    BY <1>1 DEF Num
  <2> DEFINE e == (Num(last_buf_off))'
             n == Count'
  <2>2. e = Num(last_buf_off) /\ n = Count + 1
    BY <1>2, <2>1
  <2> HIDE DEF e, n
  <2>3. e >= 1 /\ e >= n - 1 /\ (n > 0 => e <= n)
    BY <1>1, <1>2, <1>5, <2>2, Numbers DEF KeepInv, OffInv
  <2> QED
    BY <1>1, <2>3 DEF OffInv, e, n
<1>7. ReaderInv'
  <2> DEFINE n == Count'
  <2>1. n = Count + 1
    BY <1>2
  <2>2. /\ (Num(Wrap(pptr)))' = Num(Wrap(pptr)) /\ (Num(pptr))' = Num(pptr)
        /\ (Num(pptr - 1))' = Num(pptr - 1)
    BY <1>1 DEF Num, plugin
  <2>3. UNCHANGED <<ppc, pptr, seq, tokens, bufno, LastRead>>
    BY <1>1, <1>2 DEF plugin
  <2>4. 1..Count \subseteq 1..n /\ n > 0 /\ LastRead \in 0..n
    BY <2>1, Numbers DEF KeepInv, ReaderInv
  <2> HIDE DEF n
  <2>5. ReaderInv
    BY DEF KeepInv
  <2>6. LastRead' \in 0..n /\ n > 0
    BY <2>3, <2>4
  <2>7. ppc' \in {"top", "poll", "recheck"} =>
          /\ seq' = LastRead' + 1
          /\ (Num(Wrap(pptr)))' = IF seq' <= bufno' THEN seq' ELSE seq' - Slots
    BY <2>2, <2>3, <2>5 DEF ReaderInv
  <2>8. ppc' = "reseq" => (Num(pptr))' \in 1..n /\ LastRead' - 1 <= (Num(pptr))'
    BY ONLY <2>2, <2>3, <2>4, <2>5 DEF ReaderInv
  <2>9. ppc' \in {"copy", "records"} =>
          (Num(pptr))' = seq' /\ seq' \in 1..n /\ LastRead' - 1 <= seq'
    BY ONLY <2>2, <2>3, <2>4, <2>5 DEF ReaderInv
  <2>10. ppc' = "next" => seq' = LastRead' /\ seq' > 0 /\ pptr' > 0 /\ (Num(pptr - 1))' = seq'
    BY ONLY <2>2, <2>3, <2>5 DEF ReaderInv
  <2> QED
    BY ONLY <2>6, <2>7, <2>8, <2>9, <2>10 DEF ReaderInv, n
<1>8. CountInv'
  BY <1>1, CountKept DEF KeepInv
<1>9. Steps' = Steps /\ Steps \in Nat
  BY <1>1 DEF Steps
<1>10. WindowInv'
  <2>1. Rereading => Rereading'
    <3> DEFINE n == Count'
    <3>1. n = Count + 1 /\ Count \in Nat /\ LastRead \in Nat
      BY <1>2, Numbers
    <3> HIDE DEF n
    <3>2. LastRead + 1 <= Count => LastRead + 1 <= n
      BY <3>1
    <3> QED
      BY <1>1, <1>2, <3>2 DEF Rereading, plugin, n
  <2> QED
    BY <1>1, <1>2, <1>9, <2>1 DEF KeepInv, WindowInv
<1>11. WriterInv'
  BY <1>1, <1>2, <1>3, <1>9 DEF KeepInv, WriterInv
<1> QED
  BY <1>4, <1>6, <1>7, <1>8, <1>10, <1>11 DEF KeepInv

LEMMA CommitOffKeeps ==
  ASSUME TypeOK, TypeOK', KeepInv, Calm, CommitOff
  PROVE  KeepInv'
<1>1. /\ cpc = "off" /\ cpc' = "kick" /\ last_buf_off' = cptr
      /\ UNCHANGED <<bufno, cptr, recs, slot, plugin, hdr_seq, tokens, reprocess, filling>>
  BY DEF CommitOff
<1>2. /\ Count' = Count /\ Count = bufno /\ bufno >= 1 /\ Steps' = Steps
      /\ Steps \in Nat
  BY <1>1 DEF Count, KeepInv, WriterInv, Steps
<1>3. (Num(last_buf_off))' = bufno
  <2>1. (Num(last_buf_off))' = Num(cptr)
    BY <1>1 DEF Num
  <2> QED
    BY <2>1, Numbers, NumRange DEF Num
<1>4. OffInv'
  BY <1>1, <1>2, <1>3, Numbers DEF OffInv
<1>5. RingInv' /\ ReaderInv' /\ CountInv' /\ WindowInv'
  BY <1>1, <1>2, RingKept, ReaderKept, CountKept, WindowKept DEF KeepInv
<1>6. WriterInv'
  BY <1>1, <1>2 DEF KeepInv, WriterInv
<1> QED
  BY <1>4, <1>5, <1>6 DEF KeepInv

(* The next slot is protected: it is not one that the plugin needs.        *)
LEMMA AdvanceKeeps ==
  ASSUME TypeOK, TypeOK', ReaderInRing, KeepInv, Calm, Advance
  PROVE  KeepInv'
<1> DEFINE d == IF cptr + 1 = Slots THEN 0 ELSE cptr + 1
           Moved(s) == IF s = d THEN bufno + 1 ELSE Num(s)
<1>1. /\ cpc = "advance" /\ cpc' = "pack" /\ bufno' = bufno + 1 /\ cptr' = d /\ d \in Ring
      /\ UNCHANGED <<recs, plugin, hdr_seq, tokens, reprocess, filling, last_buf_off>>
  <2>1. cptr' = (cptr + 1) % Slots
    BY DEF Advance
  <2>2. cptr' = d
    BY <2>1, NextInRing, Numbers
  <2> QED
    BY <2>2 DEF Advance, TypeOK
<1>2. /\ ~filling /\ Count = bufno /\ bufno >= 1 /\ Slots >= 4 /\ d # cptr
  BY <1>1, Numbers DEF KeepInv, WriterInv, Ring
<1>3. /\ Count' = Count /\ LastRead' = LastRead
      /\ UNCHANGED <<ppc, pptr, seq, rg_err_count>>
  BY <1>1 DEF Count, LastRead, plugin
<1>4. \A s \in Ring : NumIn(bufno', cptr', s) = Moved(s)
  BY <1>1, Numbers, NumNext DEF Num
<1>5. ASSUME NEW s \in Ring
      PROVE  /\ Num(s) \in Int /\ bufno - Slots < Num(s) /\ Num(s) <= bufno
             /\ (Num(s) = bufno <=> s = cptr) /\ (s = d <=> Num(s) = bufno + 1 - Slots)
  BY Numbers, NumRange DEF Num
<1>6. Steps \in Nat /\ Steps >= 1 /\ Steps' = Steps - 1
  BY <1>1, <1>2 DEF Steps
<1>7. \/ bufno + 1 <= LastRead + Slots - 2
      \/ Rereading /\ bufno + 1 <= LastRead + Slots - 1
  BY <1>6, Numbers DEF KeepInv, WindowInv
<1> HIDE DEF d
<1>8. RingInv'
  <2>1. slot' = [slot EXCEPT ![d].seq = NoSeq, ![d].num = 0] /\ slot \in [Ring -> SlotType]
    BY <1>1, SlotTyped DEF Advance
  <2>2. slot'[d].seq = NoSeq
    <3>1. slot[d] \in SlotType
      BY <1>1, <2>1
    <3> QED
      BY <1>1, <2>1, <3>1 DEF SlotType
  <2>3. \A s \in Ring : s # d => slot'[s] = slot[s]
    BY <2>1
  <2>4. ASSUME NEW s \in Ring
        PROVE  IF Moved(s) \in 1..Count THEN slot'[s].seq = Moved(s) /\ slot'[s].data = Moved(s)
               ELSE slot'[s].seq <= 0
    <3>1. CASE s = d
      <4>1. Moved(s) = bufno + 1 /\ Moved(s) \notin 1..Count
        BY <1>2, <3>1, Numbers
      <4>2. slot'[s].seq <= 0
        BY <2>2, <3>1 DEF NoSeq
      <4> QED
        BY <4>1, <4>2
    <3>2. CASE s # d
      BY <2>3, <3>2 DEF KeepInv, RingInv
    <3> QED
      BY <3>1, <3>2
  <2> HIDE DEF Moved
  <2>5. \A s \in Ring : NumIn(bufno', cptr', s) = Moved(s)
    BY <1>4
  <2>6. \A s \in Ring :
          IF NumIn(bufno', cptr', s) \in 1..Count'
          THEN slot'[s].seq = NumIn(bufno', cptr', s) /\ slot'[s].data = NumIn(bufno', cptr', s)
          ELSE slot'[s].seq <= 0
    BY <1>3, <2>4, <2>5
  <2> QED
    BY ONLY <2>6 DEF RingInv, Num
<1>9. OffInv'
  <2>1. Num(last_buf_off) = bufno
    BY <1>1, <1>2, <1>5, Numbers DEF KeepInv, OffInv
  <2>2. last_buf_off # d
    BY <1>2, <1>5, <2>1, Numbers
  <2>3. NumIn(bufno', cptr', last_buf_off') = bufno
    BY <1>1, <1>4, <2>1, <2>2, Numbers
  <2> QED
    BY <1>2, <1>3, <2>3, Numbers DEF OffInv, Num
<1>10. ReaderInv'
  <2>0. ReaderInv /\ tokens' = tokens
    BY <1>1 DEF KeepInv
  <2>1. ASSUME ppc \in {"top", "poll", "recheck"}
        PROVE  /\ seq = LastRead + 1
               /\ Moved(Wrap(pptr)) = IF seq <= bufno + 1 THEN seq ELSE seq - Slots
    <3>1. /\ seq = LastRead + 1 /\ LastRead <= Count /\ Wrap(pptr) \in Ring
          /\ Num(Wrap(pptr)) = IF seq <= bufno THEN seq ELSE seq - Slots
      BY <2>0, <2>1, Numbers DEF ReaderInv
    <3>2. bufno + 1 <= LastRead + Slots - 2
      BY <1>7, <2>1 DEF Rereading
    <3> DEFINE p == Wrap(pptr)
    <3> HIDE DEF p
    <3>3. p \in Ring /\ Num(p) = IF seq <= bufno THEN seq ELSE seq - Slots
      BY <3>1 DEF p
    <3>4. Moved(p) = IF seq <= bufno + 1 THEN seq ELSE seq - Slots
      BY <1>2, <1>5, <3>1, <3>2, <3>3, Numbers
    <3> QED
      BY <3>1, <3>4 DEF p
  <2>2. ASSUME ppc = "reseq"
        PROVE  Moved(pptr) = Num(pptr) /\ pptr \in Ring
    <3>1. pptr \in Ring /\ LastRead - 1 <= Num(pptr)
      BY <2>0, <2>2 DEF ReaderInv, ReaderInRing
    <3>2. bufno + 1 <= LastRead + Slots - 2
      BY <1>7, <2>2 DEF Rereading
    <3> QED
      BY <1>5, <3>1, <3>2, Numbers
  <2>3. ASSUME ppc \in {"copy", "records"}
        PROVE  Moved(pptr) = Num(pptr) /\ pptr \in Ring
    <3>1. pptr \in Ring /\ LastRead - 1 <= seq /\ Num(pptr) = seq
      BY <2>0, <2>3 DEF ReaderInv, ReaderInRing
    <3>2. \/ bufno + 1 <= LastRead + Slots - 2
          \/ seq = LastRead + 1 /\ bufno + 1 <= LastRead + Slots - 1
      BY <1>7, <2>3 DEF Rereading
    <3> QED
      BY <1>5, <3>1, <3>2, Numbers
  <2>4. ASSUME ppc = "next"
        PROVE  Moved(pptr - 1) = Num(pptr - 1) /\ pptr - 1 \in Ring
    <3>1. pptr - 1 \in Ring /\ Num(pptr - 1) = LastRead
      <4>1. pptr \in 0..Slots /\ pptr > 0 /\ Num(pptr - 1) = LastRead
        BY <2>0, <2>4 DEF ReaderInv, TypeOK
      <4>2. pptr - 1 \in Ring
        BY <4>1, Numbers DEF Ring
      <4> QED
        BY <4>1, <4>2
    <3>2. bufno + 1 <= LastRead + Slots - 1
      BY <1>7, Numbers
    <3> QED
      BY <1>5, <3>1, <3>2, Numbers
  <2> HIDE DEF Moved
  <2>5. LastRead' \in 0..Count' /\ Count' > 0
    BY <1>2, <1>3, <2>0, Numbers DEF ReaderInv
  <2>6. ppc' \in {"top", "poll", "recheck"} =>
          /\ seq' = LastRead' + 1
          /\ (Num(Wrap(pptr)))' = IF seq' <= bufno' THEN seq' ELSE seq' - Slots
    <3>1. (Num(Wrap(pptr)))' = Moved(Wrap(pptr))
      BY <1>3, <1>4, Numbers DEF Num
    <3> QED
      BY ONLY <1>1, <1>3, <2>1, <3>1
  <2>7. pptr \in Ring => (Num(pptr))' = Moved(pptr)
    BY <1>3, <1>4 DEF Num
  <2>8. pptr - 1 \in Ring => (Num(pptr - 1))' = Moved(pptr - 1)
    BY <1>3, <1>4 DEF Num
  <2>9. ppc' = "reseq" => (Num(pptr))' \in 1..Count' /\ LastRead' - 1 <= (Num(pptr))'
    BY ONLY <1>3, <2>0, <2>2, <2>7 DEF ReaderInv
  <2>10. ppc' \in {"copy", "records"} =>
           (Num(pptr))' = seq' /\ seq' \in 1..Count' /\ LastRead' - 1 <= seq'
    BY ONLY <1>3, <2>0, <2>3, <2>7 DEF ReaderInv
  <2>11. ppc' = "next" => seq' = LastRead' /\ seq' > 0 /\ pptr' > 0 /\ (Num(pptr - 1))' = seq'
    BY ONLY <1>3, <2>0, <2>4, <2>8 DEF ReaderInv
  <2> QED
    BY ONLY <2>5, <2>6, <2>9, <2>10, <2>11 DEF ReaderInv
<1>11. CountInv'
  BY <1>1, CountKept DEF KeepInv
<1>12. bufno' + Steps' = bufno + Steps
  <2> DEFINE u == Steps'
  <2>1. u = Steps - 1
    BY <1>6
  <2> HIDE DEF u
  <2>2. bufno + 1 + u = bufno + Steps
    BY <1>6, <2>1, Numbers
  <2> QED
    BY <1>1, <2>2 DEF u
<1>13. WindowInv'
  <2>1. Rereading => Rereading'
    BY <1>3 DEF Rereading
  <2>2. ~(bufno = 1 /\ Steps = 0)
    BY <1>6
  <2> QED
    BY <1>3, <1>12, <2>1, <2>2 DEF KeepInv, WindowInv
<1>14. WriterInv'
  <2>1. bufno + 1 >= 1 /\ Count = (bufno + 1) - 1
    BY <1>2, Numbers
  <2> QED
    BY <1>1, <1>2, <1>3, <1>12, <2>1 DEF KeepInv, WriterInv
<1> QED
  BY <1>8, <1>9, <1>10, <1>11, <1>13, <1>14 DEF KeepInv

(* A step of the plugin leaves the core and the ring alone.                *)
LEMMA PluginKeepsCore ==
  ASSUME TypeOK, KeepInv, UNCHANGED <<slot, last_buf_off, core>>
  PROVE  /\ WriterInv' /\ RingInv' /\ OffInv' /\ Steps' = Steps /\ Count' = Count
         /\ bufno' = bufno /\ \A s \in Ring : Num(s)' = Num(s)
<1>1. Steps' = Steps /\ Count' = Count /\ bufno' = bufno /\ \A s \in Ring : Num(s)' = Num(s)
  BY DEF core, Steps, Count, Num
<1>2. WriterInv'
  BY <1>1 DEF core, KeepInv, WriterInv
<1>3. RingInv'
  BY RingKept DEF core, KeepInv
<1>4. (Num(last_buf_off))' = Num(last_buf_off)
  BY DEF core, Num
<1>5. OffInv'
  BY <1>1, <1>4 DEF core, KeepInv, OffInv
<1> QED
  BY <1>1, <1>2, <1>3, <1>5

(* What a slot with the number the plugin expects holds.                   *)
LEMMA FoundIsExpected ==
  ASSUME TypeOK, KeepInv, NEW e \in Nat \ {0}, NEW p \in Ring,
         Num(p) = IF e <= bufno THEN e ELSE e - Slots
  PROVE  /\ slot[p].seq = e => Num(p) = e /\ e \in 1..Count
         /\ e \in 1..Count => slot[p].seq = e
<1>1. /\ Num(p) \in 1..Count => slot[p].seq = Num(p)
      /\ Num(p) \notin 1..Count => slot[p].seq <= 0
      /\ slot[p].seq \in Int
  <2>1. slot[p] \in SlotType
    BY SlotTyped
  <2>2. slot[p].seq \in Int
    BY <2>1, BoundsAssumption DEF SlotType, SlotSeq, NoSeq
  <2> QED
    BY <2>2 DEF KeepInv, RingInv
<1>2. Count <= bufno
  BY Numbers DEF KeepInv, WriterInv
<1> QED
  BY <1>1, <1>2, Numbers

LEMMA WaitKeeps ==
  ASSUME TypeOK, TypeOK', KeepInv, Calm, PollAgain \/ PollTimeout \/ ReadToken
  PROVE  KeepInv'
<1>1. /\ UNCHANGED <<slot, last_buf_off, core, pptr, seq, rg_err_count, consumed>>
      /\ ppc \in {"top", "poll"} /\ ppc' \in {"top", "poll", "recheck"}
      /\ (tokens' > 0 \/ ppc' = "recheck") => tokens > 0
  <2>1. CASE PollAgain
    BY <2>1 DEF PollAgain
  <2>2. CASE PollTimeout
    BY <2>2 DEF PollTimeout, shared
  <2>3. CASE ReadToken
    BY <2>3 DEF ReadToken, TypeOK
  <2> QED
    BY <2>1, <2>2, <2>3
<1>2. /\ WriterInv' /\ RingInv' /\ OffInv' /\ Steps' = Steps /\ Count' = Count
      /\ bufno' = bufno /\ LastRead' = LastRead
      /\ (Num(Wrap(pptr)))' = Num(Wrap(pptr))
  BY <1>1, PluginKeepsCore, Numbers DEF LastRead
<1>3. cpc' = cpc
  BY <1>1 DEF core
<1>4. ReaderInv'
  BY <1>1, <1>2, <1>3 DEF KeepInv, ReaderInv
<1>5. WindowInv'
  BY <1>1, <1>2 DEF KeepInv, WindowInv, Rereading
<1>6. CountInv'
  BY <1>1, <1>2 DEF KeepInv, CountInv, Jumping
<1> QED
  BY <1>2, <1>4, <1>5, <1>6 DEF KeepInv

LEMMA RecheckKeeps ==
  ASSUME TypeOK, TypeOK', KeepInv, Calm, Recheck
  PROVE  KeepInv'
<1> DEFINE p == Wrap(pptr)
<1>1. /\ UNCHANGED <<slot, last_buf_off, core, seq, consumed, tokens>>
      /\ ppc = "recheck" /\ ppc' \in {"copy", "resync"} /\ pptr' = p
      /\ ppc' = "copy" => slot[p].seq = seq /\ rg_err_count' = rg_err_count
      /\ ppc' = "resync" => rg_err_count' = rg_err_count + 1
  BY DEF Recheck, shared
<1>2. /\ WriterInv' /\ RingInv' /\ OffInv' /\ Steps' = Steps /\ Count' = Count
      /\ bufno' = bufno /\ LastRead' = LastRead /\ cpc' = cpc
      /\ p \in Ring /\ (Num(pptr))' = Num(p)
  BY <1>1, PluginKeepsCore, Numbers DEF LastRead, core, Num
<1>3. /\ seq = LastRead + 1 /\ LastRead \in 0..Count /\ Count > 0
      /\ Num(p) = IF seq <= bufno THEN seq ELSE seq - Slots
  BY <1>1 DEF KeepInv, ReaderInv
<1> HIDE DEF p
<1>4. ppc' = "copy" => Num(p) = seq /\ seq \in 1..Count
  BY <1>1, <1>2, <1>3, Numbers, FoundIsExpected
<1>5. LastRead - 1 <= seq
  BY <1>3, Numbers
<1>6. ReaderInv'
  BY <1>1, <1>2, <1>3, <1>4, <1>5 DEF ReaderInv
<1>7. WindowInv'
  BY <1>1, <1>2 DEF KeepInv, WindowInv, Rereading
<1>8. CountInv'
  <2> DEFINE e == rg_err_count'
             J == Cardinality(Jumps(consumed))
  <2>1. J \in Nat /\ J <= rg_err_count
    BY JumpsFinite DEF KeepInv, CountInv, TypeOK
  <2>2. ppc' = "copy" => e = rg_err_count
    BY <1>1
  <2>3. ppc' = "resync" => e = rg_err_count + 1
    BY <1>1
  <2>4. ppc' = "copy" => seq' = LastRead' + 1
    BY <1>1, <1>2, <1>3
  <2> HIDE DEF e, J
  <2>5. J <= e /\ (ppc' = "resync" => J + 1 <= e)
    BY <1>1, <2>1, <2>2, <2>3, Numbers
  <2>6. Jumping' => ppc' = "resync"
    BY <1>1, <2>4 DEF Jumping
  <2> QED
    BY <1>1, <2>5, <2>6 DEF CountInv, e, J
<1> QED
  BY <1>2, <1>6, <1>7, <1>8 DEF KeepInv

LEMMA ResyncKeeps ==
  ASSUME TypeOK, TypeOK', KeepInv, Calm, Resync
  PROVE  KeepInv'
<1>1. /\ UNCHANGED <<slot, last_buf_off, core, seq, consumed, tokens, rg_err_count>>
      /\ ppc = "resync" /\ ppc' = "reseq" /\ pptr' = last_buf_off
  BY DEF Resync, shared
<1>2. /\ WriterInv' /\ RingInv' /\ OffInv' /\ Steps' = Steps /\ Count' = Count
      /\ bufno' = bufno /\ LastRead' = LastRead /\ cpc' = cpc
      /\ (Num(pptr))' = Num(last_buf_off)
  BY <1>1, PluginKeepsCore, Numbers DEF LastRead, core, Num
<1>3. LastRead \in 0..Count /\ Count > 0
  BY <1>1 DEF KeepInv, ReaderInv
<1>4. Num(last_buf_off) \in Int
  BY Numbers, NumRange DEF Num
<1>5. Num(last_buf_off) \in 1..Count /\ LastRead - 1 <= Num(last_buf_off)
  BY <1>3, <1>4, Numbers DEF KeepInv, OffInv
<1>6. ReaderInv'
  BY <1>1, <1>2, <1>3, <1>5 DEF ReaderInv
<1>7. WindowInv'
  BY <1>1, <1>2 DEF KeepInv, WindowInv, Rereading
<1>8. CountInv'
  BY <1>1, <1>2 DEF KeepInv, CountInv, Jumping
<1> QED
  BY <1>2, <1>6, <1>7, <1>8 DEF KeepInv

LEMMA ReseqKeeps ==
  ASSUME TypeOK, TypeOK', ReaderInRing, KeepInv, Calm, Reseq
  PROVE  KeepInv'
<1>1. /\ UNCHANGED <<slot, last_buf_off, core, pptr, consumed, tokens, rg_err_count>>
      /\ ppc = "reseq" /\ ppc' = "copy" /\ seq' = slot[pptr].seq
  BY DEF Reseq, shared
<1>2. /\ WriterInv' /\ RingInv' /\ OffInv' /\ Steps' = Steps /\ Count' = Count
      /\ bufno' = bufno /\ LastRead' = LastRead /\ cpc' = cpc
      /\ pptr \in Ring /\ (Num(pptr))' = Num(pptr)
  BY <1>1, PluginKeepsCore, Numbers DEF LastRead, core, Num, ReaderInRing
<1>3. LastRead \in 0..Count /\ Count > 0 /\ Num(pptr) \in 1..Count /\ LastRead - 1 <= Num(pptr)
  BY <1>1 DEF KeepInv, ReaderInv
<1>4. seq' = Num(pptr)
  BY <1>1, <1>2, <1>3 DEF KeepInv, RingInv
<1>6. ReaderInv'
  BY <1>1, <1>2, <1>3, <1>4 DEF ReaderInv
<1>7. WindowInv'
  BY <1>1, <1>2 DEF KeepInv, WindowInv, Rereading
<1>8. CountInv'
  BY <1>1, <1>2 DEF KeepInv, CountInv, Jumping
<1> QED
  BY <1>2, <1>6, <1>7, <1>8 DEF KeepInv

LEMMA NextSlotKeeps ==
  ASSUME TypeOK, TypeOK', KeepInv, Calm, NextSlot
  PROVE  KeepInv'
<1> DEFINE p == Wrap(pptr)
<1>0. /\ seq = LastRead /\ seq > 0 /\ LastRead \in 0..Count /\ pptr > 0
      /\ Num(pptr - 1) = seq /\ ppc = "next"
  BY DEF NextSlot, KeepInv, ReaderInv
<1>00. Count <= bufno /\ bufno <= MaxBufs + 2
  BY Numbers, StepsType DEF KeepInv, WriterInv
<1>01. (seq + 1) % MaxSeq = seq + 1
  <2>1. seq \in Nat /\ seq + 1 < MaxSeq
    BY <1>0, <1>00, Numbers DEF Calm
  <2> QED
    BY <2>1, SeqNext
<1>1. /\ UNCHANGED <<slot, last_buf_off, core, consumed, tokens, rg_err_count>>
      /\ ppc' \in {"copy", "top"} /\ pptr' = p /\ seq' = seq + 1
      /\ ppc' = "copy" <=> slot[p].seq = seq + 1
  <2>1. seq' = seq + 1
    BY <1>01 DEF NextSlot
  <2>2. seq + 1 # 0
    BY <1>0, Numbers
  <2> QED
    BY <2>1, <2>2 DEF NextSlot, shared
<1>2. /\ WriterInv' /\ RingInv' /\ OffInv' /\ Steps' = Steps /\ Count' = Count
      /\ bufno' = bufno /\ LastRead' = LastRead /\ cpc' = cpc
      /\ p \in Ring /\ (Num(pptr))' = Num(p)
  BY <1>1, PluginKeepsCore, Numbers DEF LastRead, core, Num
<1>3. Num(p) = IF seq + 1 <= bufno THEN seq + 1 ELSE seq + 1 - Slots
  <2>1. pptr \in 1..Slots
    BY <1>0 DEF TypeOK
  <2> QED
    BY <1>0, <2>1, Numbers, NumAfter DEF Num
<1>4. Wrap(p) = p
  BY <1>2, BoundsAssumption DEF Wrap, Ring
<1>5. (Num(Wrap(pptr)))' = Num(p)
  <2>1. Wrap(pptr)' = p
    BY <1>1, <1>4 DEF Wrap
  <2> QED
    BY <1>1, <2>1 DEF Num, core
<1> HIDE DEF p
<1>6. /\ ppc' = "copy" => Num(p) = seq + 1 /\ seq + 1 \in 1..Count
      /\ seq + 1 \in 1..Count => ppc' = "copy"
  <2> DEFINE e == seq + 1
  <2>1. e \in Nat \ {0} /\ Num(p) = IF e <= bufno THEN e ELSE e - Slots
    BY <1>0, <1>3, Numbers
  <2>2. ppc' = "copy" <=> slot[p].seq = e
    BY <1>1
  <2> HIDE DEF e
  <2>3. /\ slot[p].seq = e => Num(p) = e /\ e \in 1..Count
        /\ e \in 1..Count => slot[p].seq = e
    BY <1>2, <2>1, FoundIsExpected
  <2>4. (ppc' = "copy" => Num(p) = e /\ e \in 1..Count) /\ (e \in 1..Count => ppc' = "copy")
    BY <2>2, <2>3
  <2> QED
    BY <2>4 DEF e
<1>7. ReaderInv'
  <2>1. LastRead' \in 0..Count' /\ (tokens' > 0 \/ cpc' = "write" => Count' > 0)
    BY <1>0, <1>1, <1>2 DEF KeepInv, ReaderInv
  <2>2. seq' = LastRead' + 1 /\ LastRead' - 1 <= seq'
    BY <1>0, <1>1, <1>2, Numbers
  <2>3. (Num(Wrap(pptr)))' = IF seq' <= bufno' THEN seq' ELSE seq' - Slots
    <3> DEFINE q == seq + 1
    <3>0. Num(p) = IF q <= bufno THEN q ELSE q - Slots
      BY <1>3, Numbers
    <3>1. seq' = q /\ bufno' = bufno
      BY ONLY <1>1, <1>2
    <3> HIDE DEF q
    <3> QED
      BY ONLY <1>5, <3>0, <3>1
  <2>4. ppc' = "copy" => (Num(pptr))' = seq' /\ seq' \in 1..Count'
    BY ONLY <1>1, <1>2, <1>6
  <2>5. ppc' \notin {"recheck", "resync", "reseq", "records", "next"}
    BY <1>1
  <2> QED
    BY ONLY <2>1, <2>2, <2>3, <2>4, <2>5 DEF ReaderInv
<1>8. WindowInv'
  <2>1. Rereading => ppc' = "copy"
    <3>1. LastRead + 1 <= Count => seq + 1 \in 1..Count
      BY <1>0, Numbers
    <3> QED
      BY <1>6, <3>1 DEF Rereading
  <2>2. Rereading => Rereading'
    BY <1>0, <1>1, <1>2, <2>1 DEF Rereading
  <2> QED
    BY <1>2, <2>2 DEF KeepInv, WindowInv
<1>9. CountInv'
  BY <1>0, <1>1, <1>2 DEF KeepInv, CountInv, Jumping
<1> QED
  BY <1>2, <1>7, <1>8, <1>9 DEF KeepInv

LEMMA CopyHeaderKeeps ==
  ASSUME TypeOK, TypeOK', ReaderInRing, KeepInv, Calm, CopyHeader
  PROVE  KeepInv'
<1>1. /\ UNCHANGED <<slot, last_buf_off, core, pptr, seq, consumed, tokens, rg_err_count>>
      /\ ppc = "copy" /\ ppc' = "records"
  BY DEF CopyHeader, shared
<1>2. /\ WriterInv' /\ RingInv' /\ OffInv' /\ Steps' = Steps /\ Count' = Count
      /\ bufno' = bufno /\ LastRead' = LastRead /\ cpc' = cpc
      /\ pptr \in Ring /\ (Num(pptr))' = Num(pptr)
  BY <1>1, PluginKeepsCore, Numbers DEF LastRead, core, Num, ReaderInRing
<1>3. ReaderInv'
  BY <1>1, <1>2 DEF KeepInv, ReaderInv
<1>4. WindowInv'
  BY <1>1, <1>2 DEF KeepInv, WindowInv, Rereading
<1>5. CountInv'
  BY <1>1, <1>2 DEF KeepInv, CountInv, Jumping
<1> QED
  BY <1>2, <1>3, <1>4, <1>5 DEF KeepInv

(* What CopyRecords appends is the buffer that the plugin expects.         *)
LEMMA CopyReads ==
  ASSUME TypeOK, ReaderInRing, KeepInv, CopyRecords
  PROVE  /\ consumed' = Append(consumed, [buf |-> seq, num |-> pipebuf])
         /\ seq \in 1..Count /\ LastRead - 1 <= seq /\ LastRead' = seq
<1>1. ppc = "records" /\ pptr \in Ring
  BY DEF CopyRecords, ReaderInRing
<1>2. Num(pptr) = seq /\ seq \in 1..Count /\ LastRead - 1 <= seq
  BY <1>1 DEF KeepInv, ReaderInv
<1>3. slot[pptr].data = seq
  BY <1>1, <1>2 DEF KeepInv, RingInv
<1>4. consumed' = Append(consumed, [buf |-> seq, num |-> pipebuf])
  BY <1>3 DEF CopyRecords
<1>5. LastRead' = seq
  <2>1. ASSUME NEW c \in Seq([buf : Nat, num : Nat]), NEW r \in [buf : Nat, num : Nat]
        PROVE  Append(c, r) # <<>> /\ Append(c, r)[Len(Append(c, r))] = r
    OBVIOUS
  <2>2. consumed \in Seq([buf : Nat, num : Nat]) /\ [buf |-> seq, num |-> pipebuf] \in [buf : Nat, num : Nat]
    BY <1>2 DEF TypeOK
  <2>3. consumed' # <<>> /\ consumed'[Len(consumed')] = [buf |-> seq, num |-> pipebuf]
    BY ONLY <1>4, <2>1, <2>2
  <2> QED
    BY <2>3 DEF LastRead
<1> QED
  BY <1>2, <1>4, <1>5

LEMMA CopyRecordsKeeps ==
  ASSUME TypeOK, TypeOK', ReaderInRing, KeepInv, Calm, CopyRecords
  PROVE  KeepInv'
<1>1. /\ UNCHANGED <<slot, last_buf_off, core, seq, tokens, rg_err_count>>
      /\ ppc = "records" /\ ppc' = "next" /\ pptr' = pptr + 1 /\ pptr \in Ring
  BY DEF CopyRecords, shared, ReaderInRing
<1>2. /\ WriterInv' /\ RingInv' /\ OffInv' /\ Steps' = Steps /\ Count' = Count
      /\ bufno' = bufno /\ cpc' = cpc
  BY <1>1, PluginKeepsCore, Numbers DEF core
<1>3. /\ seq \in 1..Count /\ LastRead - 1 <= seq /\ LastRead' = seq /\ Num(pptr) = seq
      /\ LastRead <= Count
  BY <1>1, CopyReads, Numbers DEF KeepInv, ReaderInv
<1>4. (Num(pptr - 1))' = Num(pptr) /\ pptr' > 0
  <2>1. pptr' - 1 = pptr /\ pptr' > 0
    BY <1>1, BoundsAssumption DEF Ring
  <2> QED
    BY <1>1, <2>1 DEF Num, core
<1>5. ReaderInv'
  <2>1. seq \in 0..Count /\ seq > 0 /\ Count > 0
    BY <1>3, Numbers
  <2> QED
    BY <1>1, <1>2, <1>3, <1>4, <2>1 DEF ReaderInv
<1>6. WindowInv'
  <2>1. \/ bufno = 1 /\ Steps = 0
        \/ bufno + Steps <= LastRead + Slots - 2
        \/ seq = LastRead + 1 /\ bufno + Steps <= LastRead + Slots - 1
    BY <1>1 DEF KeepInv, WindowInv, Rereading
  <2>2. \/ bufno = 1 /\ Steps = 0
        \/ bufno + Steps <= seq + Slots - 2
        \/ seq + 1 <= Count /\ bufno + Steps <= seq + Slots - 1
    BY <1>3, <2>1, Numbers, StepsType
  <2> QED
    BY <1>1, <1>2, <1>3, <2>2 DEF WindowInv, Rereading
<1>7. CountInv'
  <2> DEFINE r == [buf |-> seq, num |-> pipebuf]
             J == Cardinality(Jumps(consumed))
             K == Cardinality(Jumps(Append(consumed, r)))
  <2>1. consumed \in Seq([buf : Nat, num : Nat]) /\ r \in [buf : Nat, num : Nat]
    BY <1>3 DEF TypeOK
  <2>2. consumed' = Append(consumed, r)
    BY CopyReads
  <2>3. r.buf = seq
    OBVIOUS
  <2>4. J \in Nat /\ K \in Nat
    <3>1. Append(consumed, r) \in Seq([buf : Nat, num : Nat])
      BY <2>1
    <3> HIDE DEF r
    <3> QED
      BY <2>1, <3>1, JumpsFinite
  <2> HIDE DEF r
  <2>5. K <= J + 1
    BY <2>1, JumpsAppend
  <2>6. seq = LastRead + 1 => K = J
    <3> SUFFICES ASSUME seq = LastRead + 1 PROVE K = J
      OBVIOUS
    <3>1. consumed = <<>> \/ r.buf = consumed[Len(consumed)].buf + 1
      BY <2>3 DEF LastRead
    <3>2. Jumps(Append(consumed, r)) = Jumps(consumed)
      BY <2>1, <3>1, JumpsAppend
    <3> QED
      BY <3>2
  <2>7. J <= rg_err_count /\ (seq # LastRead + 1 => J + 1 <= rg_err_count)
    BY <1>1 DEF KeepInv, CountInv, Jumping
  <2> HIDE DEF J
  <2>8. K <= rg_err_count
    <3> HIDE DEF K
    <3> QED
      BY <2>4, <2>5, <2>6, <2>7, Numbers
  <2>9. ~Jumping'
    BY <1>1 DEF Jumping
  <2> QED
    BY ONLY <1>1, <2>2, <2>8, <2>9 DEF CountInv
<1> QED
  BY <1>2, <1>5, <1>6, <1>7 DEF KeepInv

LEMMA KeepStep ==
  ASSUME TypeOK, TypeOK', ReaderInRing, KeepInv, Calm, [Next]_vars
  PROVE  KeepInv'
<1>1. ASSUME NEW size \in Sizes, Pack(size) PROVE KeepInv'
  BY <1>1, PackKeeps
<1>2. CASE UNCHANGED vars
  <2>1. UNCHANGED <<slot, last_buf_off, core, tokens, plugin, bufno, cptr, recs, cpc>>
    BY <1>2 DEF vars, shared, core
  <2>2. WriterInv' /\ RingInv' /\ OffInv' /\ Steps' = Steps /\ Steps \in Nat
    BY <2>1, PluginKeepsCore, StepsType
  <2>3. ReaderInv' /\ CountInv' /\ WindowInv'
    BY <2>1, <2>2, ReaderKept, CountKept, WindowKept DEF KeepInv
  <2> QED
    BY <2>2, <2>3 DEF KeepInv
<1> QED
  BY <1>1, <1>2, ReprocessKeeps, CommitKeeps, CommitSeqKeeps, CommitOffKeeps, AdvanceKeeps,
     WaitKeeps, RecheckKeeps, ResyncKeeps, ReseqKeeps, NextSlotKeeps, CopyHeaderKeeps,
     CopyRecordsKeeps
     DEF Next, Core, Plugin, Quiet

(* A step back of the plugin is a read of a buffer one before the last.    *)
LEMMA RewindStep ==
  ASSUME TypeOK, ReaderInRing, KeepInv, [Next]_vars, RewindBounded
  PROVE  RewindBounded'
<1>1. CASE CopyRecords
  <2> DEFINE r == [buf |-> seq, num |-> pipebuf]
             c == Append(consumed, r)
  <2>1. consumed' = c /\ seq \in 1..Count /\ LastRead - 1 <= seq
    BY <1>1, CopyReads
  <2>2. consumed \in Seq([buf : Nat, num : Nat]) /\ r \in [buf : Nat, num : Nat]
    BY <2>1 DEF TypeOK
  <2>3. r.buf = seq
    OBVIOUS
  <2> HIDE DEF r
  <2>4. /\ Len(c) = Len(consumed) + 1 /\ Len(consumed) \in Nat /\ c[Len(consumed) + 1] = r
        /\ \A k \in 1..Len(consumed) : c[k] = consumed[k]
    BY <2>2
  <2>5. Len(consumed) > 0 => LastRead = consumed[Len(consumed)].buf
    BY DEF LastRead
  <2> HIDE DEF c
  <2>6. ASSUME NEW k \in 1..(Len(c) - 1) PROVE c[k].buf <= c[k + 1].buf + 1
    <3>1. CASE k = Len(consumed)
      BY <2>1, <2>3, <2>4, <2>5, <3>1, Numbers
    <3>2. CASE k # Len(consumed)
      <4>1. k \in 1..(Len(consumed) - 1) /\ c[k] = consumed[k] /\ c[k + 1] = consumed[k + 1]
        BY <2>4, <3>2
      <4> QED
        BY <4>1 DEF RewindBounded
    <3> QED
      BY <3>1, <3>2
  <2> QED
    BY ONLY <2>1, <2>6 DEF RewindBounded
<1>2. CASE consumed' = consumed
  BY <1>2 DEF RewindBounded
<1> QED
  BY <1>1, <1>2
     DEF Next, Core, Plugin, Quiet, vars, plugin, Pack, Reprocess, Fill, CommitSeq, CommitNum,
         CommitOff, Kick, WriteToken, Advance, PollAgain, PollTimeout, ReadToken, Recheck,
         Resync, Reseq, NextSlot, CopyHeader

(* A plugin that keeps up steps back by one buffer at most, whatever the   *)
(* number of slots, the sizes of the records and the wake-ups in flight,   *)
(* as long as the sequence number has not wrapped (MAX_SEQNUM is 65536).   *)
THEOREM RewindsByOne == Calm => (Spec => []RewindBounded)
<1> SUFFICES ASSUME Calm PROVE Spec => []RewindBounded
  OBVIOUS
<1>1. Init => RewindBounded
  BY DEF Init, RewindBounded
<1>2. TypeOK /\ ReaderInRing /\ KeepInv /\ RewindBounded /\ [Next]_vars
        => (TypeOK /\ ReaderInRing /\ KeepInv /\ RewindBounded)'
  BY TypeStep, KeepStep, RewindStep
<1>3. QED BY <1>1, <1>2, RingInit, KeepInit, PTL DEF Spec

(* And it repeats or skips a buffer only where rg_err_count has counted    *)
(* it ("Missing data detected").                                           *)
THEOREM EveryJumpCounted == Calm => (Spec => []JumpsAreCounted)
<1> SUFFICES ASSUME Calm PROVE Spec => []JumpsAreCounted
  OBVIOUS
<1>1. KeepInv => JumpsAreCounted
  BY DEF KeepInv, CountInv, Jumps, JumpsAreCounted
<1>2. TypeOK /\ ReaderInRing /\ KeepInv /\ [Next]_vars
        => (TypeOK /\ ReaderInRing /\ KeepInv)'
  BY TypeStep, KeepStep
<1>3. QED BY <1>1, <1>2, RingInit, KeepInit, PTL DEF Spec
=============================================================================
