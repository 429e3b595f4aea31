----------------------------- MODULE PluginChannel -----------------------------
(***************************************************************************)
(* The home-grown queue between the core process and one plugin: a ring of *)
(* plugin_pipe_size / plugin_buffer_size slots in shared memory, a status  *)
(* area (wakeup, last_buf_off) and a socket pair that carries wake-ups.    *)
(*                                                                         *)
(* The writer is exec_plugins() and fill_pipe_buffer() of plugin_hooks.c;  *)
(* the reader is the main loop that the print, kafka, amqp, SQL, nfprobe,  *)
(* sfprobe and tee plugins share (taken from print_plugin.c).  There is no *)
(* lock: every access to shared memory that the other process can see is a *)
(* step of its own, in program order.                                      *)
(*                                                                         *)
(* A slot is its header (seq, num) and its data; the data is the number of *)
(* the buffer whose records, if any, are there.  Lengths are in units of   *)
(* the fixed part of a record.                                             *)
(*                                                                         *)
(* Left out of exec_plugins(): the commit at hdr.num = INT_MAX, and the    *)
(* packets that a filter or sampling keeps from the plugin.                *)
(***************************************************************************)
EXTENDS Integers, Sequences, FiniteSets

CONSTANTS
  Slots,        \* floor(plugin_pipe_size / plugin_buffer_size)
  BufEnd,       \* room for records in a buffer
  Sizes,        \* sizes of records: 1 for fixed-size ones, more with a vlen part
  Immediate,    \* buffer_immediate: is every record sent at once?
  MaxSeq,       \* MAX_SEQNUM
  PipeLen,      \* wake-ups the socket pair can hold
  MaxBufs,      \* bound: packets arrive for the first MaxBufs buffers
  KeepsUp,      \* does the core stay two slots short of lapping the plugin?
  PollTimesOut  \* can poll() return without data (refresh time, signals)?

ASSUME SizesAssumption == Sizes \subseteq Nat \ {0}
ASSUME BoundsAssumption ==
  /\ Slots \in Nat \ {0} /\ BufEnd \in Nat \ {0} /\ MaxSeq \in Nat \ {0, 1}
  /\ PipeLen \in Nat \ {0} /\ MaxBufs \in Nat
ASSUME EnvironmentAssumption ==
  Immediate \in BOOLEAN /\ KeepsUp \in BOOLEAN /\ PollTimesOut \in BOOLEAN

VARIABLES
  slot,          \* the ring
  wakeup,        \* status->wakeup
  last_buf_off,  \* status->last_buf_off, as a slot
  tokens,        \* wake-ups in the socket pair
  cpc,           \* where the core process is
  cptr,          \* the core's rg.ptr, as a slot
  bufptr,        \* the core's displacement in its slot
  hdr_seq,       \* the core's hdr.seq
  hdr_num,       \* the core's hdr.num
  reprocess,     \* size of the record to be processed again, 0 if none
  filling,       \* in fill_pipe_buffer()?
  ppc,           \* where the plugin is
  pptr,          \* the plugin's rg->ptr; Slots is the end of the ring
  seq,           \* the plugin's seq
  rg_err_count,  \* the plugin's rg_err_count
  pipebuf,       \* the num of the header the plugin has copied
  bufno,         \* history: the number of the buffer the core is writing
  recs,          \* history: records in each committed buffer
  packets,       \* history: records the core has been given
  consumed       \* history: buffers the plugin has processed

core == <<cpc, cptr, bufptr, hdr_seq, hdr_num, reprocess, filling, bufno, recs, packets>>
plugin == <<ppc, pptr, seq, rg_err_count, pipebuf, consumed>>
shared == <<slot, wakeup, last_buf_off, tokens>>
vars == <<core, plugin, shared>>

NoSeq == -1  \* marks the slot that is being written
MAX_RG_COUNT_ERR == 3
Ring == 0..(Slots - 1)

Init ==
  /\ slot = [s \in Ring |-> [seq |-> 0, num |-> 0, data |-> 0]]
  /\ wakeup = FALSE
  /\ last_buf_off = 0
  /\ tokens = 0
  /\ cpc = "pack" /\ cptr = 0 /\ bufptr = 0 /\ hdr_seq = 0 /\ hdr_num = 0
  /\ reprocess = 0 /\ filling = FALSE
  /\ ppc = "top" /\ pptr = 0 /\ seq = 1 /\ rg_err_count = 0 /\ pipebuf = 0
  /\ bufno = 1 /\ recs = <<>> /\ packets = 0 /\ consumed = <<>>

(* The buffer the plugin read last.                                        *)
LastRead == IF consumed = <<>> THEN 0 ELSE consumed[Len(consumed)].buf

-----------------------------------------------------------------------------
(* exec_plugins() *)

(* Mutant of Fits: the fixed part of the record is not counted.            *)
FitsVlenOnly(size) == size > 1 => bufptr + size - 1 <= BufEnd

(* check_pipe_buffer_space(): only records with a vlen part are checked.   *)
Fits(size) == size > 1 => bufptr + size <= BufEnd

(* KeepsUp: a packet moves the core on by one slot, or by two if its       *)
(* record does not fit, and leaves it two slots short of lapping the       *)
(* plugin.                                                                 *)
InStep(size) ==
  bufno + (IF Fits(size) THEN 1 ELSE 2) <= LastRead + Slots - 2

(* The record is in the slot; the buffer is committed once the fixed part  *)
(* of one more would not fit, or at once.                                  *)
PutRecord(size) ==
  /\ slot' = [slot EXCEPT ![cptr].data = bufno]
  /\ hdr_num' = hdr_num + 1
  /\ bufptr' = bufptr + size
  /\ reprocess' = 0
  /\ cpc' = IF bufptr + size + 1 > BufEnd \/ Immediate THEN "seq" ELSE "pack"

(* Mutant of Pack: hdr.num is also incremented for the record sent later.  *)
PackCountsTwice(size) ==
  /\ cpc = "pack" /\ reprocess = 0 /\ bufno <= MaxBufs
  /\ KeepsUp => InStep(size)
  /\ packets' = packets + 1
  /\ \/ Fits(size) /\ PutRecord(size)
     \/ /\ ~Fits(size)
        /\ bufptr' = BufEnd
        /\ reprocess' = size
        /\ hdr_num' = hdr_num + 1
        /\ cpc' = "seq"
        /\ UNCHANGED slot
  /\ UNCHANGED <<wakeup, last_buf_off, tokens, cptr, hdr_seq, filling, bufno, recs, plugin>>

(* A packet: its record goes into the buffer, or the buffer is sent first. *)
Pack(size) ==
  /\ cpc = "pack" /\ reprocess = 0 /\ bufno <= MaxBufs
  /\ KeepsUp => InStep(size)
  /\ packets' = packets + 1
  /\ \/ Fits(size) /\ PutRecord(size)
     \/ /\ ~Fits(size)
        /\ bufptr' = BufEnd
        /\ reprocess' = size
        /\ cpc' = "seq"
        /\ UNCHANGED <<slot, hdr_num>>
  /\ UNCHANGED <<wakeup, last_buf_off, tokens, cptr, hdr_seq, filling, bufno, recs, plugin>>

(* The jump back to reprocess: an empty buffer must do.                    *)
Reprocess ==
  /\ cpc = "pack" /\ reprocess # 0
  /\ \/ Fits(reprocess) /\ PutRecord(reprocess)
     \/ /\ ~Fits(reprocess) \* plugin_buffer_size is too short
        /\ cpc' = "exited"
        /\ UNCHANGED <<slot, hdr_num, bufptr, reprocess>>
  /\ UNCHANGED <<wakeup, last_buf_off, tokens, cptr, hdr_seq, filling, bufno, recs, packets,
                 plugin>>

(* fill_pipe_buffer(): the daemon stops and sends what it has.             *)
Fill ==
  /\ cpc = "pack" /\ reprocess = 0
  /\ filling' = TRUE
  /\ cpc' = "seq"
  /\ UNCHANGED <<cptr, bufptr, hdr_seq, hdr_num, reprocess, bufno, recs, packets, plugin, shared>>

CommitSeq ==
  /\ cpc = "seq"
  /\ hdr_seq' = (hdr_seq + 1) % MaxSeq
  /\ slot' = [slot EXCEPT ![cptr].seq = hdr_seq', ![cptr].data = bufno]
  /\ recs' = Append(recs, hdr_num)
  /\ cpc' = "num"
  /\ UNCHANGED <<wakeup, last_buf_off, tokens, cptr, bufptr, hdr_num, reprocess, filling, bufno,
                 packets, plugin>>

CommitNum ==
  /\ cpc = "num"
  /\ slot' = [slot EXCEPT ![cptr].num = hdr_num]
  /\ cpc' = IF filling THEN "kick" ELSE "off"
  /\ UNCHANGED <<wakeup, last_buf_off, tokens, cptr, bufptr, hdr_seq, hdr_num, reprocess, filling, bufno,
                 recs, packets, plugin>>

CommitOff ==
  /\ cpc = "off"
  /\ last_buf_off' = cptr
  /\ cpc' = "kick"
  /\ UNCHANGED <<slot, wakeup, tokens, cptr, bufptr, hdr_seq, hdr_num, reprocess, filling, bufno, recs,
                 packets, plugin>>

AfterKick == IF filling THEN "exited" ELSE "advance"

(* request is FALSE for these plugins: one wake-up per poll().             *)
Kick ==
  /\ cpc = "kick"
  /\ wakeup' = FALSE
  /\ cpc' = IF wakeup THEN "write" ELSE AfterKick
  /\ UNCHANGED <<slot, last_buf_off, tokens, cptr, bufptr, hdr_seq, hdr_num, reprocess, filling, bufno,
                 recs, packets, plugin>>

(* The socket is non-blocking: with no room the wake-up is dropped.        *)
WriteToken ==
  /\ cpc = "write"
  /\ tokens' = IF tokens < PipeLen THEN tokens + 1 ELSE tokens
  /\ cpc' = AfterKick
  /\ UNCHANGED <<slot, wakeup, last_buf_off, cptr, bufptr, hdr_seq, hdr_num, reprocess, filling, bufno,
                 recs, packets, plugin>>

(* On to the next slot, which is protected before it is written.           *)
Advance ==
  /\ cpc = "advance"
  /\ cptr' = (cptr + 1) % Slots
  /\ slot' = [slot EXCEPT ![cptr'].seq = NoSeq, ![cptr'].num = 0]
  /\ bufptr' = 0
  /\ hdr_num' = 0
  /\ bufno' = bufno + 1
  /\ cpc' = "pack"
  /\ UNCHANGED <<wakeup, last_buf_off, tokens, hdr_seq, reprocess, filling, recs, packets, plugin>>

-----------------------------------------------------------------------------
(* The main loop of print_plugin() *)

PollAgain ==
  /\ ppc = "top"
  /\ wakeup' = TRUE
  /\ ppc' = "poll"
  /\ UNCHANGED <<slot, last_buf_off, tokens, core, pptr, seq, rg_err_count, pipebuf, consumed>>

(* A refresh time has come, or a signal: back to the top of the loop.      *)
PollTimeout ==
  /\ ppc = "poll" /\ PollTimesOut
  /\ tokens = 0
  /\ ppc' = "top"
  /\ UNCHANGED <<shared, core, pptr, seq, rg_err_count, pipebuf, consumed>>

(* poll() finds data: read() it.                                           *)
ReadToken ==
  /\ ppc = "poll"
  /\ tokens > 0
  /\ tokens' = tokens - 1
  /\ ppc' = "recheck"
  /\ UNCHANGED <<slot, wakeup, last_buf_off, core, pptr, seq, rg_err_count, pipebuf, consumed>>

Wrap(p) == IF p = Slots THEN 0 ELSE p

(* Mutant of Recheck: rg_err_count is not incremented.                     *)
RecheckSilent ==
  /\ ppc = "recheck"
  /\ pptr' = Wrap(pptr)
  /\ ppc' = IF slot[pptr'].seq = seq THEN "copy" ELSE "resync"
  /\ UNCHANGED <<shared, core, seq, rg_err_count, pipebuf, consumed>>

(* After a wake-up: the slot waited for, or the last one committed.        *)
Recheck ==
  /\ ppc = "recheck"
  /\ pptr' = Wrap(pptr)
  /\ IF slot[pptr'].seq = seq
     THEN ppc' = "copy" /\ UNCHANGED rg_err_count
     ELSE ppc' = "resync" /\ rg_err_count' = rg_err_count + 1
  /\ UNCHANGED <<shared, core, seq, pipebuf, consumed>>

(* Mutant of Resync: back to the start of the ring.                        *)
ResyncBase ==
  /\ ppc = "resync"
  /\ pptr' = 0
  /\ ppc' = "reseq"
  /\ UNCHANGED <<shared, core, seq, rg_err_count, pipebuf, consumed>>

Resync ==
  /\ ppc = "resync"
  /\ pptr' = last_buf_off
  /\ ppc' = "reseq"
  /\ UNCHANGED <<shared, core, seq, rg_err_count, pipebuf, consumed>>

Reseq ==
  /\ ppc = "reseq"
  /\ seq' = slot[pptr].seq
  /\ ppc' = "copy"
  /\ UNCHANGED <<shared, core, pptr, rg_err_count, pipebuf, consumed>>

(* Mutant of NextSlot: one buffer per wake-up.                             *)
NextSlotWaits ==
  /\ ppc = "next"
  /\ seq' = (seq + 1) % MaxSeq
  /\ rg_err_count' = IF seq' = 0 THEN 0 ELSE rg_err_count
  /\ pptr' = Wrap(pptr)
  /\ ppc' = "top"
  /\ UNCHANGED <<shared, core, pipebuf, consumed>>

(* Without a wake-up: is the next slot committed?                          *)
NextSlot ==
  /\ ppc = "next"
  /\ seq' = (seq + 1) % MaxSeq
  /\ rg_err_count' = IF seq' = 0 THEN 0 ELSE rg_err_count
  /\ pptr' = Wrap(pptr)
  /\ ppc' = IF slot[pptr'].seq = seq' THEN "copy" ELSE "top"
  /\ UNCHANGED <<shared, core, pipebuf, consumed>>

(* memcpy(): the header, then the records.                                 *)
CopyHeader ==
  /\ ppc = "copy"
  /\ pipebuf' = slot[pptr].num
  /\ ppc' = "records"
  /\ UNCHANGED <<shared, core, pptr, seq, rg_err_count, consumed>>

CopyRecords ==
  /\ ppc = "records"
  /\ consumed' = Append(consumed, [buf |-> slot[pptr].data, num |-> pipebuf])
  /\ pptr' = pptr + 1
  /\ ppc' = "next"
  /\ UNCHANGED <<shared, core, seq, rg_err_count, pipebuf>>

-----------------------------------------------------------------------------
Core ==
  \/ \E size \in Sizes : Pack(size)
  \/ Reprocess \/ Fill \/ CommitSeq \/ CommitNum \/ CommitOff \/ Kick \/ WriteToken \/ Advance

Plugin ==
  \/ PollAgain \/ ReadToken \/ Recheck \/ Resync \/ Reseq \/ NextSlot \/ CopyHeader \/ CopyRecords

(* The core has stopped, and the plugin polls for ever.                    *)
Quiet ==
  /\ cpc = "exited" /\ ppc = "poll" /\ tokens = 0
  /\ UNCHANGED vars

Next == Core \/ Plugin \/ PollTimeout \/ Quiet

Spec == Init /\ [][Next]_vars

(***************************************************************************)
(* Both processes are scheduled; a buffer that exec_plugins() has begun to *)
(* commit is committed.  Nothing makes packets arrive.                     *)
(***************************************************************************)
Commit == Reprocess \/ CommitSeq \/ CommitNum \/ CommitOff \/ Kick \/ WriteToken \/ Advance

FairSpec == Spec /\ WF_vars(Plugin) /\ WF_vars(Commit)

-----------------------------------------------------------------------------
(* Types: in particular the core's rg.ptr is always a slot of the ring and *)
(* the plugin's a slot or its end.                                         *)
TypeOK ==
  /\ slot \in [Ring -> [seq : {NoSeq} \cup 0..(MaxSeq - 1), num : Nat, data : Nat]]
  /\ wakeup \in BOOLEAN
  /\ last_buf_off \in Ring
  /\ tokens \in 0..PipeLen
  /\ cpc \in {"pack", "seq", "num", "off", "kick", "write", "advance", "exited"}
  /\ cptr \in Ring
  /\ bufptr \in Nat
  /\ hdr_seq \in 0..(MaxSeq - 1)
  /\ hdr_num \in Nat
  /\ reprocess \in Sizes \cup {0}
  /\ filling \in BOOLEAN
  /\ ppc \in {"top", "poll", "recheck", "resync", "reseq", "next", "copy", "records"}
  /\ pptr \in 0..Slots
  /\ seq \in {NoSeq} \cup 0..(MaxSeq - 1)
  /\ rg_err_count \in Nat
  /\ pipebuf \in Nat
  /\ bufno \in Nat
  /\ recs \in Seq(Nat)
  /\ packets \in Nat
  /\ consumed \in Seq([buf : Nat, num : Nat])

(***************************************************************************)
(* A plugin that keeps up goes back by at most one buffer from the one it  *)
(* processed last, although its position, its seq and its wake-ups come    *)
(* from three places that the core updates one after the other.            *)
(***************************************************************************)
RewindBounded ==
  \A k \in 1..(Len(consumed) - 1) : consumed[k].buf <= consumed[k + 1].buf + 1

(* The core has seen that the plugin sleeps, or a wake-up is in the pair.  *)
WakeUp == tokens > 0 \/ cpc = "write" \/ (cpc = "kick" /\ wakeup)

(***************************************************************************)
(* A commit that finds the plugin asleep repairs the ones that did not:    *)
(* whenever a wake-up is under way there comes a moment when the plugin    *)
(* has caught up with the core, although the wake-ups of earlier buffers   *)
(* may have been lost (the core looked at wakeup before the plugin set it) *)
(* or dropped (the pair was full) and the core goes on committing and      *)
(* reuses the ring meanwhile.                                              *)
(***************************************************************************)
KickReachesAll == WakeUp ~> (\E k \in 1..Len(consumed) : consumed[k].buf >= Len(recs))

(* The records of the buffers committed so far.                            *)
Committed[n \in 0..Len(recs)] == IF n = 0 THEN 0 ELSE Committed[n - 1] + recs[n]

(***************************************************************************)
(* Sending a buffer early for a record that does not fit in it, and        *)
(* processing the packet again, neither loses nor repeats a record: the    *)
(* packets given to the plugin are the records of the buffers committed,   *)
(* those of the buffer being filled and the one that waits for the next.   *)
(***************************************************************************)
RecordsConserved ==
  packets = Committed[Len(recs)] + (IF cpc \in {"pack", "seq"} THEN hdr_num ELSE 0)
            + (IF reprocess # 0 THEN 1 ELSE 0)

(***************************************************************************)
(* No record is written past the end of its slot: there is always room for *)
(* the fixed part of one more, and the vlen part is checked.               *)
(***************************************************************************)
NoSlotOverflow ==
  /\ bufptr <= BufEnd
  /\ cpc = "pack" => bufptr + 1 <= BufEnd

(***************************************************************************)
(* Whenever a plugin that keeps up repeats or skips a buffer, it has gone  *)
(* through the "Missing data" branch and counted it.                       *)
(***************************************************************************)
JumpsAreCounted ==
  Cardinality({k \in 1..(Len(consumed) - 1) : consumed[k + 1].buf # consumed[k].buf + 1})
    <= rg_err_count

(***************************************************************************)
(* What the documentation says of the queue.                               *)
(*                                                                         *)
(* "If the Plugin is sleeping [...] the Core Process kicks the specific    *)
(* Plugin flagging that new data is now available."                        *)
(***************************************************************************)
SleepingPluginKicked ==
  ~(/\ ppc = "poll" /\ tokens = 0 /\ wakeup
    /\ cpc = "pack"
    /\ slot[Wrap(pptr)].seq = seq)

(***************************************************************************)
(* "If the Plugin is not sleeping instead, once finished processing the    *)
(* current element, will check the next queue element": it never goes back *)
(* to one it has processed.                                                *)
(***************************************************************************)
NothingProcessedTwice ==
  \A j, k \in 1..Len(consumed) : j < k => consumed[j].buf < consumed[k].buf

(***************************************************************************)
(* "In case of data loss messages containing the 'missing data detected'   *)
(* string will be logged": without debug, the print_plugin() loop logs     *)
(* from the fourth time on.                                                *)
(***************************************************************************)
LossIsLogged ==
  (\E k \in 1..(Len(consumed) - 1) : consumed[k + 1].buf > consumed[k].buf + 1)
    => rg_err_count > MAX_RG_COUNT_ERR

(***************************************************************************)
(* "Let's commit the buffer we just finished writing": once the plugin     *)
(* finds the sequence number of a buffer it finds all its records.         *)
(***************************************************************************)
BuffersWhole ==
  \A k \in 1..Len(consumed) :
    consumed[k].buf \in 1..Len(recs) => consumed[k].num = recs[consumed[k].buf]

(***************************************************************************)
(* "Let's protect the buffer we are going to write": the plugin never      *)
(* copies records out of a slot the core is writing again.                 *)
(***************************************************************************)
SlotProtected == ppc \in {"copy", "records"} /\ seq # NoSeq => slot[pptr].seq = seq
=============================================================================
