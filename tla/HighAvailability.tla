---------------------------- MODULE HighAvailability ----------------------------
(***************************************************************************)
(* The BMP/BGP high-availability feature of ha.c.  All the collectors of a *)
(* cluster receive the same messages; through Redis they agree on the one  *)
(* that forwards them to Kafka, and the others keep them in a queue.       *)
(*                                                                         *)
(* In every collector there are four threads: the Redis thread, which runs *)
(* p_redis_thread_bmp_bgp_ha_handler() every second; the BMP/BGP thread,   *)
(* which forwards or enqueues; the thread that discards old messages; and  *)
(* the thread that dumps the queue.  Signal handlers run at any time.  The *)
(* flags they share are plain variables, only the queue has a mutex.       *)
(*                                                                         *)
(* Time is counted in seconds and kept as what remains (the life of a key  *)
(* in Redis) or has passed (the age of a message).                         *)
(***************************************************************************)
EXTENDS Integers, Sequences, FiniteSets

CONSTANTS
  Daemons,       \* the collectors of the cluster
  ExpTime,       \* PM_REDIS_DEFAULT_EXP_TIME
  Timeout,       \* queue_message_timeout_us
  MaxQueue,      \* queue_max_size, 0 for no limit
  MaxMsgs,       \* bound: BMP/BGP messages
  MaxFaults,     \* bound: crashes, signals and failures of Redis
  Faults,        \* the kinds of faults and signals that happen
  Punctual,      \* does every thread do its work within its second?
  Overlap,       \* can the flag change between its test and the enqueueing?
  KafkaFails     \* can the production of a queued message fail?

FaultKinds == {"crash", "redis", "expiry", "regenerate", "active", "standby", "normal"}

ASSUME TimesAssumption ==
  /\ ExpTime \in Nat \ {0} /\ Timeout \in Nat
  /\ MaxQueue \in Nat /\ MaxMsgs \in Nat /\ MaxFaults \in Nat
ASSUME FaultsAssumption == Faults \subseteq FaultKinds
ASSUME ScheduleAssumption ==
  {Punctual, Overlap, KafkaFails} \subseteq BOOLEAN

VARIABLES
  up,                    \* is the collector running?
  timestamp_local,       \* its startup timestamp
  daemon_state,          \* active?
  bmp_bgp_forwarding,    \* forwarding, or enqueueing?
  old_forwarding,        \* old_bmp_bgp_forwarding
  regenerate_timestamp,  \* a new timestamp is asked for
  forced_mode,           \* the state comes from a signal
  first,                 \* redis_loop_counter = 0
  rpc,                   \* where the Redis thread is
  todo,                  \* keys whose timestamp is still to be read
  queue,                 \* bmp_bgp_ha_data_queue: messages and their age
  queue_dumping,         \* is the queue being dumped?
  dpc,                   \* where the dump thread is
  received,              \* the last message the BMP/BGP thread has received
  pending,               \* the message it is about to enqueue, 0 if none
  redis_up,              \* can Redis be reached?
  ttl,                   \* what remains of the life of every key, 0 if gone
  stamp,                 \* the timestamp in every key
  now,                   \* the last timestamp generated
  emitted,               \* messages sent by the router
  kafka,                 \* messages produced to Kafka
  faults,                \* faults so far
  asked,                 \* history: the last state asked for by a signal
  died                   \* history: collectors ended by a NULL reply

flags == <<timestamp_local, daemon_state, bmp_bgp_forwarding, old_forwarding,
           regenerate_timestamp, forced_mode, first>>
threads == <<rpc, todo, queue, queue_dumping, dpc, received, pending>>
redis == <<redis_up, ttl, stamp, now>>
world == <<emitted, kafka, faults, asked, died>>
haVars == <<up, flags, threads, redis, world>>

HaInit ==
  /\ up = [d \in Daemons |-> TRUE]
  /\ timestamp_local = [d \in Daemons |-> 0]
  /\ daemon_state = [d \in Daemons |-> TRUE]
  /\ bmp_bgp_forwarding = [d \in Daemons |-> TRUE]
  /\ old_forwarding = [d \in Daemons |-> FALSE]
  /\ regenerate_timestamp = [d \in Daemons |-> FALSE]
  /\ forced_mode = [d \in Daemons |-> FALSE]
  /\ first = [d \in Daemons |-> TRUE]
  /\ rpc = [d \in Daemons |-> "ready"]
  /\ todo = [d \in Daemons |-> {}]
  /\ queue = [d \in Daemons |-> <<>>]
  /\ queue_dumping = [d \in Daemons |-> FALSE]
  /\ dpc = [d \in Daemons |-> "idle"]
  /\ received = [d \in Daemons |-> 0]
  /\ pending = [d \in Daemons |-> 0]
  /\ redis_up = TRUE
  /\ ttl = [d \in Daemons |-> 0]
  /\ stamp = [d \in Daemons |-> 0]
  /\ now = 0 /\ emitted = 0 /\ kafka = {} /\ faults = 0
  /\ asked = [d \in Daemons |-> "none"]
  /\ died = {}

-----------------------------------------------------------------------------
(* The Redis thread: p_redis_thread_bmp_bgp_ha_handler() *)

(* The timestamp is written to Redis, a new one if it has to be.           *)
Announce(d) ==
  /\ up[d] /\ rpc[d] = "ready"
  /\ IF first[d] \/ regenerate_timestamp[d]
     THEN now' = now + 1 /\ timestamp_local' = [timestamp_local EXCEPT ![d] = now + 1]
     ELSE UNCHANGED <<now, timestamp_local>>
  /\ regenerate_timestamp' = [regenerate_timestamp EXCEPT ![d] = FALSE]
  /\ IF redis_up
     THEN /\ ttl' = [ttl EXCEPT ![d] = ExpTime]
          /\ stamp' = [stamp EXCEPT ![d] = timestamp_local'[d]]
     ELSE UNCHANGED <<ttl, stamp>>
  /\ rpc' = [rpc EXCEPT ![d] = "keys"]
  /\ UNCHANGED <<up, daemon_state, bmp_bgp_forwarding, old_forwarding, forced_mode, first,
                 todo, queue, queue_dumping, dpc, received, pending, redis_up, world>>

(* Mutant of Keys: with no reply from Redis the state is left as it is.    *)
KeysOrNothing(d) ==
  /\ up[d] /\ rpc[d] = "keys"
  /\ IF forced_mode[d] \/ ~redis_up
     THEN rpc' = [rpc EXCEPT ![d] = "forward"] /\ UNCHANGED todo
     ELSE /\ rpc' = [rpc EXCEPT ![d] = "get"]
          /\ todo' = [todo EXCEPT ![d] = {k \in Daemons : ttl[k] > 0}]
  /\ UNCHANGED <<up, flags, queue, queue_dumping, dpc, received, pending, redis, world>>

(* In forced mode the state stays; otherwise the keys in Redis are asked   *)
(* for, and without Redis there are none.                                  *)
Keys(d) ==
  /\ up[d] /\ rpc[d] = "keys"
  /\ IF forced_mode[d]
     THEN rpc' = [rpc EXCEPT ![d] = "forward"] /\ UNCHANGED todo
     ELSE /\ rpc' = [rpc EXCEPT ![d] = "get"]
          /\ todo' = [todo EXCEPT ![d] = IF redis_up THEN {k \in Daemons : ttl[k] > 0} ELSE {}]
  /\ UNCHANGED <<up, flags, queue, queue_dumping, dpc, received, pending, redis, world>>

(* bmp_bgp_ha_redis_check_daemon_state() returns state.                    *)
Checked(d, state) ==
  /\ daemon_state' = [daemon_state EXCEPT ![d] = state]
  /\ rpc' = [rpc EXCEPT ![d] = "forward"]
  /\ todo' = [todo EXCEPT ![d] = {}]
  /\ UNCHANGED <<up, timestamp_local, bmp_bgp_forwarding, old_forwarding, regenerate_timestamp,
                 forced_mode, first, queue, queue_dumping, dpc, received, pending, redis, world>>

NextKey(d, k) ==
  /\ todo' = [todo EXCEPT ![d] = @ \ {k}]
  /\ UNCHANGED <<up, flags, rpc, queue, queue_dumping, dpc, received, pending, redis, world>>

NoOlder(d) == up[d] /\ rpc[d] = "get" /\ todo[d] = {} /\ Checked(d, TRUE)

(* Mutant of ReadKey: the collector's own timestamp counts as a smaller one. *)
ReadKeyNotAbove(d, k) ==
  /\ up[d] /\ rpc[d] = "get" /\ k \in todo[d]
  /\ redis_up /\ ttl[k] > 0
  /\ IF stamp[k] <= timestamp_local[d] THEN Checked(d, FALSE) ELSE NextKey(d, k)

(* One smaller timestamp is enough.                                        *)
ReadKey(d, k) ==
  /\ up[d] /\ rpc[d] = "get" /\ k \in todo[d]
  /\ redis_up /\ ttl[k] > 0
  /\ IF stamp[k] < timestamp_local[d] THEN Checked(d, FALSE) ELSE NextKey(d, k)

(* No reply: timestamp_redis still has its earlier, perhaps uninitialized, *)
(* contents.                                                               *)
ReadKeyNoReply(d, k) ==
  /\ up[d] /\ rpc[d] = "get" /\ k \in todo[d]
  /\ ~redis_up
  /\ Checked(d, FALSE) \/ NextKey(d, k)

(* What a collector's threads have when they start, or leave behind.       *)
Started(d) ==
  /\ timestamp_local' = [timestamp_local EXCEPT ![d] = 0]
  /\ daemon_state' = [daemon_state EXCEPT ![d] = TRUE]
  /\ bmp_bgp_forwarding' = [bmp_bgp_forwarding EXCEPT ![d] = TRUE]
  /\ old_forwarding' = [old_forwarding EXCEPT ![d] = FALSE]
  /\ regenerate_timestamp' = [regenerate_timestamp EXCEPT ![d] = FALSE]
  /\ forced_mode' = [forced_mode EXCEPT ![d] = FALSE]
  /\ first' = [first EXCEPT ![d] = TRUE]
  /\ rpc' = [rpc EXCEPT ![d] = "ready"]
  /\ todo' = [todo EXCEPT ![d] = {}]
  /\ queue' = [queue EXCEPT ![d] = <<>>]
  /\ queue_dumping' = [queue_dumping EXCEPT ![d] = FALSE]
  /\ dpc' = [dpc EXCEPT ![d] = "idle"]
  /\ pending' = [pending EXCEPT ![d] = 0]
  /\ asked' = [asked EXCEPT ![d] = "none"]

(* A nil reply: its string, which is copied, is NULL.                      *)
ReadKeyNil(d, k) ==
  /\ up[d] /\ rpc[d] = "get" /\ k \in todo[d]
  /\ redis_up /\ ttl[k] = 0
  /\ up' = [up EXCEPT ![d] = FALSE]
  /\ died' = died \cup {d}
  /\ Started(d)
  /\ UNCHANGED <<received, redis, emitted, kafka, faults>>

(* Not to stand-by while the queue is being dumped.                        *)
Forward(d) ==
  /\ up[d] /\ rpc[d] = "forward"
  /\ Overlap \/ pending[d] = 0
  /\ bmp_bgp_forwarding' = [bmp_bgp_forwarding EXCEPT ![d] = daemon_state[d] \/ queue_dumping[d]]
  /\ rpc' = [rpc EXCEPT ![d] = "start"]
  /\ UNCHANGED <<up, timestamp_local, daemon_state, old_forwarding, regenerate_timestamp,
                 forced_mode, first, todo, queue, queue_dumping, dpc, received, pending,
                 redis, world>>

(* Mutant of StartDump: only a collector in its first round dumps.         *)
StartDumpFirst(d) ==
  /\ up[d] /\ rpc[d] = "start"
  /\ IF bmp_bgp_forwarding[d] /\ ~old_forwarding[d] /\ first[d]
     THEN dpc[d] = "idle" /\ dpc' = [dpc EXCEPT ![d] = "requested"]
     ELSE UNCHANGED dpc
  /\ old_forwarding' = [old_forwarding EXCEPT ![d] = bmp_bgp_forwarding[d]]
  /\ first' = [first EXCEPT ![d] = FALSE]
  /\ rpc' = [rpc EXCEPT ![d] = "done"]
  /\ UNCHANGED <<up, timestamp_local, daemon_state, bmp_bgp_forwarding, regenerate_timestamp,
                 forced_mode, todo, queue, queue_dumping, received, pending, redis, world>>

(* A collector that becomes active has its queue dumped; send_to_pool()    *)
(* waits for the dump thread to be free.                                   *)
StartDump(d) ==
  /\ up[d] /\ rpc[d] = "start"
  /\ IF bmp_bgp_forwarding[d] /\ ~old_forwarding[d] /\ ~first[d]
     THEN dpc[d] = "idle" /\ dpc' = [dpc EXCEPT ![d] = "requested"]
     ELSE UNCHANGED dpc
  /\ old_forwarding' = [old_forwarding EXCEPT ![d] = bmp_bgp_forwarding[d]]
  /\ first' = [first EXCEPT ![d] = FALSE]
  /\ rpc' = [rpc EXCEPT ![d] = "done"]
  /\ UNCHANGED <<up, timestamp_local, daemon_state, bmp_bgp_forwarding, regenerate_timestamp,
                 forced_mode, todo, queue, queue_dumping, received, pending, redis, world>>

-----------------------------------------------------------------------------
(* The BMP/BGP thread: bmp_log_msg(), bgp_peer_log_msg() *)

Receive(d) ==
  /\ up[d] /\ pending[d] = 0 /\ received[d] < emitted
  /\ received' = [received EXCEPT ![d] = @ + 1]
  /\ IF bmp_bgp_forwarding[d]
     THEN kafka' = kafka \cup {received[d] + 1} /\ UNCHANGED pending
     ELSE pending' = [pending EXCEPT ![d] = received[d] + 1] /\ UNCHANGED kafka
  /\ UNCHANGED <<up, flags, rpc, todo, queue, queue_dumping, dpc, redis, emitted, faults,
                 asked, died>>

(* bmp_bgp_ha_enqueue() *)
Enqueue(d) ==
  /\ up[d] /\ pending[d] # 0
  /\ queue' = [queue EXCEPT ![d] = Append(@, [msg |-> pending[d], age |-> 0])]
  /\ pending' = [pending EXCEPT ![d] = 0]
  /\ UNCHANGED <<up, flags, rpc, todo, queue_dumping, dpc, received, redis, world>>

-----------------------------------------------------------------------------
(* The threads on the queue: bmp_bgp_ha_queue_pop(), bmp_bgp_ha_queue_dump() *)

(* Is the head of q popped?                                                *)
Discards(q) ==
  q # <<>> /\ (Head(q).age > Timeout \/ (MaxQueue > 0 /\ Len(q) > MaxQueue))

(* Messages are popped, under the mutex, up to the first that may stay.    *)
Pop(d) ==
  /\ up[d] /\ ~queue_dumping[d]
  /\ Discards(queue[d])
  /\ \E k \in 1..Len(queue[d]) :
       /\ \A i \in 1..(k - 1) : Discards(SubSeq(queue[d], i + 1, Len(queue[d])))
       /\ ~Discards(SubSeq(queue[d], k + 1, Len(queue[d])))
       /\ queue' = [queue EXCEPT ![d] = SubSeq(@, k + 1, Len(@))]
  /\ UNCHANGED <<up, flags, rpc, todo, queue_dumping, dpc, received, pending, redis, world>>

DumpBegin(d) ==
  /\ up[d] /\ dpc[d] = "requested"
  /\ queue_dumping' = [queue_dumping EXCEPT ![d] = TRUE]
  /\ dpc' = [dpc EXCEPT ![d] = "dumping"]
  /\ UNCHANGED <<up, flags, rpc, todo, queue, received, pending, redis, world>>

(* Mutant of DumpQueue: the loop ends one message early.                   *)
DumpQueueButOne(d) ==
  /\ up[d] /\ dpc[d] = "dumping"
  /\ LET n == IF queue[d] = <<>> THEN 0 ELSE Len(queue[d]) - 1
     IN  /\ kafka' = kafka \cup {queue[d][i].msg : i \in 1..n}
         /\ queue' = [queue EXCEPT ![d] = SubSeq(@, n + 1, Len(@))]
  /\ dpc' = [dpc EXCEPT ![d] = "closing"]
  /\ UNCHANGED <<up, flags, rpc, todo, queue_dumping, received, pending, redis, emitted,
                 faults, asked, died>>

(* Under the mutex every message is produced and popped.  If one cannot be *)
(* produced the connection is closed, and the others are popped only.      *)
DumpQueue(d) ==
  /\ up[d] /\ dpc[d] = "dumping"
  /\ \E n \in IF KafkaFails THEN 0..Len(queue[d]) ELSE {Len(queue[d])} :
       kafka' = kafka \cup {queue[d][i].msg : i \in 1..n}
  /\ queue' = [queue EXCEPT ![d] = <<>>]
  /\ dpc' = [dpc EXCEPT ![d] = "closing"]
  /\ UNCHANGED <<up, flags, rpc, todo, queue_dumping, received, pending, redis, emitted,
                 faults, asked, died>>

DumpEnd(d) ==
  /\ up[d] /\ dpc[d] = "closing"
  /\ queue_dumping' = [queue_dumping EXCEPT ![d] = FALSE]
  /\ dpc' = [dpc EXCEPT ![d] = "idle"]
  /\ UNCHANGED <<up, flags, rpc, todo, queue, received, pending, redis, world>>

-----------------------------------------------------------------------------
(* Signals *)

Fault(kind) == kind \in Faults /\ faults < MaxFaults /\ faults' = faults + 1

Regenerate(d) ==
  /\ up[d] /\ Fault("regenerate")
  /\ regenerate_timestamp' = [regenerate_timestamp EXCEPT ![d] = TRUE]
  /\ UNCHANGED <<up, timestamp_local, daemon_state, bmp_bgp_forwarding, old_forwarding,
                 forced_mode, first, threads, redis, emitted, kafka, asked, died>>

(* bmp_bgp_ha_set_to_active(), bmp_bgp_ha_set_to_standby() *)
ForceState(d, kind) ==
  /\ up[d] /\ Fault(kind)
  /\ forced_mode' = [forced_mode EXCEPT ![d] = TRUE]
  /\ daemon_state' = [daemon_state EXCEPT ![d] = (kind = "active")]
  /\ asked' = [asked EXCEPT ![d] = kind]
  /\ UNCHANGED <<up, timestamp_local, bmp_bgp_forwarding, old_forwarding, regenerate_timestamp,
                 first, threads, redis, emitted, kafka, died>>

SetToNormal(d) ==
  /\ up[d] /\ Fault("normal")
  /\ forced_mode' = [forced_mode EXCEPT ![d] = FALSE]
  /\ asked' = [asked EXCEPT ![d] = "none"]
  /\ UNCHANGED <<up, timestamp_local, daemon_state, bmp_bgp_forwarding, old_forwarding,
                 regenerate_timestamp, first, threads, redis, emitted, kafka, died>>

-----------------------------------------------------------------------------
(* The surroundings *)

Emit ==
  /\ emitted < MaxMsgs
  /\ emitted' = emitted + 1
  /\ UNCHANGED <<up, flags, threads, redis, kafka, faults, asked, died>>

Crash(d) ==
  /\ up[d] /\ Fault("crash")
  /\ up' = [up EXCEPT ![d] = FALSE]
  /\ Started(d)
  /\ UNCHANGED <<received, redis, emitted, kafka, died>>

(* The router's session with a new collector starts with new messages.  A  *)
(* restart takes longer than a punctual collector's first round.           *)
Restart(d) ==
  /\ ~up[d]
  /\ Punctual => \A k \in Daemons : up[k] => ~first[k]
  /\ up' = [up EXCEPT ![d] = TRUE]
  /\ received' = [received EXCEPT ![d] = emitted]
  /\ UNCHANGED <<flags, rpc, todo, queue, queue_dumping, dpc, pending, redis, world>>

RedisDown ==
  /\ redis_up /\ Fault("redis")
  /\ redis_up' = FALSE
  /\ UNCHANGED <<up, flags, threads, ttl, stamp, now, emitted, kafka, asked, died>>

RedisUp ==
  /\ ~redis_up
  /\ redis_up' = TRUE
  /\ UNCHANGED <<up, flags, threads, ttl, stamp, now, world>>

(* A key expires in the last second of its life, in the middle of a round. *)
Expire(k) ==
  /\ ttl[k] = 1 /\ Fault("expiry")
  /\ ttl' = [ttl EXCEPT ![k] = 0]
  /\ UNCHANGED <<up, flags, threads, redis_up, stamp, now, emitted, kafka, asked, died>>

InTime(d) ==
  up[d] => rpc[d] = "done" /\ dpc[d] # "requested" /\ pending[d] = 0 /\ received[d] = emitted

Aged(q) ==
  [i \in 1..Len(q) |-> [msg |-> q[i].msg, age |-> IF q[i].age > Timeout THEN q[i].age ELSE q[i].age + 1]]

(* A second passes: keys expire, messages age, Redis threads wake up.      *)
HaTick ==
  /\ Punctual => \A d \in Daemons : InTime(d)
  /\ ttl' = [k \in Daemons |-> IF ttl[k] = 0 THEN 0 ELSE ttl[k] - 1]
  /\ queue' = [d \in Daemons |-> Aged(queue[d])]
  /\ rpc' = [d \in Daemons |-> IF rpc[d] = "done" THEN "ready" ELSE rpc[d]]
  /\ UNCHANGED <<up, flags, todo, queue_dumping, dpc, received, pending, redis_up, stamp, now,
                 world>>

-----------------------------------------------------------------------------
RedisThread(d) ==
  \/ Announce(d) \/ Keys(d) \/ NoOlder(d) \/ Forward(d) \/ StartDump(d)
  \/ \E k \in Daemons : ReadKey(d, k) \/ ReadKeyNoReply(d, k) \/ ReadKeyNil(d, k)

BmpThread(d) == Receive(d) \/ Enqueue(d)

DumpThread(d) == DumpBegin(d) \/ DumpQueue(d) \/ DumpEnd(d)

Signal(d) == Regenerate(d) \/ ForceState(d, "active") \/ ForceState(d, "standby") \/ SetToNormal(d)

HaNext ==
  \/ \E d \in Daemons :
       \/ RedisThread(d) \/ BmpThread(d) \/ DumpThread(d) \/ Pop(d)
       \/ Signal(d) \/ Crash(d) \/ Restart(d) \/ Expire(d)
  \/ Emit \/ RedisDown \/ RedisUp \/ HaTick

HaSpec == HaInit /\ [][HaNext]_haVars

(***************************************************************************)
(* The threads of a running collector are scheduled and time passes.       *)
(* Nothing makes a collector or Redis come back, nor messages arrive.      *)
(***************************************************************************)
HaFairSpec ==
  /\ HaSpec
  /\ \A d \in Daemons :
       WF_haVars(RedisThread(d)) /\ WF_haVars(BmpThread(d)) /\ WF_haVars(DumpThread(d))
  /\ WF_haVars(HaTick)

-----------------------------------------------------------------------------
(* Types of the globals of ha.c and of the keys in Redis, which never live *)
(* longer than the expiration time they are written with.                  *)
HaTypeOK ==
  /\ up \in [Daemons -> BOOLEAN]
  /\ timestamp_local \in [Daemons -> Nat]
  /\ daemon_state \in [Daemons -> BOOLEAN]
  /\ bmp_bgp_forwarding \in [Daemons -> BOOLEAN]
  /\ old_forwarding \in [Daemons -> BOOLEAN]
  /\ regenerate_timestamp \in [Daemons -> BOOLEAN]
  /\ forced_mode \in [Daemons -> BOOLEAN]
  /\ first \in [Daemons -> BOOLEAN]
  /\ rpc \in [Daemons -> {"ready", "keys", "get", "forward", "start", "done"}]
  /\ todo \in [Daemons -> SUBSET Daemons]
  /\ queue \in [Daemons -> Seq([msg : Nat, age : Nat])]
  /\ queue_dumping \in [Daemons -> BOOLEAN]
  /\ dpc \in [Daemons -> {"idle", "requested", "dumping", "closing"}]
  /\ received \in [Daemons -> Nat]
  /\ pending \in [Daemons -> Nat]
  /\ redis_up \in BOOLEAN
  /\ ttl \in [Daemons -> 0..ExpTime]
  /\ stamp \in [Daemons -> Nat]
  /\ now \in Nat /\ emitted \in Nat /\ kafka \subseteq Nat /\ faults \in Nat
  /\ asked \in [Daemons -> {"none", "active", "standby"}]
  /\ died \subseteq Daemons

Queued(d) == {queue[d][i].msg : i \in 1..Len(queue[d])}

(***************************************************************************)
(* "This makes sure that no BMP/BGP messages are dropped during the        *)
(* failover period": a message that is not in Kafka is with a collector    *)
(* that runs and has yet to forward, enqueue or dump it.                   *)
(***************************************************************************)
NoMessageLost ==
  \A m \in 1..emitted :
    \/ m \in kafka
    \/ \E d \in Daemons :
         up[d] /\ (received[d] < m \/ pending[d] = m \/ m \in Queued(d))

(***************************************************************************)
(* An active collector between two rounds, with no dump under way, has     *)
(* nothing left in its queue: however its state went back and forth, every *)
(* message enqueued in stand-by has been handed to the dump.               *)
(***************************************************************************)
ActiveQueueEmpty ==
  \A d \in Daemons :
    bmp_bgp_forwarding[d] /\ rpc[d] = "done" /\ dpc[d] = "idle" => queue[d] = <<>>

(***************************************************************************)
(* After the last crash, outage and new timestamp the running collectors   *)
(* agree: one forwards, and only one.                                      *)
(***************************************************************************)
OneActive ==
  <>[](redis_up /\ \E d \in Daemons : up[d])
    => <>[](Cardinality({d \in Daemons : up[d] /\ bmp_bgp_forwarding[d]}) = 1)

(***************************************************************************)
(* Without Redis every running collector becomes active, whatever it had   *)
(* read before and even if the outage came in the middle of a round.       *)
(***************************************************************************)
AllActiveWithoutRedis ==
  <>[]~redis_up => <>[](\A d \in Daemons : up[d] => bmp_bgp_forwarding[d])

(***************************************************************************)
(* What the documentation says of signals and of expired keys.             *)
(*                                                                         *)
(* "A daemon can be triggered to be in active or standby state no matter   *)
(* its timestamp": in forced mode the state is the one asked for.          *)
(***************************************************************************)
ForcedStateHolds ==
  \A d \in Daemons : forced_mode[d] => daemon_state[d] = (asked[d] = "active")

(***************************************************************************)
(* "If the timestamp expires, the other daemons cannot get it anymore and  *)
(* will assume that the daemon is offline": they go on running.            *)
(***************************************************************************)
ExpiryMeansOffline == died = {}
=============================================================================
