------------------------------ MODULE ThreadPool ------------------------------
(***************************************************************************)
(* The fixed-size pool of worker threads of src/src/thread_pool.c.  Every  *)
(* pmacct daemon uses it: for the BGP, BMP, RPKI, telemetry and Redis      *)
(* threads (one worker, one job that never returns), for the BMP/BGP-HA    *)
(* queue (one worker, one job per failover), and for the table dump        *)
(* writers (several workers, one short job each, then deallocation).       *)
(*                                                                         *)
(* A pool has a single client thread: the one that allocates it is the one *)
(* that calls send_to_pool() and, for the dump writers, deallocates it.    *)
(*                                                                         *)
(* Critical sections that cannot block inside are one step.  The worker's  *)
(* mutex is explicit because thread_runner() keeps it for as long as the   *)
(* job runs, and never gives it back when it leaves the loop with break.   *)
(* pthread_cond_wait() is a program location that a signal, or a spurious  *)
(* wake-up, moves back to the re-check of its condition.                   *)
(***************************************************************************)
EXTENDS Naturals, Sequences, FiniteSets

CONSTANTS
  Workers,        \* the threads of the pool; pool->count = Cardinality(Workers)
  Jobs,           \* the (function, data) pairs handed to send_to_pool()
  NoJob,          \* what a fresh worker's function pointer is
  NoWorker,       \* the client has no worker in hand
  JobMayFail,     \* may a job return ERR?
  CreateMayFail,  \* may pthread_attr_*() or pthread_create() fail?
  SleepSuffices   \* does sleep(1) in deallocate_thread_pool() outlast the
                  \* start of every job sent before it?

ASSUME WorkersAssumption == IsFiniteSet(Workers) /\ Workers # {}
ASSUME NoJobAssumption == NoJob \notin Jobs
ASSUME NoWorkerAssumption == NoWorker \notin Workers
ASSUME FlagsAssumption ==
  /\ JobMayFail \in BOOLEAN
  /\ CreateMayFail \in BOOLEAN
  /\ SleepSuffices \in BOOLEAN

VARIABLES
  go,         \* worker->go: "err" at creation, then FALSE ("idle") or TRUE ("go")
  quit,       \* worker->quit
  job,        \* worker->function, worker->data
  mutex,      \* worker->mutex: "free" or held by its "runner"
  pc,         \* where thread_runner() is
  free_list,  \* pool->free_list, head first
  list,       \* pool->list, filled from the left
  cpc,        \* where the client thread is
  cw,         \* the client's local variable worker
  cj,         \* the job the client is sending
  i,          \* the client's loop index in deallocate_thread_pool()
  sent,       \* history: jobs send_to_pool() has handed over
  ran         \* history: how many times each job has been executed

workerVars == <<go, quit, job, mutex, pc>>
clientVars == <<list, cpc, cw, cj, i, sent>>
vars == <<go, quit, job, mutex, pc, free_list, list, cpc, cw, cj, i, sent, ran>>

WorkerPC == {"none", "new", "loop", "lock", "waiting", "run", "push", "exited", "freed"}
ClientPC == {"alloc", "await", "awaitwait", "idle", "take", "takewait", "give",
             "sleep", "stop", "stopsignal", "join", "done", "crash"}

count == Cardinality(Workers)

Free(w) == \E k \in 1..Len(free_list) : free_list[k] = w

Init ==
  /\ go = [w \in Workers |-> "err"]
  /\ quit = [w \in Workers |-> FALSE]
  /\ job = [w \in Workers |-> NoJob]
  /\ mutex = [w \in Workers |-> "free"]
  /\ pc = [w \in Workers |-> "none"]
  /\ free_list = <<>>
  /\ list = <<>>
  /\ cpc = "alloc"
  /\ cw = NoWorker
  /\ cj = NoJob
  /\ i = 1
  /\ sent = {}
  /\ ran = [j \in Jobs |-> 0]

(* pthread_cond_signal(worker->cond) while the worker may be waiting on it *)
SignalWorker(w) ==
  pc' = [pc EXCEPT ![w] = IF @ = "waiting" THEN "lock" ELSE @]

-----------------------------------------------------------------------------
(* thread_runner() *)

RunnerInit(w) ==
  /\ pc[w] = "new"
  /\ mutex[w] = "free"
  /\ go' = [go EXCEPT ![w] = "idle"]
  /\ pc' = [pc EXCEPT ![w] = "loop"]
  /\ cpc' = IF cpc = "awaitwait" /\ cw = w THEN "await" ELSE cpc
  /\ UNCHANGED <<quit, job, mutex, free_list, list, cw, cj, i, sent, ran>>

(* while (!self->quit): read without the mutex *)
RunnerLoop(w) ==
  /\ pc[w] = "loop"
  /\ pc' = [pc EXCEPT ![w] = IF quit[w] THEN "exited" ELSE "lock"]
  /\ UNCHANGED <<go, quit, job, mutex, free_list, ran>> /\ UNCHANGED clientVars

(* Mutant of RunnerLock: no check of quit between waking up and the job.   *)
RunnerLockNoCheck(w) ==
  /\ pc[w] = "lock"
  /\ mutex[w] = "free"
  /\ IF go[w] = "idle"
     THEN pc' = [pc EXCEPT ![w] = "waiting"] /\ UNCHANGED mutex
     ELSE /\ mutex' = [mutex EXCEPT ![w] = "runner"]
          /\ pc' = [pc EXCEPT ![w] = "run"]
  /\ UNCHANGED <<go, quit, job, free_list, ran>> /\ UNCHANGED clientVars

(* Take the mutex and look at go: wait, leave the loop, or run the job.    *)
RunnerLock(w) ==
  /\ pc[w] = "lock"
  /\ mutex[w] = "free"
  /\ IF go[w] = "idle"
     THEN pc' = [pc EXCEPT ![w] = "waiting"] /\ UNCHANGED mutex
     ELSE /\ mutex' = [mutex EXCEPT ![w] = "runner"]
          /\ pc' = [pc EXCEPT ![w] = IF quit[w] THEN "exited" ELSE "run"]
  /\ UNCHANGED <<go, quit, job, free_list, ran>> /\ UNCHANGED clientVars

SpuriousWakeup(w) ==
  /\ pc[w] = "waiting"
  /\ SignalWorker(w)
  /\ UNCHANGED <<go, quit, job, mutex, free_list, ran>> /\ UNCHANGED clientVars

(* The job returns; an ERR makes this the worker's last job.               *)
RunnerRun(w) ==
  /\ pc[w] = "run"
  /\ \/ JobMayFail /\ quit' = [quit EXCEPT ![w] = TRUE]
     \/ UNCHANGED quit
  /\ ran' = [ran EXCEPT ![job[w]] = @ + 1]
  /\ go' = [go EXCEPT ![w] = "idle"]
  /\ mutex' = [mutex EXCEPT ![w] = "free"]
  /\ pc' = [pc EXCEPT ![w] = "push"]
  /\ UNCHANGED <<job, free_list>> /\ UNCHANGED clientVars

(* Back on the free list, under the pool's mutex, and tell the client.     *)
RunnerPush(w) ==
  /\ pc[w] = "push"
  /\ free_list' = <<w>> \o free_list
  /\ pc' = [pc EXCEPT ![w] = "loop"]
  /\ cpc' = IF cpc = "takewait" THEN "take" ELSE cpc
  /\ UNCHANGED <<go, quit, job, mutex, list, cw, cj, i, sent, ran>>

-----------------------------------------------------------------------------
(* allocate_thread_pool() *)

CreateThread(w) ==
  /\ cpc = "alloc"
  /\ pc[w] = "none"
  /\ pc' = [pc EXCEPT ![w] = "new"]
  /\ cw' = w
  /\ cpc' = "await"
  /\ UNCHANGED <<go, quit, job, mutex, free_list, list, cj, i, sent, ran>>

(* Any failure: deallocate_thread_pool(&pool), return NULL.                *)
CreateFails ==
  /\ CreateMayFail
  /\ cpc = "alloc"
  /\ Len(list) < count
  /\ cpc' = "sleep"
  /\ UNCHANGED <<list, cw, cj, i, sent, ran, free_list>> /\ UNCHANGED workerVars

(* Wait for thread init, then add the worker to both lists.                *)
AwaitInit ==
  /\ cpc = "await"
  /\ mutex[cw] = "free"
  /\ IF go[cw] # "idle"
     THEN /\ cpc' = "awaitwait"
          /\ UNCHANGED <<free_list, list, cw>>
     ELSE /\ free_list' = <<cw>> \o free_list
          /\ list' = Append(list, cw)
          /\ cw' = NoWorker
          /\ cpc' = IF Len(list) + 1 < count THEN "alloc" ELSE "idle"
  /\ UNCHANGED <<cj, i, sent, ran>> /\ UNCHANGED workerVars

-----------------------------------------------------------------------------
(* send_to_pool() *)

Send(j) ==
  /\ cpc = "idle"
  /\ j \notin sent
  /\ cj' = j
  /\ cpc' = "take"
  /\ UNCHANGED <<list, cw, i, sent, ran, free_list>> /\ UNCHANGED workerVars

(* Mutant of TakeFree: the worker stays on the free list.                  *)
TakeFreeKeeps ==
  /\ cpc = "take"
  /\ IF free_list = <<>>
     THEN cpc' = "takewait" /\ UNCHANGED cw
     ELSE cw' = Head(free_list) /\ cpc' = "give"
  /\ UNCHANGED <<list, cj, i, sent, ran, free_list>> /\ UNCHANGED workerVars

TakeFree ==
  /\ cpc = "take"
  /\ IF free_list = <<>>
     THEN cpc' = "takewait" /\ UNCHANGED <<free_list, cw>>
     ELSE /\ cw' = Head(free_list)
          /\ free_list' = Tail(free_list)
          /\ cpc' = "give"
  /\ UNCHANGED <<list, cj, i, sent, ran>> /\ UNCHANGED workerVars

(* Mutant of GiveWork: no pthread_cond_signal().                           *)
GiveWorkSilently ==
  /\ cpc = "give"
  /\ mutex[cw] = "free"
  /\ job' = [job EXCEPT ![cw] = cj]
  /\ go' = [go EXCEPT ![cw] = "go"]
  /\ sent' = sent \cup {cj}
  /\ cw' = NoWorker
  /\ cj' = NoJob
  /\ cpc' = "idle"
  /\ UNCHANGED <<quit, mutex, pc, free_list, list, i, ran>>

GiveWork ==
  /\ cpc = "give"
  /\ mutex[cw] = "free"
  /\ job' = [job EXCEPT ![cw] = cj]
  /\ go' = [go EXCEPT ![cw] = "go"]
  /\ SignalWorker(cw)
  /\ sent' = sent \cup {cj}
  /\ cw' = NoWorker
  /\ cj' = NoJob
  /\ cpc' = "idle"
  /\ UNCHANGED <<quit, mutex, free_list, list, i, ran>>

-----------------------------------------------------------------------------
(* deallocate_thread_pool() *)

Deallocate ==
  /\ cpc = "idle"
  /\ cpc' = "sleep"
  /\ UNCHANGED <<list, cw, cj, i, sent, ran, free_list>> /\ UNCHANGED workerVars

(* sleep(1): "Let's give send_to_pool() some advantage".                   *)
SleepOver ==
  /\ cpc = "sleep"
  /\ SleepSuffices => \A w \in Workers : go[w] = "go" => pc[w] \in {"run", "exited"}
  /\ cpc' = "stop"
  /\ UNCHANGED <<list, cw, cj, i, sent, ran, free_list>> /\ UNCHANGED workerVars

(* pool->list[i] is NULL when the pool is only partly built.               *)
StopWorker ==
  /\ cpc = "stop"
  /\ i <= count
  /\ IF i > Len(list)
     THEN cpc' = "crash" /\ UNCHANGED <<go, quit, cw>>
     ELSE /\ mutex[list[i]] = "free" \* may block for as long as a job runs
          /\ go' = [go EXCEPT ![list[i]] = "go"]
          /\ quit' = [quit EXCEPT ![list[i]] = TRUE]
          /\ cw' = list[i]
          /\ cpc' = "stopsignal"
  /\ UNCHANGED <<job, mutex, pc, free_list, list, cj, i, sent, ran>>

(* Mutant of StopSignal: no pthread_cond_signal().                         *)
StopSignalSilently ==
  /\ cpc = "stopsignal"
  /\ cpc' = "join"
  /\ UNCHANGED <<go, quit, job, mutex, pc, free_list, list, cw, cj, i, sent, ran>>

StopSignal ==
  /\ cpc = "stopsignal"
  /\ SignalWorker(cw)
  /\ cpc' = "join"
  /\ UNCHANGED <<go, quit, job, mutex, free_list, list, cw, cj, i, sent, ran>>

(* pthread_join(), then everything of the worker is freed.                 *)
JoinWorker ==
  /\ cpc = "join"
  /\ pc[cw] = "exited"
  /\ pc' = [pc EXCEPT ![cw] = "freed"]
  /\ cw' = NoWorker
  /\ i' = i + 1
  /\ cpc' = IF i = count THEN "done" ELSE "stop"
  /\ UNCHANGED <<go, quit, job, mutex, free_list, list, cj, sent, ran>>

-----------------------------------------------------------------------------
Runner(w) == RunnerInit(w) \/ RunnerLoop(w) \/ RunnerLock(w) \/ RunnerRun(w) \/ RunnerPush(w)

Client ==
  \/ \E w \in Workers : CreateThread(w)
  \/ CreateFails \/ AwaitInit
  \/ \E j \in Jobs : Send(j)
  \/ TakeFree \/ GiveWork
  \/ Deallocate \/ SleepOver \/ StopWorker \/ StopSignal \/ JoinWorker

(* The process that owned the pool lives on, or has died.                  *)
Terminated ==
  /\ cpc \in {"done", "crash"}
  /\ UNCHANGED vars

Next ==
  \/ Client
  \/ \E w \in Workers : Runner(w) \/ SpuriousWakeup(w)
  \/ Terminated

Spec == Init /\ [][Next]_vars

(***************************************************************************)
(* The kernel schedules every thread, and every job in this module ends.   *)
(* Whether and when the client sends or deallocates is up to it, but once  *)
(* it has called a function of the pool it goes through with it.           *)
(***************************************************************************)
ClientCall == AwaitInit \/ TakeFree \/ GiveWork \/ SleepOver \/ StopWorker
              \/ StopSignal \/ JoinWorker

FairSpec == /\ Spec
            /\ \A w \in Workers : WF_vars(Runner(w))
            /\ WF_vars(ClientCall)

-----------------------------------------------------------------------------
(* Types of the pool's and the workers' fields (thread_pool.h) and of the  *)
(* locals of the client's calls.                                           *)
TypeOK ==
  /\ go \in [Workers -> {"err", "idle", "go"}]
  /\ quit \in [Workers -> BOOLEAN]
  /\ job \in [Workers -> Jobs \cup {NoJob}]
  /\ mutex \in [Workers -> {"free", "runner"}]
  /\ pc \in [Workers -> WorkerPC]
  /\ free_list \in Seq(Workers)
  /\ list \in Seq(Workers)
  /\ cpc \in ClientPC
  /\ cw \in Workers \cup {NoWorker}
  /\ cj \in Jobs \cup {NoJob}
  /\ i \in Nat \ {0}
  /\ sent \subseteq Jobs
  /\ ran \in [Jobs -> Nat]

(***************************************************************************)
(* A worker on the free list has nothing to do and is on it once: popping  *)
(* it in send_to_pool() cannot overwrite the function and data of a job    *)
(* that thread_runner() has still to run or is running.                    *)
(***************************************************************************)
FreeWorkersIdle ==
  /\ \A a, b \in 1..Len(free_list) : free_list[a] = free_list[b] => a = b
  /\ \A w \in Workers :
       Free(w) => /\ pc[w] \notin {"none", "run", "push"}
                  /\ go[w] = "go" => quit[w]  \* only deallocation set go
                  /\ ~(cpc = "give" /\ cw = w)

(***************************************************************************)
(* No job is run twice, nor before it was handed over, whatever the jobs   *)
(* return and whenever the pool is deallocated: neither a spurious wake-up *)
(* nor the go that deallocate_thread_pool() sets makes a worker repeat the *)
(* job whose function and data it still holds.                             *)
(***************************************************************************)
JobsAtMostOnce == \A j \in Jobs : ran[j] <= (IF j \in sent THEN 1 ELSE 0)

(***************************************************************************)
(* A job that send_to_pool() took has been run, or is the job of a worker  *)
(* that will run it.  True when no job returns ERR and the sleep(1) of     *)
(* deallocate_thread_pool() is long enough.                                *)
(***************************************************************************)
NoJobLost ==
  \A j \in sent :
    \/ ran[j] = 1
    \/ \E w \in Workers : job[w] = j /\ go[w] = "go" /\ ~quit[w]

(***************************************************************************)
(* send_to_pool() pops "a free thread" to "give it some work to do": a     *)
(* thread that has left thread_runner() can be given work, but never does  *)
(* it.                                                                     *)
(***************************************************************************)
FreeThreadsAlive ==
  cpc \in {"idle", "take", "give"} =>
    \A w \in Workers : Free(w) => pc[w] # "exited"

(***************************************************************************)
(* "If nothing of the above works bail out": a pool that cannot be built   *)
(* is given up in good order.                                              *)
(***************************************************************************)
NoCrash == cpc # "crash"

(* Every job handed to the pool is run in the end.                         *)
JobEventuallyRuns == \A j \in Jobs : (j \in sent) ~> (ran[j] = 1)

(***************************************************************************)
(* deallocate_thread_pool() never waits for ever on a worker's mutex or in *)
(* pthread_join(), even though a signal is only kept by a waiting thread.  *)
(***************************************************************************)
DeallocateReturns == (cpc = "sleep") ~> (cpc \in {"done", "crash"})

-----------------------------------------------------------------------------
(***************************************************************************)
(* The inductive invariants behind JobsAtMostOnce and NoJobLost.           *)
(***************************************************************************)
Pending(w) == go[w] = "go" /\ ~quit[w]
InHand(w) == cw = w /\ cpc \in {"await", "awaitwait", "give"}
Stopping == cpc \in {"stop", "stopsignal", "join", "done", "crash"}

(* A job runs under the worker's mutex, and is the one it was given.       *)
PendingInv ==
  /\ \A w \in Workers : pc[w] = "run" => mutex[w] = "runner" /\ Pending(w)
  /\ \A w \in Workers : pc[w] \notin {"none", "new"} => go[w] # "err"
  /\ \A w \in Workers : Pending(w) => job[w] \in sent /\ ran[job[w]] = 0
  /\ \A v, w \in Workers : Pending(v) /\ Pending(w) /\ job[v] = job[w] => v = w
  /\ cpc \in {"await", "awaitwait", "give", "stopsignal", "join"} => cw \in Workers
  /\ cpc \in {"take", "takewait", "give"} => cj \in Jobs \ sent

(* A worker is on the free list, in the client's hand, or busy: never two. *)
OwnershipInv ==
  /\ \A a, b \in 1..Len(free_list) : free_list[a] = free_list[b] => a = b
  /\ \A w \in Workers :
       /\ Free(w) => /\ pc[w] \notin {"none", "new", "run", "push"}
                     /\ ~InHand(w)
       /\ InHand(w) => pc[w] \notin {"none", "run", "push"}
       /\ Free(w) \/ InHand(w) \/ pc[w] = "push" => ~Pending(w)
       /\ pc[w] \in {"none", "new"} => go[w] = "err"
  /\ cpc = "give" => pc[cw] # "new"
  /\ \A k \in 1..Len(list) : pc[list[k]] \notin {"none", "new"}

(* While jobs succeed, only deallocation, after its sleep, stops a worker. *)
StopInv ==
  /\ \A w \in Workers : quit[w] => Stopping
  /\ \A w \in Workers : pc[w] \in {"exited", "freed"} => quit[w]
  /\ \A w \in Workers : Pending(w) => pc[w] \in {"loop", "lock", "waiting", "run"}
  /\ Stopping => \A w \in Workers : Pending(w) => pc[w] = "run"
=============================================================================
