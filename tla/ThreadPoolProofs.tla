--------------------------- MODULE ThreadPoolProofs ---------------------------
(***************************************************************************)
(* Proofs about the thread pool for any set of workers and of jobs: its    *)
(* type correctness, that no job runs twice, that a free worker is idle,   *)
(* and, under the two assumptions the code rests on, that no job is lost.  *)
(***************************************************************************)
EXTENDS ThreadPool, FiniteSetTheorems, TLAPS

LEMMA CountType == count \in Nat
  BY FS_CardinalityType, WorkersAssumption DEF count

(* What popping the free list returns and leaves.                          *)
LEMMA TailOfFree ==
  ASSUME NEW S, NEW s \in Seq(S), s # <<>>
  PROVE  /\ Head(s) \in S /\ Tail(s) \in Seq(S) /\ Len(s) \in Nat \ {0}
         /\ Len(Tail(s)) = Len(s) - 1
         /\ \A k \in 1..Len(Tail(s)) : Tail(s)[k] = s[k + 1]
         /\ Head(s) = s[1]
  OBVIOUS

(* Popping and pushing keep a list without duplicates.                     *)
LEMMA PopDistinct ==
  ASSUME NEW S, NEW s \in Seq(S), s # <<>>,
         \A a, b \in 1..Len(s) : s[a] = s[b] => a = b
  PROVE  /\ \A a, b \in 1..Len(Tail(s)) : Tail(s)[a] = Tail(s)[b] => a = b
         /\ \A k \in 1..Len(Tail(s)) : Tail(s)[k] # s[1]
<1>1. Len(s) \in Nat \ {0} /\ Len(Tail(s)) = Len(s) - 1
  BY TailOfFree
<1>2. \A k \in 1..Len(Tail(s)) : Tail(s)[k] = s[k + 1] /\ k + 1 \in 1..Len(s)
  BY <1>1, TailOfFree
<1>3. 1 \in 1..Len(s)
  BY <1>1
<1>4. QED BY <1>2, <1>3

LEMMA PushDistinct ==
  ASSUME NEW S, NEW s \in Seq(S), NEW x \in S,
         \A a, b \in 1..Len(s) : s[a] = s[b] => a = b,
         \A k \in 1..Len(s) : s[k] # x
  PROVE  \A a, b \in 1..Len(<<x>> \o s) : (<<x>> \o s)[a] = (<<x>> \o s)[b] => a = b
<1>1. Len(<<x>> \o s) = Len(s) + 1 /\ Len(s) \in Nat
  OBVIOUS
<1>2. \A k \in 1..Len(<<x>> \o s) : (<<x>> \o s)[k] = IF k = 1 THEN x ELSE s[k - 1]
  OBVIOUS
<1> SUFFICES ASSUME NEW a \in 1..Len(<<x>> \o s), NEW b \in 1..Len(<<x>> \o s),
                    (<<x>> \o s)[a] = (<<x>> \o s)[b]
             PROVE  a = b
  OBVIOUS
<1>3. \A k \in 1..Len(<<x>> \o s) : k = 1 \/ k - 1 \in 1..Len(s)
  BY <1>1
<1>4. CASE a = 1 \/ b = 1
  BY <1>2, <1>3, <1>4
<1>5. CASE a # 1 /\ b # 1
  <2>1. a - 1 = b - 1
    BY <1>2, <1>3, <1>5
  <2>2. a \in Nat /\ b \in Nat
    BY <1>1
  <2>3. QED BY <2>1, <2>2
<1>6. QED BY <1>4, <1>5

(* The client has a worker in hand whenever it dereferences one, and a     *)
(* running worker has a job: TypeOK is inductive only with this.           *)
LEMMA TypeStep == TypeOK /\ PendingInv /\ [Next]_vars => TypeOK'
<1> SUFFICES ASSUME TypeOK, PendingInv, [Next]_vars PROVE TypeOK'
  OBVIOUS
<1> USE DEF TypeOK, WorkerPC, ClientPC, workerVars, clientVars
<1>1. ASSUME NEW w \in Workers, RunnerInit(w) PROVE TypeOK'
  BY <1>1 DEF RunnerInit
<1>2. ASSUME NEW w \in Workers, RunnerLoop(w) PROVE TypeOK'
  BY <1>2 DEF RunnerLoop
<1>3. ASSUME NEW w \in Workers, RunnerLock(w) PROVE TypeOK'
  BY <1>3 DEF RunnerLock
<1>4. ASSUME NEW w \in Workers, RunnerRun(w) PROVE TypeOK'
  <2>1. job[w] \in Jobs
    BY <1>4 DEF RunnerRun, PendingInv, Pending
  <2>2. ran' \in [Jobs -> Nat]
    BY <1>4, <2>1 DEF RunnerRun
  <2>3. QED BY <1>4, <2>2 DEF RunnerRun
<1>5. ASSUME NEW w \in Workers, RunnerPush(w) PROVE TypeOK'
  BY <1>5 DEF RunnerPush
<1>6. ASSUME NEW w \in Workers, SpuriousWakeup(w) PROVE TypeOK'
  BY <1>6 DEF SpuriousWakeup, SignalWorker
<1>7. ASSUME NEW w \in Workers, CreateThread(w) PROVE TypeOK'
  BY <1>7 DEF CreateThread
<1>8. CASE CreateFails
  BY <1>8 DEF CreateFails
<1>9. CASE AwaitInit
  <2>1. cw \in Workers
    BY <1>9 DEF AwaitInit, PendingInv
  <2>2. <<cw>> \o free_list \in Seq(Workers) /\ Append(list, cw) \in Seq(Workers)
    BY <2>1
  <2>3. CASE go[cw] # "idle"
    BY <1>9, <2>3 DEF AwaitInit
  <2>4. CASE go[cw] = "idle"
    BY <1>9, <2>2, <2>4 DEF AwaitInit
  <2>5. QED BY <2>3, <2>4
<1>10. ASSUME NEW j \in Jobs, Send(j) PROVE TypeOK'
  BY <1>10 DEF Send
<1>11. CASE TakeFree
  <2>1. CASE free_list = <<>>
    BY <1>11, <2>1 DEF TakeFree
  <2>2. CASE free_list # <<>>
    <3>1. Head(free_list) \in Workers /\ Tail(free_list) \in Seq(Workers)
      BY <2>2, TailOfFree
    <3>2. QED BY <1>11, <2>2, <3>1 DEF TakeFree
  <2>3. QED BY <2>1, <2>2
<1>12. CASE GiveWork
  <2>1. cw \in Workers /\ cj \in Jobs
    BY <1>12 DEF GiveWork, PendingInv
  <2>2. QED BY <1>12, <2>1 DEF GiveWork, SignalWorker
<1>13. CASE Deallocate
  BY <1>13 DEF Deallocate
<1>14. CASE SleepOver
  BY <1>14 DEF SleepOver
<1>15. CASE StopWorker
  <2>1. CASE i > Len(list)
    BY <1>15, <2>1 DEF StopWorker
  <2>2. CASE i <= Len(list)
    <3>1. list[i] \in Workers
      BY <2>2
    <3>2. QED BY <1>15, <2>2, <3>1 DEF StopWorker
  <2>3. QED BY <2>1, <2>2
<1>16. CASE StopSignal
  BY <1>16 DEF StopSignal, SignalWorker
<1>17. CASE JoinWorker
  <2>1. i' \in Nat \ {0} /\ cpc' \in ClientPC
    BY <1>17 DEF JoinWorker
  <2>2. QED BY <1>17, <2>1 DEF JoinWorker
<1>18. CASE UNCHANGED vars
  BY <1>18 DEF vars
<1>19. QED
  BY <1>1, <1>2, <1>3, <1>4, <1>5, <1>6, <1>7, <1>8, <1>9, <1>10, <1>11, <1>12,
     <1>13, <1>14, <1>15, <1>16, <1>17, <1>18
     DEF Next, Client, Runner, Terminated

(* The pending job of a worker is new and its alone, in every step.        *)
LEMMA PendingStep ==
  TypeOK /\ PendingInv /\ JobsAtMostOnce /\ [Next]_vars => PendingInv'
<1> SUFFICES ASSUME TypeOK, PendingInv, JobsAtMostOnce, [Next]_vars PROVE PendingInv'
  OBVIOUS
<1> USE DEF TypeOK, WorkerPC, ClientPC, workerVars, clientVars, PendingInv, Pending
<1>1. ASSUME NEW w \in Workers, RunnerInit(w) PROVE PendingInv'
  BY <1>1 DEF RunnerInit
<1>2. ASSUME NEW w \in Workers, RunnerLoop(w) PROVE PendingInv'
  BY <1>2 DEF RunnerLoop
<1>3. ASSUME NEW w \in Workers, RunnerLock(w) PROVE PendingInv'
  <2>1. \A v \in Workers : pc'[v] = "run" =>
            \/ pc[v] = "run" /\ mutex'[v] = mutex[v]
            \/ v = w /\ mutex'[v] = "runner" /\ Pending(v)
    BY <1>3 DEF RunnerLock
  <2>2. QED BY <1>3, <2>1 DEF RunnerLock
<1>4. ASSUME NEW w \in Workers, RunnerRun(w) PROVE PendingInv'
  <2>1. Pending(w) /\ job[w] \in Jobs /\ go'[w] = "idle"
    BY <1>4 DEF RunnerRun
  <2>2. \A v \in Workers : Pending(v)' => v # w /\ Pending(v)
    BY <1>4, <2>1 DEF RunnerRun
  <2>3. \A v \in Workers : Pending(v)' => job[v] # job[w]
    BY <2>1, <2>2
  <2>4. \A v \in Workers : Pending(v)' => job'[v] \in sent' /\ ran'[job'[v]] = 0
    BY <1>4, <2>2, <2>3 DEF RunnerRun
  <2>5. \A v \in Workers : pc'[v] = "run" => mutex'[v] = "runner" /\ Pending(v)'
    <3> SUFFICES ASSUME NEW v \in Workers, pc'[v] = "run"
                 PROVE  mutex'[v] = "runner" /\ Pending(v)'
      OBVIOUS
    <3>1. v # w
      BY <1>4 DEF RunnerRun
    <3>2. QED BY <1>4, <3>1 DEF RunnerRun
  <2>6. \A u, v \in Workers : Pending(u)' /\ Pending(v)' /\ job'[u] = job'[v] => u = v
    BY <1>4, <2>2 DEF RunnerRun
  <2>7. QED BY <1>4, <2>4, <2>5, <2>6 DEF RunnerRun
<1>5. ASSUME NEW w \in Workers, RunnerPush(w) PROVE PendingInv'
  BY <1>5 DEF RunnerPush
<1>6. ASSUME NEW w \in Workers, SpuriousWakeup(w) PROVE PendingInv'
  BY <1>6 DEF SpuriousWakeup, SignalWorker
<1>7. ASSUME NEW w \in Workers, CreateThread(w) PROVE PendingInv'
  BY <1>7 DEF CreateThread
<1>8. CASE CreateFails
  BY <1>8 DEF CreateFails
<1>9. CASE AwaitInit
  BY <1>9 DEF AwaitInit
<1>10. ASSUME NEW j \in Jobs, Send(j) PROVE PendingInv'
  BY <1>10 DEF Send
<1>11. CASE TakeFree
  BY <1>11 DEF TakeFree
<1>12. CASE GiveWork
  <2>1. /\ cw \in Workers /\ cj \in Jobs \ sent /\ mutex[cw] = "free"
        /\ job' = [job EXCEPT ![cw] = cj] /\ go' = [go EXCEPT ![cw] = "go"]
        /\ sent' = sent \cup {cj} /\ cpc' = "idle" /\ UNCHANGED <<quit, mutex, ran>>
    BY <1>12 DEF GiveWork
  <2>2. \A v \in Workers : pc'[v] = pc[v] \/ (pc[v] = "waiting" /\ pc'[v] = "lock")
    BY <1>12 DEF GiveWork, SignalWorker
  <2>3. \A v \in Workers : v # cw /\ Pending(v)' => Pending(v) /\ job'[v] = job[v] /\ job[v] # cj
    BY <2>1
  <2>4. QED
    <3>1. \A v \in Workers : pc'[v] = "run" => mutex'[v] = "runner" /\ Pending(v)'
      BY <2>1, <2>2
    <3>2. \A v \in Workers : Pending(v)' => job'[v] \in sent' /\ ran'[job'[v]] = 0
      BY <2>1, <2>3 DEF JobsAtMostOnce
    <3>3. \A u, v \in Workers : Pending(u)' /\ Pending(v)' /\ job'[u] = job'[v] => u = v
      BY <2>1, <2>3
    <3>4. QED BY <2>1, <2>2, <3>1, <3>2, <3>3
<1>13. CASE Deallocate
  BY <1>13 DEF Deallocate
<1>14. CASE SleepOver
  BY <1>14 DEF SleepOver
<1>15. CASE StopWorker
  <2>1. CASE i > Len(list)
    BY <1>15, <2>1 DEF StopWorker
  <2>2. CASE i <= Len(list)
    <3>1. list[i] \in Workers
      BY <2>2
    <3>2. pc[list[i]] # "run"
      BY <1>15, <2>2, <3>1 DEF StopWorker
    <3>3. \A v \in Workers : Pending(v)' <=> v # list[i] /\ Pending(v)
      BY <1>15, <2>2, <3>1 DEF StopWorker
    <3>4. \A v \in Workers : go'[v] = go[v] \/ go'[v] = "go"
      BY <1>15, <2>2, <3>1 DEF StopWorker
    <3>5. cw' \in Workers /\ cpc' = "stopsignal" /\ UNCHANGED <<job, mutex, pc, sent, ran>>
      BY <1>15, <2>2, <3>1 DEF StopWorker
    <3>6. QED BY <3>2, <3>3, <3>4, <3>5
  <2>3. QED BY <2>1, <2>2
<1>16. CASE StopSignal
  BY <1>16 DEF StopSignal, SignalWorker
<1>17. CASE JoinWorker
  BY <1>17 DEF JoinWorker
<1>18. CASE UNCHANGED vars
  BY <1>18 DEF vars
<1>19. QED
  BY <1>1, <1>2, <1>3, <1>4, <1>5, <1>6, <1>7, <1>8, <1>9, <1>10, <1>11, <1>12,
     <1>13, <1>14, <1>15, <1>16, <1>17, <1>18
     DEF Next, Client, Runner, Terminated

(* Only RunnerRun counts an execution, of a pending job.                   *)
LEMMA AtMostOnceStep ==
  TypeOK /\ PendingInv /\ JobsAtMostOnce /\ [Next]_vars => JobsAtMostOnce'
<1> SUFFICES ASSUME TypeOK, PendingInv, JobsAtMostOnce, [Next]_vars PROVE JobsAtMostOnce'
  OBVIOUS
<1> USE DEF JobsAtMostOnce
<1>1. ASSUME NEW w \in Workers, RunnerRun(w) PROVE JobsAtMostOnce'
  <2>1. job[w] \in sent /\ ran[job[w]] = 0 /\ sent' = sent
    BY <1>1 DEF RunnerRun, PendingInv, clientVars
  <2>2. ran' = [ran EXCEPT ![job[w]] = 1]
    BY <1>1, <2>1 DEF RunnerRun
  <2>3. QED BY <2>1, <2>2 DEF TypeOK
<1>2. CASE UNCHANGED ran /\ sent \subseteq sent'
  BY <1>2 DEF TypeOK
<1>3. CASE UNCHANGED vars
  BY <1>3 DEF vars
<1>4. QED
  BY <1>1, <1>2, <1>3
     DEF Next, Client, Runner, Terminated, workerVars, clientVars, RunnerInit, RunnerLoop,
         RunnerLock, RunnerPush, SpuriousWakeup, CreateThread, CreateFails, AwaitInit, Send,
         TakeFree, GiveWork, Deallocate, SleepOver, StopWorker, StopSignal, JoinWorker

LEMMA PoolInit == Init => TypeOK /\ PendingInv /\ JobsAtMostOnce /\ OwnershipInv /\ StopInv
<1> SUFFICES ASSUME Init PROVE TypeOK /\ PendingInv /\ JobsAtMostOnce /\ OwnershipInv /\ StopInv
  OBVIOUS
<1>1. TypeOK
  BY DEF Init, TypeOK, WorkerPC, ClientPC
<1>2. PendingInv /\ JobsAtMostOnce /\ StopInv
  BY DEF Init, PendingInv, Pending, JobsAtMostOnce, StopInv
<1>3. OwnershipInv
  BY NoWorkerAssumption DEF Init, OwnershipInv, Pending, Free, InHand
<1>4. QED BY <1>1, <1>2, <1>3

(* The state of the pool keeps its types in every step of every thread of  *)
(* thread_pool.c: in particular no step dereferences a missing worker, and *)
(* nothing but a job that was sent is ever called.                         *)
THEOREM TypeCorrect == Spec => []TypeOK
<1>1. TypeOK /\ PendingInv /\ JobsAtMostOnce /\ [Next]_vars
        => (TypeOK /\ PendingInv /\ JobsAtMostOnce)'
  BY TypeStep, PendingStep, AtMostOnceStep
<1>2. QED BY <1>1, PoolInit, PTL DEF Spec

(* No job is ever run twice, or before it is sent, for any number of       *)
(* workers and jobs, whatever jobs return and whenever the pool is         *)
(* deallocated.                                                            *)
THEOREM AtMostOnce == Spec => []JobsAtMostOnce
<1>1. TypeOK /\ PendingInv /\ JobsAtMostOnce /\ [Next]_vars
        => (TypeOK /\ PendingInv /\ JobsAtMostOnce)'
  BY TypeStep, PendingStep, AtMostOnceStep
<1>2. QED BY <1>1, PoolInit, PTL DEF Spec

(* A worker changes hands only as a whole: free list, client, job, free    *)
(* list again.                                                             *)
LEMMA OwnershipStep ==
  TypeOK /\ PendingInv /\ OwnershipInv /\ [Next]_vars => OwnershipInv'
<1> SUFFICES ASSUME TypeOK, PendingInv, OwnershipInv, [Next]_vars PROVE OwnershipInv'
  OBVIOUS
<1> USE DEF TypeOK, WorkerPC, ClientPC, workerVars, clientVars, OwnershipInv, Pending, InHand, Free
<1>1. ASSUME NEW w \in Workers, RunnerInit(w) PROVE OwnershipInv'
  BY <1>1 DEF RunnerInit
<1>2. ASSUME NEW w \in Workers, RunnerLoop(w) PROVE OwnershipInv'
  BY <1>2 DEF RunnerLoop
<1>3. ASSUME NEW w \in Workers, RunnerLock(w) PROVE OwnershipInv'
  BY <1>3 DEF RunnerLock, PendingInv
<1>4. ASSUME NEW w \in Workers, RunnerRun(w) PROVE OwnershipInv'
  BY <1>4 DEF RunnerRun, PendingInv
<1>5. ASSUME NEW w \in Workers, RunnerPush(w) PROVE OwnershipInv'
  <2>1. /\ pc[w] = "push" /\ free_list' = <<w>> \o free_list
        /\ pc' = [pc EXCEPT ![w] = "loop"]
        /\ UNCHANGED <<go, quit, list>> /\ cw' = cw
        /\ cpc' = cpc \/ (cpc = "takewait" /\ cpc' = "take")
    BY <1>5 DEF RunnerPush
  <2>2. ~Free(w) /\ ~InHand(w) /\ ~Pending(w)
    BY <2>1
  <2>3. \A k \in 1..Len(free_list') : free_list'[k] = IF k = 1 THEN w ELSE free_list[k - 1]
    BY <2>1
  <2>4. \A a, b \in 1..Len(free_list') : free_list'[a] = free_list'[b] => a = b
    BY <2>1, <2>2, PushDistinct
  <2>5. \A v \in Workers : Free(v)' => Free(v) \/ v = w
    BY <2>1, <2>3
  <2>6. \A v \in Workers : InHand(v)' <=> InHand(v)
    BY <2>1
  <2>7. \A v \in Workers : Pending(v)' <=> Pending(v)
    BY <2>1
  <2>8. pc'[w] = "loop" /\ \A v \in Workers : v # w => pc'[v] = pc[v]
    BY <2>1
  <2>9. \A v \in Workers :
          /\ Free(v)' => pc'[v] \notin {"none", "new", "run", "push"} /\ ~InHand(v)'
          /\ InHand(v)' => pc'[v] \notin {"none", "run", "push"}
          /\ Free(v)' \/ InHand(v)' \/ pc'[v] = "push" => ~Pending(v)'
          /\ pc'[v] \in {"none", "new"} => go'[v] = "err"
    <3> HIDE DEF Free, InHand, Pending
    <3>1. QED BY <2>1, <2>2, <2>5, <2>6, <2>7, <2>8
  <2>10. (cpc = "give" => pc[cw] # "new")'
    BY <2>1
  <2>11. \A k \in 1..Len(list') : pc'[list'[k]] \notin {"none", "new"}
    BY <2>1
  <2>12. QED
    <3> HIDE DEF Free, InHand, Pending
    <3>1. QED BY <2>4, <2>9, <2>10, <2>11
<1>6. ASSUME NEW w \in Workers, SpuriousWakeup(w) PROVE OwnershipInv'
  BY <1>6 DEF SpuriousWakeup, SignalWorker
<1>7. ASSUME NEW w \in Workers, CreateThread(w) PROVE OwnershipInv'
  BY <1>7 DEF CreateThread
<1>8. CASE CreateFails
  BY <1>8 DEF CreateFails
<1>9. CASE AwaitInit
  <2>1. CASE go[cw] # "idle"
    <3>1. UNCHANGED <<free_list, list, cw, go, quit, pc>> /\ cpc' = "awaitwait" /\ cpc = "await"
      BY <1>9, <2>1 DEF AwaitInit
    <3>2. QED BY <3>1
  <2>2. CASE go[cw] = "idle"
    <3>1. /\ cw \in Workers /\ free_list' = <<cw>> \o free_list /\ list' = Append(list, cw)
          /\ cw' = NoWorker /\ cpc' \in {"alloc", "idle"} /\ UNCHANGED <<go, quit, pc>>
      BY <1>9, <2>2 DEF AwaitInit, PendingInv
    <3>2. InHand(cw) /\ pc[cw] \notin {"none", "new", "run", "push"} /\ ~Free(cw)
      BY <1>9, <2>2, <3>1 DEF AwaitInit
    <3>3. \A k \in 1..Len(free_list') : free_list'[k] = IF k = 1 THEN cw ELSE free_list[k - 1]
      BY <3>1
    <3>4. \A a, b \in 1..Len(free_list') : free_list'[a] = free_list'[b] => a = b
      BY <3>1, <3>2, PushDistinct
    <3>5. \A w \in Workers : Free(w)' => Free(w) \/ w = cw
      BY <3>1, <3>3
    <3>6. \A w \in Workers : ~InHand(w)'
      BY <3>1, NoWorkerAssumption
    <3>7. \A k \in 1..Len(list') : pc'[list'[k]] \notin {"none", "new"}
      BY <3>1, <3>2
    <3>8. QED BY <3>1, <3>2, <3>4, <3>5, <3>6, <3>7
  <2>3. QED BY <2>1, <2>2
<1>10. ASSUME NEW j \in Jobs, Send(j) PROVE OwnershipInv'
  BY <1>10 DEF Send
<1>11. CASE TakeFree
  <2>1. CASE free_list = <<>>
    BY <1>11, <2>1 DEF TakeFree
  <2>2. CASE free_list # <<>>
    <3>1. /\ cw' = free_list[1] /\ cw' \in Workers /\ cpc' = "give"
          /\ free_list' = Tail(free_list) /\ UNCHANGED <<go, quit, pc, list>>
      BY <1>11, <2>2, TailOfFree DEF TakeFree
    <3>2. Len(free_list) \in Nat \ {0} /\ Len(free_list') = Len(free_list) - 1
      BY <2>2, <3>1, TailOfFree
    <3>3. \A k \in 1..Len(free_list') : free_list'[k] = free_list[k + 1]
      BY <2>2, <3>1, TailOfFree
    <3>4. \A a, b \in 1..Len(free_list') : free_list'[a] = free_list'[b] => a = b
      BY <2>2, <3>1, PopDistinct
    <3>5. Free(cw') /\ \A w \in Workers : Free(w)' => Free(w) /\ w # cw'
      BY <2>2, <3>1, <3>2, <3>3, PopDistinct
    <3>6. QED BY <3>1, <3>4, <3>5
  <2>3. QED BY <2>1, <2>2
<1>12. CASE GiveWork
  BY <1>12, NoWorkerAssumption DEF GiveWork, SignalWorker, PendingInv
<1>13. CASE Deallocate
  BY <1>13 DEF Deallocate
<1>14. CASE SleepOver
  BY <1>14 DEF SleepOver
<1>15. CASE StopWorker
  BY <1>15 DEF StopWorker
<1>16. CASE StopSignal
  BY <1>16 DEF StopSignal, SignalWorker
<1>17. CASE JoinWorker
  BY <1>17 DEF JoinWorker
<1>18. CASE UNCHANGED vars
  BY <1>18 DEF vars
<1>19. QED
  BY <1>1, <1>2, <1>3, <1>4, <1>5, <1>6, <1>7, <1>8, <1>9, <1>10, <1>11, <1>12,
     <1>13, <1>14, <1>15, <1>16, <1>17, <1>18
     DEF Next, Client, Runner, Terminated

(* While jobs succeed and sleep(1) is long enough, no pending job belongs  *)
(* to a worker that is being stopped.                                      *)
LEMMA StopStep ==
  ASSUME ~JobMayFail, SleepSuffices,
         TypeOK, PendingInv, OwnershipInv, StopInv, [Next]_vars
  PROVE  StopInv'
<1> USE DEF TypeOK, WorkerPC, ClientPC, workerVars, clientVars, StopInv, Pending, Stopping
<1>1. ASSUME NEW w \in Workers, RunnerInit(w) PROVE StopInv'
  BY <1>1 DEF RunnerInit
<1>2. ASSUME NEW w \in Workers, RunnerLoop(w) PROVE StopInv'
  BY <1>2 DEF RunnerLoop
<1>3. ASSUME NEW w \in Workers, RunnerLock(w) PROVE StopInv'
  BY <1>3 DEF RunnerLock, PendingInv
<1>4. ASSUME NEW w \in Workers, RunnerRun(w) PROVE StopInv'
  BY <1>4 DEF RunnerRun
<1>5. ASSUME NEW w \in Workers, RunnerPush(w) PROVE StopInv'
  BY <1>5 DEF RunnerPush
<1>6. ASSUME NEW w \in Workers, SpuriousWakeup(w) PROVE StopInv'
  BY <1>6 DEF SpuriousWakeup, SignalWorker
<1>7. ASSUME NEW w \in Workers, CreateThread(w) PROVE StopInv'
  BY <1>7 DEF CreateThread
<1>8. CASE CreateFails
  BY <1>8 DEF CreateFails
<1>9. CASE AwaitInit
  BY <1>9 DEF AwaitInit
<1>10. ASSUME NEW j \in Jobs, Send(j) PROVE StopInv'
  BY <1>10 DEF Send
<1>11. CASE TakeFree
  BY <1>11 DEF TakeFree
<1>12. CASE GiveWork
  BY <1>12 DEF GiveWork, SignalWorker, PendingInv, OwnershipInv, InHand
<1>13. CASE Deallocate
  BY <1>13 DEF Deallocate
<1>14. CASE SleepOver
  BY <1>14 DEF SleepOver
<1>15. CASE StopWorker
  <2>1. CASE i > Len(list)
    BY <1>15, <2>1 DEF StopWorker
  <2>2. CASE i <= Len(list)
    <3>1. list[i] \in Workers
      BY <2>2
    <3>2. \A w \in Workers : quit[w] => quit'[w]
      BY <1>15, <2>2, <3>1 DEF StopWorker
    <3>3. \A w \in Workers : Pending(w)' => Pending(w)
      BY <1>15, <2>2, <3>1, <3>2 DEF StopWorker
    <3>4. Stopping /\ Stopping' /\ pc' = pc
      BY <1>15, <2>2 DEF StopWorker
    <3>5. QED BY <3>2, <3>3, <3>4
  <2>3. QED BY <2>1, <2>2
<1>16. CASE StopSignal
  BY <1>16 DEF StopSignal, SignalWorker
<1>17. CASE JoinWorker
  BY <1>17 DEF JoinWorker
<1>18. CASE UNCHANGED vars
  BY <1>18 DEF vars
<1>19. QED
  BY <1>1, <1>2, <1>3, <1>4, <1>5, <1>6, <1>7, <1>8, <1>9, <1>10, <1>11, <1>12,
     <1>13, <1>14, <1>15, <1>16, <1>17, <1>18
     DEF Next, Client, Runner, Terminated

(* Under the same two conditions no step loses a job that was sent.        *)
LEMMA NoJobLostStep ==
  ASSUME ~JobMayFail, SleepSuffices,
         TypeOK, PendingInv, JobsAtMostOnce, OwnershipInv, StopInv, NoJobLost, [Next]_vars
  PROVE  NoJobLost'
<1> USE DEF TypeOK, NoJobLost, workerVars, clientVars
<1>1. ASSUME NEW w \in Workers, RunnerInit(w) PROVE NoJobLost'
  BY <1>1 DEF RunnerInit, OwnershipInv
<1>2. ASSUME NEW w \in Workers, RunnerRun(w) PROVE NoJobLost'
  <2>1. job[w] \in sent /\ ran[job[w]] = 0
    BY <1>2 DEF RunnerRun, PendingInv
  <2>2. ran' = [ran EXCEPT ![job[w]] = 1] /\ sent' = sent /\ quit' = quit /\ job' = job
        /\ go' = [go EXCEPT ![w] = "idle"]
    BY <1>2, <2>1 DEF RunnerRun
  <2>3. QED BY <2>1, <2>2
<1>3. CASE GiveWork
  <2>1. cw \in Workers /\ ~Pending(cw) /\ ~quit[cw] /\ cj \in Jobs \ sent
    BY <1>3 DEF GiveWork, PendingInv, OwnershipInv, InHand, StopInv, Stopping
  <2>2. /\ job' = [job EXCEPT ![cw] = cj] /\ go' = [go EXCEPT ![cw] = "go"]
        /\ sent' = sent \cup {cj} /\ quit' = quit /\ ran' = ran
    BY <1>3 DEF GiveWork
  <2>3. job'[cw] = cj /\ go'[cw] = "go" /\ ~quit'[cw]
    BY <2>1, <2>2
  <2>4. ASSUME NEW j \in sent
        PROVE  ran'[j] = 1 \/ \E w \in Workers : job'[w] = j /\ go'[w] = "go" /\ ~quit'[w]
    BY <2>1, <2>2 DEF Pending
  <2>5. QED BY <2>1, <2>2, <2>3, <2>4
<1>4. CASE StopWorker
  <2>1. CASE i > Len(list)
    BY <1>4, <2>1 DEF StopWorker
  <2>2. CASE i <= Len(list)
    <3>1. list[i] \in Workers
      BY <2>2
    <3>2. ~Pending(list[i])
      BY <1>4, <2>2, <3>1 DEF StopWorker, StopInv, Stopping, PendingInv
    <3>3. QED BY <1>4, <2>2, <3>1, <3>2 DEF StopWorker, Pending
  <2>3. QED BY <2>1, <2>2
<1>5. CASE UNCHANGED <<go, quit, job, sent, ran>>
  BY <1>5
<1>6. QED
  BY <1>1, <1>2, <1>3, <1>4, <1>5
     DEF Next, Client, Runner, Terminated, vars, RunnerLoop, RunnerLock, RunnerPush,
         SpuriousWakeup, CreateThread, CreateFails, AwaitInit, Send, TakeFree, Deallocate,
         SleepOver, StopSignal, JoinWorker

(* A worker on pool->free_list has no job, whatever jobs return: a job is  *)
(* never overwritten by the next one.                                      *)
THEOREM FreeIdle == Spec => []FreeWorkersIdle
<1>1. OwnershipInv => FreeWorkersIdle
  BY DEF OwnershipInv, FreeWorkersIdle, InHand, Pending
<1>2. TypeOK /\ PendingInv /\ JobsAtMostOnce /\ OwnershipInv /\ [Next]_vars
        => (TypeOK /\ PendingInv /\ JobsAtMostOnce /\ OwnershipInv)'
  BY TypeStep, PendingStep, AtMostOnceStep, OwnershipStep
<1>3. QED BY <1>1, <1>2, PoolInit, PTL DEF Spec

(* If no job returns ERR and the sleep(1) of deallocate_thread_pool()      *)
(* outlasts the start of the jobs sent before it, no job is lost, for any  *)
(* number of workers and jobs.                                             *)
THEOREM NothingLost ==
  ASSUME ~JobMayFail, SleepSuffices
  PROVE  Spec => []NoJobLost
<1> DEFINE Inv == /\ TypeOK /\ PendingInv /\ JobsAtMostOnce
                  /\ OwnershipInv /\ StopInv /\ NoJobLost
<1>1. Init => Inv
  BY PoolInit DEF Init, NoJobLost
<1>2. Inv /\ [Next]_vars => Inv'
  BY TypeStep, PendingStep, AtMostOnceStep, OwnershipStep, StopStep, NoJobLostStep
<1>3. Inv => NoJobLost
  OBVIOUS
<1>4. QED BY <1>1, <1>2, <1>3, PTL DEF Spec
=============================================================================
