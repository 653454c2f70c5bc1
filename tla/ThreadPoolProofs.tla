-------------------------- MODULE ThreadPoolProofs --------------------------
(***************************************************************************)
(* Proofs about ThreadPool, for any non-empty set of workers (also an      *)
(* infinite one) and any number of jobs: no job is lost or run twice, no   *)
(* worker dies, a joined pool has run everything, nobody waits in a        *)
(* circle, and the pool implements JobPool.                                *)
(*                                                                         *)
(* The invariant rests on one observation: the channel always holds the    *)
(* jobs that were spawned last, in order, so those received so far are     *)
(* 1 .. Received, and each of these is executed or answered.               *)
(***************************************************************************)
EXTENDS ThreadPool, FiniteSetTheorems, TLAPS

\* How many jobs have left the channel.
Received == spawned - Len(channel)

\* The channel holds the last jobs that were spawned, oldest first.
ChannelInv ==
  /\ Len(channel) <= spawned
  /\ \A i \in 1 .. Len(channel) : channel[i] = Received + i

\* A worker has a job exactly while it executes it.  The job has left the
\* channel, has no answer and no other worker has it.
WorkerInv ==
  /\ \A w \in Workers : job[w] # NoJob <=> at[w] = "executing"
  /\ \A w \in Workers : job[w] # NoJob =>
       /\ job[w] <= Received
       /\ answer[job[w]] = "none"
  /\ \A v, w \in Workers : job[v] = job[w] /\ job[w] # NoJob => v = w

\* A job that has left the channel is answered, or executed by somebody.
AnswerInv ==
  \A j \in Jobs :
    /\ answer[j] # "none" => j <= Received
    /\ j <= Received /\ answer[j] = "none" => \E w \in Workers : job[w] = j

\* A Future exists for what was spawned, and ends only with an answer.
FutureInv ==
  \A j \in Jobs :
    /\ future[j] = "unborn" <=> j > spawned
    /\ future[j] = "over" => answer[j] # "none"

\* Workers leave a pool that was dropped and has no job left; the pool is
\* joined when all have left.
ExitInv ==
  /\ \A w \in Workers : at[w] = "exited" => channel = <<>> /\ pool # "open"
  /\ pool = "joined" => \A w \in Workers : at[w] = "exited"

IInv ==
  /\ TypeOK
  /\ ChannelInv
  /\ WorkerInv
  /\ AnswerInv
  /\ FutureInv
  /\ ExitInv
  /\ NoWorkerDies

-----------------------------------------------------------------------------
LEMMA InitIInv == Init => IInv
<1> SUFFICES ASSUME Init PROVE IInv
  OBVIOUS
<1>1. TypeOK
  BY PoolAssumption DEF Init, TypeOK, Jobs, NoJob, Answers
<1>2. ChannelInv /\ WorkerInv /\ AnswerInv
  BY DEF Init, ChannelInv, WorkerInv, AnswerInv, Received, Jobs, NoJob
<1>3. FutureInv /\ ExitInv /\ NoWorkerDies
  BY DEF Init, FutureInv, ExitInv, NoWorkerDies, Jobs
<1> QED
  BY <1>1, <1>2, <1>3 DEF IInv

(* A new job is the next one of the channel.                               *)
LEMMA SpawnIInv ==
  ASSUME IInv, Spawn
  PROVE  IInv'
<1> USE DEF IInv
<1>1. /\ spawned' \in Jobs
      /\ Len(channel') = Len(channel) + 1
      /\ Received' = Received
      /\ \A i \in 1 .. Len(channel) : channel'[i] = channel[i]
      /\ channel'[Len(channel) + 1] = spawned + 1
  BY PoolAssumption DEF Spawn, TypeOK, Jobs, Received
<1>2. TypeOK'
  BY <1>1, PoolAssumption DEF Spawn, TypeOK, Jobs
<1>3. ChannelInv'
  BY <1>1 DEF Spawn, TypeOK, ChannelInv, Received
<1>4. WorkerInv' /\ AnswerInv'
  BY <1>1 DEF Spawn, WorkerInv, AnswerInv
<1>5. FutureInv'
  BY <1>1, PoolAssumption DEF Spawn, TypeOK, FutureInv, ChannelInv, AnswerInv,
                              Jobs, Received
<1>6. ExitInv' /\ NoWorkerDies'
  BY DEF Spawn, ExitInv, NoWorkerDies
<1> QED
  BY <1>2, <1>3, <1>4, <1>5, <1>6

(* Waiting and dropping the pool change no job.                            *)
LEMMA OwnerIInv ==
  ASSUME IInv,
         DropSender \/ JoinWorkers
           \/ \E j \in Jobs : StartWait(j) \/ FinishWait(j)
  PROVE  IInv'
<1> USE DEF IInv
<1>1. UNCHANGED <<spawned, channel, receiver, at, job, answer, Received>>
  BY DEF DropSender, JoinWorkers, StartWait, FinishWait, Received
<1>2. TypeOK'
  BY DEF DropSender, JoinWorkers, StartWait, FinishWait, TypeOK
<1>3. ChannelInv' /\ WorkerInv' /\ AnswerInv' /\ NoWorkerDies'
  BY <1>1 DEF ChannelInv, WorkerInv, AnswerInv, NoWorkerDies
<1>4. FutureInv'
  BY <1>1 DEF DropSender, JoinWorkers, StartWait, FinishWait, FutureInv, TypeOK
<1>5. ExitInv'
  BY <1>1 DEF DropSender, JoinWorkers, StartWait, FinishWait, ExitInv, TypeOK
<1> QED
  BY <1>2, <1>3, <1>4, <1>5

(* Taking the mutex and leaving change no job either.                      *)
LEMMA QuietWorkerIInv ==
  ASSUME IInv, NEW w \in Workers, LockReceiver(w) \/ Disconnect(w)
  PROVE  IInv'
<1> USE DEF IInv
<1>1. /\ UNCHANGED <<pool, spawned, channel, job, answer, future, Received>>
      /\ \A v \in Workers \ {w} : at'[v] = at[v]
      /\ at[w] # "executing" /\ at'[w] \in {"receiving", "exited"}
      /\ at'[w] = "exited" => channel = <<>> /\ pool # "open"
      /\ at[w] # "exited"
  BY DEF LockReceiver, Disconnect, Received, TypeOK
<1>2. TypeOK'
  BY DEF LockReceiver, Disconnect, TypeOK
<1>3. ChannelInv' /\ AnswerInv' /\ FutureInv'
  BY <1>1 DEF ChannelInv, AnswerInv, FutureInv
<1>4. WorkerInv' /\ NoWorkerDies'
  BY <1>1 DEF WorkerInv, NoWorkerDies
<1>5. ExitInv'
  BY <1>1 DEF ExitInv
<1> QED
  BY <1>2, <1>3, <1>4, <1>5

(* The received job is the one after those received before.                *)
LEMMA ReceiveIInv ==
  ASSUME IInv, NEW w \in Workers, Receive(w)
  PROVE  IInv'
<1> USE DEF IInv
<1>1. /\ Len(channel) \in Nat \ {0}
      /\ Head(channel) = Received + 1
      /\ Head(channel) \in Jobs
      /\ Len(channel') = Len(channel) - 1
      /\ \A i \in 1 .. Len(channel') : channel'[i] = channel[i + 1]
      /\ channel' \in Seq(Jobs)
  BY DEF Receive, TypeOK, ChannelInv, Received
<1>2. Received' = Received + 1 /\ Received \in Nat
  BY <1>1 DEF Receive, TypeOK, ChannelInv, Received
<1>3. /\ job'[w] = Received + 1
      /\ at'[w] = "executing"
      /\ \A v \in Workers \ {w} : job'[v] = job[v] /\ at'[v] = at[v]
      /\ job[w] = NoJob
      /\ UNCHANGED <<pool, spawned, answer, future>>
  BY <1>1 DEF Receive, TypeOK, WorkerInv
<1>4. TypeOK'
  BY <1>1 DEF Receive, TypeOK
<1>5. ChannelInv'
  BY <1>1, <1>2, <1>3 DEF TypeOK, ChannelInv
<1>6. answer[Received + 1] = "none"
  BY <1>1, <1>2 DEF AnswerInv
<1>7. WorkerInv'
  BY <1>2, <1>3, <1>6 DEF TypeOK, WorkerInv, NoJob, Jobs
<1>8. AnswerInv'
  <2> SUFFICES ASSUME NEW j \in Jobs
               PROVE  /\ answer[j] # "none" => j <= Received + 1
                      /\ j <= Received + 1 /\ answer[j] = "none"
                           => \E v \in Workers : job'[v] = j
    BY <1>2, <1>3 DEF AnswerInv
  <2>1. CASE j = Received + 1
    BY <2>1, <1>2, <1>3
  <2>2. CASE j # Received + 1
    BY <2>2, <1>2, <1>3 DEF AnswerInv, Jobs, NoJob
  <2> QED
    BY <2>1, <2>2
<1>9. FutureInv'
  BY <1>3 DEF FutureInv
<1>10. ExitInv' /\ NoWorkerDies'
  BY <1>1, <1>3 DEF Receive, ExitInv, NoWorkerDies, TypeOK
<1> QED
  BY <1>4, <1>5, <1>7, <1>8, <1>9, <1>10

(* The Future of a job that is executed is not over, so its answer has a   *)
(* receiver and the worker lives on.                                       *)
LEMMA ExecuteIInv ==
  ASSUME IInv, NEW w \in Workers, Execute(w)
  PROVE  IInv'
<1> USE DEF IInv
<1>1. /\ job[w] \in Jobs
      /\ job[w] <= Received
      /\ answer[job[w]] = "none"
      /\ future[job[w]] # "over"
  BY DEF Execute, TypeOK, WorkerInv, FutureInv
<1>2. PICK a \in Answers :
        /\ answer' = [answer EXCEPT ![job[w]] = a]
        /\ at' = [at EXCEPT ![w] = "idle"]
  BY <1>1 DEF Execute
<1>3. /\ job' = [job EXCEPT ![w] = NoJob]
      /\ UNCHANGED <<pool, spawned, channel, receiver, future, Received>>
  BY DEF Execute, Received
<1>4. a # "none"
  BY DEF Answers
<1>5. TypeOK'
  BY <1>2, <1>3 DEF TypeOK
<1>6. ChannelInv'
  BY <1>3 DEF ChannelInv
<1>7. WorkerInv'
  BY <1>1, <1>2, <1>3 DEF WorkerInv, TypeOK, NoJob
<1>8. AnswerInv'
  BY <1>1, <1>2, <1>3, <1>4 DEF AnswerInv, TypeOK
<1>9. FutureInv'
  BY <1>1, <1>2, <1>3, <1>4 DEF FutureInv, TypeOK
<1>10. ExitInv' /\ NoWorkerDies'
  BY <1>2, <1>3 DEF Execute, ExitInv, NoWorkerDies, TypeOK
<1> QED
  BY <1>5, <1>6, <1>7, <1>8, <1>9, <1>10

LEMMA StepIInv == IInv /\ [Next]_vars => IInv'
<1> SUFFICES ASSUME IInv, [Next]_vars PROVE IInv'
  OBVIOUS
<1>1. CASE Owner
  BY <1>1, SpawnIInv, OwnerIInv DEF Owner
<1>2. ASSUME NEW w \in Workers, Worker(w) PROVE IInv'
  BY <1>2, QuietWorkerIInv, ReceiveIInv, ExecuteIInv DEF Worker
<1>3. CASE UNCHANGED vars
  BY <1>3 DEF vars, IInv, TypeOK, ChannelInv, WorkerInv, AnswerInv, FutureInv,
              ExitInv, NoWorkerDies, Received
<1> QED
  BY <1>1, <1>2, <1>3 DEF Next

(* The invariant holds in every reachable state.                           *)
THEOREM Invariance == Spec => []IInv
  BY InitIInv, StepIInv, PTL DEF Spec

(* Type correctness.                                                       *)
THEOREM TypeCorrect == Spec => []TypeOK
  BY Invariance, PTL DEF IInv

(* No worker is taken down by an answer that nobody receives.              *)
THEOREM WorkersSurvive == Spec => []NoWorkerDies
  BY Invariance, PTL DEF IInv

(* A spawned job is queued, executed or answered, exactly one of them, and *)
(* executed by one worker at a time.                                       *)
THEOREM JobsRunOnce == Spec => []EachJobOnce
<1>1. IInv => EachJobOnce
  <2> SUFFICES ASSUME IInv, NEW j \in Jobs
               PROVE  /\ j \in Spawned
                           <=> j \in Queued \cup Answered \/ Executing(j) # {}
                      /\ j \in Queued => Executing(j) = {} /\ j \notin Answered
                      /\ j \in Answered => Executing(j) = {}
                      /\ Cardinality(Executing(j)) <= 1
    BY DEF EachJobOnce
  <2> USE DEF IInv
  <2>1. j \in Spawned <=> j <= spawned
    BY PoolAssumption DEF Spawned, Jobs, TypeOK
  <2>2. j \in Queued <=> Received < j /\ j <= spawned
    <3>1. ASSUME j \in Queued PROVE Received < j /\ j <= spawned
      <4>1. PICK i \in 1 .. Len(channel) : j = channel[i]
        BY <3>1 DEF Queued, TypeOK
      <4>2. j = spawned - Len(channel) + i
        BY <4>1 DEF ChannelInv, Received
      <4> QED
        BY <4>2 DEF Received, TypeOK
    <3>2. ASSUME Received < j, j <= spawned PROVE j \in Queued
      <4>1. j - Received \in 1 .. Len(channel)
        BY <3>2, PoolAssumption DEF Received, TypeOK, Jobs
      <4>2. channel[j - Received] = j
        BY <4>1, PoolAssumption DEF ChannelInv, Received, TypeOK, Jobs
      <4> QED
        BY <4>1, <4>2 DEF Queued, TypeOK
    <3> QED
      BY <3>1, <3>2
  <2>3. Executing(j) # {} <=> \E w \in Workers : job[w] = j
    BY DEF Executing, WorkerInv, Jobs, NoJob
  <2>4. Executing(j) # {} => j <= Received /\ answer[j] = "none"
    BY <2>3 DEF WorkerInv, Jobs, NoJob
  <2>5. Received <= spawned /\ Received \in Nat
    BY DEF Received, ChannelInv, TypeOK
  <2>6. j \in Answered <=> answer[j] # "none"
    BY DEF Answered
  <2>7. Cardinality(Executing(j)) <= 1
    <3>1. CASE Executing(j) = {}
      BY <3>1, FS_EmptySet
    <3>2. ASSUME NEW w \in Executing(j) PROVE Executing(j) = {w}
      BY DEF Executing, WorkerInv, Jobs, NoJob
    <3>3. \A x : Cardinality({x}) = 1
      BY FS_Singleton
    <3> QED
      BY <3>1, <3>2, <3>3
  <2>8. /\ j \in Answered => j <= Received
        /\ j <= Received => j \in Answered \/ Executing(j) # {}
    BY <2>3, <2>6 DEF AnswerInv
  <2>9. j \in Spawned <=> j \in Queued \/ j <= Received
    BY <2>1, <2>2, <2>5 DEF Jobs, TypeOK
  <2>10. ~ (j \in Queued /\ j <= Received)
    BY <2>2, <2>5 DEF Jobs
  <2> QED
    BY <2>4, <2>6, <2>7, <2>8, <2>9, <2>10
<1> QED
  BY Invariance, <1>1, PTL

(* When the pool is joined every job that was spawned has its answer.      *)
THEOREM DropIsComplete == Spec => []DropRunsEverything
<1>1. IInv => DropRunsEverything
  <2> SUFFICES ASSUME IInv, pool = "joined" PROVE Spawned = Answered
    BY DEF DropRunsEverything
  <2> USE DEF IInv
  <2>1. channel = <<>> /\ \A w \in Workers : at[w] = "exited"
    BY PoolAssumption DEF ExitInv
  <2>2. Received = spawned
    BY <2>1 DEF Received, TypeOK
  <2>3. \A w \in Workers : job[w] = NoJob
    BY <2>1 DEF WorkerInv
  <2>4. \A j \in Jobs : j <= spawned <=> answer[j] # "none"
    BY <2>2, <2>3 DEF AnswerInv, Jobs, NoJob
  <2>5. Spawned \subseteq Jobs
    BY PoolAssumption DEF Spawned, Jobs, TypeOK
  <2> QED
    BY <2>4, <2>5 DEF Spawned, Answered, Jobs, TypeOK
<1> QED
  BY Invariance, <1>1, PTL

-----------------------------------------------------------------------------
(* Spawn appends, Receive starts the oldest job, Execute finishes one; the *)
(* other actions touch neither the channel nor the jobs of the workers.    *)
LEMMA StepRefines == IInv /\ [Next]_vars => [JP!Next]_(JP!vars)
<1> SUFFICES ASSUME IInv, [Next]_vars PROVE [JP!Next]_(JP!vars)
  OBVIOUS
<1> USE DEF IInv
<1>1. CASE Spawn
  <2>1. JP!Spawn
    BY <1>1, PoolAssumption DEF Spawn, TypeOK, Jobs, JP!Spawn
  <2> QED
    BY <2>1 DEF JP!Next
<1>2. ASSUME NEW w \in Workers, Receive(w) PROVE [JP!Next]_(JP!vars)
  <2>1. JP!Start(w)
    BY <1>2 DEF Receive, WorkerInv, JP!Start
  <2> QED
    BY <2>1 DEF JP!Next
<1>3. ASSUME NEW w \in Workers, Execute(w) PROVE [JP!Next]_(JP!vars)
  <2>1. JP!Finish(w)
    BY <1>3 DEF Execute, WorkerInv, JP!Finish
  <2> QED
    BY <2>1 DEF JP!Next
<1>4. CASE UNCHANGED <<channel, job>>
  BY <1>4 DEF JP!vars
<1> QED
  BY <1>1, <1>2, <1>3, <1>4
  DEF Next, Owner, Worker, vars, DropSender, JoinWorkers, StartWait,
      FinishWait, LockReceiver, Disconnect

(* The pool implements JobPool: jobs start in the order of the spawns.     *)
THEOREM RefinesJobPool == Spec => ImplementsJobPool
<1>1. Init => JP!Init
  BY DEF Init, JP!Init
<1> QED
  BY <1>1, StepRefines, Invariance, PTL DEF Spec, ImplementsJobPool, JP!Spec

-----------------------------------------------------------------------------
(* Nobody waits in a circle                                                *)

\* The mutex of the receiver is with the worker that is in pop_job.
ReceiverInv ==
  \A w \in Workers : at[w] = "receiving" <=> receiver = w

(* A worker takes the mutex when it begins to receive, and only then.      *)
LEMMA ReceiverStep == IInv /\ ReceiverInv /\ [Next]_vars => ReceiverInv'
<1> SUFFICES ASSUME IInv, ReceiverInv, [Next]_vars PROVE ReceiverInv'
  OBVIOUS
<1>1. ASSUME NEW w \in Workers, Worker(w) PROVE ReceiverInv'
  BY <1>1, PoolAssumption
  DEF PoolAssumption, IInv, TypeOK, ReceiverInv, Worker, LockReceiver, Receive,
      Disconnect, Execute
<1>2. CASE Owner \/ UNCHANGED vars
  BY <1>2
  DEF ReceiverInv, Owner, vars, Spawn, DropSender, JoinWorkers, StartWait, FinishWait
<1> QED BY <1>1, <1>2 DEF Next

(* For any number of workers and jobs, nobody waits for a worker that does *)
(* not go on.  If all workers have left or block, the channel is empty, so *)
(* every job has its answer.                                               *)
THEOREM NoDeadlock == Spec => []NobodyIsStuck
<1>1. Init => ReceiverInv
  BY PoolAssumption DEF PoolAssumption, Init, ReceiverInv
<1>2. ASSUME IInv, ReceiverInv PROVE NobodyIsStuck
  <2> SUFFICES ASSUME \A w \in Workers : ~ CanGoOn(w)
               PROVE  /\ \A j \in Jobs : future[j] = "waiting" => answer[j] # "none"
                      /\ pool # "open" => \A w \in Workers : at[w] = "exited"
    BY DEF NobodyIsStuck
  <2>1. \A w \in Workers :
          \/ at[w] = "exited"
          \/ at[w] = "idle" /\ receiver # Nobody
          \/ at[w] = "receiving" /\ channel = <<>> /\ pool = "open"
    BY <1>2 DEF IInv, TypeOK, NoWorkerDies, CanGoOn
  <2>2. receiver # Nobody => receiver \in Workers /\ at[receiver] = "receiving"
    BY <1>2 DEF IInv, TypeOK, ReceiverInv
  <2>3. channel = <<>>
    <3>1. PICK w \in Workers : TRUE
      BY PoolAssumption DEF PoolAssumption
    <3> QED BY <1>2, <2>1, <2>2, <3>1 DEF IInv, ExitInv
  <2>4. pool # "open" => \A w \in Workers : at[w] = "exited"
    BY <2>1, <2>2
  <2>5. ASSUME NEW j \in Jobs, future[j] = "waiting", answer[j] = "none" PROVE FALSE
    <3>1. j <= spawned
      BY <1>2, <2>5, PoolAssumption DEF IInv, TypeOK, FutureInv, Jobs
    <3>2. j <= Received
      BY <1>2, <2>3, <3>1 DEF IInv, TypeOK, Received
    <3>3. PICK w \in Workers : job[w] = j
      BY <1>2, <2>5, <3>2 DEF IInv, AnswerInv
    <3>4. at[w] = "executing"
      BY <1>2, <3>3 DEF IInv, WorkerInv, Jobs, NoJob
    <3> QED BY <2>1, <3>4
  <2> QED BY <2>4, <2>5
<1> QED BY <1>1, <1>2, ReceiverStep, Invariance, PTL DEF Spec
=============================================================================
