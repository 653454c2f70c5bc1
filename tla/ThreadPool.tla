----------------------------- MODULE ThreadPool -----------------------------
(***************************************************************************)
(* The thread pool of src/infrastructure/thread_pool.rs.  Jobs go through  *)
(* an mpsc channel whose receiver the workers share behind a mutex; the    *)
(* worker that holds the mutex blocks in recv() with it.  Every job has a  *)
(* channel of its own for its answer; the other end is the job's Future,   *)
(* which waits for the answer at the latest when it is dropped.  Dropping  *)
(* the pool closes the job channel and joins the workers.                  *)
(*                                                                         *)
(* Job j is the j-th one that is spawned.                                  *)
(***************************************************************************)
EXTENDS Naturals, Sequences, FiniteSets

CONSTANTS Workers,   \* the threads of the pool
          MaxJobs,   \* bound: how many jobs are ever spawned
          Nobody     \* the receiver's mutex is free

ASSUME PoolAssumption ==
  /\ MaxJobs \in Nat
  /\ Workers # {}
  /\ Nobody \notin Workers

Jobs == 1 .. MaxJobs
NoJob == 0

VARIABLES
  pool,       \* "open", "dropped" (job_sender is None), "joined"
  spawned,    \* how many jobs were spawned
  channel,    \* jobs nobody has received yet
  receiver,   \* the worker that holds the mutex of the receiver
  at, job,    \* where each worker is, and the job it executes
  answer,     \* what was sent on the answer channel of each job
  future      \* the Future of each job

vars == <<pool, spawned, channel, receiver, at, job, answer, future>>

Answers == {"ok", "value", "panic"}   \* Ok(()), Err(Value(e)), Err(Panic)

Init ==
  /\ pool = "open"
  /\ spawned = 0
  /\ channel = <<>>
  /\ receiver = Nobody
  /\ at = [w \in Workers |-> "idle"]
  /\ job = [w \in Workers |-> NoJob]
  /\ answer = [j \in Jobs |-> "none"]
  /\ future = [j \in Jobs |-> "unborn"]

-----------------------------------------------------------------------------
(* The owner of the pool and of the futures                                *)

\* Mistake: a job that jumps the queue.
SpawnFirst ==
  /\ pool = "open"
  /\ spawned < MaxJobs
  /\ spawned' = spawned + 1
  /\ channel' = <<spawned'>> \o channel
  /\ future' = [future EXCEPT ![spawned'] = "held"]
  /\ UNCHANGED <<pool, receiver, at, job, answer>>

\* spawn_fn
Spawn ==
  /\ pool = "open"
  /\ spawned < MaxJobs
  /\ spawned' = spawned + 1
  /\ channel' = Append(channel, spawned')
  /\ future' = [future EXCEPT ![spawned'] = "held"]
  /\ UNCHANGED <<pool, receiver, at, job, answer>>

\* Mistake: a Future that was not waited for is simply dropped.
AbandonFuture(j) ==
  /\ future[j] = "held"
  /\ future' = [future EXCEPT ![j] = "over"]
  /\ UNCHANGED <<pool, spawned, channel, receiver, at, job, answer>>

\* Future::wait is called, by its owner or by the Future's own drop().
StartWait(j) ==
  /\ future[j] = "held"
  /\ future' = [future EXCEPT ![j] = "waiting"]
  /\ UNCHANGED <<pool, spawned, channel, receiver, at, job, answer>>

\* recv() has the answer; the Future is consumed.
FinishWait(j) ==
  /\ future[j] = "waiting"
  /\ answer[j] # "none"
  /\ future' = [future EXCEPT ![j] = "over"]
  /\ UNCHANGED <<pool, spawned, channel, receiver, at, job, answer>>

\* drop(): job_sender = None ...
DropSender ==
  /\ pool = "open"
  /\ pool' = "dropped"
  /\ UNCHANGED <<spawned, channel, receiver, at, job, answer, future>>

\* ... and every thread is joined.
JoinWorkers ==
  /\ pool = "dropped"
  /\ \A w \in Workers : at[w] = "exited"
  /\ pool' = "joined"
  /\ UNCHANGED <<spawned, channel, receiver, at, job, answer, future>>

-----------------------------------------------------------------------------
(* worker_main                                                             *)

LockReceiver(w) ==
  /\ at[w] = "idle"
  /\ receiver = Nobody
  /\ receiver' = w
  /\ at' = [at EXCEPT ![w] = "receiving"]
  /\ UNCHANGED <<pool, spawned, channel, job, answer, future>>

\* pop_job returns a job and gives the mutex up.
Receive(w) ==
  /\ at[w] = "receiving"
  /\ channel # <<>>
  /\ job' = [job EXCEPT ![w] = Head(channel)]
  /\ channel' = Tail(channel)
  /\ at' = [at EXCEPT ![w] = "executing"]
  /\ receiver' = Nobody
  /\ UNCHANGED <<pool, spawned, answer, future>>

\* Mistake: a worker leaves as soon as the pool is dropped.
DisconnectEarly(w) ==
  /\ at[w] = "receiving"
  /\ pool # "open"
  /\ at' = [at EXCEPT ![w] = "exited"]
  /\ receiver' = Nobody
  /\ UNCHANGED <<pool, spawned, channel, job, answer, future>>

\* pop_job fails: the channel is empty and its sender is gone.
Disconnect(w) ==
  /\ at[w] = "receiving"
  /\ channel = <<>>
  /\ pool # "open"
  /\ at' = [at EXCEPT ![w] = "exited"]
  /\ receiver' = Nobody
  /\ UNCHANGED <<pool, spawned, channel, job, answer, future>>

\* Mistake: a panic is not caught.
ExecuteUncaught(w) ==
  /\ at[w] = "executing"
  /\ \E a \in Answers :
       IF a # "panic"
       THEN /\ answer' = [answer EXCEPT ![job[w]] = a]
            /\ at' = [at EXCEPT ![w] = "idle"]
       ELSE at' = [at EXCEPT ![w] = "dead"] /\ UNCHANGED answer
  /\ job' = [job EXCEPT ![w] = NoJob]
  /\ UNCHANGED <<pool, spawned, channel, receiver, future>>

\* RespondingJob::execute: the job may succeed, fail or panic; its answer is
\* sent.  If nobody can receive the answer any more send().unwrap() panics
\* and, as catch_unwind is over, takes the worker with it.
Execute(w) ==
  /\ at[w] = "executing"
  /\ \E a \in Answers :
       IF future[job[w]] # "over"
       THEN /\ answer' = [answer EXCEPT ![job[w]] = a]
            /\ at' = [at EXCEPT ![w] = "idle"]
       ELSE at' = [at EXCEPT ![w] = "dead"] /\ UNCHANGED answer
  /\ job' = [job EXCEPT ![w] = NoJob]
  /\ UNCHANGED <<pool, spawned, channel, receiver, future>>

-----------------------------------------------------------------------------
Owner ==
  \/ Spawn
  \/ DropSender
  \/ JoinWorkers
  \/ \E j \in Jobs : StartWait(j) \/ FinishWait(j)

Worker(w) ==
  \/ LockReceiver(w)
  \/ Receive(w)
  \/ Disconnect(w)
  \/ Execute(w)

Next == Owner \/ \E w \in Workers : Worker(w)

Spec == Init /\ [][Next]_vars

\* Threads that can go on do; every job ends.  Nothing forces the owner to
\* spawn, to wait or to drop the pool.
Fairness ==
  /\ \A w \in Workers : WF_vars(Worker(w))
  /\ \A j \in Jobs : WF_vars(FinishWait(j))
  /\ WF_vars(JoinWorkers)

FairSpec == Spec /\ Fairness

-----------------------------------------------------------------------------
(* Properties                                                              *)

TypeOK ==
  /\ pool \in {"open", "dropped", "joined"}
  /\ spawned \in 0 .. MaxJobs
  /\ channel \in Seq(Jobs)
  /\ receiver \in Workers \cup {Nobody}
  /\ at \in [Workers -> {"idle", "receiving", "executing", "exited", "dead"}]
  /\ job \in [Workers -> Jobs \cup {NoJob}]
  /\ answer \in [Jobs -> Answers \cup {"none"}]
  /\ future \in [Jobs -> {"unborn", "held", "waiting", "over"}]

Spawned == 1 .. spawned
Queued == {channel[i] : i \in DOMAIN channel}
Executing(j) == {w \in Workers : at[w] = "executing" /\ job[w] = j}
Answered == {j \in Jobs : answer[j] # "none"}

(* Every spawned job is in the channel, or executed by exactly one worker, *)
(* or answered, and only one of them: none is lost and none runs twice.    *)
EachJobOnce ==
  \A j \in Jobs :
    /\ j \in Spawned <=> j \in Queued \cup Answered \/ Executing(j) # {}
    /\ j \in Queued => Executing(j) = {} /\ j \notin Answered
    /\ j \in Answered => Executing(j) = {}
    /\ Cardinality(Executing(j)) <= 1

(* No worker dies of send().unwrap(): a Future outlives the execution of   *)
(* its job, because dropping it waits for the answer.                      *)
NoWorkerDies == \A w \in Workers : at[w] # "dead"

(* Dropping the pool first runs what is still queued: when drop() returns  *)
(* every job that was ever spawned has its answer.                         *)
DropRunsEverything == pool = "joined" => Spawned = Answered

\* A worker that does not wait for the receiver's mutex or, with the mutex,
\* for a job.
CanGoOn(w) ==
  \/ at[w] = "idle" /\ receiver = Nobody
  \/ at[w] = "receiving" /\ (channel # <<>> \/ pool # "open")
  \/ at[w] = "executing"

(* Whoever waits for a Future, or in drop() for the workers, waits for a   *)
(* worker that goes on: a worker that blocks in recv() with the mutex      *)
(* keeps the others from no job.                                           *)
NobodyIsStuck ==
  \/ \E w \in Workers : CanGoOn(w)
  \/ /\ \A j \in Jobs : future[j] = "waiting" => answer[j] # "none"
     /\ pool # "open" => \A w \in Workers : at[w] = "exited"

JP == INSTANCE JobPool
        WITH Threads <- Workers, Idle <- NoJob, queue <- channel,
             running <- job

(* The pool implements JobPool: jobs start in the order of the spawns.     *)
ImplementsJobPool == JP!Spec

(* Waiting for a Future ends: no answer gets lost, also when the job       *)
(* panics, when the pool is dropped meanwhile, or when another worker      *)
(* holds the receiver.  So does drop() of the pool.                        *)
EveryWaitEnds ==
  /\ \A j \in Jobs : future[j] = "waiting" ~> future[j] = "over"
  /\ pool = "dropped" ~> pool = "joined"
=============================================================================
