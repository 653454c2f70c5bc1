------------------------------ MODULE JobPool ------------------------------
(***************************************************************************)
(* What a thread pool of src/infrastructure/thread_pool.rs promises those  *)
(* who spawn jobs: jobs start in the order they were spawned, each runs    *)
(* once, on one of the pool's threads, and a thread runs one job at a time.*)
(* A pool of one thread therefore also ends them in that order, which the  *)
(* zlib streams depend on.                                                 *)
(*                                                                         *)
(* ThreadPool implements this specification and DecodingMaster uses every  *)
(* one of its pools according to it.                                       *)
(***************************************************************************)
EXTENDS Naturals, Sequences

CONSTANTS Threads,   \* the threads of the pool
          Jobs,      \* the jobs that can be spawned
          Idle       \* a thread without a job

VARIABLES queue,     \* spawned jobs that have not started, oldest first
          running    \* the job of each thread

vars == <<queue, running>>

TypeOK ==
  /\ queue \in Seq(Jobs)
  /\ running \in [Threads -> Jobs \cup {Idle}]

Init ==
  /\ queue = <<>>
  /\ running = [t \in Threads |-> Idle]

\* One or more jobs are spawned, behind those that are there.
Spawn ==
  /\ Len(queue') > Len(queue)
  /\ SubSeq(queue', 1, Len(queue)) = queue
  /\ \A i \in (Len(queue) + 1) .. Len(queue') : queue'[i] \in Jobs
  /\ UNCHANGED running

Start(t) ==
  /\ running[t] = Idle
  /\ queue # <<>>
  /\ running' = [running EXCEPT ![t] = Head(queue)]
  /\ queue' = Tail(queue)

Finish(t) ==
  /\ running[t] # Idle
  /\ running' = [running EXCEPT ![t] = Idle]
  /\ UNCHANGED queue

Next ==
  \/ Spawn
  \/ \E t \in Threads : Start(t) \/ Finish(t)

Spec == Init /\ [][Next]_vars
=============================================================================
