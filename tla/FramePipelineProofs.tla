------------------------ MODULE FramePipelineProofs -------------------------
(***************************************************************************)
(* FramePipeline's safety, for any number of threads, streams, rectangles  *)
(* and pixels and for all servers.                                         *)
(*                                                                         *)
(* The argument has five parts.  At most one update is between the reader  *)
(* and the view (UpdateInv), and every job belongs to the one that is read *)
(* or to the one the updater has (StageInv): to wait for its Futures is to *)
(* wait for everything.  A failure stays with its update, which ends the   *)
(* connection before the next begins (FailureInv).  A pixel is as the      *)
(* server means it to be, or undefined, or in a job, or a change of the    *)
(* width has moved it and no update has drawn it since (DrawInv, GoalInv), *)
(* and of a picture it is copied or in a job (CopyInv).  A stream's        *)
(* inflater, its thread and its queue form a chain of positions up to what *)
(* the server sent (ChainInv).  Who has a guard of the framebuffer, and in *)
(* which mode, follows from where the threads are (LockInv, GuardInv).     *)
(*                                                                         *)
(* The first part of the module is about DecodingMaster alone: what its    *)
(* operations do to the jobs and the guards.  The point there is that a    *)
(* job is only in one place (JobInv).  Then its answer frees exactly its   *)
(* own Future, and to have waited for all Futures means that the pools     *)
(* hold nothing.                                                           *)
(*                                                                         *)
(* The last parts are about the pipeline as a whole: it uses JobPool,      *)
(* GroupLock and EventQueue as they are specified, its threads do not wait *)
(* in a circle (WaitInv), and to the user it is a Screen (ScreenInv).      *)
(***************************************************************************)
EXTENDS FramePipeline, TLAPS, FiniteSetTheorems

-----------------------------------------------------------------------------
(* DecodingMaster's operations                                             *)

\* A job is in the pool it was routed to.
RoutedInv ==
  /\ \A p \in Pools : \A i \in DOMAIN queue[p] : Route(queue[p][i]) = p
  /\ \A w \in Workers : running[w] # Nobody => Route(running[w]) = PoolOf(w)

\* No job is in two places.
DistinctInv ==
  /\ \A p \in Pools : \A i, k \in DOMAIN queue[p] : queue[p][i] = queue[p][k] => i = k
  /\ \A w \in Workers : \A i \in DOMAIN queue[PoolOf(w)] :
       running[w] # queue[PoolOf(w)][i]
  /\ \A w, v \in Workers : running[w] # Nobody /\ running[w] = running[v] => w = v

\* Guards are held by the decoders of rectangles, the updater and the reader.
GuardInv ==
  \A g \in held :
    \/ g[1] \in {Updater, Reader}
    \/ \E w \in Workers : /\ g = <<w, "Decoding">>
                          /\ running[w] # Nobody /\ running[w].kind \in Decodes

JobInv == DecoderTypeOK /\ RoutedInv /\ DistinctInv /\ FuturesMatchJobs /\ GuardInv

-----------------------------------------------------------------------------
(* Lemmas about queues, pools and jobs                                     *)

(* What spawning a job does to a queue.                                    *)
LEMMA Pushed ==
  ASSUME NEW S, NEW q \in Seq(S), NEW e \in S
  PROVE  /\ Append(q, e) \in Seq(S)
         /\ Len(q) \in Nat /\ Len(Append(q, e)) = Len(q) + 1
         /\ DOMAIN q = 1 .. Len(q)
         /\ DOMAIN Append(q, e) = DOMAIN q \cup {Len(q) + 1}
         /\ Len(q) + 1 \notin DOMAIN q
         /\ \A i \in DOMAIN q : Append(q, e)[i] = q[i] /\ q[i] \in S
         /\ Append(q, e)[Len(q) + 1] = e
  OBVIOUS

(* What taking a job does to a queue.                                      *)
LEMMA Popped ==
  ASSUME NEW S, NEW q \in Seq(S), q # <<>>
  PROVE  /\ Tail(q) \in Seq(S)
         /\ Len(q) \in Nat /\ Len(q) >= 1 /\ Len(Tail(q)) = Len(q) - 1
         /\ DOMAIN q = 1 .. Len(q)
         /\ DOMAIN Tail(q) = 1 .. (Len(q) - 1)
         /\ \A i \in 1 .. (Len(q) - 1) : Tail(q)[i] = q[i + 1]
         /\ Head(q) = q[1] /\ Head(q) \in S
  OBVIOUS

(* Pending is what is in a queue or runs.                                  *)
LEMMA PendingMeans ==
  \A j : j \in Pending <=>
    \/ \E p \in Pools : \E i \in DOMAIN queue[p] : queue[p][i] = j
    \/ \E w \in Workers : running[w] = j /\ j # Nobody
  BY DEF Pending, QueuedIn

(* Pools and threads: a stream has one thread, the threads that only lock  *)
(* the framebuffer belong to no pool, and every job has a pool.            *)
LEMMA PoolFacts ==
  /\ \A w \in Workers : PoolOf(w) \in Pools
  /\ \A w \in Workers : \A s \in Streams : PoolOf(w) = s <=> w = s
  /\ \A w \in GeneralWorkers : PoolOf(w) = General
  /\ Updater \notin Workers /\ Reader \notin Workers
  /\ \A j \in Jobs : Route(j) \in Pools
  BY DecoderAssumption
  DEF DecoderAssumption, Workers, Pools, PoolOf, Route, Jobs

-----------------------------------------------------------------------------
(* What the operations do to the jobs                                      *)

(* A job that a worker takes stays the only one of its kind.               *)
LEMMA PopJobs ==
  ASSUME JobInv, NEW w \in Workers, Pop(w)
  PROVE  JobInv' /\ Pending' = Pending
<1> DEFINE p == PoolOf(w)
<1>p. p \in Pools
  BY PoolFacts
<1>1. /\ running[w] = Nobody /\ queue[p] # <<>>
      /\ running' = [running EXCEPT ![w] = Head(queue[p])]
      /\ queue' = [queue EXCEPT ![p] = Tail(queue[p])]
      /\ UNCHANGED <<unanswered, failed, held, size, pixel, frame, inflated, cursor>>
  BY DEF Pop
<1>t. queue \in [Pools -> Seq(Jobs)] /\ running \in [Workers -> Jobs \cup {Nobody}]
  BY DEF JobInv, DecoderTypeOK
<1>q. queue[p] \in Seq(Jobs)
  BY <1>p, <1>t
<1> HIDE DEF p
<1>2. /\ Tail(queue[p]) \in Seq(Jobs)
      /\ Len(queue[p]) \in Nat /\ Len(queue[p]) >= 1
      /\ DOMAIN queue[p] = 1 .. Len(queue[p])
      /\ DOMAIN Tail(queue[p]) = 1 .. (Len(queue[p]) - 1)
      /\ \A i \in 1 .. (Len(queue[p]) - 1) : Tail(queue[p])[i] = queue[p][i + 1]
      /\ Head(queue[p]) = queue[p][1] /\ Head(queue[p]) \in Jobs
  BY <1>1, <1>q, Popped
<1>3. /\ queue'[p] = Tail(queue[p])
      /\ \A r \in Pools : r # p => queue'[r] = queue[r]
      /\ running'[w] = queue[p][1]
      /\ \A v \in Workers : v # w => running'[v] = running[v]
  BY <1>1, <1>2, <1>t, <1>p
<1>4. DecoderTypeOK'
  BY <1>1, <1>2, <1>3, <1>t DEF JobInv, DecoderTypeOK, FbLock!TypeOK
<1>5. RoutedInv'
  <2>1. \A r \in Pools : \A i \in DOMAIN queue'[r] : Route(queue'[r][i]) = r
    <3> SUFFICES ASSUME NEW r \in Pools, NEW i \in DOMAIN queue'[r]
                 PROVE  Route(queue'[r][i]) = r
      OBVIOUS
    <3>1. CASE r = p
      <4>1. i + 1 \in DOMAIN queue[p] /\ queue'[r][i] = queue[p][i + 1]
        BY <3>1, <1>2, <1>3
      <4> QED BY <3>1, <4>1, <1>p DEF JobInv, RoutedInv
    <3>2. CASE r # p
      BY <3>2, <1>3 DEF JobInv, RoutedInv
    <3> QED BY <3>1, <3>2
  <2>2. Route(running'[w]) = PoolOf(w)
    BY <1>2, <1>3, <1>p DEF JobInv, RoutedInv, p
  <2>3. \A v \in Workers : running'[v] # Nobody => Route(running'[v]) = PoolOf(v)
    BY <2>2, <1>3 DEF JobInv, RoutedInv
  <2> QED BY <2>1, <2>3 DEF RoutedInv
<1>6. Pending' = Pending
  <2>1. ASSUME NEW j, j \in Pending PROVE j \in Pending'
    <3>1. CASE \E r \in Pools : \E i \in DOMAIN queue[r] : queue[r][i] = j
      <4>1. PICK r \in Pools : \E i \in DOMAIN queue[r] : queue[r][i] = j
        BY <3>1
      <4>2. PICK i \in DOMAIN queue[r] : queue[r][i] = j
        BY <4>1
      <4>3. CASE r # p
        BY <4>2, <4>3, <1>3, PendingMeans DEF Pending, QueuedIn
      <4>4. CASE r = p /\ i = 1
        <5>1. running'[w] = j /\ j # Nobody
          BY <4>2, <4>4, <1>2, <1>3, NobodyAssumption DEF NobodyAssumption
        <5> QED BY <5>1 DEF Pending
      <4>5. CASE r = p /\ i # 1
        <5>1. i - 1 \in DOMAIN queue'[p] /\ queue'[p][i - 1] = j
          BY <4>2, <4>5, <1>2, <1>3
        <5> QED BY <5>1, <1>p DEF Pending, QueuedIn
      <4> QED BY <4>3, <4>4, <4>5
    <3>2. CASE \E v \in Workers : running[v] = j /\ j # Nobody
      BY <3>2, <1>1, <1>3 DEF Pending
    <3> QED BY <2>1, <3>1, <3>2, PendingMeans
  <2>2. ASSUME NEW j, j \in Pending' PROVE j \in Pending
    <3>1. CASE \E r \in Pools : \E i \in DOMAIN queue'[r] : queue'[r][i] = j
      <4>1. PICK r \in Pools : \E i \in DOMAIN queue'[r] : queue'[r][i] = j
        BY <3>1
      <4>2. PICK i \in DOMAIN queue'[r] : queue'[r][i] = j
        BY <4>1
      <4>3. CASE r # p
        BY <4>2, <4>3, <1>3 DEF Pending, QueuedIn
      <4>4. CASE r = p
        <5>1. i + 1 \in DOMAIN queue[p] /\ queue[p][i + 1] = j
          BY <4>2, <4>4, <1>2, <1>3
        <5> QED BY <5>1, <1>p DEF Pending, QueuedIn
      <4> QED BY <4>3, <4>4
    <3>2. CASE \E v \in Workers : running'[v] = j /\ j # Nobody
      <4>1. PICK v \in Workers : running'[v] = j /\ j # Nobody
        BY <3>2
      <4>2. CASE v = w
        <5>1. 1 \in DOMAIN queue[p] /\ queue[p][1] = j
          BY <4>1, <4>2, <1>2, <1>3
        <5> QED BY <5>1, <1>p DEF Pending, QueuedIn
      <4> QED BY <4>1, <4>2, <1>3 DEF Pending
    <3>3. \/ \E r \in Pools : \E i \in DOMAIN queue'[r] : queue'[r][i] = j
          \/ \E v \in Workers : running'[v] = j /\ j # Nobody
      BY <2>2 DEF Pending, QueuedIn
    <3> QED BY <3>1, <3>2, <3>3
  <2> QED BY <2>1, <2>2
<1>7. DistinctInv'
  <2>1. ASSUME NEW r \in Pools, NEW i \in DOMAIN queue'[r], NEW k \in DOMAIN queue'[r],
               queue'[r][i] = queue'[r][k]
        PROVE  i = k
    <3>1. CASE r # p
      BY <2>1, <3>1, <1>3 DEF JobInv, DistinctInv
    <3>2. CASE r = p
      <4>1. /\ i + 1 \in DOMAIN queue[p] /\ k + 1 \in DOMAIN queue[p]
            /\ queue[p][i + 1] = queue[p][k + 1] /\ i \in Int /\ k \in Int
        BY <2>1, <3>2, <1>2, <1>3
      <4>2. i + 1 = k + 1
        BY <4>1, <1>p DEF JobInv, DistinctInv
      <4> QED BY <4>1, <4>2
    <3> QED BY <3>1, <3>2
  <2>2. ASSUME NEW v \in Workers, NEW i \in DOMAIN queue'[PoolOf(v)]
        PROVE  running'[v] # queue'[PoolOf(v)][i]
    <3>1. CASE v = w
      <4>1. /\ i + 1 \in DOMAIN queue[p] /\ 1 \in DOMAIN queue[p] /\ i + 1 # 1
            /\ queue'[PoolOf(v)][i] = queue[p][i + 1]
            /\ running'[v] = queue[p][1]
        BY <2>2, <3>1, <1>2, <1>3 DEF p
      <4> QED BY <4>1, <1>p DEF JobInv, DistinctInv
    <3>2. CASE v # w /\ PoolOf(v) = p
      <4>1. /\ i + 1 \in DOMAIN queue[PoolOf(v)]
            /\ queue'[PoolOf(v)][i] = queue[PoolOf(v)][i + 1]
            /\ running'[v] = running[v]
        BY <2>2, <3>2, <1>2, <1>3
      <4> QED BY <4>1 DEF JobInv, DistinctInv
    <3>3. CASE v # w /\ PoolOf(v) # p
      BY <2>2, <3>3, <1>3, PoolFacts DEF JobInv, DistinctInv
    <3> QED BY <3>1, <3>2, <3>3
  <2>3. ASSUME NEW v \in Workers, NEW u \in Workers, running'[v] # Nobody,
               running'[v] = running'[u]
        PROVE  v = u
    <3>1. ASSUME NEW x \in Workers, x # w PROVE running[x] # queue[p][1]
      <4>1. CASE PoolOf(x) = p
        BY <4>1, <1>2 DEF JobInv, DistinctInv
      <4>2. CASE PoolOf(x) # p
        <5>1. Route(queue[p][1]) = p
          BY <1>2, <1>p DEF JobInv, RoutedInv
        <5>2. queue[p][1] # Nobody
          BY <1>2, NobodyAssumption DEF NobodyAssumption
        <5> QED BY <4>2, <5>1, <5>2 DEF JobInv, RoutedInv
      <4> QED BY <4>1, <4>2
    <3> QED BY <2>3, <3>1, <1>3 DEF JobInv, DistinctInv
  <2> QED BY <2>1, <2>2, <2>3, Zenon DEF DistinctInv
<1>8. FuturesMatchJobs'
  BY <1>1, <1>6 DEF JobInv, FuturesMatchJobs
<1>9. GuardInv'
  BY <1>1, <1>3 DEF JobInv, GuardInv
<1> QED BY <1>4, <1>5, <1>6, <1>7, <1>8, <1>9 DEF JobInv

(* A guard for decoding is the worker's own.                               *)
LEMMA LockFbJobs ==
  ASSUME JobInv, NEW w \in Workers, LockFb(w)
  PROVE  JobInv' /\ Pending' = Pending
<1>1. /\ running[w] # Nobody /\ running[w].kind \in Decodes
      /\ held' = held \cup {<<w, "Decoding">>}
      /\ UNCHANGED <<queue, running, unanswered, failed, size, pixel, frame,
                     inflated, cursor>>
  BY DEF LockFb, FbLock!Acquire
<1>2. Pending' = Pending
  BY <1>1 DEF Pending, QueuedIn
<1>3. DecoderTypeOK'
  BY <1>1 DEF JobInv, DecoderTypeOK, FbLock!TypeOK
<1>4. RoutedInv' /\ DistinctInv' /\ FuturesMatchJobs'
  BY <1>1, <1>2 DEF JobInv, RoutedInv, DistinctInv, FuturesMatchJobs
<1>5. GuardInv'
  BY <1>1 DEF JobInv, GuardInv
<1> QED BY <1>2, <1>3, <1>4, <1>5 DEF JobInv

(* An answer ends its own job only, as that is in no other place.          *)
LEMMA AnswerJobs ==
  ASSUME JobInv, NEW w \in Workers, running[w] # Nobody, Answer(w), UNCHANGED queue
  PROVE  /\ RoutedInv' /\ DistinctInv' /\ FuturesMatchJobs'
         /\ Pending' = Pending \ {running[w]}
         /\ running' \in [Workers -> Jobs \cup {Nobody}]
         /\ unanswered' \subseteq Jobs
         /\ running'[w] = Nobody
         /\ \A v \in Workers : v # w => running'[v] = running[v]
<1>t. queue \in [Pools -> Seq(Jobs)] /\ running \in [Workers -> Jobs \cup {Nobody}]
  BY DEF JobInv, DecoderTypeOK
<1>1. /\ running' \in [Workers -> Jobs \cup {Nobody}]
      /\ running'[w] = Nobody
      /\ \A v \in Workers : v # w => running'[v] = running[v]
      /\ unanswered' = unanswered \ {running[w]}
  BY <1>t DEF Answer
<1>2. RoutedInv'
  BY <1>1 DEF JobInv, RoutedInv
<1>3. DistinctInv'
  <2>1. ASSUME NEW v \in Workers, NEW i \in DOMAIN queue[PoolOf(v)]
        PROVE  running'[v] # queue[PoolOf(v)][i]
    <3>1. queue[PoolOf(v)][i] # Nobody
      BY <1>t, PoolFacts, NobodyAssumption DEF NobodyAssumption
    <3> QED BY <3>1, <1>1 DEF JobInv, DistinctInv
  <2> QED BY <2>1, <1>1 DEF JobInv, DistinctInv
<1>4. ASSUME NEW r \in Pools, NEW i \in DOMAIN queue[r]
      PROVE  queue[r][i] # running[w]
  <2>1. CASE r = PoolOf(w)
    BY <2>1 DEF JobInv, DistinctInv
  <2>2. CASE r # PoolOf(w)
    BY <2>2 DEF JobInv, RoutedInv
  <2> QED BY <2>1, <2>2
<1>5. Pending' = Pending \ {running[w]}
  <2>1. ASSUME NEW j, j \in Pending, j # running[w] PROVE j \in Pending'
    BY <2>1, <1>1, PendingMeans DEF Pending, QueuedIn
  <2>2. ASSUME NEW j, j \in Pending' PROVE j \in Pending /\ j # running[w]
    <3>1. CASE \E r \in Pools : \E i \in DOMAIN queue[r] : queue[r][i] = j
      BY <3>1, <1>4, PendingMeans
    <3>2. CASE \E v \in Workers : running'[v] = j /\ j # Nobody
      BY <3>2, <1>1, PendingMeans DEF JobInv, DistinctInv
    <3>3. \/ \E r \in Pools : \E i \in DOMAIN queue[r] : queue[r][i] = j
          \/ \E v \in Workers : running'[v] = j /\ j # Nobody
      BY <2>2 DEF Pending, QueuedIn
    <3> QED BY <3>1, <3>2, <3>3
  <2> QED BY <2>1, <2>2
<1>6. FuturesMatchJobs'
  BY <1>1, <1>5 DEF JobInv, FuturesMatchJobs
<1>7. unanswered' \subseteq Jobs
  BY <1>1 DEF JobInv, DecoderTypeOK
<1> QED BY <1>1, <1>2, <1>3, <1>5, <1>6, <1>7

(* A worker with a guard runs a job that decodes.                          *)
LEMMA HolderDecodes ==
  ASSUME JobInv, NEW w \in Workers, Holds(w)
  PROVE  running[w] # Nobody /\ running[w] \in Jobs /\ running[w].kind \in Decodes
<1>1. PICK g \in held : g[1] = w
  BY DEF Holds
<1>2. w \notin {Updater, Reader}
  BY PoolFacts
<1>3. PICK v \in Workers : /\ g = <<v, "Decoding">>
                           /\ running[v] # Nobody /\ running[v].kind \in Decodes
  BY <1>1, <1>2 DEF JobInv, GuardInv
<1>4. v = w
  BY <1>1, <1>3
<1> QED BY <1>3, <1>4 DEF JobInv, DecoderTypeOK

(* Painting and inflating keep their types.                                *)
LEMMA DecodedTypes ==
  ASSUME DecoderTypeOK, NEW w \in Workers, running[w] \in Jobs, NEW part
  PROVE  /\ Paint(part, running[w].stamp) \in [1 .. MaxPixels -> Contents]
         /\ Inflate(w) => inflated' \in [Workers -> Nat]
<1>1. running[w].stamp \in Contents
  BY DEF Jobs, Contents
<1>2. Paint(part, running[w].stamp) \in [1 .. MaxPixels -> Contents]
  BY <1>1 DEF Paint, DecoderTypeOK
<1>3. Inflate(w) => inflated' \in [Workers -> Nat]
  BY DEF Inflate, DecoderTypeOK
<1> QED BY <1>2, <1>3

(* The end of a decoding job takes its guard along.                        *)
LEMMA DecodeJobs ==
  ASSUME JobInv, NEW w \in Workers, DecodeOk(w) \/ DecodeFails(w)
  PROVE  /\ JobInv' /\ Pending' = Pending \ {running[w]}
         /\ running[w] \in Jobs /\ running[w].kind \in Decodes
<1>1. running[w] # Nobody /\ running[w] \in Jobs /\ running[w].kind \in Decodes
  BY HolderDecodes DEF DecodeOk, DecodeFails
<1>2. /\ held' = held \ {<<w, "Decoding">>}
      /\ UNCHANGED <<queue, size, frame>> /\ Answer(w) /\ Inflate(w)
      /\ failed' \in {failed, failed \cup {running[w].stamp}}
      /\ \E part : pixel' = Paint(part, running[w].stamp)
      /\ cursor' \in {cursor, [cursor EXCEPT !.changed = TRUE]}
  BY DEF DecodeOk, DecodeFails, FbLock!Release
<1>3. /\ RoutedInv' /\ DistinctInv' /\ FuturesMatchJobs'
      /\ Pending' = Pending \ {running[w]}
      /\ running' \in [Workers -> Jobs \cup {Nobody}]
      /\ unanswered' \subseteq Jobs
      /\ running'[w] = Nobody
      /\ \A v \in Workers : v # w => running'[v] = running[v]
  BY <1>1, <1>2, AnswerJobs
<1>4. DecoderTypeOK'
  <2>1. pixel' \in [1 .. MaxPixels -> Contents] /\ inflated' \in [Workers -> Nat]
    BY <1>1, <1>2, DecodedTypes DEF JobInv
  <2>2. failed' \subseteq 0 .. MaxUpdates
    BY <1>1, <1>2 DEF JobInv, DecoderTypeOK, Jobs
  <2>3. cursor' \in [changed : BOOLEAN, locked : BOOLEAN]
    BY <1>2 DEF JobInv, DecoderTypeOK
  <2>4. FbLock!TypeOK'
    BY <1>2 DEF JobInv, DecoderTypeOK, FbLock!TypeOK
  <2> QED BY <1>2, <1>3, <2>1, <2>2, <2>3, <2>4 DEF JobInv, DecoderTypeOK
<1>5. GuardInv'
  BY <1>2, <1>3 DEF JobInv, GuardInv
<1> QED BY <1>1, <1>3, <1>4, <1>5 DEF JobInv

(* Jobs without a guard.                                                   *)
LEMMA OtherJobs ==
  ASSUME JobInv, NEW w \in Workers, ResetZlib(w) \/ CopyChunk(w)
  PROVE  JobInv' /\ Pending' = Pending \ {running[w]}
<1>1. /\ running[w] # Nobody /\ running[w].kind \notin Decodes
      /\ UNCHANGED <<queue, failed, held, size, pixel, cursor>> /\ Answer(w)
      /\ inflated' \in {inflated, [inflated EXCEPT ![w] = 0]}
      /\ frame' = frame \/ \E part : frame' =
           [c \in DOMAIN frame |-> IF c \in part THEN pixel[c] ELSE frame[c]]
  BY DEF ResetZlib, CopyChunk, Decodes
<1>2. /\ RoutedInv' /\ DistinctInv' /\ FuturesMatchJobs'
      /\ Pending' = Pending \ {running[w]}
      /\ running' \in [Workers -> Jobs \cup {Nobody}]
      /\ unanswered' \subseteq Jobs
      /\ running'[w] = Nobody
      /\ \A v \in Workers : v # w => running'[v] = running[v]
  BY <1>1, AnswerJobs
<1>3. frame' \in [1 .. MaxPixels -> Contents]
  BY <1>1 DEF JobInv, DecoderTypeOK
<1>4. inflated' \in [Workers -> Nat]
  BY <1>1 DEF JobInv, DecoderTypeOK
<1>5. DecoderTypeOK'
  BY <1>1, <1>2, <1>3, <1>4 DEF JobInv, DecoderTypeOK, FbLock!TypeOK
<1>6. GuardInv'
  BY <1>1, <1>2 DEF JobInv, GuardInv
<1> QED BY <1>2, <1>5, <1>6 DEF JobInv

(* A job that was not there before gets a place of its own.                *)
LEMMA AcceptJobs ==
  ASSUME JobInv, NEW j \in Jobs, j \notin Pending, Accept(j),
         UNCHANGED <<running, failed, held, size, pixel, frame, inflated, cursor>>
  PROVE  JobInv' /\ Pending' = Pending \cup {j}
<1> DEFINE p == Route(j)
<1>p. p \in Pools
  BY PoolFacts
<1>t. queue \in [Pools -> Seq(Jobs)] /\ running \in [Workers -> Jobs \cup {Nobody}]
  BY DEF JobInv, DecoderTypeOK
<1>1. /\ queue' = [queue EXCEPT ![p] = Append(queue[p], j)]
      /\ unanswered' = unanswered \cup {j}
  BY DEF Accept
<1> DEFINE n == Len(queue[p])
<1>q. queue[p] \in Seq(Jobs)
  BY <1>p, <1>t
<1>r. Route(j) = p
  OBVIOUS
<1> HIDE DEF p
<1>2. /\ Append(queue[p], j) \in Seq(Jobs)
      /\ n \in Nat
      /\ DOMAIN Append(queue[p], j) = DOMAIN queue[p] \cup {n + 1}
      /\ n + 1 \notin DOMAIN queue[p]
      /\ \A i \in DOMAIN queue[p] : Append(queue[p], j)[i] = queue[p][i]
      /\ Append(queue[p], j)[n + 1] = j
  BY <1>q, Pushed
<1> HIDE DEF n
<1>3. /\ queue'[p] = Append(queue[p], j)
      /\ \A r \in Pools : r # p => queue'[r] = queue[r]
  BY <1>1, <1>t, <1>p
<1>4. DecoderTypeOK'
  BY <1>1, <1>2, <1>t, <1>p DEF JobInv, DecoderTypeOK, FbLock!TypeOK
<1>5. RoutedInv'
  <2>1. \A r \in Pools : \A i \in DOMAIN queue'[r] : Route(queue'[r][i]) = r
    BY <1>2, <1>3, <1>r DEF JobInv, RoutedInv
  <2> QED BY <2>1 DEF JobInv, RoutedInv
<1>6. Pending' = Pending \cup {j}
  <2>1. ASSUME NEW o, o \in Pending PROVE o \in Pending'
    <3>1. CASE \E r \in Pools : \E i \in DOMAIN queue[r] : queue[r][i] = o
      BY <3>1, <1>2, <1>3 DEF Pending, QueuedIn
    <3>2. CASE \E v \in Workers : running[v] = o /\ o # Nobody
      BY <3>2 DEF Pending
    <3> QED BY <2>1, <3>1, <3>2, PendingMeans
  <2>2. j \in Pending'
    <3>1. n + 1 \in DOMAIN queue'[p] /\ queue'[p][n + 1] = j
      BY <1>2, <1>3
    <3> QED BY <3>1, <1>p DEF Pending, QueuedIn
  <2>3. ASSUME NEW o, o \in Pending' PROVE o \in Pending \/ o = j
    <3>1. ASSUME NEW r \in Pools, NEW i \in DOMAIN queue'[r], queue'[r][i] = o
          PROVE  o \in Pending \/ o = j
      BY <3>1, <1>2, <1>3, PendingMeans
    <3>2. CASE \E v \in Workers : running[v] = o /\ o # Nobody
      BY <3>2, PendingMeans
    <3>3. \/ \E r \in Pools : \E i \in DOMAIN queue'[r] : queue'[r][i] = o
          \/ \E v \in Workers : running[v] = o /\ o # Nobody
      BY <2>3 DEF Pending, QueuedIn
    <3> QED BY <3>1, <3>2, <3>3
  <2> QED BY <2>1, <2>2, <2>3
<1>7. DistinctInv'
  <2>n. /\ \A r \in Pools : \A i \in DOMAIN queue[r] : queue[r][i] # j
        /\ \A v \in Workers : running[v] # j
    BY PendingMeans, NobodyAssumption DEF NobodyAssumption
  <2>1. \A r \in Pools : \A i, k \in DOMAIN queue'[r] :
          queue'[r][i] = queue'[r][k] => i = k
    <3> SUFFICES ASSUME NEW r \in Pools, NEW i \in DOMAIN queue'[r],
                        NEW k \in DOMAIN queue'[r], queue'[r][i] = queue'[r][k]
                 PROVE  i = k
      OBVIOUS
    <3>1. CASE r # p
      BY <3>1, <1>3 DEF JobInv, DistinctInv
    <3>2. CASE r = p /\ i \in DOMAIN queue[p] /\ k \in DOMAIN queue[p]
      BY <3>2, <1>2, <1>3 DEF JobInv, DistinctInv
    <3>3. CASE r = p /\ ~ (i \in DOMAIN queue[p] /\ k \in DOMAIN queue[p])
      BY <3>3, <2>n, <1>2, <1>3, <1>p
    <3> QED BY <3>1, <3>2, <3>3
  <2>2. \A v \in Workers : \A i \in DOMAIN queue'[PoolOf(v)] :
          running[v] # queue'[PoolOf(v)][i]
    <3> SUFFICES ASSUME NEW v \in Workers, NEW i \in DOMAIN queue'[PoolOf(v)]
                 PROVE  running[v] # queue'[PoolOf(v)][i]
      OBVIOUS
    <3>p. PoolOf(v) \in Pools
      BY PoolFacts
    <3>1. CASE PoolOf(v) # p
      BY <3>p, <3>1, <1>3 DEF JobInv, DistinctInv
    <3>2. CASE PoolOf(v) = p /\ i \in DOMAIN queue[p]
      <4>1. queue'[PoolOf(v)][i] = queue[PoolOf(v)][i] /\ i \in DOMAIN queue[PoolOf(v)]
        BY <3>2, <1>2, <1>3
      <4> QED BY <4>1 DEF JobInv, DistinctInv
    <3>3. CASE PoolOf(v) = p /\ i \notin DOMAIN queue[p]
      <4>1. queue'[PoolOf(v)][i] = j
        BY <3>3, <1>2, <1>3
      <4> QED BY <4>1, <2>n
    <3> QED BY <3>1, <3>2, <3>3
  <2> QED BY <2>1, <2>2 DEF JobInv, DistinctInv
<1>8. FuturesMatchJobs'
  BY <1>1, <1>6 DEF JobInv, FuturesMatchJobs
<1>9. GuardInv'
  BY DEF JobInv, GuardInv
<1> QED BY <1>4, <1>5, <1>6, <1>7, <1>8, <1>9 DEF JobInv

-----------------------------------------------------------------------------
(* The copy                                                                *)

(* There are threads and pixels.                                           *)
LEMMA Numbers ==
  /\ NoOfThreads \in Nat /\ NoOfThreads > 0
  /\ \A s \in Sizes : NoOfPixels(s) \in Nat
<1>1. NoOfThreads \in Nat
  BY DecoderAssumption, FS_CardinalityType DEF DecoderAssumption, NoOfThreads
<1>2. NoOfThreads # 0
  BY DecoderAssumption, FS_EmptySet DEF DecoderAssumption, NoOfThreads
<1>3. ASSUME NEW s \in Sizes PROVE NoOfPixels(s) \in Nat
  <2>1. s[1] \in Nat /\ s[2] \in Nat
    BY DecoderAssumption DEF DecoderAssumption
  <2> QED BY <2>1 DEF NoOfPixels
<1> QED BY <1>1, <1>2, <1>3

(* Equal shares, the last one with the surplus, leave no pixel out.        *)
LEMMA ChunksCover ==
  ASSUME size \in Sizes
  PROVE  /\ \A i \in 1 .. NoOfThreads : Chunk(i - 1) \subseteq Nat
         /\ \A c \in 1 .. NoOfPixels(size) : \E i \in 1 .. NoOfThreads : c \in Chunk(i - 1)
<1> DEFINE n == NoOfPixels(size)
           t == NoOfThreads
           f == n \div t
           r == n % t
<1>1. n \in Nat /\ t \in Nat /\ t > 0
  BY Numbers
<1> HIDE DEF n, t
<1>2. f \in Nat /\ r \in Nat /\ n = t * f + r
  BY <1>1
<1> HIDE DEF f, r
<1>3. \A i : Chunk(i) = (i * f + 1) .. (i * f + (IF i = t - 1 THEN f + r ELSE f))
  BY DEF Chunk, n, t, f, r
<1>4. ASSUME NEW i \in 1 .. t PROVE Chunk(i - 1) \subseteq Nat
  <2>1. i - 1 \in Nat /\ (i - 1) * f \in Nat
    BY <1>1, <1>2
  <2> QED BY <2>1, <1>2, <1>3
<1>5. ASSUME NEW c \in 1 .. n PROVE \E i \in 1 .. t : c \in Chunk(i - 1)
  <2>1. t - 1 \in Nat /\ (t - 1) * f \in Nat /\ (t - 1) * f + f = t * f
    BY <1>1, <1>2
  <2>2. CASE c > (t - 1) * f
    <3>1. c \in Chunk(t - 1)
      BY <2>1, <2>2, <1>2, <1>3, <1>1
    <3> QED BY <3>1, <1>1
  <2>3. CASE c <= (t - 1) * f
    <3> DEFINE q == (c - 1) \div f
    <3>1. f > 0
      BY <2>1, <2>3, <1>1, <1>2
    <3>2. q \in Nat /\ q * f <= c - 1 /\ c - 1 < q * f + f
      BY <3>1, <1>2, <1>1
    <3> HIDE DEF q
    <3>3. q < t - 1
      <4>1. SUFFICES ASSUME q >= t - 1 PROVE FALSE
        BY <3>2, <2>1
      <4>2. q * f >= (t - 1) * f
        <5>1. q - (t - 1) \in Nat
          BY <4>1, <3>2, <2>1
        <5>2. (q - (t - 1)) * f \in Nat
          BY <5>1, <1>2
        <5>3. (q - (t - 1)) * f = q * f - (t - 1) * f
          BY <3>2, <2>1, <1>2
        <5>4. q * f \in Nat
          BY <3>2, <1>2
        <5> QED BY <5>2, <5>3, <5>4, <2>1
      <4>3. q * f \in Nat
        BY <3>2, <1>2
      <4> QED BY <4>2, <4>3, <3>2, <2>3, <2>1, <1>1
    <3>4. q * f \in Nat
      BY <3>2, <1>2
    <3>5. c \in Chunk(q)
      BY <3>2, <3>3, <3>4, <1>2, <1>3, <1>1
    <3>6. PICK i \in 1 .. t : i - 1 = q
      BY <3>2, <3>3, <1>1
    <3>7. c \in Chunk(i - 1)
      BY <3>5, <3>6, Zenon
    <3> QED BY <3>7, Zenon
  <2> QED BY <2>1, <2>2, <2>3, <1>1
<1> QED BY <1>4, <1>5 DEF n, t

(* When nothing is pending there is no job and no guard of a decoder.      *)
LEMMA NothingPending ==
  ASSUME JobInv, Pending = {}
  PROVE  /\ \A p \in Pools : queue[p] = <<>>
         /\ \A w \in Workers : running[w] = Nobody
         /\ unanswered = {} /\ Drained
         /\ \A g \in held : g[1] \in {Updater, Reader}
<1>1. ASSUME NEW p \in Pools PROVE queue[p] = <<>>
  <2>1. queue[p] \in Seq(Jobs)
    BY DEF JobInv, DecoderTypeOK
  <2>2. queue[p] # <<>> => 1 \in DOMAIN queue[p]
    BY <2>1
  <2> QED BY <2>2, PendingMeans
<1>2. \A w \in Workers : running[w] = Nobody
  BY PendingMeans
<1>3. unanswered = {}
  BY DEF JobInv, FuturesMatchJobs
<1> QED BY <1>1, <1>2, <1>3 DEF JobInv, GuardInv, Drained

(* The jobs of a copy are as many as there are threads; together they have *)
(* every pixel.                                                            *)
LEMMA StartCopyJobs ==
  ASSUME JobInv, Pending = {}, NEW k \in 0 .. MaxUpdates, StartCopy(k)
  PROVE  /\ JobInv'
         /\ \A j \in Pending' : j.kind = "copy" /\ j.stamp = k
         /\ \A c \in 1 .. NoOfPixels(size) : \E j \in Pending' : c \in j.area
         /\ queue[General] = <<>>
         /\ queue'[General] \in Seq(Jobs) /\ queue'[General] # <<>>
<1> DEFINE jobs == [i \in 1 .. NoOfThreads |-> CopyJob(i - 1, k)]
<1>1. /\ queue' = [queue EXCEPT ![General] = queue[General] \o jobs]
      /\ unanswered' = unanswered \cup {jobs[i] : i \in 1 .. NoOfThreads}
      /\ held' = held \cup {<<Updater, "Reading">>}
      /\ frame' = [c \in DOMAIN frame |-> Uninitialized]
      /\ UNCHANGED <<running, failed, size, pixel, inflated, cursor>>
  BY DEF StartCopy, FbLock!Acquire
<1>s. size \in Sizes
  BY DEF JobInv, DecoderTypeOK
<1>2. /\ \A p \in Pools : queue[p] = <<>>
      /\ \A w \in Workers : running[w] = Nobody
      /\ unanswered = {}
      /\ \A g \in held : g[1] \in {Updater, Reader}
  BY NothingPending
<1>g. General \in Pools
  BY DEF Pools
<1>3. \A i \in 1 .. NoOfThreads :
        /\ jobs[i] \in Jobs /\ jobs[i].kind = "copy" /\ jobs[i].stamp = k
        /\ jobs[i].area = Chunk(i - 1) /\ jobs[i].number = i - 1
        /\ Route(jobs[i]) = General
  <2> SUFFICES ASSUME NEW i \in 1 .. NoOfThreads
               PROVE  /\ jobs[i] \in Jobs /\ jobs[i].kind = "copy" /\ jobs[i].stamp = k
                      /\ jobs[i].area = Chunk(i - 1) /\ jobs[i].number = i - 1
                      /\ Route(jobs[i]) = General
    OBVIOUS
  <2>1. i - 1 \in Nat
    BY Numbers
  <2>2. Chunk(i - 1) \in SUBSET Nat
    BY <1>s, ChunksCover
  <2> QED BY <2>1, <2>2, <1>g DEF CopyJob, Jobs, Route
<1> HIDE DEF jobs
<1>4. jobs \in Seq(Jobs) /\ Len(jobs) = NoOfThreads /\ DOMAIN jobs = 1 .. NoOfThreads
  <2>1. jobs \in [1 .. NoOfThreads -> Jobs]
    BY <1>3 DEF jobs
  <2> QED BY <2>1, Numbers
<1>5. queue[General] \o jobs = jobs
  BY <1>2, <1>4, <1>g
<1>6. /\ queue' \in [Pools -> Seq(Jobs)]
      /\ queue'[General] = jobs
      /\ \A p \in Pools : p # General => queue'[p] = <<>>
  BY <1>1, <1>2, <1>4, <1>5, <1>g DEF JobInv, DecoderTypeOK
<1>7. \A j : j \in Pending' <=> \E i \in 1 .. NoOfThreads : jobs[i] = j
  <2>1. ASSUME NEW j, j \in Pending' PROVE \E i \in 1 .. NoOfThreads : jobs[i] = j
    <3>1. \/ \E p \in Pools : \E i \in DOMAIN queue'[p] : queue'[p][i] = j
          \/ \E w \in Workers : running[w] = j /\ j # Nobody
      BY <1>1, <2>1 DEF Pending, QueuedIn
    <3>2. \A p \in Pools : p # General => DOMAIN queue'[p] = {}
      BY <1>6
    <3> QED BY <3>1, <3>2, <1>2, <1>4, <1>6
  <2>2. ASSUME NEW i \in 1 .. NoOfThreads PROVE jobs[i] \in Pending'
    BY <1>4, <1>6, <1>g DEF Pending, QueuedIn
  <2> QED BY <2>1, <2>2
<1>8. DecoderTypeOK'
  <2>1. unanswered' \subseteq Jobs
    BY <1>1, <1>2, <1>3
  <2>2. frame' \in [1 .. MaxPixels -> Contents]
    BY <1>1 DEF JobInv, DecoderTypeOK, Contents
  <2>3. FbLock!TypeOK'
    BY <1>1 DEF JobInv, DecoderTypeOK, FbLock!TypeOK
  <2> QED BY <1>1, <1>6, <2>1, <2>2, <2>3 DEF JobInv, DecoderTypeOK
<1>9. RoutedInv'
  <2>1. \A p \in Pools : \A i \in DOMAIN queue'[p] : Route(queue'[p][i]) = p
    <3>1. \A p \in Pools : p # General => DOMAIN queue'[p] = {}
      BY <1>6
    <3> QED BY <3>1, <1>3, <1>4, <1>6
  <2> QED BY <2>1, <1>1, <1>2 DEF RoutedInv
<1>10. DistinctInv'
  <2>1. \A p \in Pools : p # General => DOMAIN queue'[p] = {}
    BY <1>6
  <2>2. \A i, l \in 1 .. NoOfThreads : jobs[i] = jobs[l] => i = l
    <3> SUFFICES ASSUME NEW i \in 1 .. NoOfThreads, NEW l \in 1 .. NoOfThreads,
                        jobs[i] = jobs[l]
                 PROVE  i = l
      OBVIOUS
    <3>1. i - 1 = l - 1
      BY <1>3
    <3> QED BY <3>1
  <2>3. \A i \in 1 .. NoOfThreads : jobs[i] # Nobody
    BY <1>3, NobodyAssumption DEF NobodyAssumption
  <2> QED BY <2>1, <2>2, <2>3, <1>1, <1>2, <1>4, <1>6, PoolFacts DEF DistinctInv
<1>11. FuturesMatchJobs'
  BY <1>1, <1>2, <1>7 DEF FuturesMatchJobs
<1>12. GuardInv'
  BY <1>1, <1>2 DEF GuardInv
<1>13. \A c \in 1 .. NoOfPixels(size) : \E j \in Pending' : c \in j.area
  <2> SUFFICES ASSUME NEW c \in 1 .. NoOfPixels(size) PROVE \E j \in Pending' : c \in j.area
    OBVIOUS
  <2>1. PICK i \in 1 .. NoOfThreads : c \in Chunk(i - 1)
    BY <1>s, ChunksCover
  <2>2. jobs[i] \in Pending' /\ c \in jobs[i].area
    BY <2>1, <1>3, <1>7
  <2> QED BY <2>2
<1>14. /\ queue[General] = <<>>
       /\ queue'[General] \in Seq(Jobs) /\ queue'[General] # <<>>
  <2>1. NoOfThreads >= 1
    BY Numbers
  <2>2. jobs # <<>>
    BY <1>4, <2>1
  <2> QED BY <2>2, <1>2, <1>4, <1>6, <1>g
<1> QED BY <1>3, <1>7, <1>8, <1>9, <1>10, <1>11, <1>12, <1>13, <1>14 DEF JobInv

(* Steps that touch neither queues nor threads keep the jobs as they are.  *)
LEMMA SameJobs ==
  ASSUME JobInv, UNCHANGED <<queue, running, unanswered>>,
         DecoderTypeOK', GuardInv'
  PROVE  JobInv' /\ Pending' = Pending
<1>1. Pending' = Pending
  BY DEF Pending, QueuedIn
<1>2. RoutedInv' /\ DistinctInv' /\ FuturesMatchJobs'
  BY <1>1 DEF JobInv, RoutedInv, DistinctInv, FuturesMatchJobs
<1> QED BY <1>1, <1>2 DEF JobInv

(* A resize keeps the types.                                               *)
LEMMA ResizedType ==
  ASSUME NEW px \in [1 .. MaxPixels -> Contents], NEW new
  PROVE  Resized(px, new) \in [1 .. MaxPixels -> Contents]
  BY DecoderAssumption DEF DecoderAssumption, Resized, Contents, Gray

(* There are as many pixels as the largest size has.                       *)
LEMMA MaxPixelsIsMax ==
  \A s \in Sizes : NoOfPixels(s) <= MaxPixels /\ NoOfPixels(s) \in Nat /\ MaxPixels \in Nat
<1>1. \A s \in Sizes : NoOfPixels(s) \in Nat
  BY Numbers
<1>2. \E n \in {NoOfPixels(s) : s \in Sizes} : \A s \in Sizes : NoOfPixels(s) <= n
  BY SizeAssumption DEF SizeAssumption
<1>3. MaxPixels \in {NoOfPixels(s) : s \in Sizes} /\ \A s \in Sizes : NoOfPixels(s) <= MaxPixels
  BY <1>2 DEF MaxPixels
<1> QED BY <1>1, <1>3

(* In the beginning there are no jobs and no guards.                       *)
LEMMA InitJobs == InitDecoder => JobInv /\ Pending = {}
<1> SUFFICES ASSUME InitDecoder PROVE JobInv /\ Pending = {}
  OBVIOUS
<1>1. /\ \A p \in Pools : queue[p] = <<>> /\ DOMAIN queue[p] = {}
      /\ \A w \in Workers : running[w] = Nobody
      /\ unanswered = {} /\ held = {}
  BY DEF InitDecoder
<1>2. Pending = {}
  BY <1>1, PendingMeans
<1>3. DecoderTypeOK
  <2>1. pixel \in [1 .. MaxPixels -> Contents]
    BY DecoderAssumption DEF DecoderAssumption, InitDecoder, Contents, Gray
  <2> QED BY <2>1 DEF InitDecoder, DecoderTypeOK, FbLock!TypeOK
<1>4. RoutedInv /\ DistinctInv /\ FuturesMatchJobs /\ GuardInv
  BY <1>1, <1>2, PoolFacts DEF RoutedInv, DistinctInv, FuturesMatchJobs, GuardInv
<1> QED BY <1>2, <1>3, <1>4 DEF JobInv

-----------------------------------------------------------------------------
(* The general pool is a JobPool                                           *)

\* A step of the general pool, or none.
PoolStep == [GeneralPool!Next]_(GeneralPool!vars)

(* Its threads start jobs in the order they were spawned.                  *)
LEMMA PoolPops ==
  ASSUME DecoderTypeOK, NEW w \in Workers, Pop(w)
  PROVE  PoolStep
<1> DEFINE q == queue[General]
           r == [v \in GeneralWorkers |-> running[v]]
<1>1. /\ running[w] = Nobody /\ queue[PoolOf(w)] # <<>>
      /\ running' = [running EXCEPT ![w] = Head(queue[PoolOf(w)])]
      /\ queue' = [queue EXCEPT ![PoolOf(w)] = Tail(queue[PoolOf(w)])]
  BY DEF Pop
<1>t. /\ queue \in [Pools -> Seq(Jobs)] /\ running \in [Workers -> Jobs \cup {Nobody}]
      /\ General \in Pools /\ GeneralWorkers \subseteq Workers
  BY DEF DecoderTypeOK, Pools, Workers
<1>2. CASE w \in GeneralWorkers
  <2>1. PoolOf(w) = General
    BY <1>2, PoolFacts
  <2>2. /\ r[w] = Nobody /\ q # <<>> /\ q' = Tail(q)
        /\ r' = [r EXCEPT ![w] = Head(q)]
    BY <2>1, <1>1, <1>2, <1>t
  <2> QED BY <2>2, <1>2 DEF PoolStep, GeneralPool!Next, GeneralPool!Start
<1>3. CASE w \notin GeneralWorkers
  <2>1. PoolOf(w) # General
    BY <1>3, DecoderAssumption DEF DecoderAssumption, PoolOf, Workers
  <2>2. q' = q /\ r' = r
    BY <2>1, <1>1, <1>3, <1>t
  <2> QED BY <2>2 DEF PoolStep, GeneralPool!vars
<1> QED BY <1>2, <1>3

(* They end the job they run.                                              *)
LEMMA PoolAnswers ==
  ASSUME DecoderTypeOK, NEW w \in Workers, running[w] # Nobody, Answer(w),
         UNCHANGED queue
  PROVE  PoolStep
<1> DEFINE r == [v \in GeneralWorkers |-> running[v]]
<1>t. running \in [Workers -> Jobs \cup {Nobody}] /\ GeneralWorkers \subseteq Workers
  BY DEF DecoderTypeOK, Workers
<1>1. CASE w \in GeneralWorkers
  <2>1. r[w] # Nobody /\ r' = [r EXCEPT ![w] = Nobody]
    BY <1>1, <1>t DEF Answer
  <2> QED BY <2>1, <1>1 DEF PoolStep, GeneralPool!Next, GeneralPool!Finish
<1>2. CASE w \notin GeneralWorkers
  <2>1. r' = r
    BY <1>2, <1>t DEF Answer
  <2> QED BY <2>1 DEF PoolStep, GeneralPool!vars
<1> QED BY <1>1, <1>2

(* A job is spawned behind the others.                                     *)
LEMMA PoolAccepts ==
  ASSUME DecoderTypeOK, NEW j \in Jobs, Accept(j), UNCHANGED running
  PROVE  PoolStep
<1> DEFINE q == queue[General]
           r == [v \in GeneralWorkers |-> running[v]]
<1>t. queue \in [Pools -> Seq(Jobs)] /\ General \in Pools /\ q \in Seq(Jobs)
  BY DEF DecoderTypeOK, Pools
<1>r. r' = r
  OBVIOUS
<1>1. CASE Route(j) = General
  <2>1. q' = Append(q, j)
    BY <1>1, <1>t DEF Accept
  <2> HIDE DEF q, r
  <2>2. /\ Len(q') > Len(q) /\ SubSeq(q', 1, Len(q)) = q
        /\ \A i \in (Len(q) + 1) .. Len(q') : q'[i] \in Jobs
    <3>1. \A i \in (Len(q) + 1) .. Len(q') : q'[i] \in Jobs
      BY <2>1, <1>t
    <3>2. Len(q') > Len(q) /\ SubSeq(q', 1, Len(q)) = q
      BY <2>1, <1>t
    <3> QED BY <3>1, <3>2
  <2> QED BY <2>2, <1>r DEF PoolStep, GeneralPool!Next, GeneralPool!Spawn, q, r
<1>2. CASE Route(j) # General
  <2>1. q' = q
    BY <1>2, <1>t, PoolFacts DEF Accept
  <2> QED BY <2>1, <1>r DEF PoolStep, GeneralPool!vars
<1> QED BY <1>1, <1>2

(* The copy of a picture is spawned when the pool is empty.                *)
LEMMA PoolCopies ==
  ASSUME JobInv, Pending = {}, NEW k \in 0 .. MaxUpdates, StartCopy(k)
  PROVE  PoolStep
<1> DEFINE q == queue[General]
           r == [v \in GeneralWorkers |-> running[v]]
<1>1. q = <<>> /\ q' \in Seq(Jobs) /\ q' # <<>> /\ r' = r
  <2>1. queue[General] = <<>> /\ queue'[General] \in Seq(Jobs) /\ queue'[General] # <<>>
    BY StartCopyJobs
  <2>2. UNCHANGED running
    BY DEF StartCopy
  <2> QED BY <2>1, <2>2
<1> HIDE DEF q, r
<1>2. /\ Len(q') > Len(q) /\ SubSeq(q', 1, Len(q)) = q
      /\ \A i \in (Len(q) + 1) .. Len(q') : q'[i] \in Jobs
  BY <1>1
<1> QED BY <1>1, <1>2 DEF PoolStep, GeneralPool!Next, GeneralPool!Spawn, q, r

-----------------------------------------------------------------------------
(* FramePipeline's invariant                                               *)

\* At most one update is between the reader and the view.
UpdateInv ==
  /\ Len(fb_updates) <= 1
  /\ fb_updates # <<>> <=> last_fb_update = "pending"
  /\ reader \in {"begin", "resizing", "sized", "rects"} => last_fb_update = "none"
  /\ reader = "returned" => fb_updates = <<>>
  /\ reader \in {"joining", "begin", "resizing", "sized", "rects"} => update > 0
  /\ reader = "resizing" => maybe_new_fb_size # NoSize
  /\ fb_updates = <<>> => updater = "idle"

\* The guards of the updater and the reader are those of what they do.
LockInv ==
  /\ updater = "copying" => <<Updater, "Reading">> \in held
  /\ updater = "swapping" => <<Updater, "Decoding">> \in held
  /\ \A g \in held :
       /\ g[1] = Updater =>
            \/ updater = "copying" /\ g[2] = "Reading"
            \/ updater = "swapping" /\ g[2] = "Decoding"
       /\ g[1] = Reader =>
            \/ reader = "resizing" /\ g[2] = "Resizing"
            \/ reader = "begin" /\ maybe_new_fb_size = NoSize /\ g[2] = "Reading"

\* Who is responsible for the jobs there are.
StageOf(j) ==
  IF j.kind = "copy"
  THEN updater = "copying" /\ fb_updates # <<>> /\ j.stamp = Current.stamp
  ELSE \/ reader = "rects" /\ j.stamp = update
       \/ /\ fb_updates # <<>> /\ updater \in {"idle", "decoding"}
          /\ j.stamp = Current.stamp
       \/ fb_updates = <<>> /\ reader = "returning"

StageInv == \A j \in Pending : StageOf(j)

\* The rectangle that is read next has no job, except one that resets a
\* stream of which nothing was compressed since.
NumberInv ==
  reader = "rects" =>
    \A j \in Pending :
      \/ j.number <= rects
      \/ /\ j.number = rects + 1 /\ j.kind = "reset"
         /\ j.stream \in Streams /\ sent[j.stream] = 0

\* How far a failure has got.
FailureInv ==
  /\ fb_updates # <<>> =>
       /\ failed \subseteq {Current.stamp}
       /\ updater \in {"idle", "decoding", "failed"} \/ failed = {}
  /\ reader = "rects" => failed \subseteq {update}
  /\ reader \in {"packet", "joining"} /\ last_fb_update \in {"none", "ok"}
       => failed = {}
  /\ reader \in {"begin", "resizing", "sized"} => failed = {}

\* Until the first rectangle of an update no pixel is meant to be of it.
GoalInv ==
  /\ resized <= update
  /\ \A c \in 1 .. MaxPixels :
       /\ goal[c] <= update
       /\ reader \in {"joining", "begin", "resizing", "sized"} => goal[c] < update

\* What is not drawn yet is in a job.  Data of a stream is a job of that stream
\* and a reset draws nothing.
Meant(j) ==
  /\ j.kind \in {"zlib", "reset"} => j.stream \in Streams
  /\ j.kind = "reset" => j.area = {}
Drawn(c) ==
  \/ pixel[c] \in {goal[c], Uninitialized}
  \/ pixel[c] \in Misplaced /\ goal[c] < resized
DrawInv ==
  /\ \A j \in Pending : \A c \in 1 .. MaxPixels :
       j.kind # "copy" /\ c \in j.area => goal[c] = j.stamp
  /\ \A j \in Pending : Meant(j)
  /\ failed = {} =>
       \A c \in 1 .. NoOfPixels(size) :
         Drawn(c) \/ \E j \in Pending : j.kind # "copy" /\ c \in j.area

\* What is not copied yet is in a job.
CopyInv ==
  updater = "copying" =>
    \A c \in 1 .. NoOfPixels(size) :
      frame[c] = pixel[c] \/ \E j \in Pending : c \in j.area

\* The position of a stream's inflater after what its thread runs and n more
\* jobs.
After(j) == IF j.kind = "reset" THEN 0 ELSE j.pos + 1
Reached(s, n) ==
  IF n = 0 THEN IF running[s] = Nobody THEN inflated[s] ELSE After(running[s])
  ELSE After(queue[s][n])

ChainInv ==
  \A s \in Streams :
    /\ running[s] # Nobody /\ running[s].kind = "zlib" => running[s].pos = inflated[s]
    /\ \A i \in DOMAIN queue[s] :
         queue[s][i].kind = "zlib" => queue[s][i].pos = Reached(s, i - 1)
    /\ Reached(s, Len(queue[s])) = sent[s]

ControlInv ==
  UpdateInv /\ LockInv /\ StageInv /\ NumberInv /\ FailureInv /\ GoalInv

IInv ==
  /\ TypeOK /\ JobInv /\ ControlInv
  /\ DrawInv /\ CopyInv /\ PictureIsFaithful /\ ChainInv

-----------------------------------------------------------------------------
(* The invariant holds in the initial states.                              *)
LEMMA InitInv == Init => IInv
<1> SUFFICES ASSUME Init PROVE IInv
  OBVIOUS
<1>1. JobInv /\ Pending = {}
  BY InitJobs DEF Init
<1>2. TypeOK
  <2>1. /\ view \in Seq({"size", "cursor", "frame"}) /\ Len(view) <= ViewCapacity
        /\ server \in Servers /\ rects \in 0 .. server.rects
    BY PipelineAssumption DEF PipelineAssumption, Init
  <2>2. goal \in [1 .. MaxPixels -> 0 .. MaxUpdates]
    BY DecoderAssumption DEF DecoderAssumption, Init, InitDecoder, Gray
  <2>3. update \in 0 .. MaxUpdates /\ resized \in 0 .. MaxUpdates /\ rects \in Nat /\ area \in Nat
    BY DecoderAssumption DEF DecoderAssumption, Init
  <2>4. sent \in [Streams -> Nat] /\ fb_updates \in Seq([stamp : 1 .. MaxUpdates, zero_copy : BOOLEAN])
    BY DEF Init
  <2>5. no_of_successive_full_updates \in Nat /\ acks \in Nat
    BY DEF Init
  <2>6. /\ zero_copy_mode \in BOOLEAN /\ requested \in BOOLEAN
        /\ last_fb_update \in {"none", "pending", "ok", "err"}
        /\ updater \in {"idle", "decoding", "failed", "copying", "swapping",
                        "publishing", "sending", "syncing", "done"}
        /\ reader \in {"packet", "joining", "begin", "resizing", "sized", "rects",
                       "returning", "dropping", "returned"}
        /\ maybe_new_fb_size \in Sizes \cup {NoSize}
    BY DEF Init
  <2> QED BY <1>1, <2>1, <2>2, <2>3, <2>4, <2>5, <2>6 DEF JobInv, TypeOK
<1>3. ControlInv
  <2>1. \A c \in 1 .. MaxPixels : goal[c] = 0
    BY DEF Init, InitDecoder, Gray
  <2> QED BY <1>1, <2>1
      DEF Init, InitDecoder, ControlInv, UpdateInv, LockInv, StageInv, NumberInv,
          FailureInv, GoalInv
<1>4. DrawInv
  <2>1. \A c \in 1 .. MaxPixels : pixel[c] = goal[c]
    BY DEF Init, InitDecoder
  <2>2. 1 .. NoOfPixels(size) \subseteq 1 .. MaxPixels
    BY MaxPixelsIsMax DEF Init, InitDecoder
  <2> QED BY <1>1, <2>1, <2>2 DEF DrawInv, Drawn
<1>5. CopyInv /\ PictureIsFaithful
  BY DEF Init, CopyInv, PictureIsFaithful, Publishing
<1>6. ChainInv
  <2>1. \A s \in Streams : /\ queue[s] = <<>> /\ DOMAIN queue[s] = {} /\ Len(queue[s]) = 0
                           /\ running[s] = Nobody /\ inflated[s] = 0 /\ sent[s] = 0
    BY DEF Init, InitDecoder, Workers, Pools
  <2> QED BY <2>1 DEF ChainInv, Reached
<1> QED BY <1>1, <1>2, <1>3, <1>4, <1>5, <1>6 DEF IInv

(* What a step may leave to the other conjuncts: it moves no job, no pixel *)
(* and no picture.                                                         *)
LEMMA QuietStep ==
  ASSUME IInv, TypeOK', ControlInv', GuardInv',
         UNCHANGED <<queue, running, unanswered, failed, size, pixel, frame,
                     inflated, goal, resized, sent>>,
         updater' = "copying" => updater = "copying", Publishing' => Publishing
  PROVE  IInv'
<1>1. JobInv' /\ Pending' = Pending
  BY SameJobs DEF IInv, TypeOK
<1>2. DrawInv'
  BY <1>1 DEF IInv, DrawInv, Drawn
<1>3. CopyInv'
  BY <1>1 DEF IInv, CopyInv
<1>4. PictureIsFaithful'
  BY DEF IInv, PictureIsFaithful, Fresh
<1>5. ChainInv'
  BY DEF IInv, ChainInv, Reached
<1> QED BY <1>1, <1>2, <1>3, <1>4, <1>5 DEF IInv

-----------------------------------------------------------------------------
(* The reader                                                              *)

(* While no Future of an update is pending, none is under way.             *)
LEMMA NoUpdate ==
  ASSUME IInv, last_fb_update # "pending"
  PROVE  fb_updates = <<>> /\ updater = "idle"
  BY DEF IInv, ControlInv, UpdateInv

(* Between two updates nothing is pending: jobs belong to the rectangles   *)
(* that are read, to an update, or to a connection that has ended.         *)
LEMMA NoJobs ==
  ASSUME IInv, fb_updates = <<>>, reader \notin {"rects", "returning"}
  PROVE  /\ Pending = {} /\ Drained
         /\ \A g \in held : g[1] = Reader
         /\ reader \notin {"begin", "resizing"} => held = {}
<1>1. updater = "idle"
  BY DEF IInv, ControlInv, UpdateInv
<1>2. Pending = {}
  BY <1>1 DEF IInv, ControlInv, StageInv, StageOf
<1>3. \A g \in held : g[1] \in {Updater, Reader}
  BY <1>2, NothingPending DEF IInv
<1>4. \A g \in held : g[1] = Reader
  BY <1>1, <1>3 DEF IInv, ControlInv, LockInv
<1> QED BY <1>2, <1>4, NothingPending DEF IInv, ControlInv, LockInv

(* The steps of the reader that neither draw, resize nor lock.             *)
LEMMA ReaderQuiet ==
  ASSUME IInv, UNCHANGED server,
         \/ ReceiveUpdate \/ JoinLastUpdate \/ AnnounceSize \/ BeginRects
         \/ ConnectionFails \/ DropDecoder \/ Return
         \/ \E new \in Sizes : AcceptSize(new)
  PROVE  IInv'
<1>d. /\ UNCHANGED <<queue, running, unanswered, failed, held, size, pixel, frame,
                     inflated, cursor>>
      /\ UNCHANGED <<fb_updates, updater, acks, sent, goal, resized>>
      /\ UNCHANGED <<no_of_successive_full_updates, zero_copy_mode, requested>>
  BY DEF ReceiveUpdate, JoinLastUpdate, AnnounceSize, BeginRects, ConnectionFails,
         DropDecoder, Return, AcceptSize, AcceptUnchanged, decoderVars
<1>p. Pending' = Pending
  BY <1>d DEF Pending, QueuedIn
<1>t. DecoderTypeOK' /\ server' \in Servers /\ server.rects \in Nat
  BY <1>d, PipelineAssumption DEF PipelineAssumption, IInv, TypeOK, DecoderTypeOK, FbLock!TypeOK
<1>1. TypeOK'
  <2>1. CASE ReceiveUpdate
    BY <2>1, <1>d, <1>t, DecoderAssumption DEF DecoderAssumption, ReceiveUpdate, IInv, TypeOK
  <2>2. CASE JoinLastUpdate
    BY <2>2, <1>d, <1>t DEF JoinLastUpdate, IInv, TypeOK
  <2>3. CASE BeginRects
    BY <2>3, <1>d, <1>t DEF BeginRects, IInv, TypeOK
  <2>4. CASE ConnectionFails \/ DropDecoder \/ Return
    BY <2>4, <1>d, <1>t DEF ConnectionFails, DropDecoder, Return, IInv, TypeOK
  <2>5. ASSUME NEW new \in Sizes, AcceptSize(new) PROVE TypeOK'
    <3>1. NoOfPixels(new) \in Nat
      BY Numbers
    <3>2. area' \in Nat /\ rects' \in 0 .. server.rects
      BY <2>5, <3>1, <1>t DEF AcceptSize, ReadingRect, IInv, TypeOK
    <3> QED BY <2>5, <3>2, <1>d, <1>t DEF AcceptSize, AcceptUnchanged, IInv, TypeOK
  <2>6. CASE AnnounceSize
    <3>1. /\ view \in Seq({"size", "cursor", "frame"}) /\ Len(view) < ViewCapacity
          /\ ViewCapacity \in Nat
      BY <2>6, PipelineAssumption
      DEF PipelineAssumption, AnnounceSize, IInv, TypeOK, ViewHasRoom
    <3>2. view' \in Seq({"size", "cursor", "frame"}) /\ Len(view') <= ViewCapacity
      BY <2>6, <3>1 DEF AnnounceSize
    <3> QED BY <2>6, <3>2, <1>d, <1>t DEF AnnounceSize, IInv, TypeOK
  <2> QED BY <2>1, <2>2, <2>3, <2>4, <2>5, <2>6
<1>2. ControlInv'
  <2> USE DEF ControlInv, UpdateInv, LockInv, StageInv, StageOf, NumberInv, FailureInv,
              GoalInv, Current
  <2>u. update \in Nat /\ \A c \in 1 .. MaxPixels : goal[c] \in Nat
    BY DecoderAssumption DEF DecoderAssumption, IInv, TypeOK
  <2>1. CASE ReceiveUpdate
    <3>1. update' > 0 /\ update' = update + 1 /\ reader = "packet" /\ reader' = "joining"
          /\ UNCHANGED <<last_fb_update, rects, maybe_new_fb_size>>
      BY <2>1, <2>u DEF ReceiveUpdate
    <3>2. resized' <= update' /\ \A c \in 1 .. MaxPixels : goal'[c] < update'
      BY <3>1, <2>u, <1>d, DecoderAssumption DEF DecoderAssumption, IInv, TypeOK
    <3>3. GoalInv'
      BY <3>1, <3>2, <2>u, <1>d
    <3> QED BY <3>1, <3>3, <1>d, <1>p DEF IInv
  <2>2. CASE JoinLastUpdate
    <3>1. /\ reader = "joining" /\ reader' \in {"begin", "returning"}
          /\ reader' = "begin" => last_fb_update # "err"
          /\ last_fb_update # "pending" /\ last_fb_update' = "none"
          /\ UNCHANGED <<update, rects, maybe_new_fb_size>>
      BY <2>2 DEF JoinLastUpdate
    <3>2. fb_updates = <<>> /\ updater = "idle"
      BY <3>1, NoUpdate
    <3>3. Pending = {} /\ held = {}
      BY <3>1, <3>2, NoJobs
    <3>4. reader' = "begin" => failed = {}
      BY <3>1 DEF IInv, TypeOK
    <3> QED BY <3>1, <3>2, <3>3, <3>4, <1>d, <1>p DEF IInv
  <2>3. CASE BeginRects
    <3>1. /\ reader = "sized" /\ reader' = "rects"
          /\ UNCHANGED <<update, last_fb_update, maybe_new_fb_size>>
      BY <2>3 DEF BeginRects
    <3>2. last_fb_update = "none" /\ fb_updates = <<>> /\ updater = "idle" /\ failed = {}
      BY <3>1 DEF IInv
    <3>3. Pending = {} /\ held = {}
      BY <3>1, <3>2, NoJobs
    <3> QED BY <3>1, <3>2, <3>3, <1>d, <1>p DEF IInv
  <2>4. CASE ConnectionFails
    BY <2>4, <1>d, <1>p DEF ConnectionFails, IInv
  <2>5. CASE DropDecoder
    <3>1. fb_updates = <<>> => Pending = {}
      BY <2>5, PendingMeans DEF DropDecoder, Drained
    <3> QED BY <2>5, <3>1, <1>d, <1>p DEF DropDecoder, IInv
  <2>6. CASE Return
    BY <2>6, <1>d, <1>p, NoJobs DEF Return, IInv
  <2>7. ASSUME NEW new \in Sizes, AcceptSize(new) PROVE ControlInv'
    <3>1. rects \in Nat /\ rects' = rects + 1 /\ reader' = reader /\ update' = update
          /\ last_fb_update' = last_fb_update /\ reader = "rects"
      BY <2>7, <1>t DEF AcceptSize, AcceptUnchanged, ReadingRect, IInv, TypeOK
    <3>2. \A j \in Pending : j.number \in Nat
      BY DEF IInv, JobInv, FuturesMatchJobs, DecoderTypeOK, Jobs
    <3> QED BY <3>1, <3>2, <1>d, <1>p DEF IInv
  <2>8. CASE AnnounceSize
    <3>1. /\ reader = "begin" /\ reader' = "resizing" /\ maybe_new_fb_size # NoSize
          /\ UNCHANGED <<update, last_fb_update, maybe_new_fb_size, rects>>
      BY <2>8 DEF AnnounceSize
    <3>2. fb_updates = <<>> /\ updater = "idle" /\ last_fb_update = "none"
      BY <3>1 DEF IInv
    <3>3. Pending = {} /\ held = {}
      BY <3>1, <3>2, NoJobs DEF IInv
    <3> QED BY <3>1, <3>2, <3>3, <1>d, <1>p DEF IInv
  <2> QED BY <2>1, <2>2, <2>3, <2>4, <2>5, <2>6, <2>7, <2>8
<1>3. GuardInv'
  BY <1>d DEF IInv, JobInv, GuardInv
<1> QED BY <1>1, <1>2, <1>3, <1>d, QuietStep DEF Publishing

(* The reader locks the framebuffer, and drops its guard when it knows the *)
(* size.                                                                   *)
LEMMA ReaderLocks ==
  ASSUME IInv, UNCHANGED server, LockReader \/ FbSizeRead
  PROVE  IInv'
<1>d. /\ UNCHANGED <<queue, running, unanswered, failed, size, pixel, frame,
                     inflated, cursor>>
      /\ UNCHANGED <<fb_updates, updater, view, acks, sent, goal, resized>>
      /\ UNCHANGED <<no_of_successive_full_updates, zero_copy_mode, requested>>
      /\ UNCHANGED <<update, rects, area, maybe_new_fb_size, last_fb_update>>
      /\ reader' = reader \/ (reader = "begin" /\ reader' = "sized")
  <2>1. CASE LockReader
    BY <2>1 DEF LockReader, pipelineVars
  <2>2. CASE FbSizeRead
    BY <2>2 DEF FbSizeRead
  <2> QED BY <2>1, <2>2
<1>h. \/ /\ LockReader /\ reader \in {"resizing", "begin"} /\ reader' = reader
         /\ held' = held \cup {<<Reader, IF reader = "resizing" THEN "Resizing"
                                         ELSE "Reading">>}
         /\ reader = "begin" => maybe_new_fb_size = NoSize
      \/ FbSizeRead /\ reader = "begin" /\ reader' = "sized"
         /\ held' = held \ {<<Reader, "Reading">>}
  BY DEF LockReader, FbSizeRead, FbLock!Acquire, FbLock!Release, pipelineVars
<1>p. Pending' = Pending
  BY <1>d DEF Pending, QueuedIn
<1>1. TypeOK'
  <2>1. held' \subseteq (Workers \cup {Updater, Reader}) \X {"Decoding", "Resizing", "Reading"}
    BY <1>h DEF IInv, TypeOK, DecoderTypeOK, FbLock!TypeOK
  <2>2. DecoderTypeOK'
    BY <2>1, <1>d DEF IInv, TypeOK, DecoderTypeOK, FbLock!TypeOK
  <2> QED BY <2>2, <1>d DEF IInv, TypeOK
<1>2. LockInv'
  <2>1. updater = "idle" /\ fb_updates = <<>>
    BY <1>h DEF IInv, ControlInv, UpdateInv
  <2>2. \A g \in held : g[1] = Reader
    BY <2>1, <1>h, NoJobs
  <2>3. CASE LockReader
    <3>1. held = {}
      BY <2>2, <2>3 DEF LockReader, FbLock!Acquire
    <3>2. CASE reader = "resizing"
      <4>1. held' = {<<Reader, "Resizing">>} /\ reader' = "resizing"
        BY <2>3, <3>1, <3>2 DEF LockReader, FbLock!Acquire, pipelineVars
      <4> QED BY <4>1, <2>1, <1>d, DecoderAssumption DEF DecoderAssumption, LockInv
    <3>3. CASE reader = "begin"
      <4>1. /\ held' = {<<Reader, "Reading">>} /\ reader' = "begin"
            /\ maybe_new_fb_size = NoSize
        BY <2>3, <3>1, <3>3 DEF LockReader, FbLock!Acquire, pipelineVars
      <4> QED BY <4>1, <2>1, <1>d, DecoderAssumption DEF DecoderAssumption, LockInv
    <3> QED BY <2>3, <3>2, <3>3 DEF LockReader
  <2>4. CASE FbSizeRead
    <3>1. \A g \in held : g = <<Reader, "Reading">>
      BY <2>2, <2>4, <1>h DEF FbSizeRead, IInv, ControlInv, LockInv, TypeOK, DecoderTypeOK,
         FbLock!TypeOK
    <3>2. held' = {}
      BY <2>4, <3>1 DEF FbSizeRead, FbLock!Release
    <3> QED BY <3>2, <2>1, <1>d DEF LockInv
  <2> QED BY <2>3, <2>4, <1>h
<1>3. ControlInv'
  BY <1>2, <1>d, <1>h, <1>p
  DEF IInv, ControlInv, UpdateInv, StageInv, StageOf, NumberInv, FailureInv, GoalInv, Current
<1>4. GuardInv'
  BY <1>d, <1>h DEF IInv, JobInv, GuardInv
<1> QED BY <1>1, <1>3, <1>4, <1>d, QuietStep DEF Publishing

(* The updater gets the job of an update that was read.                    *)
LEMMA EndUpdateInv ==
  ASSUME IInv, UNCHANGED server, EndUpdate
  PROVE  IInv'
<1>1. PICK zero \in BOOLEAN :
        fb_updates' = Append(fb_updates, [stamp |-> update, zero_copy |-> zero])
        /\ zero_copy_mode' = zero
  BY Zenon DEF EndUpdate
<1>2. /\ reader = "rects" /\ reader' = "packet" /\ last_fb_update' = "pending"
      /\ UNCHANGED <<queue, running, unanswered, failed, held, size, pixel, frame,
                     inflated, cursor>>
      /\ UNCHANGED <<update, rects, area, maybe_new_fb_size, updater, view, acks,
                     sent, goal, resized>>
  BY DEF EndUpdate, decoderVars
<1>3. requested' \in BOOLEAN /\ no_of_successive_full_updates' \in Nat
  <2>1. requested' \in BOOLEAN
    BY Zenon DEF EndUpdate
  <2>2. no_of_successive_full_updates' \in Nat
    BY DEF EndUpdate, IInv, TypeOK
  <2> QED BY <2>1, <2>2
<1>4. /\ fb_updates = <<>> /\ updater = "idle" /\ last_fb_update = "none"
      /\ update \in 1 .. MaxUpdates /\ failed \subseteq {update}
  BY <1>2, DecoderAssumption DEF DecoderAssumption, IInv, TypeOK, ControlInv, UpdateInv, FailureInv
<1> DEFINE job == [stamp |-> update, zero_copy |-> zero]
<1>5. job \in [stamp : 1 .. MaxUpdates, zero_copy : BOOLEAN] /\ job.stamp = update
  BY <1>4
<1> HIDE DEF job
<1>6. /\ fb_updates' = <<job>> /\ fb_updates' # <<>> /\ Len(fb_updates') = 1
      /\ Head(fb_updates') = job
      /\ fb_updates' \in Seq([stamp : 1 .. MaxUpdates, zero_copy : BOOLEAN])
  <2>1. fb_updates' = Append(<<>>, job)
    BY <1>1, <1>4 DEF job
  <2> QED BY <2>1, <1>5
<1>7. TypeOK'
  BY <1>1, <1>2, <1>3, <1>6 DEF IInv, TypeOK, DecoderTypeOK, FbLock!TypeOK
<1>p. Pending' = Pending
  BY <1>2 DEF Pending, QueuedIn
<1>8. ControlInv'
  BY <1>2, <1>4, <1>5, <1>6, <1>p
  DEF IInv, ControlInv, UpdateInv, LockInv, StageInv, StageOf, NumberInv, FailureInv,
      GoalInv, Current
<1>9. GuardInv'
  BY <1>2 DEF IInv, JobInv, GuardInv
<1> QED BY <1>2, <1>7, <1>8, <1>9, QuietStep DEF Publishing

-----------------------------------------------------------------------------
(* The updater and the view                                                *)

(* The updater waited for all Futures of its update: nothing is pending.   *)
LEMMA AllDone ==
  ASSUME IInv, updater = "decoding", AllDecoded(Current.stamp)
  PROVE  /\ Pending = {} /\ fb_updates # <<>> /\ reader # "rects"
         /\ failed \subseteq {Current.stamp}
<1>1. fb_updates # <<>> /\ reader # "rects" /\ failed \subseteq {Current.stamp}
  BY DEF IInv, ControlInv, UpdateInv, FailureInv
<1>2. \A j \in Pending : j.kind = "copy" \/ j.stamp # Current.stamp
  BY DEF IInv, JobInv, FuturesMatchJobs, AllDecoded
<1>3. Pending = {}
  BY <1>1, <1>2 DEF IInv, ControlInv, StageInv, StageOf
<1> QED BY <1>1, <1>3

(* After that its update has no job again but those of its own copy.       *)
LEMMA UpdaterAlone ==
  ASSUME IInv, updater \notin {"idle", "decoding", "copying"}
  PROVE  /\ Pending = {} /\ fb_updates # <<>>
         /\ reader \notin {"begin", "resizing", "sized", "rects", "returned"}
<1>1. /\ fb_updates # <<>>
      /\ reader \notin {"begin", "resizing", "sized", "rects", "returned"}
  BY DEF IInv, ControlInv, UpdateInv
<1> QED BY <1>1 DEF IInv, ControlInv, StageInv, StageOf

(* The steps of the updater that move no pixel, and the main thread.       *)
LEMMA UpdaterQuiet ==
  ASSUME IInv, UNCHANGED server,
         \/ StartUpdateJob \/ DecodingFailed \/ PublishCursor \/ PublishFrame
         \/ Synced \/ EndUpdateJob \/ ShowEvent
  PROVE  IInv'
<1>d. /\ UNCHANGED <<queue, running, unanswered, failed, held, size, pixel, frame,
                     inflated>>
      /\ UNCHANGED <<reader, update, rects, area, maybe_new_fb_size,
                     no_of_successive_full_updates, zero_copy_mode, sent, goal, resized,
                     requested>>
  BY DEF StartUpdateJob, DecodingFailed, PublishCursor, PublishFrame, Synced,
         EndUpdateJob, ShowEvent, UpdaterUnchanged, decoderVars
<1>p. Pending' = Pending
  BY <1>d DEF Pending, QueuedIn
<1>g. GuardInv'
  BY <1>d DEF IInv, JobInv, GuardInv
<1>c. cursor' \in [changed : BOOLEAN, locked : BOOLEAN]
  BY DEF StartUpdateJob, DecodingFailed, PublishCursor, PublishFrame, Synced,
         EndUpdateJob, ShowEvent, decoderVars, IInv, TypeOK, DecoderTypeOK
<1>t. DecoderTypeOK'
  BY <1>d, <1>c DEF IInv, TypeOK, DecoderTypeOK, FbLock!TypeOK
<1>v. /\ view' \in Seq({"size", "cursor", "frame"}) /\ Len(view') <= ViewCapacity
      /\ acks' \in Nat
  <2>0. /\ view \in Seq({"size", "cursor", "frame"}) /\ Len(view) <= ViewCapacity
        /\ acks \in Nat /\ ViewCapacity \in Nat
    BY PipelineAssumption DEF PipelineAssumption, IInv, TypeOK
  <2>1. CASE UNCHANGED <<view, acks>>
    BY <2>0, <2>1
  <2>2. ASSUME NEW e \in {"cursor", "frame"}, Len(view) < ViewCapacity,
               view' = Append(view, e), UNCHANGED acks
        PROVE  /\ view' \in Seq({"size", "cursor", "frame"}) /\ Len(view') <= ViewCapacity
               /\ acks' \in Nat
    BY <2>0, <2>2
  <2>3. CASE Synced
    BY <2>0, <2>3 DEF Synced
  <2>4. CASE ShowEvent
    BY <2>0, <2>4 DEF ShowEvent
  <2>5. CASE PublishCursor
    BY <2>1, <2>2, <2>5 DEF PublishCursor, ViewHasRoom
  <2>6. CASE PublishFrame
    BY <2>1, <2>2, <2>6 DEF PublishFrame, ViewHasRoom
  <2>7. CASE StartUpdateJob \/ DecodingFailed \/ EndUpdateJob
    BY <2>1, <2>7 DEF StartUpdateJob, DecodingFailed, EndUpdateJob
  <2> QED BY <2>3, <2>4, <2>5, <2>6, <2>7
<1>1. CASE StartUpdateJob \/ PublishCursor \/ PublishFrame \/ Synced \/ ShowEvent
  <2>1. /\ UNCHANGED <<last_fb_update, fb_updates>>
        /\ updater' \in {"decoding", "sending", "syncing", "done", updater}
        /\ updater' # updater =>
             IF updater' = "decoding" THEN updater = "idle" /\ fb_updates # <<>>
             ELSE updater \in {"publishing", "sending", "syncing"}
        /\ updater' = "sending" => updater \in {"publishing", "sending"}
    BY <1>1 DEF StartUpdateJob, PublishCursor, PublishFrame, Synced, ShowEvent
  <2>2. TypeOK'
    BY <2>1, <1>d, <1>t, <1>v DEF IInv, TypeOK
  <2>3. updater \in {"publishing", "sending", "syncing"} => Pending = {}
    BY UpdaterAlone
  <2>4. ControlInv'
    BY <2>1, <2>3, <1>d, <1>p
    DEF IInv, ControlInv, UpdateInv, LockInv, StageInv, StageOf, NumberInv, FailureInv,
        GoalInv, Current
  <2> QED BY <2>1, <2>2, <2>4, <1>d, <1>g, QuietStep DEF Publishing
<1>2. CASE DecodingFailed
  <2>1. /\ updater = "decoding" /\ updater' = "failed"
        /\ UNCHANGED <<last_fb_update, fb_updates>>
        /\ AllDecoded(Current.stamp)
    BY <1>2 DEF DecodingFailed
  <2>2. TypeOK'
    BY <2>1, <1>d, <1>t, <1>v DEF IInv, TypeOK
  <2>3. ControlInv'
    BY <2>1, <1>d, <1>p, AllDone
    DEF IInv, ControlInv, UpdateInv, LockInv, StageInv, StageOf, NumberInv, FailureInv,
        GoalInv, Current
  <2> QED BY <2>1, <2>2, <2>3, <1>d, <1>g, QuietStep DEF Publishing
<1>3. CASE EndUpdateJob
  <2>1. /\ updater \in {"done", "failed"} /\ updater' = "idle"
        /\ last_fb_update' = IF updater = "done" THEN "ok" ELSE "err"
        /\ fb_updates' = Tail(fb_updates)
    BY <1>3 DEF EndUpdateJob
  <2>2. /\ Pending = {} /\ fb_updates # <<>>
        /\ reader \notin {"begin", "resizing", "sized", "rects", "returned"}
    BY <2>1, UpdaterAlone
  <2>3. /\ fb_updates \in Seq([stamp : 1 .. MaxUpdates, zero_copy : BOOLEAN])
        /\ Len(fb_updates) <= 1
    BY DEF IInv, TypeOK, ControlInv, UpdateInv
  <2>4. /\ Tail(fb_updates) = <<>>
        /\ Tail(fb_updates) \in Seq([stamp : 1 .. MaxUpdates, zero_copy : BOOLEAN])
    BY <2>2, <2>3
  <2>5. TypeOK'
    BY <2>1, <2>4, <1>d, <1>t, <1>v DEF IInv, TypeOK
  <2>6. updater = "done" => failed = {}
    BY <2>2 DEF IInv, ControlInv, FailureInv
  <2>7. ControlInv'
    BY <2>1, <2>2, <2>4, <2>6, <1>d, <1>p
    DEF IInv, ControlInv, UpdateInv, LockInv, StageInv, StageOf, NumberInv, FailureInv,
        GoalInv, Current
  <2> QED BY <2>1, <2>5, <2>7, <1>d, <1>g, QuietStep DEF Publishing
<1> QED BY <1>1, <1>2, <1>3

-----------------------------------------------------------------------------
(* The reader draws and resizes                                            *)

(* The column and the row of pixel c in rows of w pixels.                  *)
LEMMA RowFacts ==
  ASSUME NEW w \in Nat, NEW h \in Nat, NEW c \in Nat, c >= 1, w > 0
  PROVE  /\ (c - 1) % w \in Nat /\ (c - 1) \div w \in Nat /\ (c - 1) % w < w
         /\ ((c - 1) \div w) * w + ((c - 1) % w) + 1 = c
         /\ (c - 1) \div w < h <=> c <= w * h
         /\ c <= w => (c - 1) % w = c - 1 /\ (c - 1) \div w = 0
<1> DEFINE x == (c - 1) % w
           y == (c - 1) \div w
<1>1. x \in Nat /\ y \in Nat /\ x < w /\ w * y + x = c - 1
  OBVIOUS
<1> HIDE DEF x, y
<1>2. y * w = w * y /\ y * w \in Nat /\ w * h \in Nat
  BY <1>1
<1>3. y < h => c <= w * h
  <2> SUFFICES ASSUME y < h PROVE c <= w * h
    OBVIOUS
  <2>1. h - y - 1 \in Nat
    BY <1>1
  <2>2. w * (h - y - 1) \in Nat
    BY <2>1
  <2>3. w * (h - y - 1) = w * h - w * y - w
    BY <1>1
  <2> QED BY <2>2, <2>3, <1>1, <1>2
<1>4. ~ (y < h) => ~ (c <= w * h)
  <2> SUFFICES ASSUME ~ (y < h) PROVE c > w * h
    BY <1>2
  <2>1. y - h \in Nat
    BY <1>1
  <2>2. w * (y - h) \in Nat
    BY <2>1
  <2>3. w * (y - h) = w * y - w * h
    BY <1>1
  <2> QED BY <2>2, <2>3, <1>1, <1>2
<1>5. c <= w => x = c - 1 /\ y = 0
  <2> SUFFICES ASSUME c <= w PROVE x = c - 1 /\ y = 0
    OBVIOUS
  <2>1. y = 0
    <3>1. SUFFICES ASSUME y >= 1 PROVE FALSE
      BY <1>1
    <3>2. y - 1 \in Nat
      BY <3>1, <1>1
    <3>3. w * (y - 1) \in Nat
      BY <3>2
    <3>4. w * (y - 1) = w * y - w
      BY <1>1
    <3> QED BY <3>3, <3>4, <1>1, <1>2
  <2> QED BY <2>1, <1>1
<1>6. y * w + x + 1 = c
  BY <1>1, <1>2
<1>7. /\ x \in Nat /\ y \in Nat /\ x < w
      /\ y * w + x + 1 = c
      /\ y < h <=> c <= w * h
      /\ c <= w => x = c - 1 /\ y = 0
  BY <1>1, <1>3, <1>4, <1>5, <1>6, Zenon
<1> QED BY <1>7, Zenon DEF x, y

(* Column x and row y are a pixel of the picture.                          *)
LEMMA PlaceInRange ==
  ASSUME NEW w \in Nat, NEW h \in Nat, NEW x \in Nat, NEW y \in Nat, x < w, y < h
  PROVE  y * w + x + 1 \in 1 .. w * h
<1>1. h - y - 1 \in Nat
  OBVIOUS
<1>2. w * (h - y - 1) \in Nat
  BY <1>1
<1>3. w * (h - y - 1) = w * h - w * y - w
  OBVIOUS
<1>4. w * y \in Nat /\ w * h \in Nat /\ y * w = w * y
  OBVIOUS
<1> QED BY <1>2, <1>3, <1>4

(* A size has a width and a height.                                        *)
LEMMA SizeFacts ==
  ASSUME NEW s \in Sizes
  PROVE  s[1] \in Nat /\ s[2] \in Nat /\ NoOfPixels(s) = s[1] * s[2]
  BY DecoderAssumption DEF DecoderAssumption, NoOfPixels

(* What a resized picture means: an update drew each pixel, or nobody did; *)
(* a pixel that the client leaves in its place keeps its meaning; and new  *)
(* rows are gray.                                                          *)
LEMMA KeptPixels ==
  ASSUME TypeOK, NEW new \in Sizes, NEW c \in 1 .. MaxPixels
  PROVE  /\ KeptInPlace(new)[c] = Gray
            \/ \E d \in 1 .. MaxPixels : KeptInPlace(new)[c] = goal[d]
         /\ c <= NoOfPixels(size) /\ c <= NoOfPixels(new) /\ InPlace(c, new)
              => KeptInPlace(new)[c] = goal[c]
         /\ c > NoOfPixels(size) /\ new[1] = size[1] => KeptInPlace(new)[c] = Gray
<1> DEFINE x == (c - 1) % new[1]
           y == (c - 1) \div new[1]
           old == c <= NoOfPixels(new) /\ x < size[1] /\ y < size[2]
<1>1. /\ size \in Sizes /\ MaxPixels \in Nat /\ c \in Nat /\ c >= 1
      /\ goal \in [1 .. MaxPixels -> 0 .. MaxUpdates]
      /\ NoOfPixels(size) <= MaxPixels /\ NoOfPixels(size) \in Nat
  BY MaxPixelsIsMax DEF TypeOK, DecoderTypeOK
<1>2. /\ new[1] \in Nat /\ new[2] \in Nat /\ NoOfPixels(new) = new[1] * new[2]
      /\ size[1] \in Nat /\ size[2] \in Nat /\ NoOfPixels(size) = size[1] * size[2]
  BY <1>1, SizeFacts
<1>3. KeptInPlace(new)[c] = IF old THEN goal[y * size[1] + x + 1] ELSE Gray
  BY <1>1 DEF KeptInPlace
<1>4. c <= NoOfPixels(new) => new[1] > 0
  BY <1>1, <1>2
<1>5. ASSUME c <= NoOfPixels(new)
      PROVE  /\ x \in Nat /\ y \in Nat /\ x < new[1]
             /\ y * new[1] + x + 1 = c
             /\ y < size[2] <=> c <= new[1] * size[2]
             /\ c <= new[1] => x = c - 1 /\ y = 0
  <2>1. new[1] \in Nat /\ size[2] \in Nat /\ c \in Nat /\ c >= 1 /\ new[1] > 0
    BY <1>1, <1>2, <1>4, <1>5
  <2> QED BY <2>1, RowFacts, Zenon
<1> HIDE DEF x, y
<1>6. old => y * size[1] + x + 1 \in 1 .. MaxPixels
  <2> SUFFICES ASSUME old PROVE y * size[1] + x + 1 \in 1 .. MaxPixels
    OBVIOUS
  <2>1. y * size[1] + x + 1 \in 1 .. size[1] * size[2]
    BY <1>2, <1>5, PlaceInRange
  <2> QED BY <2>1, <1>1, <1>2
<1>7. ASSUME c <= NoOfPixels(size), c <= NoOfPixels(new), InPlace(c, new)
      PROVE  KeptInPlace(new)[c] = goal[c]
  <2>1. CASE new[1] = size[1]
    <3>1. x < size[1] /\ y * size[1] + x + 1 = c
      BY <2>1, <1>5, <1>7
    <3>2. y < size[2]
      BY <2>1, <1>2, <1>5, <1>7
    <3> QED BY <3>1, <3>2, <1>3, <1>7
  <2>2. CASE c <= size[1] /\ c <= new[1]
    <3>1. x = c - 1 /\ y = 0 /\ y * size[1] = 0
      BY <2>2, <1>2, <1>5, <1>7
    <3>2. size[2] > 0
      BY <1>1, <1>2, <1>7
    <3>3. x < size[1] /\ y < size[2] /\ y * size[1] + x + 1 = c
      BY <3>1, <3>2, <2>2, <1>1, <1>2
    <3> QED BY <3>3, <1>3, <1>7
  <2> QED BY <2>1, <2>2, <1>7 DEF InPlace
<1>8. ASSUME c > NoOfPixels(size), new[1] = size[1] PROVE KeptInPlace(new)[c] = Gray
  <2>1. c <= NoOfPixels(new) => ~ (y < size[2])
    BY <1>1, <1>2, <1>5, <1>8
  <2> QED BY <2>1, <1>3
<1> QED BY <1>3, <1>6, <1>7, <1>8

(* The client's picture after a resize is the one that is meant, but for   *)
(* pixels that are not in their place.                                     *)
LEMMA ResizeFbInv ==
  ASSUME IInv, UNCHANGED server, ResizeFb
  PROVE  IInv'
<1>1. /\ reader = "resizing" /\ reader' = "begin"
      /\ <<Reader, "Resizing">> \in held /\ held' = held \ {<<Reader, "Resizing">>}
      /\ size' = maybe_new_fb_size
      /\ pixel' = Resized(pixel, size') /\ goal' = KeptInPlace(size')
      /\ resized' = IF size'[1] = size[1] THEN resized ELSE update
      /\ maybe_new_fb_size' = NoSize
      /\ UNCHANGED <<queue, running, unanswered, failed, frame, inflated,
                     cursor, update, rects, area>>
      /\ UNCHANGED <<no_of_successive_full_updates, zero_copy_mode, last_fb_update,
                     fb_updates, updater, view, acks, sent, requested>>
  BY DEF ResizeFb, FbLock!Release
<1>2. /\ fb_updates = <<>> /\ updater = "idle" /\ Pending = {} /\ failed = {}
      /\ \A g \in held : g[1] = Reader /\ g[2] = "Resizing"
      /\ last_fb_update = "none" /\ update > 0
  <2>1. last_fb_update = "none" /\ failed = {} /\ update > 0
    BY <1>1 DEF IInv, ControlInv, UpdateInv, FailureInv
  <2>2. fb_updates = <<>> /\ updater = "idle" /\ Pending = {} /\ \A g \in held : g[1] = Reader
    BY <2>1, <1>1, NoUpdate, NoJobs
  <2> QED BY <2>1, <2>2, <1>1 DEF IInv, ControlInv, LockInv
<1>h. held' = {}
  <2>1. \A g \in held : g = <<Reader, "Resizing">>
    BY <1>2 DEF IInv, TypeOK, DecoderTypeOK, FbLock!TypeOK
  <2> QED BY <2>1, <1>1
<1>3. size \in Sizes /\ size' \in Sizes
  BY <1>1 DEF IInv, TypeOK, DecoderTypeOK, ControlInv, UpdateInv
<1>4. /\ pixel \in [1 .. MaxPixels -> Contents] /\ pixel' \in [1 .. MaxPixels -> Contents]
      /\ goal \in [1 .. MaxPixels -> 0 .. MaxUpdates]
      /\ resized \in Nat /\ update \in Nat /\ MaxUpdates \in Nat
      /\ \A c \in 1 .. MaxPixels : goal[c] \in Nat
      /\ update \in 0 .. MaxUpdates
  <2>1. /\ pixel \in [1 .. MaxPixels -> Contents]
        /\ goal \in [1 .. MaxPixels -> 0 .. MaxUpdates]
        /\ resized \in 0 .. MaxUpdates /\ update \in 0 .. MaxUpdates /\ MaxUpdates \in Nat
    BY DecoderAssumption DEF DecoderAssumption, IInv, TypeOK, DecoderTypeOK
  <2>2. pixel' \in [1 .. MaxPixels -> Contents]
    BY <2>1, <1>1, ResizedType
  <2> QED BY <2>1, <2>2
<1>k. \A c \in 1 .. MaxPixels :
        /\ goal'[c] = Gray \/ \E d \in 1 .. MaxPixels : goal'[c] = goal[d]
        /\ c <= NoOfPixels(size) /\ c <= NoOfPixels(size') /\ InPlace(c, size')
             => goal'[c] = goal[c]
        /\ c > NoOfPixels(size) /\ size'[1] = size[1] => goal'[c] = Gray
  BY <1>1, <1>3, KeptPixels DEF IInv
<1>l. \A c \in 1 .. MaxPixels : goal'[c] \in 0 .. MaxUpdates /\ goal'[c] < update
  <2>1. \A d \in 1 .. MaxPixels : goal[d] < update
    BY <1>1 DEF IInv, ControlInv, GoalInv
  <2> QED BY <2>1, <1>2, <1>4, <1>k DEF Gray
<1>m. resized' \in 0 .. MaxUpdates /\ resized' <= update
  BY <1>1, <1>4 DEF IInv, TypeOK, ControlInv, GoalInv
<1>5. DecoderTypeOK'
  BY <1>1, <1>3, <1>4 DEF IInv, TypeOK, DecoderTypeOK, FbLock!TypeOK
<1>6. TypeOK'
  <2>1. goal' \in [1 .. MaxPixels -> 0 .. MaxUpdates]
    <3>1. DOMAIN goal' = 1 .. MaxPixels /\ goal' = [c \in DOMAIN goal' |-> goal'[c]]
      BY <1>1, <1>4 DEF KeptInPlace
    <3> QED BY <3>1, <1>l
  <2> QED BY <1>1, <1>m, <1>5, <2>1 DEF IInv, TypeOK
<1>7. JobInv' /\ Pending' = {}
  BY <1>1, <1>2, <1>5, <1>h, SameJobs DEF IInv, GuardInv
<1>8. ControlInv'
  <2>1. GoalInv'
    BY <1>1, <1>4, <1>l, <1>m DEF GoalInv
  <2> QED BY <1>1, <1>2, <1>7, <1>h, <2>1
      DEF IInv, ControlInv, UpdateInv, LockInv, StageInv, NumberInv, FailureInv
<1>9. /\ 1 .. NoOfPixels(size) \subseteq 1 .. MaxPixels
      /\ 1 .. NoOfPixels(size') \subseteq 1 .. MaxPixels
      /\ NoOfPixels(size) \in Nat /\ NoOfPixels(size') \in Nat
  BY <1>3, MaxPixelsIsMax
<1>10. DrawInv'
  <2>1. ASSUME NEW c \in 1 .. NoOfPixels(size')
        PROVE  \/ pixel'[c] \in {goal'[c], Uninitialized}
               \/ pixel'[c] \in Misplaced /\ goal'[c] < resized'
    <3>1. /\ c \in 1 .. MaxPixels /\ c \in Int /\ c <= NoOfPixels(size') /\ c >= 1
          /\ c <= NoOfPixels(size) => c \in 1 .. NoOfPixels(size)
      BY <1>9
    <3>2. pixel'[c] = IF c > NoOfPixels(size) THEN Gray
                      ELSE IF InPlace(c, size') \/ pixel[c] = Uninitialized THEN pixel[c]
                      ELSE Scrambled
      BY <3>1, <1>1, <1>4, <1>9 DEF Resized
    <3>3. size'[1] # size[1] => goal'[c] < resized'
      BY <3>1, <1>1, <1>l
    <3>4. CASE c > NoOfPixels(size)
      BY <3>1, <3>2, <3>3, <3>4, <1>k DEF Misplaced
    <3>5. CASE c <= NoOfPixels(size) /\ InPlace(c, size')
      <4>1. goal'[c] = goal[c] /\ pixel'[c] = pixel[c]
        BY <3>1, <3>2, <3>5, <1>9, <1>k
      <4>2. Drawn(c)
        BY <3>1, <3>5, <1>2 DEF IInv, DrawInv
      <4>3. goal[c] < resized => goal[c] < resized'
        BY <3>1, <4>1, <1>1, <1>4, <1>l
      <4> QED BY <4>1, <4>2, <4>3 DEF Drawn
    <3>6. CASE c <= NoOfPixels(size) /\ ~ InPlace(c, size')
      <4>1. size'[1] # size[1]
        BY <3>6 DEF InPlace
      <4>2. pixel'[c] \in {Uninitialized, Scrambled}
        BY <3>2, <3>6, <1>9, <3>1
      <4> QED BY <4>1, <4>2, <3>3 DEF Misplaced
    <3> QED BY <3>1, <3>4, <3>5, <3>6, <1>9
  <2> QED BY <1>7, <2>1 DEF DrawInv, Drawn, Misplaced
<1>11. CopyInv' /\ PictureIsFaithful'
  BY <1>1, <1>2 DEF CopyInv, PictureIsFaithful, Publishing
<1>12. ChainInv'
  BY <1>1 DEF IInv, ChainInv, Reached
<1> QED BY <1>6, <1>7, <1>8, <1>10, <1>11, <1>12 DEF IInv

(* A chunk or a reset continues the chain of its stream.                   *)
LEMMA ChainAppended ==
  ASSUME IInv, NEW s \in Streams, NEW j \in Jobs, Route(j) = s, Accept(j),
         j.kind = "zlib" => j.pos = sent[s],
         sent' = [sent EXCEPT ![s] = After(j)], UNCHANGED <<running, inflated>>
  PROVE  ChainInv'
<1>t. /\ queue \in [Pools -> Seq(Jobs)] /\ s \in Pools /\ queue[s] \in Seq(Jobs)
      /\ sent \in [Streams -> Nat]
  BY DEF IInv, TypeOK, DecoderTypeOK, Pools
<1>n. PICK n \in Nat : n = Len(queue[s])
  BY <1>t
<1> DEFINE Now(r, i) == IF i = 0 THEN IF running[r] = Nobody THEN inflated[r]
                                      ELSE After(running[r])
                        ELSE After(queue'[r][i])
<1>1. /\ queue' = [queue EXCEPT ![s] = Append(queue[s], j)]
      /\ queue'[s] = Append(queue[s], j)
      /\ \A r \in Streams : r # s => queue'[r] = queue[r] /\ sent'[r] = sent[r]
      /\ sent'[s] = After(j)
  BY <1>t DEF Accept, Pools
<1>2. /\ n \in Nat /\ Len(queue'[s]) = n + 1
      /\ DOMAIN queue[s] = 1 .. n
      /\ DOMAIN queue'[s] = DOMAIN queue[s] \cup {n + 1}
      /\ \A i \in DOMAIN queue[s] : queue'[s][i] = queue[s][i]
      /\ queue'[s][n + 1] = j
  BY <1>1, <1>t, <1>n, Pushed
<1>3. /\ \A i \in 0 .. n : Now(s, i) = Reached(s, i)
      /\ Now(s, n + 1) = After(j)
  BY <1>2 DEF Reached
<1>4. Reached(s, n) = sent[s]
  BY <1>n DEF IInv, ChainInv
<1> HIDE DEF Now
<1>5. \A i \in DOMAIN queue'[s] :
        queue'[s][i].kind = "zlib" => queue'[s][i].pos = Now(s, i - 1)
  <2> SUFFICES ASSUME NEW i \in DOMAIN queue'[s], queue'[s][i].kind = "zlib"
               PROVE  queue'[s][i].pos = Now(s, i - 1)
    OBVIOUS
  <2>1. CASE i = n + 1
    <3>1. i - 1 = n /\ n \in 0 .. n
      BY <2>1, <1>2
    <3>2. Now(s, i - 1) = Reached(s, n)
      BY <3>1, <1>3
    <3> QED BY <2>1, <3>2, <1>2, <1>4
  <2>2. CASE i \in DOMAIN queue[s]
    <3>1. i - 1 \in 0 .. n
      BY <2>2, <1>2
    <3>2. Now(s, i - 1) = Reached(s, i - 1)
      BY <3>1, <1>3
    <3>3. queue[s][i].kind = "zlib" => queue[s][i].pos = Reached(s, i - 1)
      BY <2>2 DEF IInv, ChainInv
    <3> QED BY <2>2, <3>2, <3>3, <1>2
  <2> QED BY <2>1, <2>2, <1>2
<1>6. Now(s, Len(queue'[s])) = sent'[s]
  BY <1>1, <1>2, <1>3
<1>7. ASSUME NEW r \in Streams, r # s
      PROVE  /\ \A i \in DOMAIN queue'[r] :
                  queue'[r][i].kind = "zlib" => queue'[r][i].pos = Now(r, i - 1)
             /\ Now(r, Len(queue'[r])) = sent'[r]
  BY <1>1, <1>7 DEF IInv, ChainInv, Reached, Now
<1>8. \A r \in Streams :
        /\ running[r] # Nobody /\ running[r].kind = "zlib" => running[r].pos = inflated[r]
        /\ \A i \in DOMAIN queue'[r] :
             queue'[r][i].kind = "zlib" => queue'[r][i].pos = Now(r, i - 1)
        /\ Now(r, Len(queue'[r])) = sent'[r]
  BY <1>5, <1>6, <1>7 DEF IInv, ChainInv
<1> QED BY <1>8 DEF ChainInv, Reached, Now

(* A new job is drawn where the server means it to be; until then the      *)
(* pixels are in the job.                                                  *)
LEMMA AcceptStep ==
  ASSUME IInv, UNCHANGED server, NEW j \in Jobs, j \notin Pending, Accept(j),
         reader = "rects", j.kind # "copy", j.stamp = update,
         Meant(j),
         \A c \in j.area : c \in 1 .. MaxPixels,
         \A c \in 1 .. MaxPixels : goal'[c] = IF c \in j.area THEN update ELSE goal[c],
         goal' \in [1 .. MaxPixels -> 0 .. MaxUpdates],
         AcceptUnchanged, UNCHANGED maybe_new_fb_size,
         area' \in Nat, rects' \in 0 .. server.rects, sent' \in [Streams -> Nat],
         NumberInv', ChainInv'
  PROVE  IInv'
<1>1. /\ UNCHANGED <<running, failed, held, size, pixel, frame, inflated, cursor>>
      /\ UNCHANGED <<reader, update, no_of_successive_full_updates, zero_copy_mode,
                     last_fb_update, fb_updates, updater, view, acks, resized,
                     requested>>
  BY DEF AcceptUnchanged
<1>2. JobInv' /\ Pending' = Pending \cup {j}
  BY <1>1, AcceptJobs DEF IInv
<1>3. TypeOK'
  BY <1>1, <1>2 DEF IInv, TypeOK, JobInv
<1>4. fb_updates = <<>> /\ updater = "idle"
  BY DEF IInv, ControlInv, UpdateInv
<1>5. UpdateInv' /\ LockInv' /\ StageInv' /\ FailureInv' /\ GoalInv'
  <2>1. GoalInv'
    <3>1. update \in Nat
      BY DecoderAssumption DEF DecoderAssumption, IInv, TypeOK
    <3> QED BY <3>1, <1>1 DEF IInv, ControlInv, GoalInv
  <2> QED BY <1>1, <1>2, <1>4, <2>1
      DEF IInv, ControlInv, UpdateInv, LockInv, StageInv, StageOf, FailureInv, Current
<1>6. DrawInv'
  <2>3. \A o \in Pending : o.kind # "copy" => o.stamp = update
    BY <1>4 DEF IInv, ControlInv, StageInv, StageOf
  <2>4. \A o \in Pending' : \A c \in 1 .. MaxPixels :
          o.kind # "copy" /\ c \in o.area => goal'[c] = o.stamp
    BY <1>2, <2>3 DEF IInv, DrawInv
  <2>5. ASSUME failed = {}, NEW c \in 1 .. NoOfPixels(size)
        PROVE  \/ pixel[c] \in {goal'[c], Uninitialized}
               \/ pixel[c] \in Misplaced /\ goal'[c] < resized
               \/ \E o \in Pending' : o.kind # "copy" /\ c \in o.area
    <3>1. CASE c \in j.area
      BY <3>1, <1>2
    <3>2. CASE c \notin j.area
      <4>1. c \in 1 .. MaxPixels
        BY MaxPixelsIsMax DEF IInv, TypeOK, DecoderTypeOK
      <4> QED BY <3>2, <4>1, <2>5, <1>2 DEF IInv, DrawInv, Drawn
    <3> QED BY <3>1, <3>2
  <2>6. \A o \in Pending' : Meant(o)
    BY <1>2 DEF IInv, DrawInv
  <2> QED BY <1>1, <2>4, <2>5, <2>6 DEF DrawInv, Drawn, Misplaced
<1>7. CopyInv' /\ PictureIsFaithful'
  BY <1>1, <1>4 DEF CopyInv, PictureIsFaithful, Publishing
<1> QED BY <1>2, <1>3, <1>5, <1>6, <1>7 DEF IInv, ControlInv

(* The number of a rectangle tells its job from those before it.           *)
LEMMA JobIsNew ==
  ASSUME IInv, reader = "rects", NEW kind \in {"rect", "zlib", "reset", "cursor"},
         NEW s \in Pools, kind \in {"zlib", "reset"} => s \in Streams,
         NEW pixels \in SUBSET Nat, kind = "reset" => sent[s] > 0
  PROVE  /\ Job(kind, s, pixels) \in Jobs /\ Job(kind, s, pixels) \notin Pending
         /\ Job(kind, s, pixels).kind = kind /\ Job(kind, s, pixels).stream = s
         /\ Job(kind, s, pixels).stamp = update /\ Job(kind, s, pixels).area = pixels
         /\ Job(kind, s, pixels).number = rects + 1
         /\ Job(kind, s, pixels).pos = IF kind = "zlib" THEN sent[s] ELSE 0
<1>1. update \in 0 .. MaxUpdates /\ rects \in Nat /\ rects + 1 \in Nat
  BY PipelineAssumption DEF PipelineAssumption, IInv, TypeOK
<1>2. (IF kind = "zlib" THEN sent[s] ELSE 0) \in Nat
  BY DEF IInv, TypeOK
<1>3. Job(kind, s, pixels) \in Jobs
  BY <1>1, <1>2 DEF Job, Jobs, Decodes
<1>4. \A o \in Pending : o.number \in Nat
  BY DEF IInv, JobInv, FuturesMatchJobs, DecoderTypeOK, Jobs
<1>5. ASSUME Job(kind, s, pixels) \in Pending PROVE FALSE
  <2>1. /\ Job(kind, s, pixels).number = rects + 1
        /\ Job(kind, s, pixels).kind = kind /\ Job(kind, s, pixels).stream = s
    BY DEF Job
  <2>2. kind = "reset" /\ sent[s] = 0
    BY <2>1, <1>1, <1>4, <1>5 DEF IInv, ControlInv, NumberInv
  <2> QED BY <2>2
<1> QED BY <1>3, <1>5 DEF Job

(* A job that neither continues nor resets a stream leaves the chains.     *)
LEMMA ChainsElsewhere ==
  ASSUME IInv, NEW j \in Jobs, Route(j) = General, Accept(j),
         UNCHANGED <<sent, running, inflated>>
  PROVE  ChainInv'
<1>1. \A s \in Streams : queue'[s] = queue[s]
  BY DecoderAssumption DEF DecoderAssumption, Accept, IInv, TypeOK, DecoderTypeOK, Pools
<1> QED BY <1>1 DEF IInv, ChainInv, Reached

(* The numbers of the jobs stay in step with the rectangles.               *)
LEMMA NumberStep ==
  ASSUME IInv, reader = "rects", NEW j \in Jobs, Accept(j), j \notin Pending,
         AcceptUnchanged, j.number = rects + 1, rects' = rects + 1
  PROVE  NumberInv'
<1>1. Pending' = Pending \cup {j}
  BY AcceptJobs DEF IInv, AcceptUnchanged
<1>2. rects \in Nat /\ \A o \in Pending : o.number \in Nat
  BY PipelineAssumption
  DEF PipelineAssumption, IInv, TypeOK, JobInv, FuturesMatchJobs, DecoderTypeOK, Jobs
<1>3. \A o \in Pending' : o.number <= rects'
  BY <1>1, <1>2 DEF IInv, ControlInv, NumberInv
<1> QED BY <1>3 DEF NumberInv

(* The rectangles of an update.                                            *)
LEMMA AcceptInv ==
  ASSUME IInv, UNCHANGED server,
         \/ AcceptPixels("rect", General)
         \/ \E s \in Streams : AcceptPixels("zlib", s) \/ AcceptReset(s)
         \/ AcceptCursor
  PROVE  IInv'
<1>t. /\ rects \in Nat /\ server.rects \in Nat /\ area \in Nat
      /\ sent \in [Streams -> Nat] /\ goal \in [1 .. MaxPixels -> 0 .. MaxUpdates]
      /\ size \in Sizes /\ update \in 0 .. MaxUpdates
      /\ General \in Pools /\ Streams \subseteq Pools /\ General \notin Streams
  BY PipelineAssumption, DecoderAssumption
  DEF PipelineAssumption, DecoderAssumption, IInv, TypeOK, DecoderTypeOK, Pools
<1>1. ASSUME NEW kind \in {"rect", "zlib"}, NEW s \in Pools, AcceptPixels(kind, s),
             IF kind = "zlib" THEN s \in Streams ELSE s = General
      PROVE  IInv'
  <2>1. /\ reader = "rects" /\ rects < server.rects /\ rects' = rects + 1
        /\ sent' = IF kind = "zlib" THEN [sent EXCEPT ![s] = @ + 1] ELSE sent
        /\ AcceptUnchanged /\ UNCHANGED maybe_new_fb_size
    BY <1>1 DEF AcceptPixels, ReadingRect
  <2>2. PICK pixels \in Regions :
          /\ Accept(Job(kind, s, pixels))
          /\ area' = area + Cardinality(pixels)
          /\ goal' = [c \in DOMAIN goal |-> IF c \in pixels THEN update ELSE goal[c]]
    BY <1>1 DEF AcceptPixels
  <2>3. /\ pixels \subseteq 1 .. NoOfPixels(size)
        /\ NoOfPixels(size) \in Nat /\ NoOfPixels(size) <= MaxPixels /\ MaxPixels \in Nat
    BY <1>t, MaxPixelsIsMax DEF Regions
  <2>4. Cardinality(pixels) \in Nat
    <3>1. IsFiniteSet(1 .. NoOfPixels(size))
      BY <2>3, FS_Interval
    <3>2. IsFiniteSet(pixels)
      BY <3>1, <2>3, FS_Subset
    <3> QED BY <3>2, FS_CardinalityType
  <2> DEFINE j == Job(kind, s, pixels)
  <2>5. /\ j \in Jobs /\ j \notin Pending /\ j.kind = kind /\ j.stream = s
        /\ j.stamp = update /\ j.area = pixels /\ j.number = rects + 1
        /\ j.pos = IF kind = "zlib" THEN sent[s] ELSE 0
    BY <2>1, <2>3, <1>1, JobIsNew
  <2> HIDE DEF j
  <2>6. Accept(j)
    BY <2>2 DEF j
  <2>7. NumberInv'
    BY <2>1, <2>5, <2>6, NumberStep
  <2>8. ChainInv'
    <3>1. CASE kind = "zlib"
      <4>1. Route(j) = s /\ After(j) = sent[s] + 1
        BY <2>5, <3>1 DEF Route, After
      <4>2. sent' = [sent EXCEPT ![s] = After(j)]
        BY <4>1, <2>1, <3>1
      <4> QED BY <4>1, <4>2, <3>1, <2>1, <2>5, <2>6, <1>1, ChainAppended
          DEF AcceptUnchanged
    <3>2. CASE kind = "rect"
      <4>1. Route(j) = General
        BY <2>5, <3>2 DEF Route
      <4> QED BY <4>1, <3>2, <2>1, <2>5, <2>6, ChainsElsewhere DEF AcceptUnchanged
    <3> QED BY <3>1, <3>2
  <2>9. /\ goal' \in [1 .. MaxPixels -> 0 .. MaxUpdates]
        /\ \A c \in 1 .. MaxPixels : goal'[c] = IF c \in j.area THEN update ELSE goal[c]
    BY <2>2, <2>5, <1>t
  <2>10. area' \in Nat /\ rects' \in 0 .. server.rects /\ sent' \in [Streams -> Nat]
    <3>1. area' \in Nat
      BY <2>2, <2>4, <1>t
    <3>2. sent' \in [Streams -> Nat]
      <4>1. CASE kind = "zlib"
        <5>1. sent[s] + 1 \in Nat
          BY <4>1, <1>1, <1>t
        <5>2. sent' = [sent EXCEPT ![s] = sent[s] + 1]
          BY <4>1, <2>1
        <5> QED BY <5>1, <5>2, <1>t
      <4>2. CASE kind = "rect"
        BY <4>2, <2>1, <1>t
      <4> QED BY <4>1, <4>2
    <3>3. rects' \in 0 .. server.rects
      BY <2>1, <1>t
    <3> QED BY <3>1, <3>2, <3>3
  <2>11. \A c \in j.area : c \in 1 .. MaxPixels
    <3>1. 1 .. NoOfPixels(size) \subseteq 1 .. MaxPixels
      BY <2>3
    <3>2. j.area = pixels
      BY <2>5
    <3> QED BY <3>1, <3>2, <2>3, Zenon
  <2>12. Meant(j)
    BY <1>1, <2>5 DEF Meant
  <2> QED BY <2>1, <2>5, <2>6, <2>7, <2>8, <2>9, <2>10, <2>11, <2>12, AcceptStep
<1>2. ASSUME NEW s \in Streams, AcceptReset(s) PROVE IInv'
  <2>1. /\ reader = "rects" /\ sent[s] > 0 /\ Accept(Job("reset", s, {}))
        /\ sent' = [sent EXCEPT ![s] = 0]
        /\ UNCHANGED <<rects, area, maybe_new_fb_size, goal>> /\ AcceptUnchanged
    BY <1>2 DEF AcceptReset, ReadingRect
  <2> DEFINE j == Job("reset", s, {})
  <2>2. /\ j \in Jobs /\ j \notin Pending /\ j.kind = "reset" /\ j.stream = s
        /\ j.stamp = update /\ j.area = {} /\ j.number = rects + 1
    BY <2>1, <1>t, JobIsNew
  <2> HIDE DEF j
  <2>3. Accept(j)
    BY <2>1 DEF j
  <2>4. NumberInv'
    <3>1. Pending' = Pending \cup {j}
      BY <2>1, <2>2, <2>3, AcceptJobs DEF IInv, AcceptUnchanged
    <3>2. \A r \in Streams : sent[r] = 0 => sent'[r] = 0
      BY <2>1, <1>t
    <3>3. sent'[s] = 0
      BY <2>1, <1>t
    <3> QED BY <3>1, <3>2, <3>3, <2>1, <2>2 DEF IInv, ControlInv, NumberInv
  <2>5. ChainInv'
    <3>1. Route(j) = s /\ After(j) = 0
      BY <2>2 DEF Route, After
    <3> QED BY <3>1, <2>1, <2>2, <2>3, ChainAppended DEF AcceptUnchanged
  <2>6. area' \in Nat /\ rects' \in 0 .. server.rects /\ sent' \in [Streams -> Nat]
    <3>1. rects \in 0 .. server.rects
      BY DEF IInv, TypeOK
    <3>2. sent' \in [Streams -> Nat]
      BY <2>1, <1>t
    <3> QED BY <3>1, <3>2, <2>1, <1>t
  <2>7. /\ goal' \in [1 .. MaxPixels -> 0 .. MaxUpdates]
        /\ \A c \in 1 .. MaxPixels : goal'[c] = IF c \in j.area THEN update ELSE goal[c]
    BY <2>1, <2>2, <1>t
  <2>8. Meant(j)
    BY <2>2 DEF Meant
  <2> QED BY <2>1, <2>2, <2>3, <2>4, <2>5, <2>6, <2>7, <2>8, AcceptStep
<1>3. CASE AcceptCursor
  <2>1. /\ reader = "rects" /\ rects < server.rects /\ Accept(Job("cursor", General, {}))
        /\ rects' = rects + 1 /\ area' = area + CursorPixels
        /\ UNCHANGED <<maybe_new_fb_size, sent, goal>> /\ AcceptUnchanged
    BY <1>3 DEF AcceptCursor, ReadingRect
  <2> DEFINE j == Job("cursor", General, {})
  <2>2. /\ j \in Jobs /\ j \notin Pending /\ j.kind = "cursor"
        /\ j.stamp = update /\ j.area = {} /\ j.number = rects + 1
    BY <2>1, <1>t, JobIsNew
  <2> HIDE DEF j
  <2>3. Accept(j)
    BY <2>1 DEF j
  <2>4. NumberInv'
    BY <2>1, <2>2, <2>3, NumberStep
  <2>5. ChainInv'
    <3>1. Route(j) = General
      BY <2>2 DEF Route
    <3> QED BY <3>1, <2>1, <2>2, <2>3, ChainsElsewhere DEF AcceptUnchanged
  <2>6. area' \in Nat /\ rects' \in 0 .. server.rects /\ sent' \in [Streams -> Nat]
    BY <2>1, <1>t, PipelineAssumption DEF PipelineAssumption
  <2>7. /\ goal' \in [1 .. MaxPixels -> 0 .. MaxUpdates]
        /\ \A c \in 1 .. MaxPixels : goal'[c] = IF c \in j.area THEN update ELSE goal[c]
    BY <2>1, <2>2, <1>t
  <2>8. Meant(j)
    BY <2>2 DEF Meant
  <2> QED BY <2>1, <2>2, <2>3, <2>4, <2>5, <2>6, <2>7, <2>8, AcceptStep
<1>4. CASE AcceptPixels("rect", General)
  BY <1>1, <1>4, <1>t
<1>5. ASSUME NEW s \in Streams, AcceptPixels("zlib", s) PROVE IInv'
  BY <1>1, <1>5, <1>t
<1> QED BY <1>2, <1>3, <1>4, <1>5

-----------------------------------------------------------------------------
(* The updater gives the framebuffer away or copies it                     *)

(* When the updater is done waiting every pixel is drawn, as far as it is  *)
(* in its place.                                                           *)
LEMMA AllDrawn ==
  ASSUME IInv, failed = {}, \A j \in Pending : j.kind = "copy"
  PROVE  /\ \A c \in 1 .. NoOfPixels(size) :
              \/ pixel[c] \in {goal[c], Uninitialized}
              \/ pixel[c] \in Misplaced /\ c \notin Fresh
         /\ 1 .. NoOfPixels(size) \subseteq 1 .. MaxPixels
<1>1. 1 .. NoOfPixels(size) \subseteq 1 .. MaxPixels
  BY MaxPixelsIsMax DEF IInv, TypeOK, DecoderTypeOK
<1>2. \A c \in 1 .. NoOfPixels(size) : Drawn(c)
  BY DEF IInv, DrawInv
<1>3. \A c \in 1 .. MaxPixels : goal[c] \in Nat /\ resized \in Nat
  BY DecoderAssumption DEF DecoderAssumption, IInv, TypeOK
<1> QED BY <1>1, <1>2, <1>3 DEF Drawn, Fresh

(* Zero-copy mode: the updater locks the framebuffer when all is drawn.    *)
LEMMA BeginSwapInv ==
  ASSUME IInv, UNCHANGED server, BeginSwap
  PROVE  IInv'
<1>1. /\ updater = "decoding" /\ AllDecoded(Current.stamp) /\ Current.stamp \notin failed
      /\ held' = held \cup {<<Updater, "Decoding">>}
      /\ UNCHANGED <<queue, running, unanswered, failed, size, pixel, frame, inflated,
                     cursor>>
      /\ updater' = "swapping" /\ UNCHANGED <<last_fb_update, fb_updates, view, acks>>
      /\ UNCHANGED <<reader, update, rects, area, maybe_new_fb_size>>
      /\ UNCHANGED <<no_of_successive_full_updates, zero_copy_mode, sent, goal, resized,
                     requested>>
  BY DEF BeginSwap, Decoded, LockToSwap, FbLock!Acquire, UpdaterUnchanged
<1>2. Pending = {} /\ fb_updates # <<>> /\ reader # "rects" /\ failed = {}
  BY <1>1, AllDone
<1>3. DecoderTypeOK'
  BY <1>1 DEF IInv, TypeOK, DecoderTypeOK, FbLock!TypeOK
<1>4. TypeOK'
  BY <1>1, <1>3 DEF IInv, TypeOK
<1>5. Pending' = {}
  BY <1>1, <1>2 DEF Pending, QueuedIn
<1>6. LockInv'
  BY <1>1, DecoderAssumption DEF DecoderAssumption, IInv, ControlInv, LockInv
<1>7. ControlInv'
  BY <1>1, <1>2, <1>5, <1>6
  DEF IInv, ControlInv, UpdateInv, StageInv, NumberInv, FailureInv, GoalInv, Current
<1>8. GuardInv'
  BY <1>1 DEF IInv, JobInv, GuardInv
<1> QED BY <1>1, <1>4, <1>7, <1>8, QuietStep DEF Publishing

(* The picture is the framebuffer, and the framebuffer is new.             *)
LEMMA TakeFbInv ==
  ASSUME IInv, UNCHANGED server, TakeFb
  PROVE  IInv'
<1>1. /\ updater = "swapping"
      /\ held' = held \ {<<Updater, "Decoding">>}
      /\ frame' = pixel /\ pixel' = [c \in DOMAIN pixel |-> Uninitialized]
      /\ UNCHANGED <<queue, running, unanswered, failed, size, inflated, cursor>>
      /\ updater' = "publishing" /\ UNCHANGED <<last_fb_update, fb_updates, view, acks>>
      /\ UNCHANGED <<reader, update, rects, area, maybe_new_fb_size>>
      /\ UNCHANGED <<no_of_successive_full_updates, zero_copy_mode, sent, goal, resized,
                     requested>>
  BY DEF TakeFb, SwapFb, FbLock!Release, UpdaterUnchanged
<1>2. Pending = {} /\ fb_updates # <<>> /\ reader # "rects" /\ failed = {}
  BY <1>1, UpdaterAlone DEF IInv, ControlInv, FailureInv
<1>3. /\ pixel' \in [1 .. MaxPixels -> Contents] /\ frame' \in [1 .. MaxPixels -> Contents]
      /\ \A c \in 1 .. MaxPixels : pixel'[c] = Uninitialized
  BY <1>1 DEF IInv, TypeOK, DecoderTypeOK, Contents
<1>4. DecoderTypeOK'
  BY <1>1, <1>3 DEF IInv, TypeOK, DecoderTypeOK, FbLock!TypeOK
<1>5. TypeOK'
  BY <1>1, <1>4 DEF IInv, TypeOK
<1>6. JobInv' /\ Pending' = Pending
  <2>1. GuardInv'
    BY <1>1 DEF IInv, JobInv, GuardInv
  <2> QED BY <2>1, <1>1, <1>4, SameJobs DEF IInv
<1>7. ControlInv'
  <2>1. LockInv'
    <3>1. \A g \in held : g[1] = Updater => g = <<Updater, "Decoding">>
      BY <1>1 DEF IInv, TypeOK, DecoderTypeOK, FbLock!TypeOK, ControlInv, LockInv
    <3> QED BY <3>1, <1>1 DEF IInv, ControlInv, LockInv
  <2> QED BY <2>1, <1>1, <1>2, <1>6
      DEF IInv, ControlInv, UpdateInv, StageInv, NumberInv, FailureInv, GoalInv, Current
<1>d. /\ \A c \in 1 .. NoOfPixels(size) :
           \/ pixel[c] \in {goal[c], Uninitialized}
           \/ pixel[c] \in Misplaced /\ c \notin Fresh
      /\ 1 .. NoOfPixels(size) \subseteq 1 .. MaxPixels
  BY <1>2, AllDrawn
<1>8. DrawInv'
  BY <1>1, <1>2, <1>3, <1>6, <1>d DEF IInv, DrawInv, Drawn, Meant
<1>9. CopyInv' /\ PictureIsFaithful'
  BY <1>1, <1>3, <1>d DEF CopyInv, PictureIsFaithful, Fresh, Misplaced
<1>10. ChainInv'
  BY <1>1 DEF IInv, ChainInv, Reached
<1> QED BY <1>5, <1>6, <1>7, <1>8, <1>9, <1>10 DEF IInv

(* The job of the updater belongs to an update.                            *)
LEMMA CurrentStamp ==
  ASSUME IInv, fb_updates # <<>>
  PROVE  Current.stamp \in 0 .. MaxUpdates
<1> DEFINE Records == [stamp : 1 .. MaxUpdates, zero_copy : BOOLEAN]
<1>1. fb_updates \in Seq(Records)
  BY DEF IInv, TypeOK
<1>2. \A job \in Records : job.stamp \in 0 .. MaxUpdates
  BY DecoderAssumption DEF DecoderAssumption
<1> HIDE DEF Records
<1>3. Head(fb_updates) \in Records
  BY <1>1, Popped
<1> QED BY <1>2, <1>3 DEF Current

(* The copy begins with nothing copied and every pixel in a job.           *)
LEMMA BeginCopyInv ==
  ASSUME IInv, UNCHANGED server, BeginCopy
  PROVE  IInv'
<1>1. /\ updater = "decoding" /\ AllDecoded(Current.stamp) /\ Current.stamp \notin failed
      /\ StartCopy(Current.stamp)
      /\ updater' = "copying" /\ UNCHANGED <<last_fb_update, fb_updates, view, acks>>
      /\ UNCHANGED <<reader, update, rects, area, maybe_new_fb_size>>
      /\ UNCHANGED <<no_of_successive_full_updates, zero_copy_mode, sent, goal, resized,
                     requested>>
  BY DEF BeginCopy, Decoded, UpdaterUnchanged
<1>2. Pending = {} /\ fb_updates # <<>> /\ reader # "rects" /\ failed = {}
  BY <1>1, AllDone
<1>3. Current.stamp \in 0 .. MaxUpdates
  BY <1>2, CurrentStamp
<1>4. /\ JobInv'
      /\ \A j \in Pending' : j.kind = "copy" /\ j.stamp = Current.stamp
      /\ \A c \in 1 .. NoOfPixels(size) : \E j \in Pending' : c \in j.area
  BY <1>1, <1>2, <1>3, StartCopyJobs DEF IInv
<1>5. /\ held' = held \cup {<<Updater, "Reading">>}
      /\ \A s \in Streams : queue'[s] = queue[s]
      /\ UNCHANGED <<running, failed, size, pixel, inflated, cursor>>
  BY <1>1, DecoderAssumption
  DEF StartCopy, FbLock!Acquire, DecoderAssumption, IInv, TypeOK, DecoderTypeOK, Pools
<1>6. TypeOK'
  BY <1>1, <1>4 DEF IInv, TypeOK, JobInv
<1>7. ControlInv'
  <2>1. LockInv'
    BY <1>1, <1>5, DecoderAssumption DEF DecoderAssumption, IInv, ControlInv, LockInv
  <2> QED BY <2>1, <1>1, <1>2, <1>4, <1>5
      DEF IInv, ControlInv, UpdateInv, StageInv, StageOf, NumberInv, FailureInv, GoalInv,
          Current
<1>8. DrawInv'
  <2>1. \A c \in 1 .. NoOfPixels(size) : Drawn(c)
    BY <1>2 DEF IInv, DrawInv
  <2> QED BY <2>1, <1>1, <1>2, <1>4, <1>5 DEF IInv, DrawInv, Drawn, Meant, Misplaced
<1>9. CopyInv' /\ PictureIsFaithful'
  BY <1>1, <1>4, <1>5 DEF CopyInv, PictureIsFaithful, Publishing
<1>10. ChainInv'
  BY <1>1, <1>5 DEF IInv, ChainInv, Reached
<1> QED BY <1>4, <1>6, <1>7, <1>8, <1>9, <1>10 DEF IInv

(* A copy is made of copy jobs of its own update.                          *)
LEMMA CopyOnly ==
  ASSUME IInv, updater = "copying"
  PROVE  /\ \A j \in Pending : j.kind = "copy" /\ j.stamp = Current.stamp
         /\ failed = {} /\ fb_updates # <<>> /\ reader # "rects"
  BY DEF IInv, ControlInv, UpdateInv, StageInv, StageOf, FailureInv

(* When all of them are answered the picture is complete.                  *)
LEMMA CopiedInv ==
  ASSUME IInv, UNCHANGED server, Copied
  PROVE  IInv'
<1>1. /\ updater = "copying" /\ updater' = "publishing"
      /\ \A j \in unanswered : j.kind = "copy" => j.stamp # Current.stamp
      /\ held' = held \ {<<Updater, "Reading">>}
      /\ UNCHANGED <<queue, running, unanswered, failed, size, pixel, frame,
                     inflated, cursor>>
      /\ UNCHANGED <<last_fb_update, fb_updates, view, acks>>
      /\ UNCHANGED <<reader, update, rects, area, maybe_new_fb_size>>
      /\ UNCHANGED <<no_of_successive_full_updates, zero_copy_mode, sent, goal, resized,
                     requested>>
  BY DEF Copied, EndCopy, FbLock!Release, UpdaterUnchanged
<1>2. Pending = {} /\ failed = {} /\ fb_updates # <<>> /\ reader # "rects"
  BY <1>1, CopyOnly DEF IInv, JobInv, FuturesMatchJobs
<1>3. DecoderTypeOK'
  BY <1>1 DEF IInv, TypeOK, DecoderTypeOK, FbLock!TypeOK
<1>4. TypeOK'
  BY <1>1, <1>3 DEF IInv, TypeOK
<1>5. JobInv' /\ Pending' = Pending
  <2>1. GuardInv'
    BY <1>1 DEF IInv, JobInv, GuardInv
  <2> QED BY <2>1, <1>1, <1>3, SameJobs DEF IInv
<1>6. ControlInv'
  <2>1. LockInv'
    <3>1. \A g \in held : g[1] = Updater => g = <<Updater, "Reading">>
      BY <1>1 DEF IInv, TypeOK, DecoderTypeOK, FbLock!TypeOK, ControlInv, LockInv
    <3> QED BY <3>1, <1>1 DEF IInv, ControlInv, LockInv
  <2> QED BY <2>1, <1>1, <1>2, <1>5
      DEF IInv, ControlInv, UpdateInv, StageInv, NumberInv, FailureInv, GoalInv, Current
<1>7. DrawInv'
  BY <1>1, <1>5 DEF IInv, DrawInv, Drawn, Misplaced
<1>8. CopyInv' /\ PictureIsFaithful'
  <2>1. \A c \in 1 .. NoOfPixels(size) : frame[c] = pixel[c]
    BY <1>1, <1>2 DEF IInv, CopyInv
  <2>2. \A c \in 1 .. NoOfPixels(size) :
          \/ pixel[c] \in {goal[c], Uninitialized}
          \/ pixel[c] \in Misplaced /\ c \notin Fresh
    BY <1>2, AllDrawn
  <2> QED BY <1>1, <2>1, <2>2 DEF CopyInv, PictureIsFaithful, Fresh, Misplaced
<1>9. ChainInv'
  BY <1>1 DEF IInv, ChainInv, Reached
<1> QED BY <1>4, <1>5, <1>6, <1>7, <1>8, <1>9 DEF IInv

-----------------------------------------------------------------------------
(* The workers                                                             *)

(* A thread that takes the next job of its stream advances the chain.      *)
LEMMA ChainPopped ==
  ASSUME IInv, NEW w \in Workers, Pop(w), UNCHANGED sent
  PROVE  ChainInv'
<1>1. /\ running[w] = Nobody /\ queue[PoolOf(w)] # <<>>
      /\ running' = [running EXCEPT ![w] = Head(queue[PoolOf(w)])]
      /\ queue' = [queue EXCEPT ![PoolOf(w)] = Tail(queue[PoolOf(w)])]
      /\ UNCHANGED <<inflated, sent>>
  BY DEF Pop
<1>t. queue \in [Pools -> Seq(Jobs)] /\ running \in [Workers -> Jobs \cup {Nobody}]
  BY DEF IInv, TypeOK, DecoderTypeOK
<1> DEFINE Now(r, i) == IF i = 0 THEN IF running'[r] = Nobody THEN inflated[r]
                                      ELSE After(running'[r])
                        ELSE After(queue'[r][i])
<1>2. ASSUME NEW s \in Streams, s # w
      PROVE  /\ running'[s] = running[s] /\ queue'[s] = queue[s]
             /\ s \in Pools /\ s \in Workers
  <2>1. s \in Pools /\ s \in Workers /\ PoolOf(w) # s
    BY <1>2, PoolFacts DEF Pools, Workers
  <2> QED BY <2>1, <1>1, <1>2, <1>t
<1>3. ASSUME w \in Streams
      PROVE  /\ running'[w].kind = "zlib" => running'[w].pos = inflated[w]
             /\ \A i \in DOMAIN queue'[w] :
                  queue'[w][i].kind = "zlib" => queue'[w][i].pos = Now(w, i - 1)
             /\ Now(w, Len(queue'[w])) = sent[w]
  <2>1. PoolOf(w) = w /\ w \in Pools /\ queue[w] \in Seq(Jobs)
    BY <1>3, <1>t DEF PoolOf, Pools
  <2>2. PICK n \in Nat : n = Len(queue[w])
    BY <2>1
  <2>3. /\ n >= 1 /\ Len(Tail(queue[w])) = n - 1
        /\ DOMAIN queue[w] = 1 .. n /\ DOMAIN Tail(queue[w]) = 1 .. (n - 1)
        /\ \A i \in 1 .. (n - 1) : Tail(queue[w])[i] = queue[w][i + 1]
        /\ Head(queue[w]) = queue[w][1] /\ Head(queue[w]) \in Jobs
    BY <1>1, <2>1, <2>2, Popped
  <2>4. queue'[w] = Tail(queue[w]) /\ running'[w] = queue[w][1] /\ running'[w] # Nobody
    BY <1>1, <1>t, <2>1, <2>3, NobodyAssumption DEF NobodyAssumption
  <2>5. /\ \A i \in DOMAIN queue[w] :
             queue[w][i].kind = "zlib" => queue[w][i].pos = Reached(w, i - 1)
        /\ Reached(w, n) = sent[w]
    BY <1>3, <2>2 DEF IInv, ChainInv
  <2>6. ASSUME NEW i \in 0 .. (n - 1) PROVE Now(w, i) = Reached(w, i + 1)
    <3>1. i + 1 \in Int /\ i + 1 # 0
      BY <2>2
    <3>2. Reached(w, i + 1) = After(queue[w][i + 1])
      BY <3>1 DEF Reached
    <3>3. CASE i = 0
      BY <3>2, <3>3, <2>4
    <3>4. CASE i # 0
      <4>1. i \in 1 .. (n - 1)
        BY <2>2, <3>4
      <4>2. queue'[w][i] = queue[w][i + 1]
        BY <4>1, <2>3, <2>4
      <4> QED BY <3>2, <3>4, <4>2
    <3> QED BY <3>3, <3>4
  <2>7. running'[w].kind = "zlib" => running'[w].pos = inflated[w]
    <3>1. 1 \in DOMAIN queue[w] /\ 1 - 1 = 0
      BY <2>2, <2>3
    <3>2. queue[w][1].kind = "zlib" => queue[w][1].pos = Reached(w, 0)
      BY <3>1, <2>5
    <3>3. Reached(w, 0) = inflated[w]
      BY <1>1 DEF Reached
    <3> QED BY <3>2, <3>3, <2>4
  <2> HIDE DEF Now
  <2>8. ASSUME NEW i \in DOMAIN queue'[w], queue'[w][i].kind = "zlib"
        PROVE  queue'[w][i].pos = Now(w, i - 1)
    <3>1. /\ i \in 1 .. (n - 1) /\ i + 1 \in DOMAIN queue[w] /\ i - 1 \in 0 .. (n - 1)
          /\ (i + 1) - 1 = i /\ (i - 1) + 1 = i
      BY <2>2, <2>3, <2>4, <2>8
    <3>2. queue'[w][i] = queue[w][i + 1]
      BY <3>1, <2>3, <2>4
    <3>3. queue[w][i + 1].pos = Reached(w, i)
      BY <3>1, <3>2, <2>5, <2>8
    <3>4. Now(w, i - 1) = Reached(w, i)
      BY <3>1, <2>6
    <3> QED BY <3>2, <3>3, <3>4
  <2>9. Now(w, Len(queue'[w])) = sent[w]
    <3>1. Len(queue'[w]) = n - 1 /\ n - 1 \in 0 .. (n - 1) /\ (n - 1) + 1 = n
      BY <2>2, <2>3, <2>4
    <3>2. Now(w, n - 1) = Reached(w, n)
      BY <3>1, <2>6
    <3> QED BY <3>1, <3>2, <2>5
  <2> QED BY <2>7, <2>8, <2>9
<1>4. ASSUME NEW s \in Streams, s # w
      PROVE  /\ running'[s] # Nobody /\ running'[s].kind = "zlib"
                  => running'[s].pos = inflated[s]
             /\ \A i \in DOMAIN queue'[s] :
                  queue'[s][i].kind = "zlib" => queue'[s][i].pos = Now(s, i - 1)
             /\ Now(s, Len(queue'[s])) = sent[s]
  BY <1>2, <1>4 DEF IInv, ChainInv, Reached
<1> HIDE DEF Now
<1>5. \A s \in Streams :
        /\ running'[s] # Nobody /\ running'[s].kind = "zlib" => running'[s].pos = inflated'[s]
        /\ \A i \in DOMAIN queue'[s] :
             queue'[s][i].kind = "zlib" => queue'[s][i].pos = Now(s, i - 1)
        /\ Now(s, Len(queue'[s])) = sent'[s]
  BY <1>1, <1>3, <1>4
<1>6. inflated' = inflated
  BY <1>1
<1> QED BY <1>5, <1>6 DEF ChainInv, Reached, Now

(* A thread that ends a job is where the chain says.                       *)
LEMMA ChainFinished ==
  ASSUME IInv, NEW w \in Workers, running[w] # Nobody, Answer(w),
         w \in Streams => inflated'[w] = After(running[w]),
         \A s \in Streams : s # w => inflated'[s] = inflated[s],
         UNCHANGED <<queue, sent>>
  PROVE  ChainInv'
<1>1. /\ running'[w] = Nobody
      /\ \A v \in Workers : v # w => running'[v] = running[v]
  BY AnswerJobs DEF IInv
<1> DEFINE Now(r, i) == IF i = 0 THEN IF running'[r] = Nobody THEN inflated'[r]
                                      ELSE After(running'[r])
                        ELSE After(queue[r][i])
<1>2. ASSUME NEW s \in Streams, NEW i PROVE Now(s, i) = Reached(s, i)
  <2>1. CASE s = w
    BY <1>1, <2>1 DEF Reached
  <2>2. CASE s # w
    <3>1. s \in Workers
      BY DEF Workers
    <3> QED BY <3>1, <2>2, <1>1 DEF Reached
  <2> QED BY <2>1, <2>2
<1> HIDE DEF Now
<1>3. \A s \in Streams :
        /\ running'[s] # Nobody /\ running'[s].kind = "zlib" => running'[s].pos = inflated'[s]
        /\ \A i \in DOMAIN queue[s] :
             queue[s][i].kind = "zlib" => queue[s][i].pos = Now(s, i - 1)
        /\ Now(s, Len(queue[s])) = sent[s]
  <2> SUFFICES ASSUME NEW s \in Streams
               PROVE  /\ running'[s] # Nobody /\ running'[s].kind = "zlib"
                           => running'[s].pos = inflated'[s]
                      /\ \A i \in DOMAIN queue[s] :
                           queue[s][i].kind = "zlib" => queue[s][i].pos = Now(s, i - 1)
                      /\ Now(s, Len(queue[s])) = sent[s]
    OBVIOUS
  <2>1. running'[s] # Nobody => running'[s] = running[s] /\ inflated'[s] = inflated[s]
    BY <1>1 DEF Workers
  <2> QED BY <2>1, <1>2 DEF IInv, ChainInv
<1> QED BY <1>3 DEF ChainInv, Reached, Now

(* The end of a job of a stream moves its inflater as the chain says.      *)
LEMMA InflatedIsReached ==
  ASSUME IInv, NEW w \in Workers, running[w] # Nobody,
         IF running[w].kind = "reset" THEN inflated' = [inflated EXCEPT ![w] = 0]
                                      ELSE Inflate(w)
  PROVE  /\ w \in Streams => inflated'[w] = After(running[w])
         /\ \A s \in Streams : s # w => inflated'[s] = inflated[s]
<1>1. inflated \in [Workers -> Nat] /\ Streams \subseteq Workers
  BY DEF IInv, TypeOK, DecoderTypeOK, Workers
<1>2. ASSUME w \in Streams PROVE running[w].kind \in {"zlib", "reset"}
  <2>1. Route(running[w]) = w
    BY <1>2, PoolFacts DEF IInv, JobInv, RoutedInv
  <2> QED BY <2>1, <1>2, DecoderAssumption DEF DecoderAssumption, Route
<1>3. CASE running[w].kind = "reset"
  BY <1>1, <1>3 DEF After
<1>4. CASE running[w].kind # "reset"
  <2>1. inflated' = IF running[w].kind = "zlib" THEN [inflated EXCEPT ![w] = @ + 1]
                    ELSE inflated
    BY <1>4 DEF Inflate
  <2>2. w \in Streams => running[w].kind = "zlib" /\ running[w].pos = inflated[w]
    BY <1>2, <1>4 DEF IInv, ChainInv
  <2> QED BY <2>1, <2>2, <1>1, <1>4 DEF After
<1> QED BY <1>3, <1>4

(* What a step of a worker leaves to the control of the update: the jobs   *)
(* become fewer and a failure is one of their update.                      *)
LEMMA ControlKept ==
  ASSUME IInv, UNCHANGED pipelineVars, Pending' \subseteq Pending,
         \A g : g[1] \in {Updater, Reader} => (g \in held' <=> g \in held),
         \/ UNCHANGED failed
         \/ \E j \in Pending : j.kind # "copy" /\ failed' = failed \cup {j.stamp}
  PROVE  ControlInv'
<1>1. /\ UNCHANGED <<reader, update, rects, last_fb_update, fb_updates, updater, sent>>
      /\ UNCHANGED <<maybe_new_fb_size, goal, resized>>
  BY DEF pipelineVars
<1>2. UpdateInv' /\ LockInv' /\ GoalInv'
  <2>1. <<Updater, "Reading">>[1] = Updater /\ <<Updater, "Decoding">>[1] = Updater
    OBVIOUS
  <2>2. /\ <<Updater, "Reading">> \in held' <=> <<Updater, "Reading">> \in held
        /\ <<Updater, "Decoding">> \in held' <=> <<Updater, "Decoding">> \in held
    BY <2>1
  <2>3. UpdateInv' /\ GoalInv'
    BY <1>1 DEF IInv, ControlInv, UpdateInv, GoalInv
  <2>4. LockInv'
    BY <1>1, <2>2 DEF IInv, ControlInv, LockInv
  <2> QED BY <2>3, <2>4
<1>3. StageInv' /\ NumberInv'
  BY <1>1 DEF IInv, ControlInv, StageInv, StageOf, NumberInv, Current
<1>4. FailureInv'
  <2>1. CASE UNCHANGED failed
    BY <1>1, <2>1 DEF IInv, ControlInv, FailureInv, Current
  <2>2. ASSUME NEW j \in Pending, j.kind # "copy", failed' = failed \cup {j.stamp}
        PROVE  FailureInv'
    BY <1>1, <2>2
    DEF IInv, ControlInv, UpdateInv, StageInv, StageOf, FailureInv, Current
  <2> QED BY <2>1, <2>2
<1> QED BY <1>2, <1>3, <1>4 DEF ControlInv

(* A worker takes a job, or locks the framebuffer for it.                  *)
LEMMA TakeJobInv ==
  ASSUME IInv, UNCHANGED server, NEW w \in Workers, Pop(w) \/ LockFb(w),
         UNCHANGED pipelineVars
  PROVE  IInv'
<1>1. /\ UNCHANGED <<unanswered, failed, size, pixel, frame, inflated, cursor>>
      /\ held' = held \/ held' = held \cup {<<w, "Decoding">>}
  BY DEF Pop, LockFb, FbLock!Acquire
<1>2. /\ UNCHANGED <<reader, update, rects, area, maybe_new_fb_size>>
      /\ UNCHANGED <<no_of_successive_full_updates, zero_copy_mode, last_fb_update,
                     fb_updates, updater, view, acks, sent, goal, resized,
                     requested>>
  BY DEF pipelineVars
<1>3. JobInv' /\ Pending' = Pending
  BY PopJobs, LockFbJobs DEF IInv
<1>4. TypeOK'
  BY <1>2, <1>3 DEF IInv, TypeOK, JobInv
<1>5. ControlInv'
  <2>1. w \notin {Updater, Reader}
    BY PoolFacts
  <2>2. \A g : g[1] \in {Updater, Reader} => (g \in held' <=> g \in held)
    BY <2>1, <1>1
  <2> QED BY <2>2, <1>1, <1>3, ControlKept
<1>6. DrawInv' /\ CopyInv' /\ PictureIsFaithful'
  BY <1>1, <1>2, <1>3
  DEF IInv, DrawInv, Drawn, Misplaced, CopyInv, PictureIsFaithful, Fresh, Publishing
<1>7. ChainInv'
  <2>1. CASE Pop(w)
    BY <2>1, <1>2, ChainPopped
  <2>2. CASE LockFb(w)
    BY <2>2, <1>2 DEF LockFb, IInv, ChainInv, Reached
  <2> QED BY <2>1, <2>2
<1> QED BY <1>3, <1>4, <1>5, <1>6, <1>7 DEF IInv

(* A worker draws what its job claims, or the failure is known.            *)
LEMMA DecodeInv ==
  ASSUME IInv, UNCHANGED server, NEW w \in Workers, DecodeOk(w) \/ DecodeFails(w),
         UNCHANGED pipelineVars
  PROVE  IInv'
<1>1. /\ running[w] # Nobody /\ held' = held \ {<<w, "Decoding">>}
      /\ UNCHANGED <<queue, size, frame>> /\ Answer(w) /\ Inflate(w)
      /\ \/ DecodeOk(w) /\ UNCHANGED failed
                        /\ pixel' = Paint(running[w].area, running[w].stamp)
         \/ DecodeFails(w) /\ failed' = failed \cup {running[w].stamp}
  BY HolderDecodes DEF IInv, DecodeOk, DecodeFails, FbLock!Release
<1>2. /\ UNCHANGED <<reader, update, rects, area, maybe_new_fb_size>>
      /\ UNCHANGED <<no_of_successive_full_updates, zero_copy_mode, last_fb_update,
                     fb_updates, updater, view, acks, sent, goal, resized,
                     requested>>
  BY DEF pipelineVars
<1>3. /\ JobInv' /\ Pending' = Pending \ {running[w]}
      /\ running[w] \in Jobs /\ running[w].kind \in Decodes
      /\ running[w].kind # "copy" /\ running[w].kind # "reset"
  BY DecodeJobs DEF IInv, Decodes
<1>4. running[w] \in Pending
  BY <1>1, PendingMeans
<1>5. TypeOK'
  BY <1>2, <1>3 DEF IInv, TypeOK, JobInv
<1>6. ControlInv'
  <2>1. w \notin {Updater, Reader}
    BY PoolFacts
  <2>2. \A g : g[1] \in {Updater, Reader} => (g \in held' <=> g \in held)
    BY <2>1, <1>1
  <2> QED BY <2>2, <1>1, <1>3, <1>4, ControlKept
<1>7. updater # "copying" /\ ~ Publishing
  <2>1. updater # "copying"
    BY <1>3, <1>4, CopyOnly
  <2>2. ~ Publishing
    BY <1>4, UpdaterAlone DEF Publishing
  <2> QED BY <2>1, <2>2
<1>8. CopyInv' /\ PictureIsFaithful'
  BY <1>2, <1>7 DEF CopyInv, PictureIsFaithful, Publishing
<1>9. ChainInv'
  <2>1. /\ w \in Streams => inflated'[w] = After(running[w])
        /\ \A s \in Streams : s # w => inflated'[s] = inflated[s]
    BY <1>1, <1>3, InflatedIsReached
  <2> QED BY <2>1, <1>1, <1>2, ChainFinished
<1>10. DrawInv'
  <2>1. /\ \A j \in Pending' : \A c \in 1 .. MaxPixels :
             j.kind # "copy" /\ c \in j.area => goal'[c] = j.stamp
        /\ \A j \in Pending' : Meant(j)
    BY <1>2, <1>3 DEF IInv, DrawInv
  <2>2. ASSUME failed' = {}, NEW c \in 1 .. NoOfPixels(size)
        PROVE  \/ pixel'[c] \in {goal[c], Uninitialized}
               \/ pixel'[c] \in Misplaced /\ goal[c] < resized
               \/ \E j \in Pending' : j.kind # "copy" /\ c \in j.area
    <3>1. failed = {} /\ pixel' = Paint(running[w].area, running[w].stamp)
      BY <1>1, <2>2
    <3>2. c \in 1 .. MaxPixels /\ c \in DOMAIN pixel
      BY MaxPixelsIsMax DEF IInv, TypeOK, DecoderTypeOK
    <3>3. CASE c \in running[w].area
      <4>1. pixel'[c] = running[w].stamp
        BY <3>1, <3>2, <3>3 DEF Paint
      <4>2. goal[c] = running[w].stamp
        BY <3>2, <3>3, <1>3, <1>4 DEF IInv, DrawInv
      <4> QED BY <4>1, <4>2
    <3>4. CASE c \notin running[w].area
      <4>1. pixel'[c] = pixel[c]
        BY <3>1, <3>2, <3>4 DEF Paint
      <4>2. Drawn(c) \/ \E j \in Pending : j.kind # "copy" /\ c \in j.area
        BY <2>2, <3>1 DEF IInv, DrawInv
      <4> QED BY <4>1, <4>2, <3>4, <1>3 DEF Drawn
    <3> QED BY <3>3, <3>4
  <2> QED BY <2>1, <2>2, <1>1, <1>2 DEF DrawInv, Drawn, Misplaced
<1> QED BY <1>3, <1>5, <1>6, <1>8, <1>9, <1>10 DEF IInv

(* A worker resets its inflater, or copies its chunk.                      *)
LEMMA OtherJobInv ==
  ASSUME IInv, UNCHANGED server, NEW w \in Workers, ResetZlib(w) \/ CopyChunk(w),
         UNCHANGED pipelineVars
  PROVE  IInv'
<1>1. /\ running[w] # Nobody /\ Answer(w)
      /\ UNCHANGED <<queue, failed, held, size, pixel, cursor>>
      /\ \/ /\ running[w].kind = "reset" /\ inflated' = [inflated EXCEPT ![w] = 0]
            /\ UNCHANGED frame
         \/ /\ running[w].kind = "copy" /\ UNCHANGED inflated
            /\ frame' = [c \in DOMAIN frame |-> IF c \in running[w].area THEN pixel[c]
                                                ELSE frame[c]]
  BY DEF ResetZlib, CopyChunk
<1>2. /\ UNCHANGED <<reader, update, rects, area, maybe_new_fb_size>>
      /\ UNCHANGED <<no_of_successive_full_updates, zero_copy_mode, last_fb_update,
                     fb_updates, updater, view, acks, sent, goal, resized,
                     requested>>
  BY DEF pipelineVars
<1>3. JobInv' /\ Pending' = Pending \ {running[w]}
  BY OtherJobs DEF IInv
<1>4. running[w] \in Pending
  BY <1>1, PendingMeans
<1>5. TypeOK'
  BY <1>2, <1>3 DEF IInv, TypeOK, JobInv
<1>6. ControlInv'
  BY <1>1, <1>3, ControlKept
<1>7. ~ Publishing
  BY <1>4, UpdaterAlone DEF Publishing
<1>8. PictureIsFaithful'
  BY <1>2, <1>7 DEF PictureIsFaithful, Publishing
<1>9. ChainInv'
  <2>1. running[w].kind # "reset" => Inflate(w)
    BY <1>1 DEF Inflate
  <2>2. /\ w \in Streams => inflated'[w] = After(running[w])
        /\ \A s \in Streams : s # w => inflated'[s] = inflated[s]
    BY <1>1, <2>1, InflatedIsReached
  <2> QED BY <2>2, <1>1, <1>2, ChainFinished
<1>10. CopyInv'
  <2> SUFFICES ASSUME updater = "copying", NEW c \in 1 .. NoOfPixels(size)
               PROVE  frame'[c] = pixel[c] \/ \E j \in Pending' : c \in j.area
    BY <1>1, <1>2 DEF CopyInv
  <2>1. frame' = [d \in DOMAIN frame |-> IF d \in running[w].area THEN pixel[d]
                                         ELSE frame[d]]
    BY <1>1, <1>4, CopyOnly
  <2>2. c \in DOMAIN frame
    BY MaxPixelsIsMax DEF IInv, TypeOK, DecoderTypeOK
  <2>3. frame[c] = pixel[c] \/ \E j \in Pending : c \in j.area
    BY DEF IInv, CopyInv
  <2> QED BY <2>1, <2>2, <2>3, <1>3
<1>11. DrawInv'
  <2>1. running[w].kind = "copy" \/ running[w].area = {}
    BY <1>1, <1>4 DEF IInv, DrawInv, Meant
  <2> QED BY <2>1, <1>1, <1>2, <1>3 DEF IInv, DrawInv, Drawn, Misplaced
<1> QED BY <1>3, <1>5, <1>6, <1>8, <1>9, <1>10, <1>11 DEF IInv

-----------------------------------------------------------------------------
(* The theorems                                                            *)

(* Every step keeps the invariant.                                         *)
LEMMA NextInv == IInv /\ [Next]_vars => IInv'
<1> SUFFICES ASSUME IInv, [Next]_vars PROVE IInv'
  OBVIOUS
<1>1. CASE UNCHANGED vars
  <2>1. /\ UNCHANGED <<queue, running, unanswered, failed, held, size, pixel, frame,
                       inflated, cursor>>
        /\ UNCHANGED <<reader, update, rects, area, maybe_new_fb_size>>
        /\ UNCHANGED <<no_of_successive_full_updates, zero_copy_mode, last_fb_update,
                       fb_updates, updater, view, acks, sent, goal, resized,
                       requested>>
        /\ UNCHANGED server
    BY <1>1 DEF vars, runVars, decoderVars, pipelineVars
  <2>2. TypeOK'
    BY <2>1 DEF IInv, TypeOK, DecoderTypeOK, FbLock!TypeOK
  <2>3. ControlInv'
    BY <2>1
    DEF IInv, ControlInv, UpdateInv, LockInv, StageInv, StageOf, NumberInv, FailureInv,
        GoalInv, Current, Pending, QueuedIn
  <2>4. GuardInv'
    BY <2>1 DEF IInv, JobInv, GuardInv
  <2> QED BY <2>1, <2>2, <2>3, <2>4, QuietStep DEF Publishing
<1>2. CASE Next
  <2>0. UNCHANGED server
    BY <1>2 DEF Next
  <2>1. CASE ReaderStep
    BY <2>0, <2>1, ReaderQuiet, ReaderLocks, ResizeFbInv, AcceptInv, EndUpdateInv
    DEF ReaderStep
  <2>2. CASE ConnectionFails
    BY <2>0, <2>2, ReaderQuiet
  <2>3. CASE UpdaterStep
    BY <2>0, <2>3, UpdaterQuiet, BeginSwapInv, TakeFbInv, BeginCopyInv, CopiedInv
    DEF UpdaterStep
  <2>4. CASE ShowEvent
    BY <2>0, <2>4, UpdaterQuiet
  <2>5. ASSUME NEW w \in Workers, DecoderStep(w) PROVE IInv'
    BY <2>0, <2>5, TakeJobInv, DecodeInv, OtherJobInv DEF DecoderStep, WorkerStep
  <2>6. CASE Finished
    BY <2>6, <1>1 DEF Finished
  <2> QED BY <1>2, <2>1, <2>2, <2>3, <2>4, <2>5, <2>6 DEF Next
<1> QED BY <1>1, <1>2

(* The invariant holds in every state.                                     *)
LEMMA Invariance == Spec => []IInv
BY InitInv, NextInv, PTL DEF Spec

(* The types of the connection's and the decoders' state: the channel of   *)
(* the view and the rectangles of an update stay within their bounds.      *)
THEOREM TypeCorrect == Spec => []TypeOK
<1>1. IInv => TypeOK
  BY DEF IInv
<1> QED BY <1>1, Invariance, PTL

(* For any number of threads, streams and rectangles: from when the reader *)
(* begins with an update until it reads the rectangles nothing of the last *)
(* one is under way, and no guard exists but the reader's own.             *)
THEOREM OneUpdateAtATime == Spec => []UpdatesDoNotOverlap
<1>1. IInv => UpdatesDoNotOverlap
  <2> SUFFICES ASSUME IInv, reader \in {"begin", "resizing", "sized"}
               PROVE  /\ Drained /\ fb_updates = <<>>
                      /\ \A g \in held : g[1] = Reader
    BY DEF UpdatesDoNotOverlap, BetweenUpdates
  <2>1. fb_updates = <<>>
    BY DEF IInv, ControlInv, UpdateInv
  <2> QED BY <2>1, NoJobs
<1> QED BY <1>1, Invariance, PTL

(* The copy of a picture never shares the pools with a job that waits for  *)
(* the guard the copy holds.                                               *)
THEOREM CopyHasThePools == Spec => []CopyIsAlone
<1>1. IInv => CopyIsAlone
  BY CopyOnly DEF CopyIsAlone
<1> QED BY <1>1, Invariance, PTL

(* Whatever the servers send and however the threads are scheduled, a      *)
(* picture that is sent to the view has every pixel as the server means    *)
(* it, in its column and row, or undefined where the framebuffer is; and   *)
(* only a pixel that was not drawn since the width changed last may be     *)
(* gray or made of bytes of another place instead.                         *)
THEOREM PictureCorrect == Spec => []PictureIsFaithful
<1>1. IInv => PictureIsFaithful
  BY DEF IInv
<1> QED BY <1>1, Invariance, PTL

(* Nothing is shown once a job failed.                                     *)
THEOREM NoFailedPicture == Spec => []FailureIsNotShown
<1>1. IInv => FailureIsNotShown
  <2> SUFFICES ASSUME IInv, Publishing PROVE failed = {}
    BY DEF FailureIsNotShown
  <2>1. fb_updates # <<>>
    BY UpdaterAlone DEF Publishing
  <2> QED BY <2>1 DEF IInv, ControlInv, FailureInv, Publishing
<1> QED BY <1>1, Invariance, PTL

(* handle_main_part leaves no thread behind that uses the framebuffer.     *)
THEOREM ReturnsWithoutThreads == Spec => []ReturnsAlone
<1>1. IInv => ReturnsAlone
  <2> SUFFICES ASSUME IInv, reader = "returned"
               PROVE  Drained /\ held = {} /\ updater = "idle"
    BY DEF ReturnsAlone
  <2>1. fb_updates = <<>> /\ updater = "idle"
    BY DEF IInv, ControlInv, UpdateInv
  <2> QED BY <2>1, NoJobs
<1> QED BY <1>1, Invariance, PTL

(* Every zlib chunk is inflated by the inflater that has inflated those    *)
(* before it, for any number of streams and resets.                        *)
THEOREM ZlibChunksInOrder == Spec => []ZlibInOrder
<1>1. IInv => ZlibInOrder
  <2> SUFFICES ASSUME IInv, NEW w \in Workers, running[w] # Nobody,
                      running[w].kind = "zlib"
               PROVE  inflated[w] = running[w].pos
    BY DEF ZlibInOrder
  <2>1. CASE w \in Streams
    BY <2>1 DEF IInv, ChainInv
  <2>2. CASE w \notin Streams
    <3>1. running[w] \in Pending /\ Route(running[w]) = General
      BY <2>2, PendingMeans DEF IInv, JobInv, RoutedInv, PoolOf
    <3>2. General \in Streams
      BY <3>1 DEF IInv, DrawInv, Meant, Route
    <3> QED BY <3>2, DecoderAssumption DEF DecoderAssumption
  <2> QED BY <2>1, <2>2
<1> QED BY <1>1, Invariance, PTL

(* finish() and wait() account for every job: a Future has no answer       *)
(* exactly as long as its job is queued or runs.                           *)
THEOREM FuturesAnswered == Spec => []FuturesMatchJobs
<1>1. IInv => FuturesMatchJobs
  BY DEF IInv, JobInv
<1> QED BY <1>1, Invariance, PTL

(* The decoders use the general pool as JobPool allows.                    *)
LEMMA PoolSteps == IInv /\ [Next]_vars => [GeneralPool!Next]_(GeneralPool!vars)
<1> SUFFICES ASSUME IInv, [Next]_vars PROVE PoolStep
  BY DEF PoolStep
<1>t. DecoderTypeOK /\ JobInv
  BY DEF IInv, TypeOK
<1>1. CASE UNCHANGED <<queue, running>>
  BY <1>1 DEF PoolStep, GeneralPool!vars
<1>2. ASSUME NEW j \in Jobs, Accept(j), AcceptUnchanged PROVE PoolStep
  BY <1>2, <1>t, PoolAccepts DEF AcceptUnchanged
<1>3. ASSUME NEW kind \in {"rect", "zlib"}, NEW s \in Pools, AcceptPixels(kind, s),
             kind = "zlib" => s \in Streams
      PROVE  PoolStep
  <2>1. PICK pixels \in Regions : Accept(Job(kind, s, pixels))
    BY <1>3 DEF AcceptPixels
  <2>2. reader = "rects" /\ AcceptUnchanged
    BY <1>3 DEF AcceptPixels, ReadingRect
  <2>3. pixels \in SUBSET Nat
    BY <1>t, MaxPixelsIsMax DEF Regions, DecoderTypeOK
  <2>4. Job(kind, s, pixels) \in Jobs
    BY <2>2, <2>3, <1>3, JobIsNew
  <2> QED BY <2>1, <2>2, <2>4, <1>2
<1>4. CASE ReaderStep
  <2>0. General \in Pools /\ Streams \subseteq Pools
    BY DEF Pools
  <2>1. CASE ReceiveUpdate \/ JoinLastUpdate \/ AnnounceSize \/ LockReader \/ ResizeFb
             \/ FbSizeRead \/ BeginRects \/ EndUpdate \/ DropDecoder \/ Return
             \/ \E new \in Sizes : AcceptSize(new)
    BY <2>1, <1>1
    DEF ReceiveUpdate, JoinLastUpdate, AnnounceSize, LockReader, ResizeFb, FbSizeRead,
        BeginRects, EndUpdate, DropDecoder, Return, AcceptSize, AcceptUnchanged, decoderVars
  <2>2. CASE AcceptPixels("rect", General)
    BY <2>0, <2>2, <1>3
  <2>3. ASSUME NEW s \in Streams, AcceptPixels("zlib", s) PROVE PoolStep
    BY <2>0, <2>3, <1>3
  <2>4. ASSUME NEW s \in Streams, AcceptReset(s) PROVE PoolStep
    <3>1. /\ reader = "rects" /\ sent[s] > 0 /\ Accept(Job("reset", s, {}))
          /\ AcceptUnchanged
      BY <2>4 DEF AcceptReset, ReadingRect
    <3>2. Job("reset", s, {}) \in Jobs
      BY <3>1, <2>0, JobIsNew
    <3> QED BY <3>1, <3>2, <1>2
  <2>5. CASE AcceptCursor
    <3>1. reader = "rects" /\ Accept(Job("cursor", General, {})) /\ AcceptUnchanged
      BY <2>5 DEF AcceptCursor, ReadingRect
    <3>2. Job("cursor", General, {}) \in Jobs
      BY <3>1, <2>0, JobIsNew
    <3> QED BY <3>1, <3>2, <1>2
  <2> QED BY <1>4, <2>1, <2>2, <2>3, <2>4, <2>5 DEF ReaderStep
<1>5. CASE UpdaterStep
  <2>1. CASE BeginCopy
    <3>1. updater = "decoding" /\ AllDecoded(Current.stamp) /\ StartCopy(Current.stamp)
      BY <2>1 DEF BeginCopy, Decoded
    <3>2. Pending = {} /\ fb_updates # <<>>
      BY <3>1, AllDone
    <3>3. Current.stamp \in 0 .. MaxUpdates
      BY <3>2, CurrentStamp
    <3> QED BY <3>1, <3>2, <3>3, <1>t, PoolCopies
  <2>2. CASE ~ BeginCopy
    BY <1>1, <1>5, <2>2
    DEF UpdaterStep, StartUpdateJob, DecodingFailed, BeginSwap, LockToSwap, TakeFb,
        SwapFb, Copied, EndCopy, PublishCursor, PublishFrame, Synced, EndUpdateJob,
        decoderVars
  <2> QED BY <2>1, <2>2
<1>6. CASE ConnectionFails \/ ShowEvent \/ Finished \/ UNCHANGED vars
  BY <1>1, <1>6 DEF ConnectionFails, ShowEvent, Finished, vars, runVars, decoderVars
<1>7. ASSUME NEW w \in Workers, DecoderStep(w) PROVE PoolStep
  <2>1. CASE Pop(w)
    BY <2>1, <1>t, PoolPops
  <2>2. CASE LockFb(w)
    BY <2>2, <1>1 DEF LockFb
  <2>3. CASE DecodeOk(w) \/ DecodeFails(w) \/ ResetZlib(w) \/ CopyChunk(w)
    <3>1. running[w] # Nobody /\ Answer(w) /\ UNCHANGED queue
      BY <2>3, <1>t, HolderDecodes DEF DecodeOk, DecodeFails, ResetZlib, CopyChunk
    <3> QED BY <3>1, <1>t, PoolAnswers
  <2> QED BY <1>7, <2>1, <2>2, <2>3 DEF DecoderStep, WorkerStep
<1> QED BY <1>4, <1>5, <1>6, <1>7 DEF Next

(* The decoders use the general pool as JobPool promises its threads work: *)
(* what is proved of JobPool's implementation serves them.                 *)
THEOREM RefinesGeneralPool == Spec => UsesGeneralPool
<1>1. Init => GeneralPool!Init
  BY DEF Init, InitDecoder, GeneralPool!Init, Workers, Pools
<1> QED BY <1>1, PoolSteps, Invariance, PTL DEF Spec, UsesGeneralPool, GeneralPool!Spec
-----------------------------------------------------------------------------
(* The framebuffer's lock                                                  *)

(* Reader, updater and workers only take and drop guards of the            *)
(* framebuffer as the group lock allows; GuardInv and LockInv say who      *)
(* holds them.                                                             *)
LEMMA LockSteps == IInv /\ [Next]_vars => [FbLock!Next]_held
<1> SUFFICES ASSUME IInv, [Next]_vars, held' # held PROVE FbLock!Next
  OBVIOUS
<1>1. ASSUME NEW c \in Workers \cup {Updater, Reader},
             NEW m \in {"Decoding", "Resizing", "Reading"},
             FbLock!Acquire(c, m) \/ FbLock!Release(c, m)
      PROVE  FbLock!Next
  BY <1>1 DEF FbLock!Next
<1>2. CASE ReaderStep
  <2>1. LockReader \/ ResizeFb \/ FbSizeRead
    BY <1>2
    DEF ReaderStep, ReceiveUpdate, JoinLastUpdate, AnnounceSize, BeginRects, EndUpdate,
        DropDecoder, Return, AcceptSize, AcceptPixels, AcceptReset, AcceptCursor,
        ReadingRect, AcceptUnchanged, decoderVars
  <2>2. \E m \in {"Resizing", "Reading"} :
          FbLock!Acquire(Reader, m) \/ FbLock!Release(Reader, m)
    BY <2>1 DEF LockReader, ResizeFb, FbSizeRead
  <2> QED BY <1>1, <2>2
<1>3. CASE UpdaterStep
  <2>1. \E m \in {"Decoding", "Reading"} :
          FbLock!Acquire(Updater, m) \/ FbLock!Release(Updater, m)
    BY <1>3
    DEF UpdaterStep, StartUpdateJob, DecodingFailed, BeginSwap, LockToSwap, TakeFb,
        SwapFb, BeginCopy, StartCopy, Copied, EndCopy, PublishCursor, PublishFrame,
        Synced, EndUpdateJob, UpdaterUnchanged, decoderVars
  <2> QED BY <1>1, <2>1
<1>4. CASE ConnectionFails \/ ShowEvent \/ Finished \/ UNCHANGED vars
  BY <1>4 DEF ConnectionFails, ShowEvent, Finished, vars, runVars, decoderVars
<1>5. ASSUME NEW w \in Workers, DecoderStep(w) PROVE FbLock!Next
  <2>1. FbLock!Acquire(w, "Decoding") \/ FbLock!Release(w, "Decoding")
    BY <1>5
    DEF DecoderStep, WorkerStep, Pop, LockFb, DecodeOk, DecodeFails, ResetZlib,
        CopyChunk
  <2> QED BY <1>1, <2>1
<1> QED BY <1>2, <1>3, <1>4, <1>5 DEF Next

(* Every guard of the framebuffer is taken and dropped as GroupLock, which *)
(* ModeLock implements, describes it: the reader's of a resize and of      *)
(* fb_size(), the updater's of a copy and of the zero-copy swap, and those *)
(* of the decoders.                                                        *)
THEOREM RefinesFbLock == Spec => FbLock!Spec
<1>1. Init => FbLock!Init
  BY DEF Init, InitDecoder, FbLock!Init
<1> QED BY <1>1, LockSteps, Invariance, PTL DEF Spec, FbLock!Spec

(* What the group lock promises of guards holds of those of the            *)
(* framebuffer: those of two modes never exist together.                   *)
THEOREM GroupLockExclusion == FbLock!Spec => [](FbLock!TypeOK /\ FbLock!Exclusion)
<1> DEFINE Safe == FbLock!TypeOK /\ FbLock!Exclusion
<1>1. FbLock!Init => Safe
  BY DEF FbLock!Init, FbLock!TypeOK, FbLock!Exclusion
<1>2. Safe /\ [FbLock!Next]_held => Safe'
  <2> SUFFICES ASSUME Safe, [FbLock!Next]_held PROVE Safe'
    OBVIOUS
  <2>1. ASSUME NEW c \in Workers \cup {Updater, Reader},
               NEW m \in {"Decoding", "Resizing", "Reading"},
               FbLock!Acquire(c, m)
        PROVE  Safe'
    BY <2>1 DEF FbLock!TypeOK, FbLock!Exclusion, FbLock!Acquire
  <2>2. ASSUME NEW c \in Workers \cup {Updater, Reader},
               NEW m \in {"Decoding", "Resizing", "Reading"},
               FbLock!Release(c, m)
        PROVE  Safe'
    BY <2>2 DEF FbLock!TypeOK, FbLock!Exclusion, FbLock!Release
  <2>3. CASE UNCHANGED held
    BY <2>3 DEF FbLock!TypeOK, FbLock!Exclusion
  <2> QED BY <2>1, <2>2, <2>3 DEF FbLock!Next
<1> QED BY <1>1, <1>2, PTL DEF FbLock!Spec

(* No decoder writes into the framebuffer, and none is given away, while   *)
(* the updater copies it or the reader resizes it or reads its size.       *)
THEOREM GuardsExclude == Spec => []FbLock!Exclusion
BY RefinesFbLock, GroupLockExclusion, PTL

-----------------------------------------------------------------------------
(* Nobody waits in a circle                                                *)

\* The lock of the cursor is held only while the picture is sent, and the
\* picture that a synchronous update waits for is in the channel or shown.
WaitInv ==
  /\ cursor.locked => updater \in {"sending", "syncing", "done"}
  /\ updater = "syncing" =>
       Throttle /\ (acks > 0 \/ \E i \in DOMAIN view : view[i] = "frame")

(* An event that joins the channel leaves those that are in it.            *)
LEMMA WaitSent ==
  ASSUME TypeOK, NEW e \in {"size", "cursor", "frame"}, view' = Append(view, e)
  PROVE  /\ \A i \in DOMAIN view : i \in DOMAIN view' /\ view'[i] = view[i]
         /\ \E i \in DOMAIN view' : view'[i] = e
<1>1. view \in Seq({"size", "cursor", "frame"})
  BY DEF TypeOK
<1> QED BY <1>1, Pushed

(* The picture of a synchronous update is acknowledged when it is shown.   *)
LEMMA WaitShown ==
  ASSUME TypeOK, WaitInv, ShowEvent
  PROVE  WaitInv'
<1>1. /\ view \in Seq({"size", "cursor", "frame"}) /\ view # <<>> /\ acks \in Nat
      /\ view' = Tail(view) /\ UNCHANGED <<cursor, updater>>
      /\ acks' = IF Throttle /\ Head(view) = "frame" THEN acks + 1 ELSE acks
  BY DEF ShowEvent, TypeOK, decoderVars
<1>2. ASSUME updater = "syncing", NEW i \in DOMAIN view, view[i] = "frame", acks = 0
      PROVE  acks' > 0 \/ \E k \in DOMAIN view' : view'[k] = "frame"
  <2>1. CASE i = 1
    <3>1. Head(view) = "frame"
      BY <1>1, <1>2, <2>1, Popped
    <3> QED BY <1>1, <1>2, <3>1 DEF WaitInv
  <2>2. CASE i # 1
    <3>1. i - 1 \in DOMAIN view' /\ view'[i - 1] = view[i]
      BY <1>1, <1>2, <2>2, Popped
    <3> QED BY <1>2, <3>1
  <2> QED BY <2>1, <2>2
<1>3. acks > 0 => acks' > 0
  BY <1>1
<1> QED BY <1>1, <1>2, <1>3 DEF WaitInv

(* Every step keeps what the waits rest on.                                *)
LEMMA WaitStep == IInv /\ WaitInv /\ [Next]_vars => WaitInv'
<1> SUFFICES ASSUME IInv, WaitInv, [Next]_vars PROVE WaitInv'
  OBVIOUS
<1>t. TypeOK /\ cursor \in [changed : BOOLEAN, locked : BOOLEAN]
  BY DEF IInv, TypeOK, DecoderTypeOK
<1>1. ASSUME cursor'.locked = cursor.locked, UNCHANGED <<updater, view, acks>>
      PROVE  WaitInv'
  BY <1>1 DEF WaitInv
<1>2. CASE ReceiveUpdate \/ JoinLastUpdate \/ LockReader \/ ResizeFb \/ FbSizeRead
           \/ BeginRects \/ EndUpdate \/ DropDecoder \/ Return \/ ConnectionFails
           \/ Finished \/ UNCHANGED vars
  BY <1>1, <1>2
  DEF ReceiveUpdate, JoinLastUpdate, LockReader, ResizeFb, FbSizeRead, BeginRects,
      EndUpdate, DropDecoder, Return, ConnectionFails, Finished, vars, runVars,
      pipelineVars, decoderVars
<1>3. CASE AcceptUnchanged
  BY <1>1, <1>3 DEF AcceptUnchanged
<1>4. CASE AnnounceSize
  <2>1. view' = Append(view, "size") /\ UNCHANGED <<cursor, updater, acks>>
    BY <1>4 DEF AnnounceSize, decoderVars
  <2> QED BY <1>t, <2>1, WaitSent DEF WaitInv
<1>5. CASE StartUpdateJob \/ DecodingFailed \/ BeginSwap \/ TakeFb \/ BeginCopy \/ Copied
  <2>1. /\ updater \notin {"sending", "syncing", "done"} /\ updater' # "syncing"
        /\ UNCHANGED cursor
    BY <1>5
    DEF StartUpdateJob, DecodingFailed, BeginSwap, LockToSwap, TakeFb, BeginCopy, Copied,
        Decoded, SwapFb, StartCopy, EndCopy, decoderVars
  <2> QED BY <2>1 DEF WaitInv
<1>6. CASE PublishCursor
  BY <1>6 DEF PublishCursor, WaitInv
<1>7. CASE PublishFrame
  <2>1. /\ view' = Append(view, "frame") /\ UNCHANGED cursor
        /\ updater' \in {"syncing", "done"} /\ (updater' = "syncing" => Throttle)
    BY <1>7, Zenon DEF PublishFrame, decoderVars
  <2> QED BY <1>t, <2>1, WaitSent DEF WaitInv
<1>8. CASE Synced
  BY <1>8 DEF Synced, WaitInv
<1>9. CASE EndUpdateJob
  <2>1. updater' = "idle" /\ cursor' = [cursor EXCEPT !.locked = FALSE]
    BY <1>9 DEF EndUpdateJob
  <2> QED BY <1>t, <2>1 DEF WaitInv
<1>10. CASE ShowEvent
  BY <1>t, <1>10, WaitShown
<1>11. ASSUME NEW w \in Workers, DecoderStep(w) PROVE WaitInv'
  <2>1. cursor' \in {cursor, [cursor EXCEPT !.changed = TRUE]}
    BY <1>11
    DEF DecoderStep, WorkerStep, Pop, LockFb, DecodeOk, DecodeFails, ResetZlib, CopyChunk
  <2>2. cursor'.locked = cursor.locked
    BY <1>t, <2>1
  <2> QED BY <1>1, <1>11, <2>2 DEF DecoderStep, pipelineVars
<1>12. CASE ReaderStep
  BY <1>2, <1>3, <1>4, <1>12
  DEF ReaderStep, AcceptPixels, AcceptReset, AcceptCursor, AcceptSize
<1>13. CASE UpdaterStep
  BY <1>5, <1>6, <1>7, <1>8, <1>9, <1>13 DEF UpdaterStep
<1> QED BY <1>2, <1>10, <1>11, <1>12, <1>13 DEF Next

(* A worker with a job finds the framebuffer's lock free, or taken in its  *)
(* own mode, and the cursor's lock free.                                   *)
LEMMA WorkersNeverWait ==
  ASSUME IInv, WaitInv, NEW w \in Workers, running[w] # Nobody
  PROVE  WorkerCanGoOn(w)
<1> SUFFICES ASSUME running[w].kind \in Decodes
             PROVE  ~ cursor.locked /\ CanLock("Decoding")
  BY DEF WorkerCanGoOn
<1>1. running[w] \in Pending /\ running[w].kind # "copy"
  BY PendingMeans DEF Decodes
<1>2. StageOf(running[w])
  BY <1>1 DEF IInv, ControlInv, StageInv
<1>3. updater \in {"idle", "decoding"}
  BY <1>1, <1>2 DEF StageOf, IInv, ControlInv, UpdateInv
<1>4. reader \notin {"begin", "resizing", "sized"}
  BY <1>1, <1>2 DEF StageOf, IInv, ControlInv, UpdateInv
<1>5. \A g \in held : g[2] = "Decoding"
  BY <1>3, <1>4 DEF IInv, ControlInv, LockInv, JobInv, GuardInv
<1> QED BY <1>3, <1>5 DEF WaitInv, CanLock

(* When the pools and the view's channel are empty the updater can go on.  *)
LEMMA UpdaterNeverWaits ==
  ASSUME IInv, WaitInv, fb_updates # <<>>, Pending = {}, view = <<>>
  PROVE  UpdaterCanGoOn
<1>1. Drained /\ unanswered = {} /\ reader # "rects" /\ ViewHasRoom
  <2>1. unanswered = {}
    BY DEF IInv, JobInv, FuturesMatchJobs
  <2>2. ViewHasRoom
    BY PipelineAssumption DEF PipelineAssumption, ViewHasRoom
  <2> QED BY <2>1, <2>2, NothingPending DEF IInv, ControlInv, UpdateInv
<1>2. updater \notin {"copying", "swapping"} => held = {}
  <2>1. reader \notin {"begin", "resizing", "sized"}
    BY DEF IInv, ControlInv, UpdateInv
  <2>2. \A g \in held : g[1] \in {Updater, Reader}
    BY NothingPending DEF IInv
  <2> QED BY <2>1, <2>2 DEF IInv, ControlInv, LockInv
<1>3. updater = "decoding" => CanLock("Reading") /\ CanLock("Decoding") /\ ~ Holds(Updater)
  BY <1>2 DEF CanLock, Holds
<1>4. updater = "swapping" => Holds(Updater)
  BY DEF IInv, ControlInv, LockInv, Holds
<1>5. updater = "syncing" => acks > 0
  BY DEF WaitInv
<1> QED BY <1>1, <1>3, <1>4, <1>5 DEF UpdaterCanGoOn, AllDecoded

(* And when the updater has no job either, so can the reader.              *)
LEMMA ReaderNeverWaits ==
  ASSUME IInv, fb_updates = <<>>, Pending = {}, view = <<>>
  PROVE  ReaderCanGoOn
<1>1. last_fb_update # "pending" /\ updater = "idle" /\ ViewHasRoom
  <2>1. ViewHasRoom
    BY PipelineAssumption DEF PipelineAssumption, ViewHasRoom
  <2> QED BY <2>1 DEF IInv, ControlInv, UpdateInv
<1>2. Drained
  BY NothingPending DEF IInv
<1>3. reader \in {"begin", "resizing"} => Holds(Reader) \/ held = {}
  BY NoJobs DEF Holds
<1> QED BY <1>1, <1>2, <1>3 DEF ReaderCanGoOn, CanLock

(* Whatever is under way, some thread of the client can go on: the waits   *)
(* of workers, updater and reader end in each other's steps and never in a *)
(* circle, for any number of threads and any capacity of the channel.      *)
THEOREM NoCircularWait == Spec => []NobodyIsStuck
<1>1. Init => WaitInv
  BY DEF Init, InitDecoder, WaitInv
<1>2. IInv /\ WaitInv => NobodyIsStuck
  BY WorkersNeverWait, UpdaterNeverWaits, ReaderNeverWaits DEF NobodyIsStuck
<1> QED BY <1>1, <1>2, WaitStep, Invariance, PTL DEF Spec

(* A queued job is taken: its pool has a worker, which is free or busy     *)
(* with a job that does not wait.                                          *)
LEMMA JobsAreTaken ==
  ASSUME IInv, WaitInv, Pending # {}
  PROVE  \E w \in Workers : WorkerCanGoOn(w)
<1>1. CASE \E w \in Workers : running[w] # Nobody
  BY <1>1, WorkersNeverWait
<1>2. CASE \A w \in Workers : running[w] = Nobody
  <2>1. PICK p \in Pools : \E i \in DOMAIN queue[p] : TRUE
    BY <1>2, PendingMeans
  <2>2. queue[p] # <<>>
    BY <2>1
  <2>3. PICK w \in Workers : PoolOf(w) = p
    BY DecoderAssumption DEF DecoderAssumption, Pools, Workers, PoolOf
  <2> QED BY <1>2, <2>2, <2>3 DEF WorkerCanGoOn
<1> QED BY <1>1, <1>2

-----------------------------------------------------------------------------
(* The screen                                                              *)

\* Jobs draw for the update that is read, or for the one that is on its way;
\* that one is the last that was read completely; a failure loses it.
ScreenInv ==
  /\ reader = "packet" /\ update > 0 => last_fb_update # "none"
  /\ \A j \in Pending :
       j.kind # "copy" /\ j.stamp <= Completed
         => fb_updates # <<>> /\ updater \in {"idle", "decoding"}
  /\ fb_updates # <<>> => Current.stamp = Completed
  /\ updater = "failed" => Lost

ScreenStep == [Window!Next]_(Window!vars)

(* Nothing is lost before the updater noticed.                             *)
LEMMA NothingIsLost ==
  ASSUME IInv, ScreenInv,
         \/ reader \in {"begin", "resizing", "sized", "rects"}
         \/ updater \in {"copying", "swapping", "publishing", "sending", "syncing", "done"}
  PROVE  ~ Lost /\ update \in Nat
<1> DEFINE Early == {"begin", "resizing", "sized", "rects"}
           Late == {"copying", "swapping", "publishing", "sending", "syncing", "done"}
<1>1. update \in Nat /\ (reader \in Early => Completed = update - 1)
  BY DecoderAssumption
  DEF DecoderAssumption, IInv, TypeOK, ControlInv, UpdateInv, Completed
<1>2. CASE reader \in Early
  <2>1. failed \subseteq {update}
    BY <1>2 DEF IInv, ControlInv, FailureInv
  <2> QED BY <1>1, <1>2, <2>1 DEF Lost
<1>3. CASE updater \in Late
  <2>1. failed = {}
    BY <1>3 DEF IInv, ControlInv, UpdateInv, FailureInv
  <2> QED BY <1>1, <2>1 DEF Lost
<1> QED BY <1>2, <1>3

(* The reader's steps between rectangles are not seen.                     *)
LEMMA ScreenReader ==
  ASSUME IInv, ScreenInv,
         ReceiveUpdate \/ JoinLastUpdate \/ AnnounceSize \/ LockReader \/ FbSizeRead
           \/ BeginRects \/ ConnectionFails \/ DropDecoder \/ Return
           \/ \E new \in Sizes : AcceptSize(new)
  PROVE  ScreenInv' /\ Completed' = Completed
<1>1. /\ UNCHANGED <<queue, running, unanswered, failed>>
      /\ UNCHANGED <<fb_updates, updater>>
  BY DEF ReceiveUpdate, JoinLastUpdate, AnnounceSize, LockReader, FbSizeRead, BeginRects,
         ConnectionFails, DropDecoder, Return, AcceptSize, AcceptUnchanged, decoderVars,
         pipelineVars
<1>2. Pending' = Pending
  BY <1>1 DEF Pending, QueuedIn
<1>3. update \in Nat
  BY DecoderAssumption DEF DecoderAssumption, IInv, TypeOK
<1>4. Completed' = Completed /\ (reader' = "packet" => UNCHANGED <<reader, update, last_fb_update>>)
  <2>1. CASE ReceiveUpdate
    BY <1>3, <2>1 DEF ReceiveUpdate, Completed, ScreenInv
  <2>2. CASE JoinLastUpdate
    BY <1>3, <2>2 DEF JoinLastUpdate, Completed
  <2>3. CASE AnnounceSize \/ LockReader \/ FbSizeRead \/ BeginRects
    BY <2>3 DEF AnnounceSize, LockReader, FbSizeRead, BeginRects, pipelineVars, Completed
  <2>4. CASE ConnectionFails \/ DropDecoder \/ Return
    BY <2>4 DEF ConnectionFails, DropDecoder, Return, Completed
  <2>5. CASE \E new \in Sizes : AcceptSize(new)
    BY <2>5 DEF AcceptSize, AcceptUnchanged, Completed
  <2> QED BY <2>1, <2>2, <2>3, <2>4, <2>5
<1> QED BY <1>1, <1>2, <1>4 DEF ScreenInv, Lost, Current

(* A rectangle's job draws for the next update.                            *)
LEMMA ScreenAccept ==
  ASSUME IInv, ScreenInv, NEW j \in Jobs, j \notin Pending, Accept(j), j.stamp = update,
         ReadingRect, AcceptUnchanged
  PROVE  ScreenInv' /\ Completed' = Completed /\ ~ Lost /\ fb_updates = <<>>
<1>1. reader = "rects" /\ UNCHANGED <<reader, update, last_fb_update, fb_updates, updater, failed>>
  BY DEF ReadingRect, AcceptUnchanged
<1>2. last_fb_update = "none" /\ fb_updates = <<>> /\ update \in Nat /\ update > 0
  BY <1>1, NothingIsLost DEF IInv, ControlInv, UpdateInv
<1>3. Completed = update - 1 /\ Completed' = update - 1 /\ ~ Lost
  BY <1>1, <1>2, NothingIsLost DEF Completed
<1>4. Pending' = Pending \cup {j}
  BY AcceptJobs DEF AcceptUnchanged, IInv
<1> QED BY <1>1, <1>2, <1>3, <1>4 DEF ScreenInv, Lost, Current

(* A rectangle that is decoded becomes one new job.                        *)
LEMMA AcceptsOne ==
  ASSUME IInv,
         \/ AcceptPixels("rect", General)
         \/ \E s \in Streams : AcceptPixels("zlib", s) \/ AcceptReset(s)
         \/ AcceptCursor
  PROVE  /\ ReadingRect /\ AcceptUnchanged
         /\ \E j \in Jobs : j \notin Pending /\ Accept(j) /\ j.stamp = update
<1>0. General \in Pools /\ Streams \subseteq Pools
  BY DEF Pools
<1>1. ASSUME NEW kind \in {"rect", "zlib"}, NEW s \in Pools, AcceptPixels(kind, s),
             kind = "zlib" => s \in Streams
      PROVE  /\ ReadingRect /\ AcceptUnchanged
             /\ \E j \in Jobs : j \notin Pending /\ Accept(j) /\ j.stamp = update
  <2>1. PICK pixels \in Regions : Accept(Job(kind, s, pixels))
    BY <1>1 DEF AcceptPixels
  <2>2. ReadingRect /\ reader = "rects" /\ AcceptUnchanged
    BY <1>1 DEF AcceptPixels, ReadingRect
  <2>3. pixels \in SUBSET Nat
    BY MaxPixelsIsMax DEF Regions, IInv, TypeOK, DecoderTypeOK
  <2> QED BY <2>1, <2>2, <2>3, <1>1, JobIsNew
<1>2. CASE AcceptPixels("rect", General)
  BY <1>0, <1>1, <1>2
<1>3. CASE \E s \in Streams : AcceptPixels("zlib", s)
  BY <1>0, <1>1, <1>3
<1>4. ASSUME NEW s \in Streams, AcceptReset(s)
      PROVE  /\ ReadingRect /\ AcceptUnchanged
             /\ \E j \in Jobs : j \notin Pending /\ Accept(j) /\ j.stamp = update
  <2>1. /\ ReadingRect /\ reader = "rects" /\ sent[s] > 0
        /\ Accept(Job("reset", s, {})) /\ AcceptUnchanged
    BY <1>4 DEF AcceptReset, ReadingRect
  <2> QED BY <1>0, <2>1, JobIsNew
<1>5. CASE AcceptCursor
  <2>1. /\ ReadingRect /\ reader = "rects"
        /\ Accept(Job("cursor", General, {})) /\ AcceptUnchanged
    BY <1>5 DEF AcceptCursor, ReadingRect
  <2> QED BY <1>0, <2>1, JobIsNew
<1> QED BY <1>2, <1>3, <1>4, <1>5

(* The updater's steps: preparing a picture and sending it.  The end of    *)
(* its job is not seen, as its update was sent or is lost.                 *)
LEMMA ScreenUpdater ==
  ASSUME IInv, ScreenInv, UpdaterStep \/ ShowEvent
  PROVE  ScreenInv' /\ ScreenStep
<1>1. UNCHANGED <<failed, size, reader, update, goal, resized>>
  BY DEF UpdaterStep, StartUpdateJob, DecodingFailed, BeginSwap, TakeFb, BeginCopy, Copied,
         PublishCursor, PublishFrame, Synced, EndUpdateJob, ShowEvent, UpdaterUnchanged,
         LockToSwap, SwapFb, StartCopy, EndCopy, decoderVars
<1>2. UNCHANGED <<Picture, Fresh>>
  BY <1>1 DEF Picture, Fresh
<1>3. /\ last_fb_update = "none" <=> last_fb_update' = "none"
      /\ UNCHANGED <<Completed, Lost>>
  <2>1. last_fb_update = "none" <=> last_fb_update' = "none"
    <3>1. CASE EndUpdateJob
      <4>1. fb_updates # <<>> /\ last_fb_update' \in {"ok", "err"}
        BY <3>1 DEF EndUpdateJob, IInv, ControlInv, UpdateInv
      <4> QED BY <4>1 DEF IInv, ControlInv, UpdateInv
    <3>2. CASE ~ EndUpdateJob
      BY <3>2
      DEF UpdaterStep, StartUpdateJob, DecodingFailed, BeginSwap, TakeFb, BeginCopy,
          Copied, PublishCursor, PublishFrame, Synced, ShowEvent
    <3> QED BY <3>1, <3>2
  <2> QED BY <1>1, <2>1 DEF Completed, Lost
<1>4. Completed \in Int
  BY DecoderAssumption DEF DecoderAssumption, IInv, TypeOK, Completed
<1>5. CASE StartUpdateJob \/ DecodingFailed \/ PublishCursor \/ Synced \/ ShowEvent
  <2>1. /\ UNCHANGED <<queue, running, frame, fb_updates>>
        /\ updater = "idle" => updater' \in {"idle", "decoding"}
        /\ updater \notin {"idle", "decoding"} => updater' # "idle"
    BY <1>5
    DEF StartUpdateJob, DecodingFailed, PublishCursor, Synced, ShowEvent, decoderVars
  <2>2. Pending' = Pending
    BY <2>1 DEF Pending, QueuedIn
  <2>3. updater' \in {"idle", "decoding"} \/ updater' = updater \/ Pending = {}
    BY <1>5, AllDone, UpdaterAlone
    DEF StartUpdateJob, DecodingFailed, PublishCursor, Synced, ShowEvent
  <2>4. updater' = "failed" => Lost
    <3>1. CASE DecodingFailed
      <4>1. Current.stamp \in failed /\ fb_updates # <<>>
        BY <3>1, AllDone DEF DecodingFailed
      <4> QED BY <1>4, <4>1 DEF ScreenInv, Lost
    <3>2. CASE ~ DecodingFailed
      BY <1>5, <3>2
      DEF StartUpdateJob, PublishCursor, Synced, ShowEvent, ScreenInv
    <3> QED BY <3>1, <3>2
  <2>5. UNCHANGED OnItsWay
    BY <1>5, <2>1
    DEF StartUpdateJob, DecodingFailed, PublishCursor, Synced, ShowEvent, OnItsWay
  <2> QED BY <1>1, <1>2, <1>3, <2>1, <2>2, <2>3, <2>4, <2>5
      DEF ScreenInv, Current, Shown, ScreenStep, Window!vars
<1>6. CASE BeginSwap \/ TakeFb \/ BeginCopy \/ Copied
  <2>1. /\ updater \in {"decoding", "swapping", "copying"}
        /\ updater' \in {"swapping", "copying", "publishing"}
        /\ UNCHANGED fb_updates
    BY <1>6 DEF BeginSwap, TakeFb, BeginCopy, Copied, Decoded
  <2>2. fb_updates # <<>>
    BY <2>1 DEF IInv, ControlInv, UpdateInv
  <2>3. \A j \in Pending' : j.kind = "copy"
    <3>1. CASE BeginCopy
      <4>1. Pending = {} /\ Current.stamp \in 0 .. MaxUpdates
        BY <3>1, AllDone, CurrentStamp DEF BeginCopy, Decoded
      <4> QED BY <3>1, <4>1, StartCopyJobs DEF BeginCopy, IInv
    <3>2. CASE BeginSwap \/ TakeFb
      <4>1. Pending = {} /\ UNCHANGED <<queue, running>>
        BY <3>2, AllDone, UpdaterAlone DEF BeginSwap, LockToSwap, TakeFb, Decoded, SwapFb
      <4> QED BY <4>1 DEF Pending, QueuedIn
    <3>3. CASE Copied
      <4>1. UNCHANGED <<queue, running>> /\ updater = "copying"
        BY <3>3 DEF Copied, EndCopy
      <4> QED BY <4>1, CopyOnly DEF Pending, QueuedIn
    <3> QED BY <1>6, <3>1, <3>2, <3>3
  <2>4. OnItsWay /\ OnItsWay'
    BY <2>1, <2>2 DEF OnItsWay
  <2>5. Shown' = Shown /\ Shown < Completed
    BY <1>3, <1>4, <2>4 DEF Shown
  <2>6. Window!Prepare
    BY <1>2, <1>3, <2>5 DEF Window!Prepare
  <2> QED BY <1>1, <1>3, <2>1, <2>3, <2>6
      DEF ScreenInv, Current, ScreenStep, Window!Next
<1>7. CASE PublishFrame
  <2>1. /\ updater = "sending" /\ updater' \in {"syncing", "done"}
        /\ UNCHANGED <<queue, running, frame, fb_updates>>
    BY <1>7, Zenon DEF PublishFrame, decoderVars
  <2>2. fb_updates # <<>> /\ Pending = {} /\ Pending' = {}
    <3>1. Pending' = Pending
      BY <2>1 DEF Pending, QueuedIn
    <3> QED BY <2>1, <3>1, UpdaterAlone
  <2>3. ~ Lost /\ OnItsWay /\ ~ OnItsWay'
    BY <2>1, <2>2, NothingIsLost DEF OnItsWay
  <2>4. Shown < Completed /\ Shown' = Shown + 1
    BY <1>3, <1>4, <2>3 DEF Shown
  <2>5. \A c \in 1 .. NoOfPixels(size) :
          \/ frame[c] \in {goal[c], Uninitialized}
          \/ frame[c] \in Misplaced /\ c \notin Fresh
    BY <2>1 DEF IInv, PictureIsFaithful, Publishing
  <2>6. \A c \in DOMAIN Picture :
          \/ frame[c] \in {Picture[c], Uninitialized}
          \/ frame[c] \in Misplaced /\ c \notin Fresh
    BY <2>5 DEF Picture
  <2>7. Window!Show
    BY <1>2, <1>3, <2>1, <2>4, <2>6 DEF Window!Show
  <2> QED BY <1>1, <1>3, <2>1, <2>2, <2>7
      DEF ScreenInv, Current, ScreenStep, Window!Next
<1>8. CASE EndUpdateJob
  <2>1. /\ updater \in {"done", "failed"} /\ updater' = "idle"
        /\ UNCHANGED <<queue, running, frame>>
        /\ fb_updates' = Tail(fb_updates)
    BY <1>8 DEF EndUpdateJob
  <2>2. fb_updates # <<>> /\ Pending = {} /\ Pending' = {}
    <3>1. Pending' = Pending
      BY <2>1 DEF Pending, QueuedIn
    <3> QED BY <2>1, <3>1, UpdaterAlone
  <2>3. fb_updates' = <<>>
    BY <2>1, <2>2 DEF IInv, TypeOK, ControlInv, UpdateInv
  <2>4. Shown' = Shown
    <3>1. CASE updater = "done"
      BY <1>3, <2>3, <3>1, NothingIsLost DEF Shown, OnItsWay
    <3>2. CASE updater = "failed"
      BY <1>3, <3>2 DEF Shown, ScreenInv
    <3> QED BY <2>1, <3>1, <3>2
  <2> QED BY <1>1, <1>2, <1>3, <2>1, <2>2, <2>3, <2>4
      DEF ScreenInv, ScreenStep, Window!vars
<1> QED BY <1>5, <1>6, <1>7, <1>8 DEF UpdaterStep

(* A worker draws for an update that is not shown, and copies for one that *)
(* is not yet.                                                             *)
LEMMA ScreenWorker ==
  ASSUME IInv, ScreenInv, NEW w \in Workers, DecoderStep(w)
  PROVE  ScreenInv' /\ ScreenStep
<1>1. /\ UNCHANGED pipelineVars /\ UNCHANGED size
      /\ UNCHANGED <<reader, update, last_fb_update, fb_updates, updater, goal, resized>>
  BY DEF DecoderStep, WorkerStep, pipelineVars, Pop, LockFb, DecodeOk, DecodeFails, ResetZlib,
         CopyChunk
<1>2. UNCHANGED <<Completed, OnItsWay, Picture, Fresh>>
  BY <1>1 DEF Completed, OnItsWay, Picture, Fresh
<1>3. Pending' \subseteq Pending
  <2>1. CASE Pop(w)
    BY <2>1, PopJobs DEF IInv
  <2>2. CASE LockFb(w)
    BY <2>2, LockFbJobs DEF IInv
  <2>3. CASE DecodeOk(w) \/ DecodeFails(w)
    BY <2>3, DecodeJobs DEF IInv
  <2>4. CASE ResetZlib(w) \/ CopyChunk(w)
    BY <2>4, OtherJobs DEF IInv
  <2> QED BY <2>1, <2>2, <2>3, <2>4 DEF DecoderStep, WorkerStep
<1>4. ASSUME failed' = failed PROVE ScreenInv' /\ Shown' = Shown
  BY <1>1, <1>2, <1>3, <1>4 DEF ScreenInv, Lost, Shown, Current
<1>5. ASSUME DecodeFails(w) PROVE ScreenInv' /\ Shown' = Shown
  <2>1. /\ running[w] \in Pending /\ running[w].kind # "copy"
        /\ failed' = failed \cup {running[w].stamp}
        /\ UNCHANGED frame
    BY <1>5, HolderDecodes, PendingMeans DEF DecodeFails, Decodes, IInv
  <2>2. CASE running[w].stamp <= Completed
    BY <1>1, <1>2, <1>3, <2>1, <2>2 DEF ScreenInv, Lost, Shown, Current, OnItsWay
  <2>3. CASE ~ (running[w].stamp <= Completed)
    BY <1>1, <1>2, <1>3, <2>1, <2>3 DEF ScreenInv, Lost, Shown, Current
  <2> QED BY <2>1, <2>2, <2>3
<1>6. failed' = failed \/ DecodeFails(w)
  BY DEF DecoderStep, WorkerStep, Pop, LockFb, DecodeOk, ResetZlib, CopyChunk
<1>7. ASSUME frame' # frame PROVE Shown < Completed
  <2>1. CopyChunk(w)
    BY <1>7 DEF DecoderStep, WorkerStep, Pop, LockFb, DecodeOk, DecodeFails, ResetZlib
  <2>2. running[w] \in Pending /\ running[w].kind = "copy"
    BY <2>1, PendingMeans DEF CopyChunk
  <2>3. updater = "copying" /\ fb_updates # <<>>
    BY <2>2 DEF IInv, ControlInv, StageInv, StageOf
  <2>4. Completed \in Int
    BY DecoderAssumption DEF DecoderAssumption, IInv, TypeOK, Completed
  <2> QED BY <2>3, <2>4 DEF OnItsWay, Shown
<1>8. ScreenInv' /\ Shown' = Shown
  BY <1>4, <1>5, <1>6
<1> QED BY <1>2, <1>7, <1>8 DEF ScreenStep, Window!vars, Window!Next, Window!Prepare

(* Every step is one of the screen, or is not seen there.                  *)
LEMMA ScreenSteps == IInv /\ ScreenInv /\ [Next]_vars => ScreenInv' /\ ScreenStep
<1> SUFFICES ASSUME IInv, ScreenInv, [Next]_vars PROVE ScreenInv' /\ ScreenStep
  OBVIOUS
<1>t. update \in Nat
  BY DecoderAssumption DEF DecoderAssumption, IInv, TypeOK
<1>1. CASE ReceiveUpdate \/ JoinLastUpdate \/ AnnounceSize \/ LockReader \/ FbSizeRead
           \/ BeginRects \/ ConnectionFails \/ DropDecoder \/ Return
           \/ \E new \in Sizes : AcceptSize(new)
  <2>1. UNCHANGED <<failed, fb_updates, updater, size, goal, resized, frame>>
    BY <1>1
    DEF ReceiveUpdate, JoinLastUpdate, AnnounceSize, LockReader, FbSizeRead, BeginRects,
        ConnectionFails, DropDecoder, Return, AcceptSize, AcceptUnchanged, decoderVars,
        pipelineVars
  <2>2. /\ UNCHANGED <<Shown, Picture, Fresh>>
        /\ ScreenInv' /\ Completed' = Completed
    BY <1>1, <2>1, ScreenReader DEF Shown, Picture, Fresh, Lost, OnItsWay
  <2> QED BY <2>1, <2>2 DEF ScreenStep, Window!vars
<1>2. CASE ResizeFb
  <2>1. /\ reader = "resizing" /\ reader' = "begin" /\ fb_updates = <<>>
        /\ UNCHANGED <<queue, running, failed, frame, update, last_fb_update>>
        /\ UNCHANGED <<fb_updates, updater>>
    BY <1>2 DEF ResizeFb, IInv, ControlInv, UpdateInv
  <2>2. UNCHANGED <<Completed, Lost, Pending, Shown>>
    BY <2>1 DEF Completed, Lost, Pending, QueuedIn, Shown, OnItsWay
  <2>3. Shown = Completed
    BY <2>1, NothingIsLost DEF Shown, OnItsWay
  <2>4. Window!Resize
    BY <2>1, <2>2, <2>3 DEF Window!Resize
  <2> QED BY <2>1, <2>2, <2>4 DEF ScreenInv, ScreenStep, Window!Next
<1>3. CASE \/ AcceptPixels("rect", General)
           \/ \E s \in Streams : AcceptPixels("zlib", s) \/ AcceptReset(s)
           \/ AcceptCursor
  <2>1. /\ ReadingRect /\ AcceptUnchanged
        /\ \E j \in Jobs : j \notin Pending /\ Accept(j) /\ j.stamp = update
    BY <1>3, AcceptsOne
  <2>2. ScreenInv' /\ Completed' = Completed /\ ~ Lost /\ fb_updates = <<>>
    BY <2>1, ScreenAccept
  <2>3. UNCHANGED <<failed, fb_updates, updater, frame>>
    BY <2>1 DEF AcceptUnchanged
  <2>4. Shown = Completed /\ Shown' = Completed
    BY <2>2, <2>3 DEF Shown, Lost, OnItsWay
  <2>5. /\ UNCHANGED <<size, update, resized>> /\ DOMAIN goal' = DOMAIN goal
        /\ \A c \in 1 .. MaxPixels : goal'[c] = goal[c] \/ goal'[c] = update
    <3>1. goal \in [1 .. MaxPixels -> 0 .. MaxUpdates]
      BY DEF IInv, TypeOK
    <3>2. \/ UNCHANGED goal
          \/ \E pixels : goal' = [c \in DOMAIN goal |-> IF c \in pixels THEN update ELSE goal[c]]
      BY <1>3 DEF AcceptPixels, AcceptReset, AcceptCursor
    <3> QED BY <2>1, <3>1, <3>2 DEF AcceptUnchanged
  <2>6. /\ resized <= update /\ resized \in Nat
        /\ \A c \in 1 .. MaxPixels : goal[c] \in Nat
        /\ 1 .. NoOfPixels(size) \subseteq 1 .. MaxPixels
    <3>1. resized <= update
      BY DEF IInv, ControlInv, GoalInv
    <3>2. resized \in Nat /\ \A c \in 1 .. MaxPixels : goal[c] \in Nat
      BY DecoderAssumption DEF DecoderAssumption, IInv, TypeOK
    <3>3. size \in Sizes
      BY DEF IInv, TypeOK, DecoderTypeOK
    <3> QED BY <3>1, <3>2, <3>3, MaxPixelsIsMax
  <2>7. /\ DOMAIN Picture' = DOMAIN Picture
        /\ \A c \in DOMAIN Picture : Picture'[c] = Picture[c] \/ c \in Fresh'
        /\ Fresh \subseteq Fresh'
    BY <1>t, <2>5, <2>6 DEF Picture, Fresh
  <2>8. Window!Paint
    BY <2>2, <2>3, <2>4, <2>7 DEF Window!Paint
  <2> QED BY <2>2, <2>8 DEF ScreenStep, Window!Next
<1>4. CASE EndUpdate
  <2>1. /\ reader = "rects" /\ last_fb_update = "none" /\ fb_updates = <<>>
        /\ updater = "idle" /\ update > 0
        /\ reader' = "packet" /\ last_fb_update' = "pending"
        /\ UNCHANGED <<queue, running, failed, size, frame, update, updater, goal, resized>>
    BY <1>4 DEF EndUpdate, decoderVars, IInv, ControlInv, UpdateInv
  <2>2. fb_updates' # <<>> /\ Current'.stamp = update
    <3>1. PICK zero : fb_updates' = Append(<<>>, [stamp |-> update, zero_copy |-> zero])
      BY <1>4, <2>1, Zenon DEF EndUpdate
    <3> QED BY <3>1 DEF Current
  <2>3. Completed = update - 1 /\ Completed' = update
    BY <1>t, <2>1 DEF Completed
  <2>4. Shown = Completed /\ Shown' = Completed
    BY <1>t, <2>1, <2>2, <2>3, NothingIsLost DEF Shown, OnItsWay
  <2>5. Pending' = Pending /\ UNCHANGED <<Picture, Fresh>>
    BY <2>1 DEF Pending, QueuedIn, Picture, Fresh
  <2>6. Window!Complete
    BY <1>t, <2>1, <2>3, <2>4, <2>5 DEF Window!Complete
  <2> QED BY <2>1, <2>2, <2>3, <2>5, <2>6 DEF ScreenInv, ScreenStep, Window!Next
<1>5. CASE UpdaterStep \/ ShowEvent
  BY <1>5, ScreenUpdater
<1>6. CASE \E w \in Workers : DecoderStep(w)
  BY <1>6, ScreenWorker
<1>7. CASE Finished \/ UNCHANGED vars
  BY <1>7
  DEF Finished, vars, runVars, decoderVars, pipelineVars, ScreenInv, ScreenStep,
      Window!vars, Completed, Lost, OnItsWay, Shown, Picture, Fresh, Pending,
      QueuedIn, Current
<1> QED BY <1>1, <1>2, <1>3, <1>4, <1>5, <1>6, <1>7 DEF Next, ReaderStep

(* For any number of threads, streams and rectangles the client is a       *)
(* screen: every update that was read completely is shown once, in order   *)
(* and before the next one is painted, and only the last one may be lost.  *)
(* What is shown is what the server means, drawn completely, but for       *)
(* pixels that were not drawn since the width changed.                     *)
THEOREM RefinesScreen == Spec => ImplementsScreen
<1>1. Init => ScreenInv /\ Window!Init
  <2> SUFFICES ASSUME Init PROVE ScreenInv /\ Window!Init
    OBVIOUS
  <2>1. /\ 1 .. NoOfPixels(size) \subseteq 1 .. MaxPixels
        /\ \A c \in 1 .. MaxPixels : goal[c] = 0
        /\ resized = 0
    BY MaxPixelsIsMax DEF Init, InitDecoder, Gray
  <2>2. Fresh = DOMAIN Picture
    BY <2>1 DEF Fresh, Picture
  <2> QED BY <2>2, InitJobs
      DEF Init, InitDecoder, ScreenInv, Window!Init, Completed, Shown, Lost, OnItsWay
<1>2. IInv /\ ScreenInv /\ [Next]_vars => ScreenInv' /\ [Window!Next]_(Window!vars)
  BY ScreenSteps DEF ScreenStep
<1> QED BY <1>1, <1>2, Invariance, PTL DEF Spec, ImplementsScreen, Window!Spec

-----------------------------------------------------------------------------
(* The view's events                                                       *)

\* A step of the pipeline is one of the queue, or is not seen there.
EventStep == [Events!Next]_(Events!vars)

(* Three steps send an event, one takes one and one an acknowledgement; no *)
(* other sees the channel.                                                 *)
LEMMA EventSteps == IInv /\ [Next]_vars => EventStep
<1> SUFFICES ASSUME IInv, [Next]_vars PROVE EventStep
  OBVIOUS
<1>1. UNCHANGED <<view, acks>> => EventStep
  BY DEF EventStep, Events!vars
<1>2. ASSUME ViewHasRoom, NEW e \in {"size", "cursor", "frame"},
             view' = Append(view, e), UNCHANGED acks
      PROVE  EventStep
  BY <1>2 DEF EventStep, Events!Next, Events!Send, ViewHasRoom
<1>3. CASE AnnounceSize
  BY <1>2, <1>3 DEF AnnounceSize
<1>4. CASE PublishCursor
  BY <1>1, <1>2, <1>4 DEF PublishCursor
<1>5. CASE PublishFrame
  BY <1>2, <1>5 DEF PublishFrame
<1>6. CASE Synced
  BY <1>6 DEF Synced, EventStep, Events!Next, Events!Acknowledge
<1>7. CASE ShowEvent
  BY <1>7 DEF ShowEvent, EventStep, Events!Next, Events!Take
<1>8. CASE UNCHANGED pipelineVars \/ Finished \/ UNCHANGED vars
  BY <1>1, <1>8 DEF pipelineVars, Finished, vars, runVars
<1>9. CASE ReaderStep /\ ~ AnnounceSize
  BY <1>1, <1>9
  DEF ReaderStep, ReceiveUpdate, JoinLastUpdate, LockReader, ResizeFb, FbSizeRead,
      BeginRects, AcceptPixels, AcceptReset, AcceptCursor, AcceptSize, AcceptUnchanged,
      EndUpdate, DropDecoder, Return, pipelineVars
<1>10. CASE ConnectionFails \/ StartUpdateJob \/ DecodingFailed \/ BeginSwap \/ TakeFb
            \/ BeginCopy \/ Copied \/ EndUpdateJob
  BY <1>1, <1>10
  DEF ConnectionFails, StartUpdateJob, DecodingFailed, BeginSwap, TakeFb, BeginCopy,
      Copied, EndUpdateJob
<1> QED BY <1>3, <1>4, <1>5, <1>6, <1>7, <1>8, <1>9, <1>10
    DEF Next, UpdaterStep, DecoderStep

(* For any number of threads the pipeline uses the view as EventQueue says *)
(* (ViewChannelProofs: and both toolkits implement that).                  *)
THEOREM UsesTheEventQueue == Spec => UsesEventQueue
<1>1. Init => Events!Init
  BY PipelineAssumption DEF PipelineAssumption, Init, Events!Init
<1>2. IInv /\ [Next]_vars => [Events!Next]_(Events!vars)
  BY EventSteps DEF EventStep
<1> QED BY <1>1, <1>2, Invariance, PTL DEF Spec, UsesEventQueue, Events!Spec
=============================================================================
