--------------------------- MODULE DecodingMaster ---------------------------
(***************************************************************************)
(* The decoders of src/encoding/decoding_master.rs and the framebuffer     *)
(* they write: a general pool of several threads and, for every zlib       *)
(* stream of the Tight encoding, a pool of one thread.  The module has the *)
(* state and the operations; FramePipeline composes them with the threads  *)
(* that call them.                                                         *)
(*                                                                         *)
(* A pixel's content is the number of the update that wrote it last, so    *)
(* the framebuffer tells which updates it shows.  Compressed bytes are     *)
(* their position in their zlib stream: a decoder can inflate the chunk at *)
(* position n only if it inflated the n chunks before it since the reset.  *)
(***************************************************************************)
EXTENDS Naturals, Sequences, FiniteSets

CONSTANTS
  GeneralWorkers,   \* no_of_threads threads of the general pool
  Streams,          \* the zlib streams, each named as the thread of its pool
  General,          \* the general pool
  Updater, Reader,  \* the other threads that lock the framebuffer
  Nobody,           \* a worker without a job
  Sizes,            \* FbSize values, as <<width, height>>
  MaxUpdates,       \* bound: FramebufferUpdates of the server
  Uninitialized,    \* content of memory that nobody wrote
  Scrambled,        \* a pixel made of bytes that belong to other places
  Faults            \* may decoding and the connection fail?

ASSUME DecoderAssumption ==
  /\ IsFiniteSet(GeneralWorkers) /\ GeneralWorkers # {}
  /\ IsFiniteSet(Streams)
  /\ GeneralWorkers \cap Streams = {}
  /\ General \notin Streams
  /\ {Updater, Reader} \cap (GeneralWorkers \cup Streams) = {}
  /\ Updater # Reader
  /\ Sizes \subseteq Nat \X Nat
  /\ MaxUpdates \in Nat
  /\ Uninitialized \notin 0 .. MaxUpdates /\ Uninitialized # Scrambled
  /\ Faults \in BOOLEAN

VARIABLES
  queue,        \* the job channel of each pool
  running,      \* the job of each worker
  unanswered,   \* jobs whose Future has no answer yet
  failed,       \* updates of which a job failed
  held,         \* guards of the framebuffer's ModeLock
  size, pixel,  \* the Framebuffer
  frame,        \* the buffer that goes to the view
  inflated,     \* position of each worker's zlib decoder in its stream
  cursor        \* the Cursor behind its mutex

decoderVars == <<queue, running, unanswered, failed, held, size, pixel, frame,
                 inflated, cursor>>

Workers == GeneralWorkers \cup Streams
Pools == {General} \cup Streams
PoolOf(w) == IF w \in Streams THEN w ELSE General

NoOfPixels(s) == s[1] * s[2]
MaxPixels == CHOOSE n \in {NoOfPixels(s) : s \in Sizes} :
               \A s \in Sizes : NoOfPixels(s) <= n
Contents == (0 .. MaxUpdates) \cup {Uninitialized, Scrambled}
Gray == 0   \* what resize() fills new pixels with: older than any update

\* Jobs that decode() runs, all of them under a guard in mode Decoding: "rect"
\* stands for raw, fill, JPEG and uncompressed Tight data.
Decodes == {"rect", "zlib", "cursor"}

Jobs == [kind : Decodes \cup {"reset", "copy"},
         stream : Pools,           \* the zlib stream of "zlib" and "reset"
         pos : Nat,                \* position in that stream
         area : SUBSET Nat,        \* the pixels that are written or copied
         stamp : 0 .. MaxUpdates,  \* the update the job belongs to
         number : Nat]             \* rectangle or chunk number

ASSUME NobodyAssumption == Nobody \notin Jobs

\* Widths and heights are u16.
ASSUME SizeAssumption ==
  \E s \in Sizes : \A t \in Sizes : NoOfPixels(t) <= NoOfPixels(s)

FbLock == INSTANCE GroupLock
            WITH Clients <- Workers \cup {Updater, Reader},
                 Modes <- {"Decoding", "Resizing", "Reading"}

Holds(c) == \E g \in held : g[1] = c
CanLock(mode) == \A g \in held : g[2] = mode

InitDecoder ==
  /\ queue = [p \in Pools |-> <<>>]
  /\ running = [w \in Workers |-> Nobody]
  /\ unanswered = {}
  /\ failed = {}
  /\ held = {}
  /\ size \in Sizes
  /\ pixel = [c \in 1 .. MaxPixels |-> Gray]
  /\ frame = pixel
  /\ inflated = [w \in Workers |-> 0]
  /\ cursor = [changed |-> FALSE, locked |-> FALSE]

-----------------------------------------------------------------------------
(* accept                                                                  *)

\* Mistake: a reset is a small job, so any thread may do it.
RouteResetGeneral(j) == IF j.kind = "zlib" THEN j.stream ELSE General

\* Compressed data and resets go to the thread of their stream.
Route(j) == IF j.kind \in {"zlib", "reset"} THEN j.stream ELSE General

\* spawn_fn on the right pool; the Future is kept for finish().
Accept(j) ==
  /\ queue' = [queue EXCEPT ![Route(j)] = Append(@, j)]
  /\ unanswered' = unanswered \cup {j}

\* FutureCollection::wait returns: every job of the update has its answer.
AllDecoded(k) == \A j \in unanswered : j.kind = "copy" \/ j.stamp # k

-----------------------------------------------------------------------------
(* The workers                                                             *)

Pop(w) ==
  LET p == PoolOf(w) IN
  /\ running[w] = Nobody
  /\ queue[p] # <<>>
  /\ running' = [running EXCEPT ![w] = Head(queue[p])]
  /\ queue' = [queue EXCEPT ![p] = Tail(@)]
  /\ UNCHANGED <<unanswered, failed, held, size, pixel, frame, inflated, cursor>>

\* The response is sent and the worker is free for the next job.
Answer(w) ==
  /\ unanswered' = unanswered \ {running[w]}
  /\ running' = [running EXCEPT ![w] = Nobody]

\* decode() starts with fb.lock(FbAccess::Decoding).
LockFb(w) ==
  /\ running[w] # Nobody
  /\ running[w].kind \in Decodes
  /\ FbLock!Acquire(w, "Decoding")
  /\ UNCHANGED <<queue, running, unanswered, failed, size, pixel, frame,
                 inflated, cursor>>

Paint(area, k) == [c \in DOMAIN pixel |-> IF c \in area THEN k ELSE pixel[c]]

\* Whether the decoding succeeds or not, a chunk of a stream is consumed.
Inflate(w) ==
  inflated' = IF running[w].kind = "zlib"
              THEN [inflated EXCEPT ![w] = @ + 1] ELSE inflated

\* decode() writes the pixels, or the new cursor, and drops the guard.
DecodeOk(w) ==
  LET j == running[w] IN
  /\ Holds(w)
  /\ j.kind = "cursor" => ~ cursor.locked
  /\ FbLock!Release(w, "Decoding")
  /\ pixel' = Paint(j.area, j.stamp)
  /\ cursor' = IF j.kind = "cursor"
               THEN [cursor EXCEPT !.changed = TRUE] ELSE cursor
  /\ Inflate(w)
  /\ Answer(w)
  /\ UNCHANGED <<queue, failed, size, frame>>

\* decode() returns an error or panics with part of the pixels written; the
\* guard is dropped all the same and the error is the answer.  A cursor was
\* read with exactly the bytes its job indexes, so it does not fail.
DecodeFails(w) ==
  /\ Faults
  /\ running[w] # Nobody
  /\ running[w].kind # "cursor"
  /\ Holds(w)
  /\ FbLock!Release(w, "Decoding")
  /\ \E part \in SUBSET running[w].area : pixel' = Paint(part, running[w].stamp)
  /\ failed' = failed \cup {running[w].stamp}
  /\ Inflate(w)
  /\ Answer(w)
  /\ UNCHANGED <<queue, size, frame, cursor>>

\* The job of DecodingJob::ResetZlib.
ResetZlib(w) ==
  /\ running[w] # Nobody
  /\ running[w].kind = "reset"
  /\ inflated' = [inflated EXCEPT ![w] = 0]
  /\ Answer(w)
  /\ UNCHANGED <<queue, failed, held, size, pixel, frame, cursor>>

\* One job of convert_or_copy_fb.
CopyChunk(w) ==
  LET j == running[w] IN
  /\ j # Nobody
  /\ j.kind = "copy"
  /\ frame' = [c \in DOMAIN frame |-> IF c \in j.area THEN pixel[c] ELSE frame[c]]
  /\ Answer(w)
  /\ UNCHANGED <<queue, failed, held, size, pixel, inflated, cursor>>

WorkerStep(w) ==
  \/ Pop(w)
  \/ LockFb(w)
  \/ DecodeOk(w)
  \/ DecodeFails(w)
  \/ ResetZlib(w)
  \/ CopyChunk(w)

-----------------------------------------------------------------------------
(* convert_or_copy_fb                                                      *)

NoOfThreads == Cardinality(GeneralWorkers)

\* Mistake: the surplus is nobody's.
ChunkEven(i) ==
  LET forOne == NoOfPixels(size) \div NoOfThreads
  IN  (i * forOne + 1) .. (i * forOne + forOne)

\* The pixels of chunk i: an equal share, the last one with the surplus.
Chunk(i) ==
  LET forOne  == NoOfPixels(size) \div NoOfThreads
      surplus == NoOfPixels(size) % NoOfThreads
      count   == IF i = NoOfThreads - 1 THEN forOne + surplus ELSE forOne
  IN  (i * forOne + 1) .. (i * forOne + count)

CopyJob(i, k) == [kind |-> "copy", stream |-> General, pos |-> 0,
                  area |-> Chunk(i), stamp |-> k, number |-> i]

\* The updater locks the framebuffer for reading, allocates the destination
\* without initializing it and spawns one copy job per thread.
StartCopy(k) ==
  LET jobs == [i \in 1 .. NoOfThreads |-> CopyJob(i - 1, k)] IN
  /\ FbLock!Acquire(Updater, "Reading")
  /\ frame' = [c \in DOMAIN frame |-> Uninitialized]
  /\ queue' = [queue EXCEPT ![General] = @ \o jobs]
  /\ unanswered' = unanswered \cup {jobs[i] : i \in DOMAIN jobs}
  /\ UNCHANGED <<running, failed, size, pixel, inflated, cursor>>

\* Mistake: the guard outlives the copy.
EndCopyHolding(k) ==
  /\ \A j \in unanswered : j.kind = "copy" => j.stamp # k
  /\ UNCHANGED decoderVars

\* Every chunk is copied; the guard is dropped.
EndCopy(k) ==
  /\ \A j \in unanswered : j.kind = "copy" => j.stamp # k
  /\ FbLock!Release(Updater, "Reading")
  /\ UNCHANGED <<queue, running, unanswered, failed, size, pixel, frame,
                 inflated, cursor>>

-----------------------------------------------------------------------------
(* The framebuffer                                                         *)

\* A pixel whose bytes are its own in the old size and the new one: pixels are
\* stored row after row, so any pixel of rows that keep their length, and the
\* beginning of the first row in any case.
InPlace(c, new) == new[1] = size[1] \/ (c <= size[1] /\ c <= new[1])

\* Framebuffer::resize on content px: the bytes stay where they are, so other
\* pixels are made of bytes of a wrong place, and new bytes are gray.
Resized(px, new) ==
  [c \in DOMAIN px |->
     IF c > NoOfPixels(size) \/ c > NoOfPixels(new) THEN Gray
     ELSE IF InPlace(c, new) \/ px[c] = Uninitialized THEN px[c]
     ELSE Scrambled]

\* The zero-copy swap: the view gets the framebuffer and the decoders a new
\* one that nobody initialized, all under a guard in mode Decoding.
LockToSwap ==
  /\ FbLock!Acquire(Updater, "Decoding")
  /\ UNCHANGED <<queue, running, unanswered, failed, size, pixel, frame, inflated, cursor>>

SwapFb ==
  /\ FbLock!Release(Updater, "Decoding")
  /\ frame' = pixel
  /\ pixel' = [c \in DOMAIN pixel |-> Uninitialized]
  /\ UNCHANGED <<queue, running, unanswered, failed, size, inflated, cursor>>

\* The threads of all pools can be joined: nothing is queued or running.
Drained ==
  /\ \A p \in Pools : queue[p] = <<>>
  /\ \A w \in Workers : running[w] = Nobody

-----------------------------------------------------------------------------
(* Properties                                                              *)

DecoderTypeOK ==
  /\ queue \in [Pools -> Seq(Jobs)]
  /\ running \in [Workers -> Jobs \cup {Nobody}]
  /\ unanswered \subseteq Jobs
  /\ failed \subseteq 0 .. MaxUpdates
  /\ FbLock!TypeOK
  /\ size \in Sizes
  /\ pixel \in [1 .. MaxPixels -> Contents]
  /\ frame \in [1 .. MaxPixels -> Contents]
  /\ inflated \in [Workers -> Nat]
  /\ cursor \in [changed : BOOLEAN, locked : BOOLEAN]

QueuedIn(p) == {queue[p][i] : i \in DOMAIN queue[p]}
Pending == (UNION {QueuedIn(p) : p \in Pools})
             \cup ({running[w] : w \in Workers} \ {Nobody})

(* A Future is without an answer exactly as long as its job is queued or   *)
(* runs: finish() and wait() account for every job, whatever pool it went  *)
(* to.                                                                     *)
FuturesMatchJobs == unanswered = Pending

(* A worker that inflates a chunk has inflated all chunks before it since  *)
(* the last reset of the stream, and no other.                             *)
ZlibInOrder ==
  \A w \in Workers :
    running[w] # Nobody /\ running[w].kind = "zlib"
      => inflated[w] = running[w].pos

GeneralPool ==
  INSTANCE JobPool
    WITH Threads <- GeneralWorkers, Idle <- Nobody,
         queue <- queue[General],
         running <- [w \in GeneralWorkers |-> running[w]]

(* The general pool is used as JobPool says.                               *)
UsesGeneralPool == GeneralPool!Spec
=============================================================================
