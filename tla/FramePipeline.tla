--------------------------- MODULE FramePipeline ---------------------------
(***************************************************************************)
(* How a FramebufferUpdate of the server becomes a picture in the window   *)
(* (RfbConnection::handle_main_part, src/lib.rs).  The reader thread reads *)
(* the rectangles of update k and hands them to the decoders; a job on the *)
(* fb-updater thread waits for them, copies the framebuffer (or takes it   *)
(* away, in zero-copy mode) and sends it to the view, while the reader is  *)
(* already waiting for update k + 1.  The view takes events from a bounded *)
(* channel and, with --throttle, acknowledges each picture.                *)
(*                                                                         *)
(* DecodingMaster has the decoders and the framebuffer; this module adds   *)
(* the reader, the updater, the view and the server's updates.             *)
(***************************************************************************)
EXTENDS DecodingMaster

CONSTANTS
  NativeView,       \* desired_pixel_format() is NativeBgrx (SDL), not Rgb (GTK)
  Throttle,         \* --throttle: update_framebuffer_sync
  ViewCapacity,     \* capacity of the view's channel: 5 in SDL, 4 in GTK
  ZeroCopyAfter,    \* full updates in a row before zero-copy mode: 60
  Servers,          \* the servers that are considered: the kinds of rectangles
                    \* they send, whether the rectangles of one update do not
                    \* overlap and, as a bound, how many there are
  CursorPixels      \* width * height of a new cursor

ASSUME PipelineAssumption ==
  /\ {NativeView, Throttle} \subseteq BOOLEAN
  /\ ViewCapacity \in Nat \ {0}
  /\ ZeroCopyAfter \in Nat \ {0}
  /\ Servers \subseteq
       [kinds : SUBSET {"rect", "zlib", "reset", "cursor", "size"},
        tiling : BOOLEAN, rects : Nat]
  /\ CursorPixels \in Nat

VARIABLES
  server,           \* one of Servers
  reader,           \* where handle_main_part is
  update,           \* number of the update that was received last
  rects, area,      \* rectangles read of it, and the pixels they claim
  maybe_new_fb_size, no_of_successive_full_updates, zero_copy_mode,
  last_fb_update,   \* the Future of the updater's job
  fb_updates,       \* jobs of the fb-updater thread, the first one running
  updater,          \* where that job is
  view, acks,       \* events in the view's channel, acknowledged pictures
  sent,             \* chunks the server sent on each stream since its reset
  goal,             \* history: the picture the server means, as of the
                    \* rectangles read so far
  resized,          \* history: the update before which the width changed last
  requested         \* was a full refresh requested after the last update?

pipelineVars ==
  <<reader, update, rects, area, maybe_new_fb_size,
    no_of_successive_full_updates, zero_copy_mode, last_fb_update, fb_updates,
    updater, view, acks, sent, goal, resized, requested>>

\* What changes, and everything.
runVars == <<decoderVars, pipelineVars>>
vars == <<server, runVars>>

NoSize == <<>>

\* The state after resize_fb(server_init) and the first request.
Init ==
  /\ InitDecoder
  /\ server \in Servers
  /\ reader = "packet"
  /\ update = 0
  /\ rects = 0
  /\ area = 0
  /\ maybe_new_fb_size = NoSize
  /\ no_of_successive_full_updates = 0
  /\ zero_copy_mode = FALSE
  /\ last_fb_update = "none"
  /\ fb_updates = <<>>
  /\ updater = "idle"
  /\ view = <<"size">>
  /\ acks = 0
  /\ sent = [s \in Streams |-> 0]
  /\ goal = pixel
  /\ resized = 0
  /\ requested = TRUE

ViewHasRoom == Len(view) < ViewCapacity

-----------------------------------------------------------------------------
(* The reader: between updates                                             *)

\* A FramebufferUpdate arrives.
ReceiveUpdate ==
  /\ reader = "packet"
  /\ update < MaxUpdates
  /\ reader' = "joining"
  /\ update' = update + 1
  /\ UNCHANGED <<decoderVars, rects, area, maybe_new_fb_size,
       no_of_successive_full_updates, zero_copy_mode, last_fb_update,
       fb_updates, updater, view, acks, sent, goal, resized, requested>>

\* Mistake: the reader only looks whether the last update failed already.
JoinLastUpdateEarly ==
  /\ reader = "joining"
  /\ IF last_fb_update = "err"
     THEN reader' = "returning" /\ last_fb_update' = "none"
     ELSE reader' = "begin" /\ UNCHANGED last_fb_update
  /\ UNCHANGED <<decoderVars, update, rects, area, maybe_new_fb_size,
       no_of_successive_full_updates, zero_copy_mode, fb_updates, updater,
       view, acks, sent, goal, resized, requested>>

\* Mistake: the result of the last update is ignored.
JoinLastUpdateIgnoring ==
  /\ reader = "joining"
  /\ last_fb_update # "pending"
  /\ reader' = "begin"
  /\ last_fb_update' = "none"
  /\ UNCHANGED <<decoderVars, update, rects, area, maybe_new_fb_size,
       no_of_successive_full_updates, zero_copy_mode, fb_updates, updater,
       view, acks, sent, goal, resized, requested>>

\* last_fb_update.take().unwrap().wait()?
JoinLastUpdate ==
  /\ reader = "joining"
  /\ last_fb_update # "pending"
  /\ reader' = IF last_fb_update = "err" THEN "returning" ELSE "begin"
  /\ last_fb_update' = "none"
  /\ UNCHANGED <<decoderVars, update, rects, area, maybe_new_fb_size,
       no_of_successive_full_updates, zero_copy_mode, fb_updates, updater,
       view, acks, sent, goal, resized, requested>>

\* The new size that an earlier update announced takes effect: the view is
\* told first.
AnnounceSize ==
  /\ reader = "begin"
  /\ maybe_new_fb_size # NoSize
  /\ ViewHasRoom
  /\ view' = Append(view, "size")
  /\ reader' = "resizing"
  /\ UNCHANGED <<decoderVars, update, rects, area, maybe_new_fb_size,
       no_of_successive_full_updates, zero_copy_mode, last_fb_update,
       fb_updates, updater, acks, sent, goal, resized, requested>>

\* framebuffer.lock() of resize_fb() and of fb_size().
LockReader ==
  /\ \/ reader = "resizing" /\ FbLock!Acquire(Reader, "Resizing")
     \/ /\ reader = "begin" /\ maybe_new_fb_size = NoSize
        /\ FbLock!Acquire(Reader, "Reading")
  /\ UNCHANGED <<queue, running, unanswered, failed, size, pixel, frame,
       inflated, cursor, pipelineVars>>

\* What a server means by a new size: pixels keep their columns and rows, and
\* what is new is gray until it is drawn.
KeptInPlace(new) ==
  LET x(c) == (c - 1) % new[1]
      y(c) == (c - 1) \div new[1]
  IN  [c \in DOMAIN goal |->
         IF c <= NoOfPixels(new) /\ x(c) < size[1] /\ y(c) < size[2]
         THEN goal[y(c) * size[1] + x(c) + 1] ELSE Gray]

\* resize_fb() resizes the framebuffer under its guard and drops it.
ResizeFb ==
  LET new == maybe_new_fb_size IN
  /\ reader = "resizing"
  /\ FbLock!Release(Reader, "Resizing")
  /\ size' = new
  /\ pixel' = Resized(pixel, new)
  /\ goal' = KeptInPlace(new)
  /\ resized' = IF new[1] = size[1] THEN resized ELSE update
  /\ maybe_new_fb_size' = NoSize
  /\ reader' = "begin"
  /\ UNCHANGED <<queue, running, unanswered, failed, frame, inflated, cursor,
       update, rects, area, no_of_successive_full_updates, zero_copy_mode,
       last_fb_update, fb_updates, updater, view, acks, sent, requested>>

\* fb_size() reads the size and drops its guard.
FbSizeRead ==
  /\ reader = "begin"
  /\ FbLock!Release(Reader, "Reading")
  /\ reader' = "sized"
  /\ UNCHANGED <<queue, running, unanswered, failed, size, pixel, frame,
       inflated, cursor, update, rects, area, maybe_new_fb_size,
       no_of_successive_full_updates, zero_copy_mode, last_fb_update,
       fb_updates, updater, view, acks, sent, goal, resized, requested>>

\* decoder.lock(), which a copy holds: the rectangles can be read.
BeginRects ==
  /\ reader = "sized"
  /\ updater # "copying"
  /\ reader' = "rects"
  /\ rects' = 0
  /\ area' = 0
  /\ UNCHANGED <<decoderVars, update, maybe_new_fb_size,
       no_of_successive_full_updates, zero_copy_mode, last_fb_update,
       fb_updates, updater, view, acks, sent, goal, resized, requested>>

-----------------------------------------------------------------------------
(* The reader: read_rectangles_and_start_decoding                          *)

ReadingRect == reader = "rects" /\ rects < server.rects

Job(kind, s, pixels) ==
  [kind |-> kind, stream |-> s, pos |-> IF kind = "zlib" THEN sent[s] ELSE 0,
   area |-> pixels, stamp |-> update, number |-> rects + 1]

\* The pixels a rectangle may cover.
Regions ==
  {pixels \in SUBSET (1 .. NoOfPixels(size)) :
     /\ pixels # {}
     /\ server.tiling => \A c \in pixels : goal[c] # update}

AcceptUnchanged ==
  UNCHANGED <<running, failed, held, size, pixel, frame, inflated, cursor,
    reader, update, no_of_successive_full_updates, zero_copy_mode,
    last_fb_update, fb_updates, updater, view, acks, resized, requested>>

\* Pixels: "rect" goes to the general pool, "zlib" to its stream.
AcceptPixels(kind, s) ==
  /\ ReadingRect
  /\ kind \in server.kinds
  /\ \E pixels \in Regions :
       /\ Accept(Job(kind, s, pixels))
       /\ area' = area + Cardinality(pixels)
       /\ goal' = [c \in DOMAIN goal |-> IF c \in pixels THEN update ELSE goal[c]]
  /\ rects' = rects + 1
  /\ sent' = IF kind = "zlib" THEN [sent EXCEPT ![s] = @ + 1] ELSE sent
  /\ UNCHANGED maybe_new_fb_size
  /\ AcceptUnchanged

\* The control byte of a Tight rectangle resets a stream before it is used.
AcceptReset(s) ==
  /\ ReadingRect
  /\ "reset" \in server.kinds
  /\ sent[s] > 0
  /\ Accept(Job("reset", s, {}))
  /\ sent' = [sent EXCEPT ![s] = 0]
  /\ UNCHANGED <<rects, area, maybe_new_fb_size, goal>>
  /\ AcceptUnchanged

AcceptCursor ==
  /\ ReadingRect
  /\ "cursor" \in server.kinds
  /\ Accept(Job("cursor", General, {}))
  /\ area' = area + CursorPixels
  /\ rects' = rects + 1
  /\ UNCHANGED <<maybe_new_fb_size, sent, goal>>
  /\ AcceptUnchanged

\* DesktopSize and ExtendedDesktopSize; the latter may report that a resize
\* was refused.  The size counts as area either way.
AcceptSize(new) ==
  /\ ReadingRect
  /\ "size" \in server.kinds
  /\ area' = area + NoOfPixels(new)
  /\ rects' = rects + 1
  /\ maybe_new_fb_size' \in {new, maybe_new_fb_size}
  /\ UNCHANGED <<queue, unanswered, sent, goal>>
  /\ AcceptUnchanged

\* The update is read completely: zero-copy mode goes on or off, a partial
\* update makes the reader ask for a full one, and the updater gets its job.
EndUpdate ==
  LET full == area = NoOfPixels(size)
      n    == IF full THEN no_of_successive_full_updates + 1 ELSE 0
      zero == full /\ (zero_copy_mode \/ n = ZeroCopyAfter)
  IN
  /\ reader = "rects"
  /\ no_of_successive_full_updates' = n
  /\ zero_copy_mode' = zero
  /\ requested' = ~ full
  /\ fb_updates' = Append(fb_updates, [stamp |-> update, zero_copy |-> zero])
  /\ last_fb_update' = "pending"
  /\ reader' = "packet"
  /\ UNCHANGED <<decoderVars, update, rects, area, maybe_new_fb_size, updater,
       view, acks, sent, goal, resized>>

-----------------------------------------------------------------------------
(* The reader: the end of the connection                                   *)

\* The connection breaks, a packet is malformed or the write end is gone.
ConnectionFails ==
  /\ Faults
  /\ reader \in {"packet", "rects"}
  /\ reader' = "returning"
  /\ UNCHANGED <<decoderVars, update, rects, area, maybe_new_fb_size,
       no_of_successive_full_updates, zero_copy_mode, last_fb_update,
       fb_updates, updater, view, acks, sent, goal, resized, requested>>

\* Mistake: the threads of the decoders are detached instead of joined.
DropDecoderDetached ==
  /\ reader = "returning"
  /\ reader' = "dropping"
  /\ UNCHANGED <<decoderVars, update, rects, area, maybe_new_fb_size,
       no_of_successive_full_updates, zero_copy_mode, last_fb_update,
       fb_updates, updater, view, acks, sent, goal, resized, requested>>

\* The reader's reference of the decoder is dropped.  If a job of the updater
\* has another one it dies with that job, else now: its pools are joined.
DropDecoder ==
  /\ reader = "returning"
  /\ fb_updates = <<>> => Drained
  /\ reader' = "dropping"
  /\ UNCHANGED <<decoderVars, update, rects, area, maybe_new_fb_size,
       no_of_successive_full_updates, zero_copy_mode, last_fb_update,
       fb_updates, updater, view, acks, sent, goal, resized, requested>>

\* last_fb_update is dropped, which waits for it, and fb_updater is joined.
Return ==
  /\ reader = "dropping"
  /\ last_fb_update # "pending"
  /\ fb_updates = <<>>
  /\ reader' = "returned"
  /\ UNCHANGED <<decoderVars, update, rects, area, maybe_new_fb_size,
       no_of_successive_full_updates, zero_copy_mode, last_fb_update,
       fb_updates, updater, view, acks, sent, goal, resized, requested>>

-----------------------------------------------------------------------------
(* The job of the fb-updater thread                                        *)

UpdaterUnchanged ==
  UNCHANGED <<reader, update, rects, area, maybe_new_fb_size,
    no_of_successive_full_updates, zero_copy_mode, sent, goal, resized, requested>>

Current == Head(fb_updates)

StartUpdateJob ==
  /\ updater = "idle"
  /\ fb_updates # <<>>
  /\ updater' = "decoding"
  /\ UNCHANGED <<decoderVars, last_fb_update, fb_updates, view, acks>>
  /\ UpdaterUnchanged

\* decoding.wait()? returns the error.
DecodingFailed ==
  /\ updater = "decoding"
  /\ AllDecoded(Current.stamp)
  /\ Current.stamp \in failed
  /\ updater' = "failed"
  /\ UNCHANGED <<decoderVars, last_fb_update, fb_updates, view, acks>>
  /\ UpdaterUnchanged

\* Mistake: the decoding is not waited for.
DecodedUnwaited == updater = "decoding" /\ Current.stamp \notin failed

\* decoding.wait()? succeeds.
Decoded ==
  /\ updater = "decoding"
  /\ AllDecoded(Current.stamp)
  /\ Current.stamp \notin failed

\* Zero-copy mode: fb.lock(), and the framebuffer is swapped with an
\* uninitialized one.
BeginSwap ==
  /\ Decoded
  /\ NativeView /\ Current.zero_copy
  /\ LockToSwap
  /\ updater' = "swapping"
  /\ UNCHANGED <<last_fb_update, fb_updates, view, acks>>
  /\ UpdaterUnchanged

TakeFb ==
  /\ updater = "swapping"
  /\ SwapFb
  /\ updater' = "publishing"
  /\ UNCHANGED <<last_fb_update, fb_updates, view, acks>>
  /\ UpdaterUnchanged

\* Otherwise decoder.lock() and convert_or_copy_fb.
BeginCopy ==
  /\ Decoded
  /\ ~ (NativeView /\ Current.zero_copy)
  /\ reader # "rects"
  /\ StartCopy(Current.stamp)
  /\ updater' = "copying"
  /\ UNCHANGED <<last_fb_update, fb_updates, view, acks>>
  /\ UpdaterUnchanged

Copied ==
  /\ updater = "copying"
  /\ EndCopy(Current.stamp)
  /\ updater' = "publishing"
  /\ UNCHANGED <<last_fb_update, fb_updates, view, acks>>
  /\ UpdaterUnchanged

\* cursor.lock(), and the cursor is sent if it changed; the lock is kept.
PublishCursor ==
  /\ updater = "publishing"
  /\ cursor.changed => ViewHasRoom
  /\ view' = IF cursor.changed THEN Append(view, "cursor") ELSE view
  /\ cursor' = [cursor EXCEPT !.changed = FALSE, !.locked = TRUE]
  /\ updater' = "sending"
  /\ UNCHANGED <<queue, running, unanswered, failed, held, size, pixel, frame,
       inflated, last_fb_update, fb_updates, acks>>
  /\ UpdaterUnchanged

\* update_framebuffer or update_framebuffer_sync sends the picture.
PublishFrame ==
  /\ updater = "sending"
  /\ ViewHasRoom
  /\ view' = Append(view, "frame")
  /\ updater' = IF Throttle THEN "syncing" ELSE "done"
  /\ UNCHANGED <<decoderVars, last_fb_update, fb_updates, acks>>
  /\ UpdaterUnchanged

\* update_framebuffer_sync waits until the picture is on the screen.
Synced ==
  /\ updater = "syncing"
  /\ acks > 0
  /\ acks' = acks - 1
  /\ updater' = "done"
  /\ UNCHANGED <<decoderVars, last_fb_update, fb_updates, view>>
  /\ UpdaterUnchanged

\* Mistake: the lock of the cursor is leaked.
EndUpdateJobLocked ==
  /\ updater \in {"done", "failed"}
  /\ reader \in {"dropping", "returned"} => Drained
  /\ last_fb_update' = IF updater = "done" THEN "ok" ELSE "err"
  /\ fb_updates' = Tail(fb_updates)
  /\ updater' = "idle"
  /\ UNCHANGED <<decoderVars, view, acks>>
  /\ UpdaterUnchanged

\* The job's reference of the decoder and the lock of the cursor are dropped;
\* if the reader's reference is gone this joins the pools.  Then the Future of
\* the job gets its answer.
EndUpdateJob ==
  /\ updater \in {"done", "failed"}
  /\ reader \in {"dropping", "returned"} => Drained
  /\ cursor' = [cursor EXCEPT !.locked = FALSE]
  /\ last_fb_update' = IF updater = "done" THEN "ok" ELSE "err"
  /\ fb_updates' = Tail(fb_updates)
  /\ updater' = "idle"
  /\ UNCHANGED <<queue, running, unanswered, failed, held, size, pixel, frame,
       inflated, view, acks>>
  /\ UpdaterUnchanged

-----------------------------------------------------------------------------
(* The main thread takes an event; a picture on the screen is acknowledged. *)
ShowEvent ==
  /\ view # <<>>
  /\ view' = Tail(view)
  /\ acks' = IF Throttle /\ Head(view) = "frame" THEN acks + 1 ELSE acks
  /\ UNCHANGED <<decoderVars, last_fb_update, fb_updates, updater>>
  /\ UpdaterUnchanged

\* Only the bound on the updates, or the end of the connection, stops it.
Finished ==
  /\ \/ reader = "packet" /\ update = MaxUpdates
     \/ reader = "returned"
  /\ updater = "idle" /\ fb_updates = <<>> /\ view = <<>> /\ Drained
  /\ UNCHANGED vars

ReaderStep ==
  \/ ReceiveUpdate
  \/ JoinLastUpdate
  \/ AnnounceSize
  \/ LockReader
  \/ ResizeFb
  \/ FbSizeRead
  \/ BeginRects
  \/ AcceptPixels("rect", General)
  \/ \E s \in Streams : AcceptPixels("zlib", s) \/ AcceptReset(s)
  \/ AcceptCursor
  \/ \E new \in Sizes : AcceptSize(new)
  \/ EndUpdate
  \/ DropDecoder
  \/ Return

UpdaterStep ==
  \/ StartUpdateJob
  \/ DecodingFailed
  \/ BeginSwap
  \/ TakeFb
  \/ BeginCopy
  \/ Copied
  \/ PublishCursor
  \/ PublishFrame
  \/ Synced
  \/ EndUpdateJob

DecoderStep(w) == WorkerStep(w) /\ UNCHANGED pipelineVars

Next ==
  /\ \/ ReaderStep
     \/ ConnectionFails
     \/ UpdaterStep
     \/ ShowEvent
     \/ \E w \in Workers : DecoderStep(w)
     \/ Finished
  /\ UNCHANGED server

Spec == Init /\ [][Next]_vars

\* Every thread that can go on does, the main thread included.  The server
\* may fall silent: nothing forces the reader to get an update or a rectangle.
Fairness ==
  /\ WF_runVars(ReaderStep /\ reader \notin {"packet", "rects"})
  /\ WF_runVars(UpdaterStep)
  /\ WF_runVars(ShowEvent)
  /\ \A w \in Workers : WF_runVars(DecoderStep(w))

FairSpec == Spec /\ Fairness

-----------------------------------------------------------------------------
(* Properties                                                              *)

TypeOK ==
  /\ DecoderTypeOK
  /\ reader \in {"packet", "joining", "begin", "resizing", "sized", "rects",
                 "returning", "dropping", "returned"}
  /\ update \in 0 .. MaxUpdates
  /\ server \in Servers
  /\ rects \in 0 .. server.rects
  /\ area \in Nat
  /\ maybe_new_fb_size \in Sizes \cup {NoSize}
  /\ no_of_successive_full_updates \in Nat
  /\ zero_copy_mode \in BOOLEAN
  /\ last_fb_update \in {"none", "pending", "ok", "err"}
  /\ fb_updates \in Seq([stamp : 1 .. MaxUpdates, zero_copy : BOOLEAN])
  /\ updater \in {"idle", "decoding", "failed", "copying", "swapping",
                  "publishing", "sending", "syncing", "done"}
  /\ view \in Seq({"size", "cursor", "frame"}) /\ Len(view) <= ViewCapacity
  /\ acks \in Nat
  /\ sent \in [Streams -> Nat]
  /\ goal \in [1 .. MaxPixels -> 0 .. MaxUpdates]
  /\ resized \in 0 .. MaxUpdates
  /\ requested \in BOOLEAN

\* Between the last update and the rectangles of the next one.
BetweenUpdates == reader \in {"begin", "resizing", "sized"}

(* When the reader touches the framebuffer's size or reads rectangles of   *)
(* the next update nothing of the last one is under way: no job, no        *)
(* updater, no guard but its own.  The decoders rely on it; they have no   *)
(* barrier of their own.                                                   *)
UpdatesDoNotOverlap ==
  BetweenUpdates =>
    Drained /\ fb_updates = <<>> /\ \A g \in held : g[1] = Reader

(* While the framebuffer is copied the pools hold nothing but copy jobs: a *)
(* decode job would wait for the guard on the very thread the copy needs.  *)
CopyIsAlone ==
  updater = "copying" => \A j \in Pending : j.kind = "copy"

Publishing == updater \in {"publishing", "sending"}

\* Drawn since the framebuffer's rows changed their length.
Fresh == {c \in 1 .. NoOfPixels(size) : goal[c] >= resized}

\* What a pixel may be that a resize has moved.
Misplaced == {Scrambled, Gray}

(* The picture that goes to the view has every pixel as the server's last  *)
(* update left it, complete and untorn, with two exceptions.  It is        *)
(* undefined where the framebuffer is, after zero-copy mode replaced it;   *)
(* and a pixel that was not drawn since the width changed last is not      *)
(* where the server has it, because Framebuffer::resize moves none.        *)
PictureIsFaithful ==
  Publishing =>
    \A c \in 1 .. NoOfPixels(size) :
      \/ frame[c] = goal[c]
      \/ frame[c] = Uninitialized /\ pixel[c] = Uninitialized
      \/ frame[c] \in Misplaced /\ c \notin Fresh

(* A picture with undefined pixels is shown only while a full refresh is   *)
(* on its way.                                                             *)
UndefinedIsRefreshed ==
  Publishing /\ (\E c \in 1 .. NoOfPixels(size) : frame[c] = Uninitialized)
    => requested

(* A failed update is never shown, and no update after it either: once     *)
(* decoding failed the connection ends.                                    *)
FailureIsNotShown == Publishing => failed = {}

-----------------------------------------------------------------------------
(* Who waits for whom                                                      *)

\* A worker has a job to take, to go on with, or to end.
WorkerCanGoOn(w) ==
  IF running[w] = Nobody THEN queue[PoolOf(w)] # <<>>
  ELSE running[w].kind \in Decodes =>
         IF Holds(w) THEN running[w].kind = "cursor" => ~ cursor.locked
                     ELSE CanLock("Decoding")

\* The updater has a job, and what it has to wait for has happened.
UpdaterCanGoOn ==
  /\ fb_updates # <<>>
  /\ updater = "decoding" =>
       /\ AllDecoded(Current.stamp)
       /\ ~ Holds(Updater)
       /\ \/ Current.stamp \in failed
          \/ NativeView /\ Current.zero_copy /\ CanLock("Decoding")
          \/ /\ ~ (NativeView /\ Current.zero_copy)
             /\ reader # "rects" /\ CanLock("Reading")
  /\ updater = "swapping" => Holds(Updater)
  /\ updater = "copying" =>
       \A j \in unanswered : j.kind = "copy" => j.stamp # Current.stamp
  /\ updater = "publishing" /\ cursor.changed => ViewHasRoom
  /\ updater = "sending" => ViewHasRoom
  /\ updater = "syncing" => acks > 0
  /\ updater \in {"done", "failed"} /\ reader \in {"dropping", "returned"} => Drained

\* So it has for the reader, where it waits for none but the client's threads.
ReaderCanGoOn ==
  /\ reader = "joining" => last_fb_update # "pending"
  /\ reader = "begin" =>
       IF maybe_new_fb_size = NoSize THEN Holds(Reader) \/ CanLock("Reading")
       ELSE ViewHasRoom
  /\ reader = "resizing" => Holds(Reader) \/ CanLock("Resizing")
  /\ reader = "sized" => updater # "copying"
  /\ reader = "returning" /\ fb_updates = <<>> => Drained
  /\ reader = "dropping" => last_fb_update # "pending" /\ fb_updates = <<>>

(* No wait is circular.  A worker that has a job never waits, neither for  *)
(* the framebuffer's lock nor for that of the cursor; the updater waits    *)
(* only for workers and for the main thread, which takes whatever is in    *)
(* the view's channel; and the reader waits only for those.                *)
NobodyIsStuck ==
  /\ \A w \in Workers : running[w] # Nobody => WorkerCanGoOn(w)
  /\ fb_updates # <<>> => UpdaterCanGoOn \/ Pending # {} \/ view # <<>>
  /\ ReaderCanGoOn \/ fb_updates # <<>> \/ Pending # {} \/ view # <<>>

Events ==
  INSTANCE EventQueue
    WITH Kinds <- {"size", "cursor", "frame"}, Capacity <- ViewCapacity,
         throttle <- Throttle, events <- view

(* Reader and updater use the view as EventQueue says: they wait for room, *)
(* and for one acknowledgement per picture.                                *)
UsesEventQueue == Events!Spec

-----------------------------------------------------------------------------
(* The screen                                                              *)

\* The updates that were read completely.  The last one that was received is
\* not, as long as the reader joins the one before or reads its rectangles, and
\* if the connection ended there.
Completed ==
  IF update > 0 /\ (reader = "joining" \/ last_fb_update = "none")
  THEN update - 1 ELSE update

\* An update that is never shown.
Lost == \E k \in failed : k <= Completed

\* The last update that was read completely is not in the view's channel yet.
OnItsWay == fb_updates # <<>> /\ updater \notin {"syncing", "done"}

\* What the window is to show, and how many updates were sent to it.
Picture == [c \in 1 .. NoOfPixels(size) |-> goal[c]]
Shown == IF Lost \/ OnItsWay THEN Completed - 1 ELSE Completed

Window ==
  INSTANCE Screen
    WITH Undefined <- Uninitialized, Moved <- Misplaced, picture <- Picture,
         fresh <- Fresh, buffer <- frame, drawn <- Completed, shown <- Shown

(* Reader, updater and decoders together are a screen: updates are shown   *)
(* in their order, each once, and what is shown does not change meanwhile. *)
(* Pixels that were not drawn since the width changed are the exception    *)
(* that Screen makes.                                                      *)
ImplementsScreen == Window!Spec

-----------------------------------------------------------------------------
(* The end of the connection                                               *)

(* handle_main_part returns only when every thread that could use the      *)
(* framebuffer is done.                                                    *)
ReturnsAlone ==
  reader = "returned" => Drained /\ held = {} /\ updater = "idle"

(* handle_main_part returns once it left its loop, also when jobs are      *)
(* queued, the updater is at work or the view's channel is full.           *)
ConnectionReturns == reader = "returning" ~> reader = "returned"

(* Every update that was read is shown or fails: the updater always ends   *)
(* its job, however full the pools and the view's channel are.             *)
EveryUpdateEnds == last_fb_update = "pending" ~> last_fb_update # "pending"
=============================================================================
