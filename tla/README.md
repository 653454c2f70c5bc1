# flashvnc, specified in TLA+

flashvnc (`client/`) is a VNC client in Rust. It reads framebuffer updates from
one TCP connection and decodes them on as many threads as it can get, which is
where its correctness is hard: several thread pools write one framebuffer, a
further thread copies it (or gives it away) for the window, and the reader is
meanwhile busy with the next update. This directory models that concurrency and
what surrounds it (the write end, the views, the packets, the throttle), checks it
with TLC on small instances and proves its safety with TLAPS.

Source paths below are relative to `client/src/`.

1. [Inventory](#1-inventory): the parts of the program
2. [Modules](#2-modules): which module models what, and how
3. [Runs](#3-runs): what TLC checks, with which bounds
4. [Fairness](#4-fairness)
5. [Proofs](#5-proofs)
6. [What the code does otherwise](#6-what-the-code-does-otherwise)
7. [What is not modelled](#7-what-is-not-modelled)
8. [Plan](#8-plan)

`PROJECT.json` lists the same in machine-readable form: components, runs, the
source lines of every definition, hazards, and for every property a mutation of
the model that breaks it (the definitions marked `Mistake:` in the modules).

## 1. Inventory

| component | state | operations | hard about it |
|---|---|---|---|
| mode lock, `infrastructure/mode_lock.rs` | count and mode behind a mutex, condition variable, the data | `lock(mode)`, guard drop | lost and spurious wakeups, exclusion of modes, starvation |
| thread pool, `infrastructure/thread_pool.rs` | job channel, receiver shared behind a mutex, an answer channel per job | `spawn_fn`, `Future::wait`, `Future::drop`, pool drop | order of jobs, panicking jobs, waiting in drop, closing with jobs queued |
| decoders, `encoding/decoding_master.rs` | a general pool, four one-thread pools with a zlib inflater each, Futures collected for `finish` | `accept`, `finish`, `convert_or_copy_fb`, the jobs | zlib chunks are ordered although decoding is asynchronous; copies and decodes share a pool |
| framebuffer, `framebuffer.rs` | size and bytes | `resize`, `uninitialized`, `set_pixel`, `set_line` | bytes move on a resize, uninitialized memory, unsynchronized writers |
| reader, `lib.rs` 827-1193 | last update's Future, deferred size, zero-copy mode | one packet per iteration of the loop | errors surface one update late, the order in which locals are dropped |
| fb-updater, `lib.rs` 971-1009 | a job per update | wait, copy or swap, publish | overlaps with the reader |
| write end, `lib.rs` 516-663 | remainder of relative motion, last buttons, screen layout | one event of the reader or of the window | two senders interleave, errors are seen by the heartbeat only |
| views, `presentation/sdl.rs`, `presentation/gtk.rs` | bounded channel of protocol events, pressed keys, menu | draw, acknowledge, translate input | backpressure into the reader, keys pressed but never released |
| menu, `presentation/menu.rs` | F8 pressed, relative mode, fullscreen | `intercept_key_press` | presses are intercepted, releases are not |
| handshake, `lib.rs` 765-825 | none | version, security, init | where it stops |
| parsing, `protocol/` | shared buffer with an offset | combinators, packets | failed alternatives and the end of the stream |
| throttle, `lib.rs` 338-424 | window of delays, their mean, sleep, freeze counter | `register_leftover_frame_delay` | truncated quotients that are added and subtracted, feedback |
| rectangles, `decode()` in `encoding/decoding_master.rs`, `infrastructure/bit_buffer.rs`, `handle_rectangle` | bits left of a byte, position in the data | `next`, `next_byte`, the loops over pixels | two computations of one size, rows that end within a byte |

Components interact through channels (reader to decoders to updater to view;
window to forwarder to write end; reader to write end), through Futures (the
reader waits for the updater, which waits for the decoders) and through two locks
(the framebuffer's mode lock, the cursor's mutex).

What makes each of them correct:

* **mode lock** guards of two modes never coexist; nobody sleeps without a guard
  in the way; every call returns.
* **thread pool** jobs start in the order of their spawns, each exactly once; no
  worker dies; waiting and dropping end, and dropping runs what is queued.
* **decoders** a zlib stream is inflated in the order of its chunks and resets;
  between two updates nothing is left over.
* **reader, updater, framebuffer** a shown picture is the server's, complete and
  untorn; undefined memory is only shown while a refresh is on its way; a failed
  update is never shown; no wait is circular; the threads end.
* **write end** the reader never unwraps an error that is not there; fences and
  requests reach the server in an order it can rely on; no motion is lost.
* **views** no event waits without a wakeup; a synchronous update returns for its
  own picture; keys that go up are released; clicks arrive; the servers know which
  buttons are pressed.
* **rectangles** the reader takes the bytes the server sent, the decoder none beyond
  them, and the picture arrives.
* **throttle** the average does not drift or go below zero; a delay is reacted to
  once; the sleep is given back.
* **parsing, packets, handshake** the client takes exactly the packets the server
  sent, whatever the buffer held, and fails only for a reason.

## 2. Modules

```
GroupLock  <--refined by-- ModeLock        JobPool  <--refined by-- ThreadPool
    ^                                         ^
    | FbLock: the framebuffer's lock          | GeneralPool: the general decoders
    +------------- DecodingMaster ------------+
                        ^
   Screen  <--refined by-- FramePipeline --uses--> EventQueue  <--refined by-- ViewChannel

RfbWriteEnd   ViewInput   Throttle   Decode

Parsing <- RfbPackets <- RfbStream
```

"Refined by" and "uses" (also `FbLock` and `GeneralPool`) are refinements, proved by TLAPS
(those of the first kind are also checked by TLC): the detailed module implements the
abstract specification, and a module that uses the component keeps to what that
specification says. So the pipeline relies on nothing of the lock, the pool and the view
but what those of the program are proved to provide.
`MC*` modules only name model values and sets for TLC; `*Proofs` modules hold the
theorems of the module they are named after (section 5).

**GroupLock, ModeLock.** `GroupLock` is the promise: `held`, a set of guards as
(client, mode) pairs, all of one mode. `ModeLock` is `mode_lock.rs`: `no_of_clients`
and `current_mode` are `State`, `mutex` is who holds the mutex around it. One call
of `lock()` with the guard it returns is a process: `LockMutex`, `Wait` (gives the
mutex up and sleeps), `SpuriousWakeup`, `Enter`, `DropGuard`, `Unlock` (with
`notify_all`).

**JobPool, ThreadPool.** `JobPool` is the promise: a FIFO `queue` and one `running`
job per thread. `ThreadPool` is `thread_pool.rs`: the job channel, the mutex of its
receiver (`LockReceiver`; the worker keeps it while it blocks in `recv()`), the
answer channel and the `Future` of each job. A job may succeed, fail or panic.
`Execute` includes the `send().unwrap()` that would take the worker down if the
Future were gone; that this never happens is a theorem. `StartWait` stands for
`wait()` and for the wait in `Future::drop`. `DropSender` and `JoinWorkers` are the
pool's `drop()`.

**DecodingMaster.** The queues and threads of the general pool and of one pool per
zlib stream, the framebuffer with its guards, the cursor. `Route` and `Accept` are
`accept()`; `AllDecoded` is what `finish()` waits for; the workers' steps are `Pop`,
`LockFb`, `DecodeOk`, `DecodeFails` (with part of the pixels written), `ResetZlib`,
`CopyChunk`; `StartCopy`/`EndCopy` are `convert_or_copy_fb` with its division of
the pixels among the threads. Data are abstracted to what the properties tell
apart: a pixel's content is the number of the update that wrote it (or
`Uninitialized`, or `Scrambled` where a resize left bytes of another place); compressed
bytes are their position in their stream. `Resized` is `Framebuffer::resize`: it moves no
byte, so pixels stay in their place if the width does (`InPlace`) or at the beginning of
the first row. `held` has every guard of the framebuffer's lock: those of the
decoders, the updater's for a copy (`StartCopy`) and for the zero-copy swap (`LockToSwap`,
`SwapFb`), and the reader's of the next module.

**FramePipeline.** `handle_main_part` and the fb-updater's job on top of
`DecodingMaster`. The reader: `ReceiveUpdate`, `JoinLastUpdate` (the deferred
error), `AnnounceSize`, `LockReader` and `ResizeFb` (the deferred size: the view is told,
the guard is taken, the framebuffer is resized), `LockReader` and `FbSizeRead` (`fb_size()`
with its guard), `BeginRects`, one `Accept...` per rectangle,
`EndUpdate` (counting full updates, zero-copy mode, the request for the rest, the
updater's job), `DropDecoder` and `Return` (the order of drops on the way out).
The updater: wait, `BeginSwap`/`TakeFb` or `BeginCopy`/`Copied`, `PublishCursor`,
`PublishFrame`, `Synced`, `EndUpdateJob`. One mutex is implicit in where the threads
are, that of `decoder`: the reader has it in `reader = "rects"`, the updater in
`updater = "copying"`, and each waits for the other.
`goal` and `resized` are history. `goal` is the picture as the server means it: a rectangle
draws its pixels, and a new size keeps columns and rows (`KeptInPlace`), which the client
does not do (section 6). `resized` is the update before which the width changed last: the pixels
that were drawn since (`Fresh`) are in the right place whatever `resize()` did. The
server is one of `Servers`: the kinds of rectangles it sends, how many, and whether
they tile the framebuffer; a behaviour has one of them, so that one run covers
servers that would be too many together.

**Screen.** What the user is promised: updates appear one after the other (`Complete`, then
`Show`), each once and completely drawn, nothing is drawn while a picture is on its way
(`Paint` and `Prepare` exclude each other), and only the last update can be missing.
`FramePipeline` implements it although its reader is one update ahead: `drawn` is the
number of updates that were read completely, `shown` that of the pictures that were sent
to the view, `buffer` is what the updater copies into or was given. Two exceptions are part
of the promise: pixels of undefined memory, and pixels that are not `fresh`, that is not
drawn since the width changed.

**EventQueue.** What a view promises the threads of the connection: events are taken in
their order, at most `Capacity` wait, and with `--throttle` each picture that is
taken is acknowledged once.

**RfbWriteEnd.** Reader (reduced to what it sends), window, forwarder and write
end. `wire` and `mouse` are what reached the sockets; `moved`, `told`, `buttons` and
`fences` are history: the motion that was handled and what the datagrams add up to,
the buttons the user pressed and the fences the server requested. Relative motion
is in fractions `1/Unit` of a pixel. Packets that a handler only writes out are
the event "plain". A behaviour has one of `Sessions`: what the user does and what the
server sends.

**ViewInput.** Keyboard and mouse of both toolkits with the menu. The toolkit's queue
stands next to the state of keyboard and mouse. SDL's main loop asks for that state
while it handles an event, when it may be ahead of it, and learns from a separate
event which text a key makes; a GTK event carries the buttons that were pressed
before it and a keysym under the modifiers of that moment. `server_keys` and
`server_buttons` are what the two servers believe to be pressed; `told`, history, is the
server that was told of the buttons last.

**ViewChannel.** The output side of both toolkits: put the event into the bounded
channel, wake the main loop up, wait for the acknowledgement; the main loop takes
one event per wakeup. `toolkit` and `throttle` are chosen in `Init` and never change.

**Throttle.** `MovingAverage` (`AddNext`: the window, and a mean kept by adding and
subtracting truncated quotients) and `ThrottleController` (`Grow`, the frozen window
after it, `Faded` in its three ranges). One call per update is `Register`. `sums` and
`fresh` are history: the prefix sums of the shares in the window, and the number of
samples since the sleep grew.

**Decode.** One rectangle from the socket to the framebuffer: what `handle_rectangle`
reads, with the sizes it computes, and the loops of `decode()` pixel by pixel with the
`BitBuffer`, `byte_pos`, `set_pixel` and `set_line`: raw, copied, filled, palettes of two
and of more colors, JPEG, cursors with their mask, compressed or too short for it. A
byte of the wire is a color channel, an index or a length; a byte of packed bits is
the sequence of its bits, `ByteBits` long; what zlib or JPEG compressed is one byte that
remembers what it expands to. The server encodes a picture as the protocol says and
is external.

**Parsing, RfbPackets, RfbStream.** `Parsing` represents a parser of
`primitive.rs` as a record; `Parse` and `Write` interpret it. Its input is
`io_input.rs`: one buffer for all packets, whose length grows before the bytes
arrive, on memory that keeps what earlier packets left there. `RfbPackets` has the
packets a server sends, `RfbStream` the handshake, the message loop and the bytes
that `handle_rectangle` takes. The letters of a text are abstracted (a byte above
127 is invalid UTF-8, any other a letter); a connection ends by being closed
(`UnexpectedEof`) or reset, which `is_eof()` tells apart; memory nobody wrote holds one and the
same byte of `Junk` everywhere; 32-bit numbers of 2^31 and more are not enumerated
because TLC's integers end there.

## 3. Runs

| run | shows | bounds, and why they suffice |
|---|---|---|
| `mode_lock` | `ModeExclusion`, `SleeperIsBlocked`, every `lock()` returns, and `ModeLock` refines `GroupLock` | 3 calls in any of the 3 modes: two sleepers of different modes behind one guard is the case that goes wrong; the safety part is proved for any number |
| `thread_pool` | `EachJobOnce`, `DropRunsEverything`, every wait and the drop end, and `ThreadPool` refines `JobPool` | 2 workers, 3 jobs: one worker executes, one holds the receiver, one job is queued when the pool is dropped; the safety part is proved for any number |
| `pipeline` | `ZlibInOrder`, `UpdatesDoNotOverlap`, `CopyIsAlone`, `PictureIsFaithful`, `FailureIsNotShown`, `ReturnsAlone`, `NobodyIsStuck`, every update ends, the reader returns, and `FramePipeline` refines `Screen` | 2 updates from each of 3 servers: one that tiles the screen with every kind of decoded rectangle, one with cursors, one that announces other sizes (2 rectangles each); sizes of 1 x 1, 1 x 2 and 2 x 1 pixels, so that a resize changes the number of the rows, their length, or both; 2 general threads, 1 stream, zero-copy after 1 full update, so that the first update can switch the mode on and the second off; the view's channel holds 1, so that it is full as soon as possible; the safety part is proved for any number of all of them |
| `write_end` | `NoPanic`, `RequestsMatchSize`, `FencesAnswered`, `MotionConserved`, `ButtonsKnown`, `ThreadsEnd` | 2 sessions: the window is resized once while the server sends 3 packets or rectangles of every kind with 2 sizes, fences with any of the flags `request`, `before` (kept in the answer) and `sync` (masked out); or the user makes 2 motions of -3, -1, 1 or 2 half pixels (carries in both directions, sums without whole pixels) or presses keys while the server sends nothing of interest; any write may fail |
| `view_input` | `KeysReleased`, `ButtonsAgree`, `OnlyCapitalsGoUpEarly`, `ClicksArrive` | both toolkits; a letter, Shift, F6, F8, a button, the wheel; 2 queued events, so that the state is up to two events ahead; Ctrl is in `sdl_ctrl`; the safety part is proved for any number of keys, buttons and events |
| `view_channel` | `WakeupForEachEvent`, `SyncMeansShown`, `EverySendReturns`, and `ViewChannel` refines `EventQueue` | both toolkits, throttled or not, 2 threads with 3 events each, a channel of 2, so that it fills |
| `throttle` | `MeanIsExact`, `NoDelayCountsTwice`, `SleepFades` | a window of 3; delays of 0, 2 and 7 whole milliseconds, so that the average is on either side of the threshold and its quotients are truncated; half a second passes in 2 calls; the view keeps up (`EnoughSleep`) with 104 ms, which reaches all three ranges of the fading |
| `decode` | `ReaderStaysInStep`, `SizesAgree`, `PictureIsReproduced` | every rectangle of every encoding with every picture of 2 colors (palettes also of 3) in 3 x 2 pixels; bytes of 2 bits and data compressed from 4 bytes on, so that rows end within a byte and at its end, and data lies on both sides of the limit; proved for all sizes |
| `stream` | `ConversationAgrees`, `ErrorsAreDeserved` | handshakes with every kind of offer and refusal, updates with every kind of rectangle, filter and message (`MCRfbStream`), closed or reset after every byte, with a cut text in ASCII and one with a letter outside it; data of 4 to 130 bytes on both sides of the 12 bytes of Tight and the 128 of CompactLength; three contents of unwritten memory, of which 0 and 1 are the discriminators that could be mistaken |
| `pipeline_undefined`, `sdl_ctrl`, `stream_broken` | the disagreements of section 6 | as small as shows them |

Every module has one type invariant, `TypeOK`; where the module has proofs it is proved
and not checked again by a run. All action properties and liveness
properties are checked without symmetry. Deadlock is checked in the pipeline runs,
where `Finished` names the states in which the bounds or the end of the connection
stop everything; elsewhere the system may really stop (all guards dropped, all jobs
done, the window closed), and the `.cfg` says so.

What the passing runs rule out, in the order of importance:

* **Torn pictures and deadlocks on the shared pool.** The decoders have no barrier:
  `UpdatesDoNotOverlap` shows that the Future of the last update is one, and
  `CopyIsAlone` that no decode job can be in a pool while the updater holds the
  framebuffer in mode Reading. That is why a copy, whose jobs run on the decoders'
  threads, never waits for a decode job that waits for the copy's guard.
* **Circular waits.** Every deadlock this code could have is a circle of waits: workers
  for guards and the cursor, the updater for workers, its guard and the view, the reader
  for the updater, the view and, at the end, the pools. `NobodyIsStuck` says of each
  thread that waits which others it waits for, and that one of these goes on.
  `WorkerCanGoOn` and so on are the guards of the threads' actions, as conditions on
  the state: with `ENABLED` in their place nothing could be proved.
* **The whole.** `ImplementsScreen`: with all these threads, what is sent to the window
  is one update after the other.
* **Zero-copy mode.** `PictureIsFaithful` allows an undefined pixel only where the
  framebuffer has one too: what is shown is as the server drew it, also when the
  framebuffer was given away. That undefined memory is shown only with a refresh on
  its way does not hold: `pipeline_undefined` shows the updates with which it fails.
* **Shutdown.** `ReturnsAlone`, `ConnectionReturns`: from whatever point the
  connection breaks, locals are dropped in an order in which every join ends,
  including the case that the updater's job owns the last reference to the decoders.
* **Errors.** `FailureIsNotShown`: although an error surfaces one update late.
* **Order at the server.** `RequestsMatchSize` and `FencesAnswered` hold although the
  window's events get between those of the reader; `ButtonsKnown`: a motion of less
  than a pixel never keeps a release back.
* **Late main loops.** `ClicksArrive` and `ButtonsAgree` hold although SDL's state is
  ahead of its events and GTK's is behind.
* **Conversation.** `ConversationAgrees`: the shared buffer never leaks bytes of one
  packet into the next although its length runs ahead of its content.

## 4. Fairness

Only threads of the client get fairness, and only for steps they cannot refuse.

* **mode lock** A thread that holds the mutex goes on (weak). A thread that finds the
  mutex free again and again takes it and a guard is dropped in the end (strong for
  both, as the mutex may be taken in between): std's mutex is not formally fair,
  but the model's alternative, one thread that barges in forever, is excluded by
  every scheduler the program runs on.
* **thread pool, pipeline** Threads that can go on do (weak). Jobs end: they are
  finite computations. Nothing forces the owner to spawn or drop, nor the server to
  send: `ReaderStep` has no fairness where the reader waits for the socket.
* **write end** A write ends, because the server reads what it is sent. The server may
  fall silent; `ThreadsEnd` therefore assumes `WF_vars(Server)` in the one conjunct
  that needs it, the heartbeat being tried only between packets.
* **views** A sender that is blocked by a full channel is woken in turn (strong on
  `SendEvent`: std's bounded channel queues blocked senders). The main loop handles
  what is queued, and GTK draws what it was asked to (external).
* **view input** The main loop handles what is queued (weak); the user does what he
  likes.
* **throttle** The server keeps sending (weak on the only action): without updates
  nothing is measured, and `SleepFades` speaks of a session that goes on.

## 5. Proofs

`ModeLockProofs`, `ThreadPoolProofs`, `FramePipelineProofs`, `RfbWriteEndProofs`,
`ViewChannelProofs`, `ViewInputProofs`, `ThrottleProofs` and `DecodeProofs` hold the
theorems, for every value of the constants under the assumptions named in the
modules. Those say that a model value stands for nothing else (`Nobody` is no call,
worker or job; the updater, the reader and the pools have names of their own; a mouse
button is not a direction of the wheel; the modifiers and the keys of the menu are no
letters), that there is a worker, that the decoders' threads and streams are finitely
many, that one size has the most pixels, that a motion fits its field, that the
framebuffer has a width and a height and a byte a bit, that there are three colors, and that
the limit for zlib is above 0. Calls, modes,
jobs, servers, keys, sizes and bounds are otherwise arbitrary.

**Mode lock.** Neither `ModeExclusion` nor `SleeperIsBlocked` is inductive: from an
arbitrary state with a wrong count or a wrong mode one step breaks them. `IInv` adds
who may be inside (`MutexInv`: only the holder of the mutex is in `check` or
`dropping`), that every guard has `current_mode` (`ModeInv`), and that
`no_of_clients` is the number of guards, which are finitely many (`CountInv`).
`SleeperIsBlocked` is itself part of the induction: a sleeper's reason can only
vanish with the last guard, and that unlock wakes everybody. From `[]IInv` follow
`TypeCorrect`, `ModesExclude`, `CountIsRight`, `NoLostWakeup`. `RefinesGroupLock` maps
`held` to the calls that are counted and not yet uncounted: `Enter` is `Acquire`,
`Unlock` is `Release`, everything else stutters. `NoDeadlock`: a sleeper has a guard before
it (`SleeperIsBlocked`), whose holder can drop it as soon as the mutex is free, and the
holder of the mutex never blocks (`HolderInv`).

**Thread pool.** The invariant rests on one observation: the channel holds the jobs
spawned last, in order (`ChannelInv`), so those received are `1 .. Received`, each of
them executed by one worker or answered (`WorkerInv`, `AnswerInv`). A Future ends only
with an answer (`FutureInv`), hence `send().unwrap()` finds its receiver
(`WorkersSurvive`); workers leave only an empty closed channel (`ExitInv`), hence
`DropIsComplete`. `JobsRunOnce` is the conjunction; `RefinesJobPool` maps `channel`
and `job` to `queue` and `running`. `NoDeadlock`: if no worker can go on, all have left or
wait for a job, by `ReceiverInv` one of them in `recv()` and the others for it; then
the channel is empty, so every job is answered.

**Decoders and pipeline.** The first part of `FramePipelineProofs` says what each
operation of the decoders does to the jobs. Its point is that a job is in one place (`RoutedInv`: in the
pool it was routed to; `DistinctInv`: once); then an answer frees exactly its own
Future, and `unanswered` is what is queued or runs (`FuturesAnswered`). On that
the second part builds the invariant of the whole pipeline:

* `UpdateInv`: at most one update is between the reader and the view, because its Future
  is joined before the next begins. `StageInv`: every job belongs to the update that is
  read or to the one the updater has. So nothing is left when the next update begins
  (`OneUpdateAtATime`), nothing but copies while the updater holds its guard
  (`CopyHasThePools`), and nothing at all when the reader returns (`ReturnsWithoutThreads`).
* `FailureInv`: a failure stays with its update and ends the connection before another
  begins (`NoFailedPicture`).
* `DrawInv`: a pixel is as the server means it, or undefined, or in the area of a job, or
  misplaced by a resize and not drawn since the width changed. The step that matters is
  `ResizeFb`: what the client leaves in its place is what the server means there
  (`KeptPixels`, with the arithmetic of rows and columns in `RowFacts`), and no pixel was
  drawn by an update that has not begun (`GoalInv`). `CopyInv` says the same of the copy. `ChunksCover`: the areas of the copy jobs cover the
  framebuffer, however the pixels divide among the threads. Hence `PictureCorrect`.
* `ChainInv`: a stream's inflater, what its thread runs and its queue form a chain of
  positions up to what the server sent (`ZlibChunksInOrder`).

`RefinesGeneralPool` shows that the decoders use the general pool as `JobPool` specifies
it, which `ThreadPool` was shown to implement. `RefinesFbLock` shows the same of the
framebuffer's lock and `GroupLock`, which `ModeLock` was shown to implement: for every guard
there is, those of the decoders, the updater's for a copy and for the swap, the reader's
for `resize()` and `fb_size()` (`LockInv` says when reader and updater have theirs); from the
specification of the lock alone (`GroupLockExclusion`) follows that guards of two modes
never coexist in the pipeline (`GuardsExclude`). `UsesTheEventQueue` is the third of these
theorems: reader and updater send to the view only where it has room, and take one
acknowledgement for each picture.

*No circular wait.* That every update ends is liveness and stays with TLC, but what could
prevent it, with threads that go on when they can, is a circle of waits, and that there
is none is safety (`NoCircularWait`). The waits are ordered: a worker that has a job never
waits (`WorkersNeverWait`): not for its guard, as no guard of another mode exists while
a job that needs one is in a pool, and not for the cursor, as by then the updater does not
have it. The updater waits for workers, or for the main thread, which takes whatever is in the view's
channel (`UpdaterNeverWaits`); the reader for any of these (`ReaderNeverWaits`).
`WaitInv` is what `IInv` does not say: the cursor is locked only while
the picture is sent, and the picture of an update that waits for its
acknowledgement is in the channel or was acknowledged.

*The screen.* `RefinesScreen` maps the reading of a rectangle to `Paint`, the end of an
update to `Complete`, copying or taking the framebuffer to `Prepare` and sending
the picture to `Show`. The difficulty is a job that fails: its update is lost from then on,
although the updater finds out later and the reader one update later still. `shown`
therefore counts an update as not shown from the moment it is both complete and
failed, and `ScreenInv` says when that may happen: jobs that draw for a complete update
exist only while the updater waits for them, so no picture can be lost after it was sent.

**Write end.** An event goes through the channel and may end on the wire; the two are
one sequence, of which a step of the write end only moves the border. `RequestInv` and
`FenceInv` say of every element what the last size (the last fence) before it is,
wherever the border is, and of the reader what it will append to. `SizeIsEnabled` and
`FencesInOrder` are the part on the wire. `ReleaseIsTold` follows the same way from
`ButtonInv` over both channels of the window's events: the last motion under way, or the
mouse server, has the buttons that are pressed. `JoinIsAnError` needs that the write end
returns Ok only after the reader is gone. `NoMotionLost` is inductive as it stands: the
fraction is less than a pixel, so with a motion that fits the field the sum still does
and `as i16` changes nothing (`Whole`); the bound on `Motions` is needed here and
nowhere else, the code does not check it.

**Views.** `EventsAreFetched`: the wakeups that are queued and the senders about to wake
the main loop up are as many as the events in the channel, so it counts them.
`SyncReturnsForItsOwn`: the picture of a synchronous update is in the channel, waiting to
be drawn, or shown and acknowledged, in exactly one of these places (`SyncInv`).
`NoDeadlock` follows from both. `RefinesEventQueue` holds for SDL and GTK alike because a
picture that GTK was handed and has not drawn counts as acknowledged: taking an
event is `Take`, and drawing, the step that SDL does not have, is not seen.

**View input.** What is queued decides what the server will believe, so the invariant
says of every state, and of every position in the queue, what the rest of the queue
makes of it. `ButtonInv`: what the server told last believes of a button, and what every event
of the button will say of it, is what its next event starts from, or where none follows
what is so now. A GTK event has the state before it, so these events form a chain, each
being what its predecessor leaves behind; an SDL event is sent with the state of the moment
it is handled, so for SDL only the last event of a button is bound to be right. Hence
`ServersKnowTheButtons`, which names the server that was told last: the other one is not
told when the mode of the mouse changes (section 6). `KeyInv`: a key that is pressed at the server, or will be, is
held or goes up later in the queue; it needs nothing of the modifiers, hence
`OtherKeysReleased`: only letters can be left pressed. `TextInv`, for SDL: a letter at
the server is among the texts that SDL waits to see released, and each of those is held
or some key goes up, which releases it. That is false with Ctrl (`sdl_ctrl`, section 6);
`EveryKeyIsReleased` therefore supposes that the keyboard has no Ctrl or the toolkit is
GTK, where it excepts letters. `HeldSmallLettersStay` supposes that there is no Ctrl and
says what goes up while it is held: no small letter, and a capital only when some key
goes up (section 6).

**Rectangles.** The three properties are about moments: when a rectangle was read
(`ReaderNeverStarves`), while it is decoded (`LoopsFindTheirData`), and when the loops
end (`DecodingInvertsEncoding`). None says what holds between two pixels. `IInv` does:
`JobInv` relates what the reader handed over to what the server encoded; `LoopInv` says
that the framebuffer is the old one with the first pixels of the rectangle, in
the order of the loops, replaced by the server's, and that the data are those of the
whole rectangle; `Indices` and `BitsAt` say that the byte position is as far as the pixels drawn, and that the
`BitBuffer` stands at the bit of the current pixel, having dropped the rest of a byte where
a row ended. The lemmas are about positions: where row `y` of an encoding
begins, which byte and which bit of it a pixel has, that what lies before the end
of the rectangle lies within the data. The encoding is given by functions of a position
and not recursively, so the loops are proved by an invariant, for every size of rectangle
and framebuffer, every number of bits in a byte and every limit for zlib.

**Throttle.** `MeanStaysExact`: the mean is the last of the prefix sums of the shares in
the window; dropping the oldest sample takes its share from all of them, and none is
smaller than that (`SumsRise`). `EveryDelayCountsOnce`: while the sleep is frozen the
counter and the samples since it grew make up a window (`FreezeCoversWindow`).

**Only model-checked.** Liveness, which is out of TLAPS's reach: `EveryLockReturns`,
`EveryWaitEnds`, `EveryUpdateEnds`, `ConnectionReturns`, `EverySendReturns` (of these five
the safety core is proved: no wait is circular), `ThreadsEnd`, `ClicksArrive`,
`SleepFades`. And of the safety properties `ConversationAgrees` and `ErrorsAreDeserved`:
`Parse` and `Write` are recursive over the structure of a parser, and what a recursive
definition computes for every parser needs an induction over data that the provers
cannot do.

## 6. What the code does otherwise

Three runs end in a counterexample. Each states what a test or message of the
repository promises.

* **`pipeline_undefined`** (`lib.rs` 956, 1049). Every rectangle counts as area, also
  one that reports a size or a cursor. In zero-copy mode an update that only reports
  the size (or refuses a resize) has the area of a full one: the mode stays on, nothing
  is requested, and memory that nobody initialized is shown.
* **`sdl_ctrl`** (`presentation/sdl.rs` 456, in `ViewInput`). Ctrl down, `a` down, Ctrl up, `a` up: the
  letter was sent as a key and not noted as a text; its release is sent only while
  Ctrl is pressed. The server never learns that it went up.
* **`stream_broken`** (`protocol/parsing/primitive.rs` 397). When the stream ends inside
  `SecurityTypes`, `SecurityResult` or a Tight method, `Opt` tries its next alternative,
  whose error hides the end of the stream; the user reads that a packet could not be
  parsed instead of "Connection to server broken".

The models also have behaviour that no property objects to, or that a property excepts by
name, because no test or message of the repository promises otherwise:

* A resize that changes the width leaves the pixels that are not drawn again in a wrong
  place, all but the beginning of the first row; the code knows it (`framebuffer.rs` 151, a
  TODO). `PictureIsFaithful` and `Screen` compare the
  picture with the server's, where columns and rows are kept, and except exactly the pixels
  that were not drawn since.
* With SDL a held capital goes up at the server as soon as any key goes up
  (`sdl.rs` 463-472): the noted texts are compared with the unshifted keycodes of the pressed
  keys. `OnlyCapitalsGoUpEarly` says that nothing else does.
* With SDL the second of two clicks that are faster than the main loop is merged into the
  first (`sdl.rs` 403): a release is reported as pressed if the button is down again.
  `ClicksArrive` and `ButtonsAgree` claim for SDL what is left.
* If the mode of the mouse changes while a button is down, the server of the old mode is
  never told of its release (`lib.rs` 559-587).
* A cut text is parsed as UTF-8 (`rfb.rs` 365), although RFB has Latin-1: a letter outside
  ASCII ends the connection, as one of the packets that are not `Understood`.
* A connection that is reset, not closed, is reported as a packet that cannot be parsed
  (`result.rs` 31).

Furthermore `SetDesktopSize` may be sent without screens when a resize
gets between the two events of an `ExtendedDesktopSize` rectangle (`lib.rs` 1181);
an explicit Copy or Gradient filter panics the reader (`lib.rs` 1138, `unimplemented!`;
outcome "panic" of `RfbStream`); fences are answered when they are read, not when
what precedes them is decoded; a failed datagram ends the connection with the
next packet only; with GTK a letter stays pressed at the server if Shift changed while
it was down (`gtk.rs` 388), as its keysym is the one of that moment.

## 7. What is not modelled

* The arithmetic of libjpeg-turbo and zlib behind `tight.rs`: `Decode` takes from them
  what they return.
* The pointer's position and the grab at the edges of the window (`gtk.rs` 354 counts a
  warp twice), the comparison in GTK's resize event (`gtk.rs` 409), fullscreen, quitting,
  drawing.
* `--benchmark` and its frame rate; connecting, the title, the socket option.
* The client's packets beyond their order and what they answer: tables of fields.
* The key symbols (a table), the build, the test programs.
* The negative absolute position that wraps to a `u16`, marked with a TODO in the code
  (`lib.rs` 564), and `port - 5900` for small ports (`lib.rs` 850): expressions without
  a state. A packet of which only a part is written (`primitive.rs` 407) is the end of
  the connection in `RfbWriteEnd`.
* Acknowledgements that nobody reads without `--throttle` (`sdl.rs` 137) and the bound of
  SDL's own queue (`sdl.rs` 253), which grow or fill up only after longer than a model runs.
* Images that are not as large as their rectangle, or reach beyond the framebuffer
  (`framebuffer.rs` 111): the assertions are commented out, and what is written then is
  undefined.

## 8. Plan

Done: the locks and pools with their refinements and proofs; `DecodingMaster` and
`FramePipeline` on top, with proofs of every safety property, of their use of the lock, the
pool and the view, of the absence of circular waits and of the screen they implement;
`RfbWriteEnd`, `ViewChannel`, `ViewInput` for both toolkits, `Throttle` and `Decode`, also
with proofs of every safety property; `Parsing`, `RfbPackets`, `RfbStream`.

Left, in this order:

1. What `RfbStream` can be proved about without its parsers: that the buffer holds a
   prefix of what the server sent, if `Parse` is taken as an operator that reads no
   further than the buffer reaches.
2. The round trip of `CompactLength` and of every packet over bounded values, as a run
   of its own.
3. The pointer's position with grabbing and warping in both toolkits.
