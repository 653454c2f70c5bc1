----------------------------- MODULE ViewChannel -----------------------------
(***************************************************************************)
(* How events of the protocol get into the window: the output side of the  *)
(* views, src/presentation/sdl.rs and gtk.rs.  A sender puts the event     *)
(* into a bounded channel and then wakes the main loop up, in two steps.   *)
(* The main loop handles at most ONE event of the channel per wakeup, and  *)
(* none without one, so a missing wakeup would leave an event where it is. *)
(*                                                                         *)
(* In SDL a wakeup is an event in the queue that also holds the user's     *)
(* input, and the main loop looks at the channel after any of them; a      *)
(* picture is acknowledged when it is handled.  In GTK a wakeup is an idle *)
(* callback of its own; handling a picture only asks for a redraw, and     *)
(* drawing acknowledges.                                                   *)
(***************************************************************************)
EXTENDS Naturals, Sequences, FiniteSets

CONSTANTS Capacity,   \* of the channel: 5 in SDL, 4 in GTK
          MaxEvents,  \* bound: how many events each thread sends
          MaxInput    \* bound: how many inputs of the user are queued

ASSUME ViewAssumption ==
  Capacity \in Nat \ {0} /\ MaxEvents \in Nat /\ MaxInput \in Nat

\* The reader sends sizes and the title, the updater cursors and pictures.
Senders == {"reader", "updater"}
KindsOf(s) == IF s = "reader" THEN {"size", "title"} ELSE {"cursor", "frame"}

VARIABLES
  toolkit,           \* the view that was built, never changes
  throttle,          \* --throttle: pictures are sent synchronously
  at, event, sends,  \* of each sender: where it is, its event, how many so far
  channel,           \* events_out / protocol_events_rx
  wakeups,           \* SDL's queue, or GTK's idle callbacks
  fb_updated,        \* GTK: a picture was handled and not drawn yet
  pixbuf,            \* the picture the next draw shows
  shown,             \* the picture the window shows
  acks               \* fb_updated_tx / fb_updated_rx

config == <<toolkit, throttle>>
vars == <<config, at, event, sends, channel, wakeups, fb_updated, pixbuf, shown,
          acks>>

\* Events are told apart by their sender's count; picture 0 is none.
Events == [kind : UNION {KindsOf(s) : s \in Senders}, n : 1 .. MaxEvents]
NoEvent == [kind |-> "none", n |-> 0]
NoPicture == 0

Init ==
  /\ toolkit \in {"sdl", "gtk"}
  /\ throttle \in BOOLEAN
  /\ at = [s \in Senders |-> "idle"]
  /\ event = [s \in Senders |-> NoEvent]
  /\ sends = [s \in Senders |-> 0]
  /\ channel = <<>>
  /\ wakeups = 0
  /\ fb_updated = FALSE
  /\ pixbuf = NoPicture /\ shown = NoPicture
  /\ acks = 0

-----------------------------------------------------------------------------
(* Senders                                                                 *)

WindowUnchanged == UNCHANGED <<config, fb_updated, pixbuf, shown>>

\* handle_event is called; send() waits for room.
StartEvent(s) ==
  /\ at[s] = "idle"
  /\ sends[s] < MaxEvents
  /\ sends' = [sends EXCEPT ![s] = @ + 1]
  /\ \E k \in KindsOf(s) : event' = [event EXCEPT ![s] = [kind |-> k, n |-> sends'[s]]]
  /\ at' = [at EXCEPT ![s] = "sending"]
  /\ UNCHANGED <<channel, wakeups, acks>> /\ WindowUnchanged

\* send() has room.
SendEvent(s) ==
  /\ at[s] = "sending"
  /\ Len(channel) < Capacity
  /\ channel' = Append(channel, event[s])
  /\ at' = [at EXCEPT ![s] = "waking"]
  /\ UNCHANGED <<event, sends, wakeups, acks>> /\ WindowUnchanged

\* Mistake: the main loop is not woken up if a wakeup is queued already.
WakeOnce(s) ==
  /\ at[s] = "waking"
  /\ wakeups' = IF wakeups = 0 THEN 1 ELSE wakeups
  /\ at' = [at EXCEPT ![s] = IF throttle /\ event[s].kind = "frame"
                             THEN "waiting" ELSE "idle"]
  /\ UNCHANGED <<event, sends, channel, acks>> /\ WindowUnchanged

\* push_custom_event or idle_add; update_framebuffer_sync goes on to wait.
WakeUp(s) ==
  /\ at[s] = "waking"
  /\ wakeups' = wakeups + 1
  /\ at' = [at EXCEPT ![s] = IF throttle /\ event[s].kind = "frame"
                             THEN "waiting" ELSE "idle"]
  /\ UNCHANGED <<event, sends, channel, acks>> /\ WindowUnchanged

\* fb_updated_rx.recv()
TakeAck(s) ==
  /\ at[s] = "waiting"
  /\ acks > 0
  /\ acks' = acks - 1
  /\ at' = [at EXCEPT ![s] = "idle"]
  /\ UNCHANGED <<event, sends, channel, wakeups>> /\ WindowUnchanged

-----------------------------------------------------------------------------
(* The main loop                                                           *)

\* The user's input is an event of SDL's queue like any other.
Input ==
  /\ toolkit = "sdl"
  /\ wakeups < Len(channel) + MaxInput
  /\ wakeups' = wakeups + 1
  /\ UNCHANGED <<at, event, sends, channel, acks>> /\ WindowUnchanged

\* Mistake: GTK acknowledges what it has not drawn.
HandleEager(e) ==
  /\ pixbuf' = IF e.kind = "frame" THEN e.n ELSE pixbuf
  /\ acks' = IF e.kind = "frame" THEN acks + 1 ELSE acks
  /\ UNCHANGED <<fb_updated, shown>>

\* handle_protocol_event
HandleProtocolEvent(e) ==
  IF e.kind # "frame" THEN UNCHANGED <<fb_updated, pixbuf, shown, acks>>
  ELSE /\ pixbuf' = e.n
       /\ IF toolkit = "sdl"
          THEN shown' = e.n /\ acks' = acks + 1 /\ UNCHANGED fb_updated
          ELSE fb_updated' = TRUE /\ UNCHANGED <<shown, acks>>

\* One iteration of SDL's main loop, or one idle callback.
Iterate ==
  /\ wakeups > 0
  /\ wakeups' = wakeups - 1
  /\ IF channel = <<>> THEN UNCHANGED <<channel, fb_updated, pixbuf, shown, acks>>
     ELSE HandleProtocolEvent(Head(channel)) /\ channel' = Tail(channel)
  /\ UNCHANGED <<config, at, event, sends>>

\* Mistake: only the flag is forgotten, nobody is told.
DrawSilently ==
  /\ toolkit = "gtk"
  /\ shown' = pixbuf
  /\ fb_updated' = FALSE
  /\ UNCHANGED <<config, at, event, sends, channel, wakeups, pixbuf, acks>>

\* Mistake: every draw acknowledges, also one that GTK wanted.
DrawTelling ==
  /\ toolkit = "gtk"
  /\ shown' = pixbuf
  /\ acks' = acks + 1
  /\ fb_updated' = FALSE
  /\ UNCHANGED <<config, at, event, sends, channel, wakeups, pixbuf>>

\* The draw signal: after queue_draw(), or because GTK wants to.
Draw ==
  /\ toolkit = "gtk"
  /\ shown' = pixbuf
  /\ acks' = IF fb_updated THEN acks + 1 ELSE acks
  /\ fb_updated' = FALSE
  /\ UNCHANGED <<config, at, event, sends, channel, wakeups, pixbuf>>

-----------------------------------------------------------------------------
Sender(s) == SendEvent(s) \/ WakeUp(s) \/ TakeAck(s)

Next ==
  \/ \E s \in Senders : StartEvent(s) \/ Sender(s)
  \/ Input
  \/ Iterate
  \/ Draw

\* Threads that can go on do, and GTK draws what it was asked to draw.  A
\* main loop that is never out of input still handles events.
Fairness ==
  /\ \A s \in Senders : SF_vars(SendEvent(s)) /\ WF_vars(Sender(s))
  /\ WF_vars(Iterate)
  /\ WF_vars(fb_updated /\ Draw)

Spec == Init /\ [][Next]_vars /\ Fairness

-----------------------------------------------------------------------------
(* Properties                                                              *)

TypeOK ==
  /\ toolkit \in {"sdl", "gtk"} /\ throttle \in BOOLEAN
  /\ at \in [Senders -> {"idle", "sending", "waking", "waiting"}]
  /\ event \in [Senders -> Events \cup {NoEvent}]
  /\ sends \in [Senders -> 0 .. MaxEvents]
  /\ channel \in Seq(Events) /\ Len(channel) <= Capacity
  /\ wakeups \in Nat
  /\ fb_updated \in BOOLEAN
  /\ pixbuf \in 0 .. MaxEvents /\ shown \in 0 .. MaxEvents
  /\ acks \in Nat

(* An event never waits in the channel without a wakeup that will fetch    *)
(* it: one that is queued or one its sender is about to queue.             *)
WakeupForEachEvent ==
  Len(channel) <= wakeups + Cardinality({s \in Senders : at[s] = "waking"})

(* update_framebuffer_sync returns when its own picture is in the window,  *)
(* not because of an acknowledgement of an earlier one.                    *)
SyncMeansShown ==
  [][\A s \in Senders :
       at[s] = "waiting" /\ at'[s] = "idle" => shown = event[s].n]_vars

(* A thread that hands an event to the view gets on: neither a full        *)
(* channel nor the wait for an acknowledgement is forever.                 *)
EverySendReturns == \A s \in Senders : at[s] = "sending" ~> at[s] = "idle"

\* A picture that was handled and not drawn counts as acknowledged.  Without
\* --throttle nobody takes the acknowledgements.
EQ == INSTANCE EventQueue
        WITH Kinds <- UNION {KindsOf(s) : s \in Senders},
             events <- [i \in DOMAIN channel |-> channel[i].kind],
             acks <- IF ~ throttle THEN 0
                     ELSE IF fb_updated THEN acks + 1 ELSE acks

(* Either toolkit is the queue of events that FramePipeline sees.          *)
ImplementsEventQueue == EQ!Spec

\* A sender does not wait, or what it waits for has happened.
SenderCanGoOn(s) ==
  /\ at[s] = "sending" => Len(channel) < Capacity
  /\ at[s] = "waiting" => acks > 0

(* Whoever waits, waits for the main loop, and the main loop knows: it has *)
(* a wakeup or a picture to draw, or another sender is about to wake it.   *)
NobodyIsStuck ==
  \/ \A s \in Senders : SenderCanGoOn(s)
  \/ wakeups > 0 \/ fb_updated
  \/ \E s \in Senders : at[s] = "waking"
=============================================================================
