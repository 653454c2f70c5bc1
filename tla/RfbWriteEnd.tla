----------------------------- MODULE RfbWriteEnd -----------------------------
(***************************************************************************)
(* What the client tells the server (src/lib.rs).  The write end is a      *)
(* thread with an unbounded channel of events from two senders: the reader *)
(* of FramePipeline, here reduced to what it sends, and a forwarder thread *)
(* that passes on what the user does to the window.  Requests and input go *)
(* over the TCP connection, relative motion as datagrams to a mouse server.*)
(* The reader learns that the write end failed from the heartbeat it tries *)
(* to send before it reads each packet.                                    *)
(*                                                                         *)
(* Relative motion is fractional: one pixel is Unit.  There is one         *)
(* coordinate here, the code treats x and y alike.                         *)
(***************************************************************************)
EXTENDS Integers, Sequences, FiniteSetsExt

CONSTANTS
  Sizes, FirstSize,  \* sizes of the framebuffer, and the one of ServerInit
  NoSize,
  Layouts, Empty,    \* screen layouts, and the one without screens
  Unit, Motions,     \* a pixel, and relative motions
  Masks,             \* masks of pressed buttons, 0 is none
  Sessions,          \* what is considered together: kinds of GuiEvents the
                     \* user causes and of packets the server sends and, as
                     \* a bound, how many events, and packets and rectangles
  FenceFlags,        \* flags of the server's fences
  MaxInput,          \* bound: events queued when an idle server sends more
  Faults             \* may writing, or the connection, fail?

ASSUME WriteEndAssumption ==
  /\ FirstSize \in Sizes /\ NoSize \notin Sizes
  /\ Empty \notin Layouts
  /\ Unit \in Nat \ {0}
  /\ Motions \subseteq {m \in Int : m <= 32767 * Unit - Unit
                                 /\ -m <= 32767 * Unit - Unit}
  /\ Masks \subseteq Nat /\ 0 \in Masks
  /\ \A s \in Sessions :
       /\ s.user \subseteq {"plain", "relative", "resized"}
       /\ s.server \subseteq {"update", "size", "extended", "fence", "other"}
       /\ {s.events, s.packets} \subseteq Nat
  /\ FenceFlags \subseteq {"request", "before", "after", "sync"}
  /\ MaxInput \in Nat
  /\ Faults \in BOOLEAN

VARIABLES
  session,      \* one of Sessions
  window,       \* does the window have its sender: "open" or "closed"
  gui,          \* the channel of GuiEvents
  forwarder,    \* "running" or "ended"
  input,        \* the channel of RfbWriteEvents
  reader,       \* where the reader is
  size, maybe_new_fb_size,
  writer,       \* "running", or handle() returned "ok" or "err"
  difference,   \* virtual_cursor_difference
  previous_mouse_state, screen_layout, set_desktop_size_allowed,
  wire, mouse,  \* messages to the server, datagrams to the mouse server
  events, moved, buttons,  \* history of the user: number of events, handled
                           \* motion, last mask
  told,                    \* history: what the datagrams add up to
  packets, fences          \* history of the server: number of packets, fences
                           \* it requested

readerVars == <<reader, size, maybe_new_fb_size, packets, fences>>
userVars == <<session, window, events, buttons>>
writerVars == <<writer, difference, previous_mouse_state, screen_layout,
                set_desktop_size_allowed, wire, mouse, moved, told>>
vars == <<readerVars, userVars, writerVars, gui, forwarder, input>>

Event(type, arg) == [type |-> type, arg |-> arg]

\* resize_fb(server_init) was called and the threads were spawned.
Init ==
  /\ session \in Sessions
  /\ window = "open" /\ gui = <<>> /\ forwarder = "running"
  /\ input = <<Event("enable", FirstSize)>>
  /\ reader = "starting"
  /\ size = FirstSize /\ maybe_new_fb_size = NoSize
  /\ writer = "running"
  /\ difference = 0 /\ previous_mouse_state = 0
  /\ screen_layout = Empty /\ set_desktop_size_allowed = FALSE
  /\ wire = <<>> /\ mouse = <<>>
  /\ events = 0 /\ moved = 0 /\ told = 0 /\ buttons = 0
  /\ packets = 0 /\ fences = <<>>

\* send(..).unwrap_or(()): what is sent to a write end that is gone is lost.
Sent(e) == IF writer = "running" THEN Append(input, e) ELSE input

-----------------------------------------------------------------------------
(* The window and the forwarder                                            *)

Act(e) ==
  /\ window = "open"
  /\ events < session.events
  /\ events' = events + 1
  /\ gui' = Append(gui, e)
  /\ UNCHANGED <<readerVars, writerVars, session, window, forwarder, input>>

\* A key, an absolute position of the pointer or an encoding quality: an event
\* that the write end turns into one packet.
ActPlain ==
  /\ "plain" \in session.user
  /\ Act(Event("plain", 0))
  /\ UNCHANGED buttons

MoveMouse(mask, m) ==
  /\ "relative" \in session.user
  /\ buttons' = mask
  /\ Act(Event("relative", <<mask, m>>))

ResizeWindow(s) ==
  /\ "resized" \in session.user
  /\ Act(Event("resized", s))
  /\ UNCHANGED buttons

\* The main loop ends and drops its sender.
CloseWindow ==
  /\ window = "open"
  /\ window' = "closed"
  /\ UNCHANGED <<readerVars, writerVars, session, gui, forwarder, input, events, buttons>>

\* The forwarder passes an event of the window on.
Forward ==
  /\ forwarder = "running"
  /\ gui # <<>>
  /\ input' = Sent(Head(gui))
  /\ gui' = Tail(gui)
  /\ UNCHANGED <<readerVars, writerVars, userVars, forwarder>>

EndForwarder ==
  /\ forwarder = "running"
  /\ gui = <<>> /\ window = "closed"
  /\ forwarder' = "ended"
  /\ UNCHANGED <<readerVars, writerVars, userVars, gui, input>>

-----------------------------------------------------------------------------
(* The reader                                                              *)

Reading(from, to) ==
  /\ reader = from
  /\ reader' = to
  /\ UNCHANGED <<userVars, writerVars, gui, forwarder>>

Packet(kind) ==
  /\ kind \in session.server
  /\ packets < session.packets
  /\ packets' = packets + 1

\* The first request, for the whole framebuffer.
RequestFirst ==
  /\ Reading("starting", "heartbeat")
  /\ input' = Sent(Event("request", size))
  /\ UNCHANGED <<size, maybe_new_fb_size, packets, fences>>

\* Mistake: the reader does not care whether the heartbeat was taken.
HeartbeatIgnored ==
  /\ Reading("heartbeat", "packet")
  /\ input' = Sent(Event("heartbeat", 0))
  /\ UNCHANGED <<size, maybe_new_fb_size, packets, fences>>

\* The top of the loop, while the write end has its receiver ...
Heartbeat ==
  /\ writer = "running"
  /\ Reading("heartbeat", "packet")
  /\ input' = Sent(Event("heartbeat", 0))
  /\ UNCHANGED <<size, maybe_new_fb_size, packets, fences>>

\* ... and when it has not: join().unwrap().unwrap_err() returns its error and
\* panics if it has none.
WriteEndGone ==
  /\ writer # "running"
  /\ Reading("heartbeat", IF writer = "err" THEN "returned" ELSE "panicked")
  /\ UNCHANGED <<input, size, maybe_new_fb_size, packets, fences>>

\* A FramebufferUpdate begins; a size that was announced takes effect.
BeginUpdate ==
  /\ Packet("update")
  /\ Reading("packet", "rects")
  /\ IF maybe_new_fb_size = NoSize
     THEN UNCHANGED <<size, input>>
     ELSE /\ size' = maybe_new_fb_size
          /\ input' = Sent(Event("enable", maybe_new_fb_size))
  /\ maybe_new_fb_size' = NoSize
  /\ UNCHANGED fences

DesktopSizeRect(new) ==
  /\ Packet("size")
  /\ Reading("rects", "rects")
  /\ maybe_new_fb_size' = new
  /\ UNCHANGED <<input, size, fences>>

\* An ExtendedDesktopSize rectangle: resizing is allowed from now on.  Unless
\* the server refuses what the client asked for, the new layout follows as an
\* event of its own.
ExtendedDesktopSizeRect(new) ==
  /\ Packet("extended")
  /\ \/ /\ \E i \in DOMAIN wire : wire[i].type = "desktop"
        /\ Reading("rects", "rects")
        /\ UNCHANGED maybe_new_fb_size
     \/ Reading("rects", "layout") /\ maybe_new_fb_size' = new
  /\ input' = Sent(Event("allow", TRUE))
  /\ UNCHANGED <<size, fences>>

SetScreenLayout(layout) ==
  /\ Reading("layout", "rects")
  /\ input' = Sent(Event("layout", layout))
  /\ UNCHANGED <<size, maybe_new_fb_size, packets, fences>>

\* Mistake: the request is for the size that is only announced.
EndUpdateAnnounced ==
  /\ Reading("rects", "heartbeat")
  /\ \/ UNCHANGED input
     \/ input' = Sent(Event("request", IF maybe_new_fb_size = NoSize
                                       THEN size ELSE maybe_new_fb_size))
  /\ UNCHANGED <<size, maybe_new_fb_size, packets, fences>>

\* The update is read; if it was not a full one the rest is requested.
EndUpdate ==
  /\ Reading("rects", "heartbeat")
  /\ UNCHANGED input \/ input' = Sent(Event("request", size))
  /\ UNCHANGED <<size, maybe_new_fb_size, packets, fences>>

Supported == {"before", "after"}

\* Mistake: a fence is echoed as it is.
AnswerFenceEchoing(flags) ==
  /\ Packet("fence")
  /\ Reading("packet", "heartbeat")
  /\ IF "request" \in flags
     THEN /\ fences' = Append(fences, flags)
          /\ input' = Sent(Event("fence", <<flags, Len(fences')>>))
     ELSE UNCHANGED <<input, fences>>
  /\ UNCHANGED <<size, maybe_new_fb_size>>

\* A fence that is a request is answered with its payload, here its number,
\* and those of its flags that the client supports.
AnswerFence(flags) ==
  /\ Packet("fence")
  /\ Reading("packet", "heartbeat")
  /\ IF "request" \in flags
     THEN /\ fences' = Append(fences, flags)
          /\ input' = Sent(Event("fence", <<flags \cap Supported, Len(fences')>>))
     ELSE UNCHANGED <<input, fences>>
  /\ UNCHANGED <<size, maybe_new_fb_size>>

\* Bell, ServerCutText, EndOfContinuousUpdates.
OtherPacket ==
  /\ "other" \in session.server
  /\ Len(input) < MaxInput
  /\ Reading("packet", "heartbeat")
  /\ UNCHANGED <<input, size, maybe_new_fb_size, packets, fences>>

\* The packet or a rectangle cannot be read; the reader drops its sender.
ConnectionFails ==
  /\ Faults
  /\ \E from \in {"packet", "rects"} : Reading(from, "returned")
  /\ UNCHANGED <<input, size, maybe_new_fb_size, packets, fences>>

-----------------------------------------------------------------------------
(* The write end                                                           *)

NextEvent == Head(input)

Handling(types) ==
  /\ writer = "running"
  /\ input # <<>>
  /\ NextEvent.type \in types
  /\ input' = Tail(input)
  /\ UNCHANGED <<readerVars, userVars, gui, forwarder, writer>>

\* write_packet and flush().
WritePacket ==
  /\ Handling({"plain", "request", "enable", "fence"})
  /\ wire' = Append(wire, NextEvent)
  /\ UNCHANGED <<difference, previous_mouse_state, screen_layout,
                 set_desktop_size_allowed, mouse, moved, told>>

\* as i32, toward zero
Integer(n) == IF n >= 0 THEN n \div Unit ELSE -((-n) \div Unit)

\* as i16
AsI16(n) == ((n + 32768) % 65536) - 32768

\* The user's motion is handled; what the new datagram says adds up.
Counted(motion) ==
  /\ moved' = moved + motion
  /\ told' = IF mouse' = mouse THEN told ELSE told + mouse'[Len(mouse')].dx

\* Mistake: the sum is rounded instead of split.
MoveVirtualMouseRounding ==
  /\ Handling({"relative"})
  /\ LET mask == NextEvent.arg[1]
         sum  == difference + NextEvent.arg[2]
         dx   == Integer(sum)
     IN  /\ difference' = IF dx = 0 THEN sum ELSE 0
         /\ mouse' = IF dx # 0 \/ mask # previous_mouse_state
                     THEN Append(mouse, [mask |-> mask, dx |-> AsI16(dx)])
                     ELSE mouse
         /\ previous_mouse_state' = mask
         /\ Counted(NextEvent.arg[2])
  /\ UNCHANGED <<screen_layout, set_desktop_size_allowed, wire>>

\* Mistake: only motion is worth a datagram.
MoveVirtualMouseOnly ==
  /\ Handling({"relative"})
  /\ LET mask == NextEvent.arg[1]
         sum  == difference + NextEvent.arg[2]
         dx   == Integer(sum)
     IN  /\ difference' = sum - dx * Unit
         /\ mouse' = IF dx # 0
                     THEN Append(mouse, [mask |-> mask, dx |-> AsI16(dx)])
                     ELSE mouse
         /\ previous_mouse_state' = mask
         /\ Counted(NextEvent.arg[2])
  /\ UNCHANGED <<screen_layout, set_desktop_size_allowed, wire>>

\* RelativePointer: whole pixels are sent, the fraction is kept; a datagram is
\* only sent if it says something new.
MoveVirtualMouse ==
  /\ Handling({"relative"})
  /\ LET mask == NextEvent.arg[1]
         sum  == difference + NextEvent.arg[2]
         dx   == Integer(sum)
     IN  /\ difference' = sum - dx * Unit
         /\ mouse' = IF dx # 0 \/ mask # previous_mouse_state
                     THEN Append(mouse, [mask |-> mask, dx |-> AsI16(dx)])
                     ELSE mouse
         /\ previous_mouse_state' = mask
         /\ Counted(NextEvent.arg[2])
  /\ UNCHANGED <<screen_layout, set_desktop_size_allowed, wire>>

\* Resized: the server is asked to follow, if it can.
SetDesktopSize ==
  /\ Handling({"resized"})
  /\ wire' = IF set_desktop_size_allowed
             THEN Append(wire, Event("desktop", screen_layout)) ELSE wire
  /\ UNCHANGED <<difference, previous_mouse_state, screen_layout,
                 set_desktop_size_allowed, mouse, moved, told>>

\* SetScreenLayout, AllowSetDesktopSize, Heartbeat: nothing is written.
Remember ==
  /\ Handling({"layout", "allow", "heartbeat"})
  /\ screen_layout' = IF NextEvent.type = "layout" THEN NextEvent.arg ELSE screen_layout
  /\ set_desktop_size_allowed' = (NextEvent.type = "allow" \/ set_desktop_size_allowed)
  /\ UNCHANGED <<difference, previous_mouse_state, wire, mouse, moved, told>>

Written(e) ==
  \/ e.type \in {"plain", "request", "enable", "fence"}
  \/ e.type = "resized" /\ set_desktop_size_allowed
  \/ e.type = "relative" /\ \/ Integer(difference + e.arg[2]) # 0
                            \/ e.arg[1] # previous_mouse_state

\* Mistake: a broken connection just ends the loop.
WriteFailsQuietly ==
  /\ Faults
  /\ writer = "running"
  /\ input # <<>> /\ Written(NextEvent)
  /\ writer' = "ok"
  /\ input' = <<>>
  /\ UNCHANGED <<readerVars, userVars, gui, forwarder, difference, moved, told,
       wire, mouse, previous_mouse_state, screen_layout, set_desktop_size_allowed>>

\* The packet or the datagram cannot be written: handle() returns the error,
\* its receiver and what is queued there are gone.
WriteFails ==
  /\ Faults
  /\ writer = "running"
  /\ input # <<>> /\ Written(NextEvent)
  /\ writer' = "err"
  /\ input' = <<>>
  /\ UNCHANGED <<readerVars, userVars, gui, forwarder, difference, moved, told,
       wire, mouse, previous_mouse_state, screen_layout, set_desktop_size_allowed>>

\* recv() fails: both senders are gone.
EndInput ==
  /\ writer = "running"
  /\ input = <<>>
  /\ reader \in {"returned", "panicked"} /\ forwarder = "ended"
  /\ writer' = "ok"
  /\ UNCHANGED <<readerVars, userVars, gui, forwarder, input, difference, moved,
       told, wire, mouse, previous_mouse_state, screen_layout,
       set_desktop_size_allowed>>

-----------------------------------------------------------------------------
User ==
  \/ ActPlain
  \/ \E mask \in Masks, m \in Motions : MoveMouse(mask, m)
  \/ \E s \in Sizes : ResizeWindow(s)
  \/ CloseWindow

Forwarder == Forward \/ EndForwarder

ReaderGoesOn == RequestFirst \/ Heartbeat \/ WriteEndGone
                  \/ \E layout \in Layouts : SetScreenLayout(layout)

Server ==
  \/ BeginUpdate
  \/ \E new \in Sizes : DesktopSizeRect(new) \/ ExtendedDesktopSizeRect(new)
  \/ EndUpdate
  \/ \E flags \in SUBSET FenceFlags : AnswerFence(flags)
  \/ OtherPacket

Writer ==
  \/ WritePacket
  \/ MoveVirtualMouse
  \/ SetDesktopSize
  \/ Remember
  \/ WriteFails
  \/ EndInput

Next == User \/ Forwarder \/ ReaderGoesOn \/ Server \/ ConnectionFails \/ Writer

Spec == Init /\ [][Next]_vars

\* Every thread goes on when it can.  A write ends: the server reads what it
\* is sent.  Nobody makes the server send or the user act.
FairSpec == Spec /\ WF_vars(Forwarder) /\ WF_vars(ReaderGoesOn) /\ WF_vars(Writer)

-----------------------------------------------------------------------------
(* Properties                                                              *)

GuiEvents ==
  [type : {"plain"}, arg : {0}] \cup [type : {"relative"}, arg : Masks \X Motions]
    \cup [type : {"resized"}, arg : Sizes]

RfbWriteEvents ==
  GuiEvents \cup [type : {"enable", "request"}, arg : Sizes]
    \cup [type : {"allow"}, arg : {TRUE}] \cup [type : {"layout"}, arg : Layouts]
    \cup [type : {"fence"}, arg : (SUBSET Supported) \X Nat]
    \cup [type : {"heartbeat"}, arg : {0}]

\* What is written: events as packets, and the requests for a size.
Messages == RfbWriteEvents \cup [type : {"desktop"}, arg : Layouts \cup {Empty}]

I16 == {k \in Int : -32768 <= k /\ k <= 32767}

TypeOK ==
  /\ session \in Sessions
  /\ window \in {"open", "closed"} /\ forwarder \in {"running", "ended"}
  /\ gui \in Seq(GuiEvents) /\ input \in Seq(RfbWriteEvents)
  /\ wire \in Seq(Messages)
  /\ reader \in {"starting", "heartbeat", "packet", "rects", "layout",
                 "returned", "panicked"}
  /\ size \in Sizes /\ maybe_new_fb_size \in Sizes \cup {NoSize}
  /\ writer \in {"running", "ok", "err"}
  /\ {difference, moved, told} \subseteq Int
  /\ {previous_mouse_state, buttons} \subseteq Masks
  /\ screen_layout \in Layouts \cup {Empty}
  /\ set_desktop_size_allowed \in BOOLEAN
  /\ mouse \in Seq([mask : Masks, dx : I16])
  /\ {events, packets} \subseteq Nat
  /\ fences \in Seq(SUBSET FenceFlags)

(* unwrap_err() in the reader never meets Ok: while the reader can send,   *)
(* the write end ends only with an error.                                  *)
NoPanic == reader # "panicked"

(* No motion is lost or invented: what the datagrams say and the fraction  *)
(* that is kept is what the user moved, and the fraction is less than a    *)
(* pixel.                                                                  *)
MotionConserved ==
  /\ moved = told * Unit + difference
  /\ -Unit < difference /\ difference < Unit

(* Once the user's events are handled the mouse server was told the        *)
(* buttons that are pressed.                                               *)
ButtonsKnown ==
  writer = "running" /\ gui = <<>> /\ (\A i \in DOMAIN input : input[i].type # "relative")
    => buttons = IF mouse = <<>> THEN 0 ELSE mouse[Len(mouse)].mask

(* A FramebufferUpdateRequest is for the size that the server was told to  *)
(* update continuously.                                                    *)
RequestsMatchSize ==
  \A i \in DOMAIN wire : wire[i].type = "request" =>
    LET enabled == {k \in 1 .. i : wire[k].type = "enable"}
    IN  enabled # {} /\ wire[Max(enabled)].arg = wire[i].arg

(* Fences are answered in order and each once: the n-th answer has the     *)
(* payload of the n-th request, no flag that the client does not support   *)
(* and never another request.                                              *)
FencesAnswered ==
  \A i \in DOMAIN wire : wire[i].type = "fence" =>
    LET n       == wire[i].arg[2]
        earlier == {k \in 1 .. (i - 1) : wire[k].type = "fence"}
    IN  /\ n = IF earlier = {} THEN 1 ELSE wire[Max(earlier)].arg[2] + 1
        /\ n \in DOMAIN fences /\ wire[i].arg[1] = fences[n] \cap Supported

(* The write end ends when the connection and the window do.  When nothing *)
(* more can be written the connection ends, provided that the server does  *)
(* not fall silent: only its next packet lets the reader see that the      *)
(* heartbeat is not taken.                                                 *)
ThreadsEnd ==
  /\ reader = "returned" /\ window = "closed" ~> writer # "running"
  /\ WF_vars(Server) => (writer = "err" ~> reader = "returned")
=============================================================================
