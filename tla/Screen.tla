------------------------------- MODULE Screen -------------------------------
(***************************************************************************)
(* What flashvnc promises whoever looks at its window: the updates of the  *)
(* server appear one after the other, each exactly once and completely     *)
(* drawn, and nothing is drawn while a picture is on its way.  If an       *)
(* update cannot be shown it is the last one.                              *)
(*                                                                         *)
(* It does not promise to keep the picture when the size changes: until it *)
(* is drawn anew a pixel may show what belongs elsewhere.                  *)
(*                                                                         *)
(* FramePipeline implements this with a reader, an updater and any number  *)
(* of decoders that work at the same time.                                 *)
(***************************************************************************)
EXTENDS Naturals

CONSTANTS
  Undefined,  \* what memory may show that nobody wrote
  Moved       \* what a pixel may show after a resize until it is drawn

VARIABLES
  picture,  \* what the server means to be seen, a function on the pixels
  fresh,    \* pixels that were drawn since the last resize that moved any
  buffer,   \* what is sent to the window
  drawn,    \* updates that are complete
  shown     \* updates that were sent to the window

vars == <<picture, fresh, buffer, drawn, shown>>

Init == fresh = DOMAIN picture /\ drawn = 0 /\ shown = 0

\* A rectangle of the next update: pixels that change are drawn.
Paint ==
  /\ shown = drawn
  /\ DOMAIN picture' = DOMAIN picture
  /\ \A c \in DOMAIN picture : picture'[c] = picture[c] \/ c \in fresh'
  /\ fresh \subseteq fresh'
  /\ UNCHANGED <<buffer, drawn, shown>>

\* A new size.  What the picture means then is up to the server, and which of
\* its pixels are fresh to the lengths of the old rows and the new ones.
Resize ==
  /\ shown = drawn
  /\ UNCHANGED <<buffer, drawn, shown>>

Complete ==
  /\ shown = drawn
  /\ drawn' = drawn + 1
  /\ UNCHANGED <<picture, fresh, buffer, shown>>

\* Pixels are copied for the window.
Prepare ==
  /\ shown < drawn
  /\ UNCHANGED <<picture, fresh, drawn, shown>>

Show ==
  /\ shown < drawn
  /\ \A c \in DOMAIN picture :
       \/ buffer[c] \in {picture[c], Undefined}
       \/ buffer[c] \in Moved /\ c \notin fresh
  /\ shown' = shown + 1
  /\ UNCHANGED <<picture, fresh, buffer, drawn>>

Next == Paint \/ Resize \/ Complete \/ Prepare \/ Show

Spec == Init /\ [][Next]_vars
=============================================================================
