----------------------------- MODULE EventQueue -----------------------------
(***************************************************************************)
(* What a view promises the connection's threads: events are taken in the  *)
(* order they were sent, at most Capacity of them wait, and with --throttle*)
(* each picture that is taken is acknowledged once.                        *)
(*                                                                         *)
(* ViewChannel, with either toolkit, implements this specification and     *)
(* FramePipeline uses the view according to it.                            *)
(***************************************************************************)
EXTENDS Naturals, Sequences

CONSTANTS Kinds,     \* of events; a picture is a "frame"
          Capacity

VARIABLES throttle,  \* are pictures acknowledged?
          events,    \* the kinds of the events that wait, oldest first
          acks       \* acknowledgements that nobody has taken

vars == <<throttle, events, acks>>

Init ==
  /\ throttle \in BOOLEAN
  /\ events \in Seq(Kinds) /\ Len(events) <= Capacity
  /\ acks = 0

Send ==
  /\ Len(events) < Capacity
  /\ \E k \in Kinds : events' = Append(events, k)
  /\ UNCHANGED <<throttle, acks>>

Take ==
  /\ events # <<>>
  /\ events' = Tail(events)
  /\ acks' = IF throttle /\ Head(events) = "frame" THEN acks + 1 ELSE acks
  /\ UNCHANGED throttle

Acknowledge ==
  /\ acks > 0
  /\ acks' = acks - 1
  /\ UNCHANGED <<throttle, events>>

Next == Send \/ Take \/ Acknowledge

Spec == Init /\ [][Next]_vars
=============================================================================
