--------------------------- MODULE MCRfbWriteEnd ---------------------------
(* Model values for TLC.                                                   *)
EXTENDS RfbWriteEnd

CONSTANTS small, large, laid

TwoSizes == {small, large}
OneLayout == {laid}
HalfPixels == {-3, -1, 1, 2}
OneButton == {0, 1}
SomeFlags == {"request", "before", "sync"}

\* The window is resized while the server updates and resizes, or the mouse
\* moves while the server says nothing of interest.
TwoSessions ==
  {[user |-> {"resized"}, server |-> {"update", "size", "extended", "fence", "other"},
    events |-> 1, packets |-> 3],
   [user |-> {"relative", "plain"}, server |-> {"other"},
    events |-> 2, packets |-> 0]}
============================================================================
