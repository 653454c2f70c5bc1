-------------------------- MODULE MCFramePipeline --------------------------
(* Model values for TLC.                                                   *)
EXTENDS FramePipeline
CONSTANTS g1, g2, s1

TwoWorkers == {g1, g2}
OneStream == {s1}

TwoPixels == {<<2, 1>>}
SmallSizes == {<<1, 1>>, <<1, 2>>, <<2, 1>>}

\* Updates of several rectangles, and resizes between small ones.
ThreeServers ==
  {[kinds |-> {"rect", "zlib", "reset"}, tiling |-> TRUE, rects |-> 2],
   [kinds |-> {"rect", "cursor"}, tiling |-> FALSE, rects |-> 2],
   [kinds |-> {"rect", "size"}, tiling |-> TRUE, rects |-> 2]}

ResizingServer == {[kinds |-> {"rect", "size"}, tiling |-> TRUE, rects |-> 2]}
============================================================================
