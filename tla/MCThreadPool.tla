---------------------------- MODULE MCThreadPool ----------------------------
(* Model values for TLC: a pool of two workers, as the general decoders.   *)
EXTENDS ThreadPool
CONSTANTS w1, w2

TwoWorkers == {w1, w2}
=============================================================================
