----------------------------- MODULE MCModeLock -----------------------------
(* Model values for TLC: up to three calls of lock(), each in any of the   *)
(* three modes of FbAccess (src/framebuffer.rs), overlapping in every way. *)
EXTENDS ModeLock
CONSTANTS c1, c2, c3, decoding, resizing, reading

ThreeCalls == {c1, c2, c3}
FbAccess == {decoding, resizing, reading}
=============================================================================
