----------------------------- MODULE GroupLock -----------------------------
(***************************************************************************)
(* What src/infrastructure/mode_lock.rs promises: a lock that is held in a *)
(* mode.  Any number of clients hold it together in one mode; clients of   *)
(* different modes exclude each other.  flashvnc uses it for the           *)
(* framebuffer: decoders write in mode Decoding, the resize needs mode     *)
(* Resizing, the copy to the view mode Reading.                            *)
(*                                                                         *)
(* ModeLock implements this specification; DecodingMaster is built on it.  *)
(***************************************************************************)
CONSTANTS Clients,   \* whoever may hold a guard
          Modes      \* the values of mode.into()

VARIABLE held        \* the guards that exist, as <<client, mode>> pairs

TypeOK == held \subseteq (Clients \X Modes)

Init == held = {}

\* c gets a guard: every guard that exists is of the same mode.
Acquire(c, m) ==
  /\ \A g \in held : g[1] # c /\ g[2] = m
  /\ held' = held \cup {<<c, m>>}

\* c drops its guard.
Release(c, m) ==
  /\ <<c, m>> \in held
  /\ held' = held \ {<<c, m>>}

Next == \E c \in Clients, m \in Modes : Acquire(c, m) \/ Release(c, m)

Spec == Init /\ [][Next]_held

-----------------------------------------------------------------------------
(* Guards of two modes never exist together: a decoder never writes into   *)
(* the framebuffer while the updater copies it or the reader resizes it.   *)
Exclusion == \A g, h \in held : g[2] = h[2]
=============================================================================
