------------------------------ MODULE ModeLock ------------------------------
(***************************************************************************)
(* The mode lock of src/infrastructure/mode_lock.rs: a mutex around a      *)
(* client count and the mode of the clients, and a condition variable that *)
(* is notified whenever a guard is dropped.                                *)
(*                                                                         *)
(* A "call" is one execution of lock() together with the guard it returns, *)
(* so it ends when the guard is dropped; a thread that locks again is      *)
(* another call.  pc[c] is where the call stands:                          *)
(*   "start"    lock() was called and has to take the mutex                *)
(*   "check"    inside lock(), holding the mutex                           *)
(*   "waiting"  asleep on the condition variable                           *)
(*   "woken"    woken, has to take the mutex again before it rechecks      *)
(*   "holding"  lock() returned; the guard is alive                        *)
(*   "dropping" inside unlock(), holding the mutex                         *)
(*   "done"     the guard is gone                                          *)
(***************************************************************************)
EXTENDS Naturals, FiniteSets

CONSTANTS Calls,         \* the calls of lock()
          Modes,         \* the modes they may ask for
          InitialMode,   \* State.current_mode of a new lock
          Nobody         \* the mutex is free

ASSUME LockAssumption ==
  /\ InitialMode \in Modes
  /\ Nobody \notin Calls

VARIABLES no_of_clients, current_mode,  \* State, protected by the mutex
          mutex,                        \* who holds the mutex
          pc, mode                      \* the calls and the mode each asks for

vars == <<no_of_clients, current_mode, mutex, pc, mode>>

Positions ==
  {"start", "check", "waiting", "woken", "holding", "dropping", "done"}

\* The calls that have their guard: lock() counted them, unlock() has not yet.
Granted == {c \in Calls : pc[c] \in {"holding", "dropping"}}

Init ==
  /\ no_of_clients = 0
  /\ current_mode = InitialMode
  /\ mutex = Nobody
  /\ pc = [c \in Calls |-> "start"]
  /\ mode \in [Calls -> Modes]

-----------------------------------------------------------------------------
(* lock()                                                                  *)

\* Mistake: one client alone does not keep the others out.
IncompatibleOffByOne(c) == no_of_clients > 1 /\ current_mode # mode[c]

Incompatible(c) == no_of_clients # 0 /\ current_mode # mode[c]

\* self.state.lock(), on entry or when wait() returns.
LockMutex(c) ==
  /\ pc[c] \in {"start", "woken"}
  /\ mutex = Nobody
  /\ mutex' = c
  /\ pc' = [pc EXCEPT ![c] = "check"]
  /\ UNCHANGED <<no_of_clients, current_mode, mode>>

\* state_signal.wait(state): gives the mutex up and sleeps, in one step.
Wait(c) ==
  /\ pc[c] = "check"
  /\ Incompatible(c)
  /\ mutex' = Nobody
  /\ pc' = [pc EXCEPT ![c] = "waiting"]
  /\ UNCHANGED <<no_of_clients, current_mode, mode>>

\* Mistake: the lock is entered without a look at the mode of its clients.
EnterUnchecked(c) ==
  /\ pc[c] = "check"
  /\ no_of_clients' = no_of_clients + 1
  /\ current_mode' = mode[c]
  /\ mutex' = Nobody
  /\ pc' = [pc EXCEPT ![c] = "holding"]
  /\ UNCHANGED mode

\* The loop ends: the caller is counted, its mode set and the mutex released.
Enter(c) ==
  /\ pc[c] = "check"
  /\ ~ Incompatible(c)
  /\ no_of_clients' = no_of_clients + 1
  /\ current_mode' = mode[c]
  /\ mutex' = Nobody
  /\ pc' = [pc EXCEPT ![c] = "holding"]
  /\ UNCHANGED mode

\* A condition variable may wake a sleeper for no reason.
SpuriousWakeup(c) ==
  /\ pc[c] = "waiting"
  /\ pc' = [pc EXCEPT ![c] = "woken"]
  /\ UNCHANGED <<no_of_clients, current_mode, mutex, mode>>

-----------------------------------------------------------------------------
(* unlock(), called when the guard is dropped                              *)

DropGuard(c) ==
  /\ pc[c] = "holding"
  /\ mutex = Nobody
  /\ mutex' = c
  /\ pc' = [pc EXCEPT ![c] = "dropping"]
  /\ UNCHANGED <<no_of_clients, current_mode, mode>>

\* Mistake: notify_one.
WakeOne(p) ==
  IF \E c \in Calls : p[c] = "waiting"
  THEN [p EXCEPT ![CHOOSE c \in Calls : p[c] = "waiting"] = "woken"]
  ELSE p

\* Mistake: the notification is forgotten.
WakeNobody(p) == p

\* notify_all
WakeAll(p) == [c \in Calls |-> IF p[c] = "waiting" THEN "woken" ELSE p[c]]

\* Mistake: the count is left alone.
UnlockUncounted(c) ==
  /\ pc[c] = "dropping"
  /\ mutex' = Nobody
  /\ pc' = WakeAll([pc EXCEPT ![c] = "done"])
  /\ UNCHANGED <<no_of_clients, current_mode, mode>>

Unlock(c) ==
  /\ pc[c] = "dropping"
  /\ no_of_clients' = no_of_clients - 1
  /\ mutex' = Nobody
  /\ pc' = WakeAll([pc EXCEPT ![c] = "done"])
  /\ UNCHANGED <<current_mode, mode>>

-----------------------------------------------------------------------------
Step(c) ==
  \/ LockMutex(c)
  \/ Wait(c)
  \/ Enter(c)
  \/ SpuriousWakeup(c)
  \/ DropGuard(c)
  \/ Unlock(c)

Next == \E c \in Calls : Step(c)

Spec == Init /\ [][Next]_vars

\* Guards are dropped, threads that hold the mutex go on, and a thread that
\* finds the mutex free again and again takes it.
Fairness ==
  \A c \in Calls :
    /\ SF_vars(LockMutex(c))
    /\ SF_vars(DropGuard(c))
    /\ WF_vars(Wait(c))
    /\ WF_vars(Enter(c))
    /\ WF_vars(Unlock(c))

FairSpec == Spec /\ Fairness

-----------------------------------------------------------------------------
(* Properties                                                              *)

TypeOK ==
  /\ no_of_clients \in Nat
  /\ current_mode \in Modes
  /\ mutex \in Calls \cup {Nobody}
  /\ pc \in [Calls -> Positions]
  /\ mode \in [Calls -> Modes]

(* Guards of different modes never exist together (mode_lock.rs test       *)
(* should_make_clients_wait_as_long_as_another_mode_is_active).            *)
ModeExclusion == \A c, d \in Granted : mode[c] = mode[d]

(* no_of_clients is the number of guards, so unlock() never takes it below *)
(* zero and the lock is free exactly when nobody holds it.                 *)
CountsGuards == no_of_clients = Cardinality(Granted)

(* No wakeup is lost: whoever sleeps on the condition variable still has a *)
(* reason to, so somebody will notify it.                                  *)
SleeperIsBlocked == \A c \in Calls : pc[c] = "waiting" => Incompatible(c)

\* A call that is not asleep goes on, as soon as the mutex is free if it has to
\* take it.
CanGoOn(c) ==
  \/ pc[c] \in {"start", "woken", "holding"} /\ mutex = Nobody
  \/ pc[c] \in {"check", "dropping"}

(* The calls never wait for each other in a circle: as long as one is not  *)
(* over, some call goes on, and not because of a spurious wakeup.          *)
NobodyIsStuck ==
  (\A c \in Calls : pc[c] = "done") \/ \E c \in Calls : CanGoOn(c)

\* The guards that exist, as GroupLock sees them.
guards == {<<c, mode[c]>> : c \in Granted}

GL == INSTANCE GroupLock WITH Clients <- Calls, held <- guards

(* The mode lock implements the group lock.                                *)
ImplementsGroupLock == GL!Spec

(* Every call of lock() returns, also when guards of another mode are in   *)
(* the way: the last one to be dropped wakes every sleeper.                *)
EveryLockReturns ==
  \A c \in Calls :
    pc[c] \in {"start", "check", "waiting", "woken"} ~> pc[c] = "holding"

=============================================================================
