--------------------------- MODULE ModeLockProofs ---------------------------
(***************************************************************************)
(* Proofs about ModeLock, for any set of calls (also an infinite one) and  *)
(* any set of modes: the lock keeps its type, excludes modes, counts its   *)
(* guards, loses no wakeup and implements GroupLock.                       *)
(*                                                                         *)
(* None of ModeExclusion and SleeperIsBlocked is inductive alone.  The     *)
(* invariant adds who may hold the mutex, that every guard has the current *)
(* mode, and that the count is the number of guards.                       *)
(*                                                                         *)
(* That no calls wait in a circle needs the converse for the mutex as      *)
(* well: its holder is inside lock() or unlock(), where nothing blocks.    *)
(***************************************************************************)
EXTENDS ModeLock, FiniteSetTheorems, TLAPS

\* Only the holder of the mutex is inside lock() or unlock().
MutexInv == \A c \in Calls : pc[c] \in {"check", "dropping"} => mutex = c

\* Every guard has the mode of the lock.
ModeInv == \A c \in Granted : mode[c] = current_mode

\* The count is the number of guards.
CountInv == IsFiniteSet(Granted) /\ no_of_clients = Cardinality(Granted)

IInv ==
  /\ TypeOK
  /\ MutexInv
  /\ ModeInv
  /\ CountInv
  /\ SleeperIsBlocked

-----------------------------------------------------------------------------
(* A call that joins the guards raises their number by one.                *)
LEMMA GrantedGrows ==
  ASSUME IsFiniteSet(Granted), NEW c \in Calls, c \notin Granted,
         Granted' = Granted \cup {c}
  PROVE  /\ IsFiniteSet(Granted')
         /\ Cardinality(Granted') = Cardinality(Granted) + 1
  BY FS_AddElement

(* A call that leaves the guards lowers their number by one; it was not 0. *)
LEMMA GrantedShrinks ==
  ASSUME IsFiniteSet(Granted), NEW c \in Calls, c \in Granted,
         Granted' = Granted \ {c}
  PROVE  /\ IsFiniteSet(Granted')
         /\ Cardinality(Granted') = Cardinality(Granted) - 1
         /\ Cardinality(Granted) \in Nat \ {0}
  BY FS_RemoveElement, FS_CardinalityType, FS_EmptySet

(* The lock is free exactly when no_of_clients is 0.                       *)
LEMMA FreeMeansNoGuard ==
  ASSUME CountInv
  PROVE  no_of_clients = 0 <=> Granted = {}
  BY FS_EmptySet DEF CountInv

(* What each action does to the set of guards.                             *)
LEMMA GrantedAfterStep ==
  ASSUME TypeOK, NEW c \in Calls
  PROVE  /\ LockMutex(c) \/ Wait(c) \/ SpuriousWakeup(c) \/ DropGuard(c)
              => Granted' = Granted
         /\ Enter(c) => c \notin Granted /\ Granted' = Granted \cup {c}
         /\ Unlock(c) => c \in Granted /\ Granted' = Granted \ {c}
<1>1. LockMutex(c) \/ Wait(c) \/ SpuriousWakeup(c) \/ DropGuard(c)
        => Granted' = Granted
  BY DEF LockMutex, Wait, SpuriousWakeup, DropGuard, Granted, TypeOK
<1>2. Enter(c) => c \notin Granted /\ Granted' = Granted \cup {c}
  BY DEF Enter, Granted, TypeOK
<1>3. Unlock(c) => c \in Granted /\ Granted' = Granted \ {c}
  BY DEF Unlock, WakeAll, Granted, TypeOK
<1> QED
  BY <1>1, <1>2, <1>3

-----------------------------------------------------------------------------
LEMMA InitIInv == Init => IInv
<1> SUFFICES ASSUME Init PROVE IInv
  OBVIOUS
<1>1. Granted = {}
  BY DEF Init, Granted
<1>2. CountInv
  BY <1>1, FS_EmptySet DEF Init, CountInv
<1>3. TypeOK
  BY LockAssumption DEF Init, TypeOK, Positions
<1> QED
  BY <1>1, <1>2, <1>3 DEF Init, IInv, MutexInv, ModeInv, SleeperIsBlocked

(* A step of a call that is not Enter or Unlock moves only the call and    *)
(* the mutex.                                                              *)
LEMMA QuietStepIInv ==
  ASSUME IInv, NEW c \in Calls,
         LockMutex(c) \/ Wait(c) \/ SpuriousWakeup(c) \/ DropGuard(c)
  PROVE  IInv'
<1> USE DEF IInv
<1>1. Granted' = Granted
  BY GrantedAfterStep
<1>2. TypeOK'
  BY DEF TypeOK, Positions, LockMutex, Wait, SpuriousWakeup, DropGuard
<1>3. MutexInv'
  BY LockAssumption
  DEF TypeOK, MutexInv, LockMutex, Wait, SpuriousWakeup, DropGuard
<1>4. ModeInv'
  BY <1>1 DEF ModeInv, LockMutex, Wait, SpuriousWakeup, DropGuard
<1>5. CountInv'
  BY <1>1 DEF CountInv, LockMutex, Wait, SpuriousWakeup, DropGuard
<1>6. SleeperIsBlocked'
  BY DEF TypeOK, SleeperIsBlocked, Incompatible,
         LockMutex, Wait, SpuriousWakeup, DropGuard
<1> QED
  BY <1>2, <1>3, <1>4, <1>5, <1>6

(* Enter: if somebody sleeps, the lock is held in another mode than the    *)
(* sleeper's, so the caller has the mode of the lock and changes nothing   *)
(* for the sleeper.                                                        *)
LEMMA EnterIInv ==
  ASSUME IInv, NEW c \in Calls, Enter(c)
  PROVE  IInv'
<1> USE DEF IInv
<1>1. c \notin Granted /\ Granted' = Granted \cup {c}
  BY GrantedAfterStep
<1>2. TypeOK'
  BY DEF TypeOK, Positions, Enter
<1>3. MutexInv'
  BY DEF TypeOK, MutexInv, Enter
<1>4. ModeInv'
  <2>1. CASE no_of_clients = 0
    BY <2>1, <1>1, FreeMeansNoGuard DEF TypeOK, ModeInv, Enter
  <2>2. CASE current_mode = mode[c]
    BY <2>2, <1>1 DEF TypeOK, ModeInv, Enter
  <2> QED
    BY <2>1, <2>2 DEF Enter, Incompatible
<1>5. CountInv'
  BY <1>1, GrantedGrows DEF CountInv, Enter
<1>6. SleeperIsBlocked'
  BY DEF TypeOK, SleeperIsBlocked, Incompatible, Enter
<1> QED
  BY <1>2, <1>3, <1>4, <1>5, <1>6

(* Unlock: the count was not 0, and nobody sleeps afterwards.              *)
LEMMA UnlockIInv ==
  ASSUME IInv, NEW c \in Calls, Unlock(c)
  PROVE  IInv'
<1> USE DEF IInv
<1>1. c \in Granted /\ Granted' = Granted \ {c}
  BY GrantedAfterStep
<1>2. /\ IsFiniteSet(Granted')
      /\ Cardinality(Granted') = Cardinality(Granted) - 1
      /\ Cardinality(Granted) \in Nat \ {0}
  BY <1>1, GrantedShrinks DEF CountInv
<1>3. TypeOK'
  BY <1>2 DEF TypeOK, Positions, CountInv, Unlock, WakeAll
<1>4. MutexInv'
  BY DEF TypeOK, MutexInv, Unlock, WakeAll
<1>5. ModeInv'
  BY <1>1 DEF ModeInv, Unlock
<1>6. CountInv'
  BY <1>2 DEF CountInv, Unlock
<1>7. SleeperIsBlocked'
  BY DEF TypeOK, SleeperIsBlocked, Unlock, WakeAll
<1> QED
  BY <1>3, <1>4, <1>5, <1>6, <1>7

LEMMA StepIInv == IInv /\ [Next]_vars => IInv'
<1> SUFFICES ASSUME IInv, [Next]_vars PROVE IInv'
  OBVIOUS
<1>1. ASSUME NEW c \in Calls, Step(c) PROVE IInv'
  BY <1>1, QuietStepIInv, EnterIInv, UnlockIInv DEF Step
<1>2. CASE UNCHANGED vars
  BY <1>2 DEF vars, IInv, TypeOK, MutexInv, ModeInv, CountInv, Granted,
              SleeperIsBlocked, Incompatible
<1> QED
  BY <1>1, <1>2 DEF Next

(* The invariant holds in every reachable state.                           *)
THEOREM Invariance == Spec => []IInv
  BY InitIInv, StepIInv, PTL DEF Spec

(* Type correctness.                                                       *)
THEOREM TypeCorrect == Spec => []TypeOK
  BY Invariance, PTL DEF IInv

(* Guards of different modes never exist together.                         *)
THEOREM ModesExclude == Spec => []ModeExclusion
<1>1. IInv => ModeExclusion
  BY DEF IInv, ModeInv, ModeExclusion
<1> QED
  BY Invariance, <1>1, PTL

(* no_of_clients is the number of guards.                                  *)
THEOREM CountIsRight == Spec => []CountsGuards
<1>1. IInv => CountsGuards
  BY DEF IInv, CountInv, CountsGuards
<1> QED
  BY Invariance, <1>1, PTL

(* No sleeper is forgotten: it is still blocked by a guard of another mode.*)
THEOREM NoLostWakeup == Spec => []SleeperIsBlocked
  BY Invariance, PTL DEF IInv

-----------------------------------------------------------------------------
(* Every step of the mode lock is a step of the group lock or a stutter:   *)
(* Enter acquires, Unlock releases, the other actions leave the guards.    *)
LEMMA StepRefines ==
  ASSUME IInv, NEW c \in Calls, Step(c)
  PROVE  [GL!Next]_guards
<1> USE DEF IInv
<1>1. CASE LockMutex(c) \/ Wait(c) \/ SpuriousWakeup(c) \/ DropGuard(c)
  <2>1. Granted' = Granted /\ mode' = mode
    BY <1>1, GrantedAfterStep
    DEF LockMutex, Wait, SpuriousWakeup, DropGuard
  <2> QED
    BY <2>1 DEF guards
<1>2. CASE Enter(c)
  <2>1. /\ c \notin Granted
        /\ Granted' = Granted \cup {c}
        /\ mode' = mode
    BY <1>2, GrantedAfterStep DEF Enter
  <2>2. \A d \in Granted : mode[d] = mode[c]
    BY <1>2, FreeMeansNoGuard DEF Enter, Incompatible, ModeInv
  <2>3. guards' = guards \cup {<<c, mode[c]>>}
    BY <2>1 DEF guards
  <2>4. mode[c] \in Modes
    BY DEF TypeOK
  <2>5. GL!Acquire(c, mode[c])
    BY <2>1, <2>2, <2>3 DEF guards, GL!Acquire
  <2> QED
    BY <2>4, <2>5 DEF GL!Next
<1>3. CASE Unlock(c)
  <2>1. /\ c \in Granted
        /\ Granted' = Granted \ {c}
        /\ mode' = mode
    BY <1>3, GrantedAfterStep DEF Unlock
  <2>2. guards' = guards \ {<<c, mode[c]>>}
    BY <2>1 DEF guards
  <2>3. mode[c] \in Modes
    BY DEF TypeOK
  <2>4. GL!Release(c, mode[c])
    BY <2>1, <2>2 DEF guards, GL!Release
  <2> QED
    BY <2>3, <2>4 DEF GL!Next
<1> QED
  BY <1>1, <1>2, <1>3 DEF Step

(* The mode lock implements the group lock.                                *)
THEOREM RefinesGroupLock == Spec => ImplementsGroupLock
<1>1. Init => GL!Init
  BY DEF Init, GL!Init, guards, Granted
<1>2. IInv /\ [Next]_vars => [GL!Next]_guards
  <2>1. UNCHANGED vars => UNCHANGED guards
    BY DEF vars, guards, Granted
  <2> QED
    BY <2>1, StepRefines DEF Next
<1> QED
  BY <1>1, <1>2, Invariance, PTL DEF Spec, ImplementsGroupLock, GL!Spec

-----------------------------------------------------------------------------
(* Nobody waits in a circle                                                *)

\* Who holds the mutex is inside lock() or unlock(), where nothing blocks.
HolderInv == \A c \in Calls : mutex = c => pc[c] \in {"check", "dropping"}

(* Only lock() and unlock() take the mutex, and wait() gives it back.      *)
LEMMA HolderStep == IInv /\ HolderInv /\ [Next]_vars => HolderInv'
<1> SUFFICES ASSUME IInv, HolderInv, [Next]_vars PROVE HolderInv'
  OBVIOUS
<1>1. ASSUME NEW c \in Calls, LockMutex(c) \/ DropGuard(c) PROVE HolderInv'
  BY <1>1 DEF IInv, TypeOK, HolderInv, LockMutex, DropGuard
<1>2. ASSUME NEW c \in Calls, Wait(c) \/ Enter(c) \/ Unlock(c) PROVE HolderInv'
  BY <1>2, LockAssumption DEF LockAssumption, HolderInv, Wait, Enter, Unlock
<1>3. ASSUME NEW c \in Calls, SpuriousWakeup(c) PROVE HolderInv'
  BY <1>3 DEF IInv, TypeOK, HolderInv, SpuriousWakeup
<1>4. CASE UNCHANGED vars
  BY <1>4 DEF HolderInv, vars
<1> QED BY <1>1, <1>2, <1>3, <1>4 DEF Next, Step

(* The calls do not wait in a circle, however many there are: a sleeper    *)
(* has a guard of another mode before it, whose holder goes on.            *)
THEOREM NoDeadlock == Spec => []NobodyIsStuck
<1>1. Init => HolderInv
  BY LockAssumption DEF Init, LockAssumption, HolderInv
<1>2. ASSUME IInv, HolderInv PROVE NobodyIsStuck
  <2> SUFFICES ASSUME NEW c \in Calls, pc[c] # "done"
               PROVE  \E d \in Calls : CanGoOn(d)
    BY DEF NobodyIsStuck
  <2>1. CASE mutex # Nobody
    BY <1>2, <2>1 DEF IInv, TypeOK, HolderInv, CanGoOn
  <2>2. CASE mutex = Nobody
    <3>1. CASE pc[c] = "waiting"
      <4>1. no_of_clients # 0
        BY <1>2, <3>1 DEF IInv, SleeperIsBlocked, Incompatible
      <4>2. PICK d \in Calls : pc[d] \in {"holding", "dropping"}
        BY <1>2, <4>1, FreeMeansNoGuard DEF IInv, Granted
      <4> QED BY <2>2, <4>2 DEF CanGoOn
    <3>2. CASE pc[c] # "waiting"
      BY <1>2, <2>2, <3>2 DEF IInv, TypeOK, Positions, CanGoOn
    <3> QED BY <3>1, <3>2
  <2> QED BY <2>1, <2>2
<1> QED BY <1>1, <1>2, HolderStep, Invariance, PTL DEF Spec
=============================================================================
