------------------------------ MODULE Throttle ------------------------------
(***************************************************************************)
(* MovingAverage and ThrottleController, src/lib.rs.  With --throttle the  *)
(* reader measures, once per update, how long it had to wait for the last  *)
(* picture, and sleeps after every update.  The sleep grows by the average *)
(* of the measurements when that is too large, is then left alone for a    *)
(* whole window of measurements, and fades every half second.              *)
(*                                                                         *)
(* Durations are numbers of the clock's smallest unit, so a division       *)
(* truncates and a subtraction below zero panics.  The average is kept by  *)
(* adding and subtracting quotients; `sums' and `fresh' are history        *)
(* variables, which the code does not have.                                *)
(***************************************************************************)
EXTENDS Naturals, Sequences

CONSTANTS
  WindowLength,   \* 50
  Millisecond,    \* units of the clock in a millisecond: 1000000
  Delays,         \* delays that are measured
  Passes,         \* times between two calls
  EnoughSleep     \* bound: with that much sleep the view keeps up

ASSUME ThrottleAssumption ==
  /\ WindowLength \in Nat \ {0}
  /\ Millisecond \in Nat \ {0}
  /\ Delays \subseteq Nat /\ 0 \in Delays
  /\ Passes \subseteq Nat
  /\ EnoughSleep \in Nat

VARIABLES
  samples, mean,            \* MovingAverage
  sleep_duration,           \* ThrottleController
  since_decrease,           \* now - last_decrease, as far as it matters
  freeze_counter,
  sums,                     \* history: sums[i + 1] adds up the first i shares
  fresh                     \* history: samples since the sleep grew last

averageVars == <<samples, mean, sums>>
vars == <<averageVars, sleep_duration, since_decrease, freeze_counter, fresh>>

HalfSecond == 500 * Millisecond

Init ==
  /\ samples = <<>>
  /\ mean = 0
  /\ sleep_duration = 0
  /\ since_decrease = 0
  /\ freeze_counter = 0
  /\ sums = <<0>>
  /\ fresh = WindowLength

-----------------------------------------------------------------------------
(* MovingAverage::add                                                      *)

\* What one sample adds to the mean.
Share(sample) == sample \div WindowLength

\* The window grows.
AddFirst(new) ==
  /\ Len(samples) < WindowLength
  /\ samples' = Append(samples, new)
  /\ mean' = mean + Share(new)
  /\ sums' = Append(sums, sums[Len(sums)] + Share(new))

\* Mistake: the difference of the samples is divided instead of both.
AddNextDifference(new) ==
  /\ Len(samples) = WindowLength
  /\ samples' = Tail(Append(samples, new))
  /\ mean' = IF new >= Head(samples) THEN mean + Share(new - Head(samples))
             ELSE mean - Share(Head(samples) - new)
  /\ sums' = [i \in 1 .. WindowLength + 1 |->
                (IF i <= WindowLength THEN sums[i + 1]
                 ELSE sums[i] + Share(new)) - sums[2]]

\* The oldest sample leaves the window, and its share the mean.
AddNext(new) ==
  /\ Len(samples) = WindowLength
  /\ samples' = Tail(Append(samples, new))
  /\ mean' = mean + Share(new) - Share(Head(samples))
  /\ sums' = [i \in 1 .. WindowLength + 1 |->
                (IF i <= WindowLength THEN sums[i + 1]
                 ELSE sums[i] + Share(new)) - sums[2]]

Add(new) == AddFirst(new) \/ AddNext(new)

-----------------------------------------------------------------------------
(* ThrottleController::register_leftover_frame_delay                       *)

\* Mistake: a step is taken only from a larger sleep.
FadedStrictly(sleep) ==
  LET minus == IF sleep > 100 * Millisecond THEN 5 * Millisecond
               ELSE IF sleep > 50 * Millisecond THEN 2 * Millisecond
               ELSE Millisecond
  IN  IF sleep > minus THEN sleep - minus ELSE sleep

\* The sleep after one step down, which is smaller the less sleep is left.
Faded(sleep) ==
  LET minus == IF sleep > 100 * Millisecond THEN 5 * Millisecond
               ELSE IF sleep > 50 * Millisecond THEN 2 * Millisecond
               ELSE Millisecond
  IN  IF sleep >= minus THEN sleep - minus ELSE sleep

\* Half a second or more is all the same.
Later(passed) ==
  IF since_decrease + passed > HalfSecond THEN HalfSecond + 1
  ELSE since_decrease + passed

OneMore == IF fresh < WindowLength THEN fresh + 1 ELSE fresh

\* The sleep grew at most a window ago: it is left alone.
Frozen(passed) ==
  /\ freeze_counter # 0
  /\ freeze_counter' = freeze_counter - 1
  /\ fresh' = OneMore
  /\ since_decrease' = Later(passed)
  /\ UNCHANGED sleep_duration

\* Mistake: the counter starts when the window is half full.
GrowHalf ==
  /\ mean' > Millisecond
  /\ freeze_counter' = WindowLength \div 2
  /\ fresh' = 0

\* The average is above the threshold.
Grow ==
  /\ mean' > Millisecond
  /\ freeze_counter' = WindowLength
  /\ fresh' = 0

Stay ==
  /\ mean' <= Millisecond
  /\ fresh' = OneMore
  /\ UNCHANGED freeze_counter

Fade(passed, sleep) ==
  IF Later(passed) > HalfSecond
  THEN sleep_duration' = Faded(sleep) /\ since_decrease' = 0
  ELSE sleep_duration' = sleep /\ since_decrease' = Later(passed)

\* The sleep may grow and fade in the same call.
Adjust(passed) ==
  /\ freeze_counter = 0
  /\ \/ Grow /\ Fade(passed, sleep_duration + mean')
     \/ Stay /\ Fade(passed, sleep_duration)

Register(delay, passed) ==
  /\ delay > 0 => sleep_duration < EnoughSleep
  /\ Add(delay)
  /\ Frozen(passed) \/ Adjust(passed)

-----------------------------------------------------------------------------
Next == \E delay \in Delays, passed \in Passes : Register(delay, passed)

Spec == Init /\ [][Next]_vars

\* The server keeps sending updates; otherwise nothing is measured.
FairSpec == Spec /\ WF_vars(Next)

-----------------------------------------------------------------------------
(* Properties                                                              *)

TypeOK ==
  /\ samples \in Seq(Nat) /\ Len(samples) <= WindowLength
  /\ mean \in Nat
  /\ sleep_duration \in Nat
  /\ since_decrease \in 0 .. HalfSecond + 1
  /\ freeze_counter \in 0 .. WindowLength
  /\ sums \in Seq(Nat)
  /\ fresh \in 0 .. WindowLength

\* sums are the sums of the shares of the samples in the window.
SumsOfShares ==
  /\ Len(sums) = Len(samples) + 1
  /\ sums[1] = 0
  /\ \A i \in 1 .. Len(samples) : sums[i + 1] = sums[i] + Share(samples[i])

(* However long it runs the mean is the sum of the shares of the samples   *)
(* in the window: truncation does not accumulate, and what MovingAverage   *)
(* subtracts is never more than it has, which would be a panic.            *)
MeanIsExact == SumsOfShares /\ mean = sums[Len(sums)]

(* No measured delay makes the sleep grow twice: when it grows, the window *)
(* holds only samples that were measured since it grew last.               *)
NoDelayCountsTwice == [][fresh' = 0 => fresh + 1 >= WindowLength]_vars

(* Once the view keeps up the throttling goes away for good, down to a     *)
(* sleep below the smallest step.                                          *)
SleepFades ==
  <>[](\A i \in DOMAIN samples : samples[i] = 0)
    => <>[](sleep_duration < Millisecond)
=============================================================================
