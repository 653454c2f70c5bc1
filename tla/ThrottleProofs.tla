--------------------------- MODULE ThrottleProofs ---------------------------
(***************************************************************************)
(* The moving average is exact and no delay counts twice, for every window *)
(* length, every clock and every sequence of delays.                       *)
(*                                                                         *)
(* The mean is shown to be the last of the prefix sums of the shares in    *)
(* the window: dropping the oldest sample takes its share from all of      *)
(* them, and none of them is smaller than that share.                      *)
(***************************************************************************)
EXTENDS Throttle, TLAPS

\* The prefix sums never fall.
SumsRise ==
  \A i, j \in 1 .. Len(sums) : i <= j => sums[i] <= sums[j]

\* While the sleep is frozen the missing samples are still to come.
FreezeCoversWindow == freeze_counter + fresh >= WindowLength

IInv == TypeOK /\ MeanIsExact /\ SumsRise /\ FreezeCoversWindow

\* The share of a sample is a natural number.
LEMMA ShareType == \A sample \in Nat : Share(sample) \in Nat
<1>1. WindowLength \in Nat /\ WindowLength > 0
  BY ThrottleAssumption DEF ThrottleAssumption
<1>2. \A sample \in Nat : sample \div WindowLength \in Nat
  BY <1>1
<1> QED  BY <1>2 DEF Share

\* A step down never goes below zero.
LEMMA FadedType == \A sleep \in Nat : Faded(sleep) \in Nat
<1>1. Millisecond \in Nat
  BY ThrottleAssumption DEF ThrottleAssumption
<1> QED  BY <1>1 DEF Faded

\* What Append and then Tail make of a sequence.
LEMMA Appended ==
  ASSUME NEW seq \in Seq(Nat), NEW new \in Nat, NEW n \in Nat, n = Len(seq)
  PROVE  /\ Append(seq, new) \in Seq(Nat)
         /\ Len(Append(seq, new)) = n + 1
         /\ \A i \in 1 .. n : Append(seq, new)[i] = seq[i]
         /\ Append(seq, new)[n + 1] = new
OBVIOUS

LEMMA Shifted ==
  ASSUME NEW seq \in Seq(Nat), NEW n \in Nat, Len(seq) = n + 1
  PROVE  /\ Tail(seq) \in Seq(Nat)
         /\ Len(Tail(seq)) = n
         /\ \A i \in 1 .. n : Tail(seq)[i] = seq[i + 1]
OBVIOUS

\* The average and its prefix sums after one more sample.
LEMMA AddInv ==
  ASSUME TypeOK, MeanIsExact, SumsRise, NEW new \in Nat, Add(new)
  PROVE  /\ samples' \in Seq(Nat) /\ Len(samples') <= WindowLength
         /\ sums' \in Seq(Nat)
         /\ mean' \in Nat
         /\ MeanIsExact'
         /\ SumsRise'
<1>w. WindowLength \in Nat /\ WindowLength > 0
  BY ThrottleAssumption DEF ThrottleAssumption
<1>n. PICK n \in Nat : n = Len(samples)
  BY DEF TypeOK
<1>s. PICK share \in Nat : share = Share(new)
  BY ShareType
<1>0. /\ samples \in Seq(Nat) /\ sums \in Seq(Nat)
      /\ n <= WindowLength /\ Len(sums) = n + 1
      /\ sums[1] = 0 /\ mean = sums[n + 1]
  BY <1>n DEF TypeOK, MeanIsExact, SumsOfShares
<1>t. /\ \A i \in 1 .. n : samples[i] \in Nat
      /\ \A i \in 1 .. n + 1 : sums[i] \in Nat
  BY <1>0, <1>n
<1>r. \A i \in 1 .. n : sums[i + 1] = sums[i] + Share(samples[i])
  BY <1>n DEF MeanIsExact, SumsOfShares
<1>m. \A i, j \in 1 .. n + 1 : i <= j => sums[i] <= sums[j]
  BY <1>0 DEF SumsRise
<1>1. CASE AddFirst(new)
  <2>1. /\ samples' = Append(samples, new)
        /\ sums' = Append(sums, sums[n + 1] + share)
        /\ mean' = mean + share
        /\ n < WindowLength
    BY <1>n, <1>s, <1>0, <1>1 DEF AddFirst
  <2>2. /\ samples' \in Seq(Nat) /\ Len(samples') = n + 1
        /\ \A i \in 1 .. n : samples'[i] = samples[i]
        /\ samples'[n + 1] = new
    BY <1>0, <1>n, <2>1, Appended
  <2>3. /\ sums' \in Seq(Nat) /\ Len(sums') = n + 2
        /\ \A i \in 1 .. n + 1 : sums'[i] = sums[i]
        /\ sums'[n + 2] = sums[n + 1] + share
    <3>1. sums[n + 1] + share \in Nat
      BY <1>t
    <3>2. /\ sums' \in Seq(Nat) /\ Len(sums') = (n + 1) + 1
          /\ \A i \in 1 .. n + 1 : sums'[i] = sums[i]
          /\ sums'[(n + 1) + 1] = sums[n + 1] + share
      BY <1>0, <2>1, <3>1, Appended
    <3>3. (n + 1) + 1 = n + 2
      OBVIOUS
    <3> QED  BY <3>2, <3>3
  <2>4. \A i \in 1 .. n + 1 : sums'[i + 1] = sums'[i] + Share(samples'[i])
    <3> SUFFICES ASSUME NEW i \in 1 .. n + 1
                 PROVE  sums'[i + 1] = sums'[i] + Share(samples'[i])
      OBVIOUS
    <3>1. CASE i = n + 1
      <4>1. sums'[i + 1] = sums[n + 1] + share /\ sums'[i] = sums[n + 1]
        BY <2>3, <3>1
      <4> QED  BY <1>s, <2>2, <3>1, <4>1
    <3>2. CASE i \in 1 .. n
      <4>1. sums'[i + 1] = sums[i + 1] /\ sums'[i] = sums[i] /\ samples'[i] = samples[i]
        BY <2>2, <2>3, <3>2
      <4> QED  BY <1>r, <3>2, <4>1
    <3> QED  BY <3>1, <3>2
  <2>5. MeanIsExact'
    <3>1. sums'[1] = 0 /\ mean' = sums'[n + 2]
      BY <1>0, <2>1, <2>3
    <3>2. Len(sums') = Len(samples') + 1
      BY <2>2, <2>3
    <3> QED  BY <2>2, <2>3, <2>4, <3>1, <3>2 DEF MeanIsExact, SumsOfShares
  <2>6. \A i, j \in 1 .. n + 2 : i <= j => sums'[i] <= sums'[j]
    <3> SUFFICES ASSUME NEW i \in 1 .. n + 2, NEW j \in 1 .. n + 2, i <= j
                 PROVE  sums'[i] <= sums'[j]
      OBVIOUS
    <3>1. CASE j <= n + 1
      <4>1. i \in 1 .. n + 1 /\ j \in 1 .. n + 1
        BY <3>1
      <4> QED  BY <1>m, <2>3, <4>1
    <3>2. CASE i <= n + 1 /\ j = n + 2
      <4>1. i \in 1 .. n + 1 /\ n + 1 \in 1 .. n + 1 /\ i <= n + 1
        BY <3>2
      <4>2. sums[i] <= sums[n + 1] /\ sums[i] \in Nat /\ sums[n + 1] \in Nat
        BY <1>m, <1>t, <4>1
      <4> QED  BY <2>3, <3>2, <4>1, <4>2
    <3>3. CASE i = n + 2 /\ j = n + 2
      BY <2>3, <1>t, <3>3
    <3> QED  BY <3>1, <3>2, <3>3
  <2>7. mean' \in Nat
    BY <1>0, <1>t, <2>1
  <2>8. SumsRise'
    BY <2>3, <2>6 DEF SumsRise
  <2>9. Len(samples') <= WindowLength
    BY <1>w, <2>1, <2>2
  <2> QED  BY <2>2, <2>3, <2>5, <2>7, <2>8, <2>9
<1>2. CASE AddNext(new)
  <2>0. n = WindowLength /\ n > 0
    BY <1>w, <1>n, <1>2 DEF AddNext
  <2>1. /\ samples' = Tail(Append(samples, new))
        /\ mean' = mean + share - Share(Head(samples))
        /\ sums' = [i \in 1 .. n + 1 |->
                      (IF i <= n THEN sums[i + 1] ELSE sums[i] + share) - sums[2]]
    BY <1>s, <1>2, <2>0 DEF AddNext
  <2>2. 1 \in 1 .. n /\ 2 \in 1 .. n + 1 /\ n + 1 \in 1 .. n + 1
    BY <2>0
  <2>3. sums[2] = Share(Head(samples)) /\ sums[2] \in Nat
    <3>1. sums[2] = Share(samples[1])
      <4>1. sums[1 + 1] = sums[1] + Share(samples[1])
        BY <1>r, <2>2
      <4>2. Share(samples[1]) \in Nat
        BY <1>t, <2>2, ShareType
      <4> QED  BY <1>0, <4>1, <4>2
    <3>2. samples[1] = Head(samples)
      BY <1>0, <1>n, <2>0
    <3> QED  BY <1>t, <2>2, <3>1, <3>2
  <2>4. \A k \in 2 .. n + 1 : sums[k] \in Nat /\ sums[2] <= sums[k]
    BY <1>m, <1>t, <2>2
  <2>5. /\ samples' \in Seq(Nat) /\ Len(samples') = n
        /\ \A i \in 1 .. n - 1 : samples'[i] = samples[i + 1]
        /\ samples'[n] = new
    <3> DEFINE long == Append(samples, new)
    <3>1. /\ long \in Seq(Nat) /\ Len(long) = n + 1
          /\ \A i \in 1 .. n : long[i] = samples[i]
          /\ long[n + 1] = new
      BY <1>0, <1>n, Appended
    <3> HIDE DEF long
    <3>2. /\ Tail(long) \in Seq(Nat) /\ Len(Tail(long)) = n
          /\ \A i \in 1 .. n : Tail(long)[i] = long[i + 1]
      BY <3>1, Shifted
    <3>3. samples' = Tail(long)
      BY <2>1 DEF long
    <3>4. \A i \in 1 .. n - 1 : i \in 1 .. n /\ i + 1 \in 1 .. n
      OBVIOUS
    <3> QED  BY <3>1, <3>2, <3>3, <3>4, <2>0
  <2>6. /\ \A i \in 1 .. n : sums'[i] = sums[i + 1] - sums[2]
        /\ sums'[n + 1] = sums[n + 1] + share - sums[2]
    BY <2>1, <2>2, <1>t
  <2>7. sums' \in Seq(Nat) /\ Len(sums') = n + 1
    <3>1. \A i \in 1 .. n + 1 :
            (IF i <= n THEN sums[i + 1] ELSE sums[i] + share) - sums[2] \in Nat
      <4> SUFFICES ASSUME NEW i \in 1 .. n + 1
            PROVE (IF i <= n THEN sums[i + 1] ELSE sums[i] + share) - sums[2] \in Nat
        OBVIOUS
      <4>1. CASE i <= n
        <5>1. i + 1 \in 2 .. n + 1
          BY <4>1
        <5> QED  BY <2>3, <2>4, <4>1, <5>1
      <4>2. CASE i = n + 1
        <5>1. i \in 2 .. n + 1
          BY <2>0, <4>2
        <5> QED  BY <2>3, <2>4, <4>2, <5>1
      <4> QED  BY <4>1, <4>2
    <3>2. sums' \in [1 .. n + 1 -> Nat]
      BY <2>1, <3>1
    <3> QED  BY <3>2
  <2>8. MeanIsExact'
    <3>1. \A i \in 1 .. n : sums'[i + 1] = sums'[i] + Share(samples'[i])
      <4> SUFFICES ASSUME NEW i \in 1 .. n
                   PROVE  sums'[i + 1] = sums'[i] + Share(samples'[i])
        OBVIOUS
      <4>1. CASE i = n
        <5>1. sums'[n] = sums[n + 1] - sums[2]
          BY <2>0, <2>6
        <5>2. sums[n + 1] \in Nat /\ sums[2] \in Nat
          BY <1>t, <2>2
        <5> QED  BY <1>s, <2>5, <2>6, <4>1, <5>1, <5>2
      <4>2. CASE i \in 1 .. n - 1
        <5>1. i \in 1 .. n /\ i + 1 \in 1 .. n /\ i + 2 \in 1 .. n + 1
          BY <4>2
        <5>2. sums[(i + 1) + 1] = sums[i + 1] + Share(samples[i + 1])
          BY <1>r, <5>1
        <5>3. sums'[i] = sums[i + 1] - sums[2] /\ sums'[i + 1] = sums[(i + 1) + 1] - sums[2]
          BY <2>6, <5>1
        <5>4. samples'[i] = samples[i + 1] /\ Share(samples[i + 1]) \in Nat
          BY <1>t, <2>5, <4>2, <5>1, ShareType
        <5>5. sums[i + 1] \in Nat /\ sums[2] \in Nat
          BY <1>t, <2>2, <5>1
        <5> QED  BY <5>2, <5>3, <5>4, <5>5
      <4> QED  BY <4>1, <4>2
    <3>2. sums'[1] = 0
      BY <2>2, <2>3, <2>6
    <3>3. mean' = sums'[n + 1]
      BY <1>0, <1>t, <2>1, <2>2, <2>3, <2>6
    <3> QED  BY <2>5, <2>7, <3>1, <3>2, <3>3 DEF MeanIsExact, SumsOfShares
  <2>9. \A i, j \in 1 .. n + 1 : i <= j => sums'[i] <= sums'[j]
    <3> SUFFICES ASSUME NEW i \in 1 .. n + 1, NEW j \in 1 .. n + 1, i <= j
                 PROVE  sums'[i] <= sums'[j]
      OBVIOUS
    <3>1. CASE j <= n
      <4>1. i \in 1 .. n /\ j \in 1 .. n /\ i + 1 \in 1 .. n + 1 /\ j + 1 \in 1 .. n + 1
        BY <3>1
      <4>2. sums[i + 1] <= sums[j + 1] /\ sums[i + 1] \in Nat /\ sums[j + 1] \in Nat
        BY <1>m, <1>t, <4>1
      <4> QED  BY <2>3, <2>6, <4>1, <4>2
    <3>2. CASE i <= n /\ j = n + 1
      <4>1. i \in 1 .. n /\ i + 1 \in 1 .. n + 1 /\ i + 1 <= n + 1
        BY <3>2
      <4>2. sums[i + 1] <= sums[n + 1] /\ sums[i + 1] \in Nat /\ sums[n + 1] \in Nat
        BY <1>m, <1>t, <2>2, <4>1
      <4> QED  BY <2>3, <2>6, <3>2, <4>1, <4>2
    <3>3. CASE i = n + 1 /\ j = n + 1
      BY <1>t, <2>2, <2>3, <2>6, <3>3
    <3> QED  BY <3>1, <3>2, <3>3
  <2>10. mean' \in Nat
    <3>1. n + 1 \in 2 .. n + 1
      BY <2>0
    <3>2. sums[n + 1] \in Nat /\ sums[2] \in Nat /\ sums[2] <= sums[n + 1]
      BY <2>3, <2>4, <3>1
    <3>3. mean' = sums[n + 1] + share - sums[2]
      BY <1>0, <2>1, <2>3
    <3> QED  BY <3>2, <3>3
  <2>11. SumsRise'
    BY <2>7, <2>9 DEF SumsRise
  <2> QED  BY <1>w, <2>0, <2>5, <2>7, <2>8, <2>10, <2>11
<1> QED  BY <1>1, <1>2 DEF Add

LEMMA InitInv == Init => IInv
BY ThrottleAssumption DEF Init, IInv, TypeOK, MeanIsExact, SumsOfShares,
   SumsRise, FreezeCoversWindow, ThrottleAssumption, HalfSecond

\* Every call keeps the inductive invariant.
LEMMA NextInv == IInv /\ [Next]_vars => IInv'
<1> SUFFICES ASSUME IInv, [Next]_vars  PROVE IInv'
  OBVIOUS
<1>a. /\ WindowLength \in Nat /\ HalfSecond \in Nat
      /\ Delays \subseteq Nat /\ Passes \subseteq Nat
  BY ThrottleAssumption DEF ThrottleAssumption, HalfSecond
<1>1. CASE UNCHANGED vars
  BY <1>1 DEF vars, averageVars, IInv, TypeOK, MeanIsExact, SumsOfShares,
              SumsRise, FreezeCoversWindow
<1>2. CASE Next
  <2>1. PICK delay \in Nat, passed \in Nat : Register(delay, passed)
    BY <1>a, <1>2 DEF Next
  <2>2. /\ samples' \in Seq(Nat) /\ Len(samples') <= WindowLength
        /\ sums' \in Seq(Nat) /\ mean' \in Nat /\ MeanIsExact' /\ SumsRise'
    BY <2>1, AddInv DEF IInv, Register
  <2>3. Later(passed) \in 0 .. HalfSecond + 1 /\ OneMore \in 0 .. WindowLength
    BY <1>a DEF IInv, TypeOK, Later, OneMore
  <2>f. \A sleep \in Nat : Fade(passed, sleep) =>
          sleep_duration' \in Nat /\ since_decrease' \in 0 .. HalfSecond + 1
    <3> SUFFICES ASSUME NEW sleep \in Nat, Fade(passed, sleep)
                 PROVE  sleep_duration' \in Nat /\ since_decrease' \in 0 .. HalfSecond + 1
      OBVIOUS
    <3>1. Faded(sleep) \in Nat
      BY FadedType
    <3> QED  BY <1>a, <2>3, <3>1 DEF Fade
  <2>4. /\ sleep_duration' \in Nat /\ since_decrease' \in 0 .. HalfSecond + 1
        /\ freeze_counter' \in 0 .. WindowLength /\ fresh' \in 0 .. WindowLength
        /\ FreezeCoversWindow'
    <3>1. CASE Frozen(passed)
      BY <1>a, <2>3, <3>1 DEF Frozen, OneMore, IInv, TypeOK, FreezeCoversWindow
    <3>2. CASE Adjust(passed) /\ Grow /\ Fade(passed, sleep_duration + mean')
      <4>1. sleep_duration' \in Nat /\ since_decrease' \in 0 .. HalfSecond + 1
        <5>1. sleep_duration \in Nat /\ mean' \in Nat
          BY <2>2 DEF IInv, TypeOK
        <5>2. \A a, b \in Nat : a + b \in Nat
          OBVIOUS
        <5>3. sleep_duration + mean' \in Nat
          BY <5>1, <5>2, Zenon
        <5> QED  BY <2>f, <3>2, <5>3
      <4> QED  BY <1>a, <3>2, <4>1 DEF Grow, IInv, TypeOK, FreezeCoversWindow
    <3>3. CASE Adjust(passed) /\ Stay /\ Fade(passed, sleep_duration)
      <4>1. sleep_duration' \in Nat /\ since_decrease' \in 0 .. HalfSecond + 1
        BY <2>f, <3>3 DEF IInv, TypeOK
      <4> QED  BY <1>a, <2>3, <3>3, <4>1 DEF Adjust, Stay, OneMore, IInv, TypeOK, FreezeCoversWindow
    <3> QED  BY <2>1, <3>1, <3>2, <3>3 DEF Register, Adjust
  <2> QED  BY <2>2, <2>4 DEF IInv, TypeOK
<1> QED  BY <1>1, <1>2

\* Together they make the invariant hold in every reachable state.
LEMMA Invariant == Spec => []IInv
BY InitInv, NextInv, PTL DEF Spec

(* Every variable of the controller keeps its type; in particular neither  *)
(* the mean nor the sleep ever goes below zero, which would panic.         *)
THEOREM TypeCorrect == Spec => []TypeOK
BY Invariant, PTL DEF IInv

(* The mean is the sum of the shares in the window, however long it runs.  *)
THEOREM MeanStaysExact == Spec => []MeanIsExact
<1>1. IInv => MeanIsExact
  BY DEF IInv
<1> QED  BY <1>1, Invariant, PTL

(* The sleep grows only when the window holds no sample of the last growth. *)
THEOREM EveryDelayCountsOnce == Spec => NoDelayCountsTwice
<1>1. IInv /\ [Next]_vars => [fresh' = 0 => fresh + 1 >= WindowLength]_vars
  <2> SUFFICES ASSUME IInv, Next, fresh' = 0
               PROVE  fresh + 1 >= WindowLength
    OBVIOUS
  <2>1. PICK delay \in Delays, passed \in Passes : Register(delay, passed)
    BY DEF Next
  <2>2. CASE freeze_counter = 0
    BY <2>2, ThrottleAssumption DEF IInv, TypeOK, FreezeCoversWindow, ThrottleAssumption
  <2>3. CASE freeze_counter # 0
    BY <2>1, <2>3, ThrottleAssumption
       DEF Register, Frozen, Adjust, OneMore, IInv, TypeOK, ThrottleAssumption
  <2> QED  BY <2>2, <2>3
<1> QED  BY <1>1, Invariant, PTL DEF Spec, NoDelayCountsTwice
=============================================================================
