-------------------------- MODULE ViewChannelProofs --------------------------
(***************************************************************************)
(* Proofs about the output side of the views, for a channel of any         *)
(* capacity and any number of events: no event waits without a wakeup, a   *)
(* synchronous update returns for its own picture, nobody waits in a       *)
(* circle, and either toolkit implements EventQueue.                       *)
(*                                                                         *)
(* The second of these needs to know where the picture of a synchronous    *)
(* update is: in the channel, in the pixbuf waiting to be drawn, or shown  *)
(* and acknowledged; in exactly one of these places, and in none as long   *)
(* as no such update is under way.                                         *)
(***************************************************************************)
EXTENDS ViewChannel, TLAPS, FiniteSetTheorems

\* Every sender sends events of its own kinds.
KindInv ==
  \A s \in Senders : at[s] # "idle" => event[s].kind \in KindsOf(s)

IsFrame(i) == channel[i].kind = "frame"
NoFrame == \A i \in DOMAIN channel : ~ IsFrame(i)

\* A synchronous update has handed over its picture.
UnderWay ==
  /\ at["updater"] \in {"waking", "waiting"}
  /\ event["updater"].kind = "frame"

InChannel ==
  /\ \E i \in DOMAIN channel : IsFrame(i)
  /\ \A i, j \in DOMAIN channel : IsFrame(i) /\ IsFrame(j) => i = j
  /\ \A i \in DOMAIN channel : IsFrame(i) => channel[i] = event["updater"]
  /\ ~ fb_updated /\ acks = 0

Undrawn == NoFrame /\ fb_updated /\ acks = 0 /\ pixbuf = event["updater"].n

Acknowledged ==
  /\ NoFrame /\ ~ fb_updated /\ acks = 1
  /\ pixbuf = event["updater"].n /\ shown = pixbuf

Nowhere == NoFrame /\ ~ fb_updated /\ acks = 0

SyncInv ==
  /\ \A s \in Senders : at[s] = "waiting" => throttle /\ UnderWay /\ s = "updater"
  /\ throttle => IF UnderWay THEN InChannel \/ Undrawn \/ Acknowledged ELSE Nowhere

IInv == TypeOK /\ WakeupForEachEvent /\ KindInv /\ SyncInv

-----------------------------------------------------------------------------
(* Lemmas about the channel                                                *)

(* What send() does to the channel.                                        *)
LEMMA Appended ==
  ASSUME NEW S, NEW q \in Seq(S), NEW e \in S
  PROVE  /\ Append(q, e) \in Seq(S)
         /\ Len(Append(q, e)) = Len(q) + 1
         /\ DOMAIN Append(q, e) = DOMAIN q \cup {Len(q) + 1}
         /\ \A i \in DOMAIN q : Append(q, e)[i] = q[i]
         /\ Append(q, e)[Len(q) + 1] = e
         /\ Len(q) \in Nat /\ Len(q) + 1 \notin DOMAIN q
  OBVIOUS

(* What recv() does to the channel.                                        *)
LEMMA Received ==
  ASSUME NEW S, NEW q \in Seq(S), q # <<>>
  PROVE  /\ Tail(q) \in Seq(S) /\ Head(q) \in S
         /\ Len(Tail(q)) = Len(q) - 1 /\ Len(q) \in Nat \ {0}
         /\ \A i \in DOMAIN Tail(q) : i + 1 \in DOMAIN q /\ Tail(q)[i] = q[i + 1]
         /\ \A i \in DOMAIN q : i = 1 \/ i - 1 \in DOMAIN Tail(q)
         /\ 1 \in DOMAIN q /\ Head(q) = q[1]
         /\ DOMAIN q \subseteq Nat /\ DOMAIN Tail(q) \subseteq Nat
  OBVIOUS

(* The senders that are about to queue a wakeup are finitely many, and     *)
(* their number changes by one when one of them starts or ends.            *)
LEMMA CountWaking ==
  ASSUME NEW W \in SUBSET Senders, NEW s \in Senders
  PROVE  /\ Cardinality(W) \in Nat
         /\ s \notin W => Cardinality(W \cup {s}) = Cardinality(W) + 1
         /\ s \in W => Cardinality(W \ {s}) = Cardinality(W) - 1
<1>1. IsFiniteSet(Senders)
  <2>1. IsFiniteSet({"updater"})
    BY FS_Singleton
  <2>2. Senders = {"updater"} \cup {"reader"}
    BY DEF Senders
  <2> QED BY <2>1, <2>2, FS_AddElement
<1>2. IsFiniteSet(W)
  BY <1>1, FS_Subset
<1> QED BY <1>2, FS_CardinalityType, FS_AddElement, FS_RemoveElement

-----------------------------------------------------------------------------
(* The invariant                                                           *)

(* The invariant holds in the initial states.                              *)
LEMMA InitInv == Init => IInv
<1> SUFFICES ASSUME Init PROVE IInv
  OBVIOUS
<1> USE ViewAssumption DEF Init
<1>1. TypeOK
  <2>1. event \in [Senders -> Events \cup {NoEvent}]
    OBVIOUS
  <2>2. channel \in Seq(Events) /\ Len(channel) = 0
    OBVIOUS
  <2>3. at \in [Senders -> {"idle", "sending", "waking", "waiting"}]
    OBVIOUS
  <2>4. sends \in [Senders -> 0 .. MaxEvents]
    OBVIOUS
  <2>5. Len(channel) <= Capacity
    BY <2>2
  <2>6. /\ wakeups \in Nat /\ acks \in Nat
        /\ pixbuf \in 0 .. MaxEvents /\ shown \in 0 .. MaxEvents
    BY DEF NoPicture
  <2>7. fb_updated \in BOOLEAN /\ throttle \in BOOLEAN /\ toolkit \in {"sdl", "gtk"}
    BY Zenon
  <2> QED BY <2>1, <2>2, <2>3, <2>4, <2>5, <2>6, <2>7, Zenon DEF TypeOK
<1>2. WakeupForEachEvent
  <2>1. {s \in Senders : at[s] = "waking"} = {}
    OBVIOUS
  <2>2. Cardinality({s \in Senders : at[s] = "waking"}) = 0
    BY <2>1, FS_EmptySet
  <2>3. Len(channel) = 0 /\ wakeups = 0
    OBVIOUS
  <2> QED BY <2>2, <2>3 DEF WakeupForEachEvent
<1>3. KindInv
  BY DEF KindInv
<1>4. SyncInv
  BY DEF SyncInv, UnderWay, Nowhere, NoFrame, Senders
<1> QED BY <1>1, <1>2, <1>3, <1>4 DEF IInv

(* Every step keeps the types and the kinds of the senders' events.        *)
LEMMA TypeStep ==
  ASSUME TypeOK, KindInv, [Next]_vars
  PROVE  TypeOK' /\ KindInv'
<1> USE ViewAssumption
<1>1. ASSUME NEW s \in Senders, StartEvent(s)
      PROVE  TypeOK' /\ KindInv'
  <2>1. PICK k \in KindsOf(s) :
          event' = [event EXCEPT ![s] = [kind |-> k, n |-> sends'[s]]]
    BY <1>1 DEF StartEvent
  <2>2. sends' = [sends EXCEPT ![s] = @ + 1] /\ sends[s] < MaxEvents
    BY <1>1 DEF StartEvent
  <2>3. sends' \in [Senders -> 0 .. MaxEvents] /\ sends'[s] \in 1 .. MaxEvents
    BY <2>2 DEF TypeOK
  <2>4. [kind |-> k, n |-> sends'[s]] \in Events
    BY <2>3 DEF Events
  <2>5. event' \in [Senders -> Events \cup {NoEvent}]
    BY <2>1, <2>4 DEF TypeOK
  <2>6. at' \in [Senders -> {"idle", "sending", "waking", "waiting"}]
    BY <1>1 DEF StartEvent, TypeOK
  <2>7. TypeOK'
    BY <1>1, <2>3, <2>5, <2>6 DEF StartEvent, WindowUnchanged, config, TypeOK
  <2>8. event'[s].kind \in KindsOf(s)
    BY <2>1 DEF TypeOK
  <2>9. \A t \in Senders \ {s} : at'[t] = at[t] /\ event'[t] = event[t]
    BY <1>1, <2>1 DEF StartEvent, TypeOK
  <2> QED BY <2>7, <2>8, <2>9 DEF KindInv
<1>2. ASSUME NEW s \in Senders, SendEvent(s)
      PROVE  TypeOK' /\ KindInv'
  <2>1. event[s] \in Events
    BY <1>2 DEF SendEvent, TypeOK, KindInv, KindsOf, NoEvent, Senders
  <2>2. channel' \in Seq(Events) /\ Len(channel') = Len(channel) + 1
    BY <1>2, <2>1, Appended DEF SendEvent, TypeOK
  <2>3. Len(channel') <= Capacity
    BY <1>2, <2>2 DEF SendEvent, TypeOK
  <2>4. at' \in [Senders -> {"idle", "sending", "waking", "waiting"}]
    BY <1>2 DEF SendEvent, TypeOK
  <2>5. TypeOK'
    BY <1>2, <2>2, <2>3, <2>4 DEF SendEvent, WindowUnchanged, config, TypeOK
  <2>6. KindInv'
    BY <1>2 DEF SendEvent, KindInv, TypeOK
  <2> QED BY <2>5, <2>6
<1>3. ASSUME NEW s \in Senders, WakeUp(s)
      PROVE  TypeOK' /\ KindInv'
  <2>1. at' \in [Senders -> {"idle", "sending", "waking", "waiting"}]
    BY <1>3 DEF WakeUp, TypeOK
  <2>2. TypeOK'
    BY <1>3, <2>1 DEF WakeUp, WindowUnchanged, config, TypeOK
  <2>3. KindInv'
    BY <1>3 DEF WakeUp, KindInv, TypeOK
  <2> QED BY <2>2, <2>3
<1>4. ASSUME NEW s \in Senders, TakeAck(s)
      PROVE  TypeOK' /\ KindInv'
  <2>1. at' \in [Senders -> {"idle", "sending", "waking", "waiting"}]
    BY <1>4 DEF TakeAck, TypeOK
  <2>2. acks' \in Nat
    BY <1>4 DEF TakeAck, TypeOK
  <2>3. TypeOK'
    BY <1>4, <2>1, <2>2 DEF TakeAck, WindowUnchanged, config, TypeOK
  <2>4. KindInv'
    BY <1>4 DEF TakeAck, KindInv, TypeOK
  <2> QED BY <2>3, <2>4
<1>5. CASE Input
  BY <1>5 DEF Input, WindowUnchanged, config, TypeOK, KindInv
<1>6. CASE Iterate
  <2>1. channel' \in Seq(Events) /\ Len(channel') <= Capacity
    <3>1. CASE channel = <<>>
      BY <1>6, <3>1 DEF Iterate, TypeOK
    <3>2. CASE channel # <<>>
      <4>1. channel' = Tail(channel)
        BY <1>6, <3>2 DEF Iterate
      <4>2. Tail(channel) \in Seq(Events) /\ Len(Tail(channel)) = Len(channel) - 1
        BY <3>2, Received DEF TypeOK
      <4> QED BY <4>1, <4>2 DEF TypeOK
    <3> QED BY <3>1, <3>2
  <2>2. acks' \in Nat /\ fb_updated' \in BOOLEAN
    <3>1. acks' = acks \/ acks' = acks + 1
      BY <1>6, Zenon DEF Iterate, HandleProtocolEvent
    <3>2. fb_updated' = fb_updated \/ fb_updated' = TRUE
      BY <1>6, Zenon DEF Iterate, HandleProtocolEvent
    <3>3. fb_updated' \in BOOLEAN
      BY <3>2, Zenon DEF TypeOK
    <3> QED BY <3>1, <3>3 DEF TypeOK
  <2>3. wakeups' \in Nat
    BY <1>6 DEF Iterate, TypeOK
  <2>5. pixbuf' \in 0 .. MaxEvents /\ shown' \in 0 .. MaxEvents
    <3>1. CASE channel = <<>>
      BY <1>6, <3>1 DEF Iterate, TypeOK
    <3>2. CASE channel # <<>>
      <4>1. Head(channel).n \in 0 .. MaxEvents
        <5>1. Head(channel) \in Events
          BY <3>2, Received DEF TypeOK
        <5> QED BY <5>1 DEF Events
      <4>2. /\ pixbuf' = pixbuf \/ pixbuf' = Head(channel).n
            /\ shown' = shown \/ shown' = Head(channel).n
        BY <1>6, <3>2, Zenon DEF Iterate, HandleProtocolEvent
      <4> QED BY <4>1, <4>2 DEF TypeOK
    <3> QED BY <3>1, <3>2
  <2>4. UNCHANGED <<config, at, event, sends>>
    BY <1>6 DEF Iterate
  <2> QED BY <2>1, <2>2, <2>3, <2>4, <2>5 DEF config, TypeOK, KindInv
<1>7. CASE Draw
  <2>1. acks' \in Nat /\ fb_updated' \in BOOLEAN
    <3>1. acks' = acks \/ acks' = acks + 1
      BY <1>7 DEF Draw
    <3>2. fb_updated' \in BOOLEAN
      BY <1>7, Zenon DEF Draw
    <3> QED BY <3>1, <3>2 DEF TypeOK
  <2>2. /\ UNCHANGED <<config, at, event, sends, channel, wakeups, pixbuf>>
        /\ shown' = pixbuf
    BY <1>7 DEF Draw
  <2> QED BY <2>1, <2>2 DEF config, TypeOK, KindInv
<1>8. CASE UNCHANGED vars
  BY <1>8 DEF vars, config, TypeOK, KindInv
<1> QED BY <1>1, <1>2, <1>3, <1>4, <1>5, <1>6, <1>7, <1>8 DEF Next, Sender

(* Every step keeps a wakeup for each event: an event that is added comes  *)
(* with a sender that is about to queue one, a wakeup that is taken takes  *)
(* an event along.                                                         *)
LEMMA WakeupStep ==
  ASSUME TypeOK, WakeupForEachEvent, [Next]_vars
  PROVE  WakeupForEachEvent'
<1> DEFINE W == {s \in Senders : at[s] = "waking"}
<1>1. /\ Len(channel) \in Nat /\ wakeups \in Nat /\ Cardinality(W) \in Nat
      /\ Len(channel) <= wakeups + Cardinality(W)
  <2>1. W \in SUBSET Senders /\ "reader" \in Senders
    BY DEF Senders
  <2>2. Cardinality(W) \in Nat
    BY <2>1, CountWaking, Zenon
  <2>3. Len(channel) \in Nat /\ wakeups \in Nat
    BY DEF TypeOK
  <2>4. Len(channel) <= wakeups + Cardinality(W)
    BY Zenon DEF WakeupForEachEvent
  <2> QED BY <2>2, <2>3, <2>4, Zenon
<1>2. SUFFICES Len(channel') <= wakeups' + Cardinality(W')
  BY Zenon DEF WakeupForEachEvent
<1>w. W \in SUBSET Senders
  OBVIOUS
<1> HIDE DEF W
<1>3. ASSUME NEW s \in Senders, StartEvent(s) \/ TakeAck(s)
      PROVE  Len(channel') <= wakeups' + Cardinality(W')
  <2>1. \A t \in Senders : at'[t] = "waking" <=> at[t] = "waking"
    BY <1>3 DEF StartEvent, TakeAck, TypeOK
  <2>2. W' = W
    BY <2>1 DEF W
  <2>3. channel' = channel /\ wakeups' = wakeups
    BY <1>3 DEF StartEvent, TakeAck
  <2> QED BY <1>1, <2>2, <2>3
<1>4. ASSUME NEW s \in Senders, SendEvent(s)
      PROVE  Len(channel') <= wakeups' + Cardinality(W')
  <2>1. s \notin W /\ W' = W \cup {s}
    BY <1>4 DEF SendEvent, TypeOK, W
  <2>2. Cardinality(W') = Cardinality(W) + 1
    BY <2>1, <1>w, CountWaking, Zenon
  <2>3. channel' = Append(channel, event[s]) /\ wakeups' = wakeups
    BY <1>4 DEF SendEvent
  <2>4. Len(channel') = Len(channel) + 1
    BY <2>3 DEF TypeOK
  <2> QED BY <1>1, <2>2, <2>3, <2>4
<1>5. ASSUME NEW s \in Senders, WakeUp(s)
      PROVE  Len(channel') <= wakeups' + Cardinality(W')
  <2>1. s \in W /\ W' = W \ {s}
    BY <1>5 DEF WakeUp, TypeOK, W
  <2>2. Cardinality(W') = Cardinality(W) - 1
    BY <2>1, <1>w, CountWaking, Zenon
  <2>3. channel' = channel /\ wakeups' = wakeups + 1
    BY <1>5 DEF WakeUp
  <2> QED BY <1>1, <2>2, <2>3
<1>6. CASE Input
  <2>1. channel' = channel /\ wakeups' = wakeups + 1 /\ W' = W
    BY <1>6 DEF Input, W
  <2> QED BY <1>1, <2>1
<1>7. CASE Iterate
  <2>1. wakeups > 0 /\ wakeups' = wakeups - 1 /\ W' = W
    BY <1>7 DEF Iterate, W
  <2>2. CASE channel = <<>>
    <3>1. Len(channel') = 0
      BY <1>7, <2>2 DEF Iterate
    <3> QED BY <1>1, <2>1, <3>1
  <2>3. CASE channel # <<>>
    <3>1. channel' = Tail(channel)
      BY <1>7, <2>3 DEF Iterate
    <3>2. Len(channel') = Len(channel) - 1
      BY <2>3, <3>1, Received DEF TypeOK
    <3> QED BY <1>1, <2>1, <3>2
  <2> QED BY <2>2, <2>3
<1>8. CASE Draw
  <2>1. channel' = channel /\ wakeups' = wakeups /\ W' = W
    BY <1>8 DEF Draw, W
  <2> QED BY <1>1, <2>1
<1>9. CASE UNCHANGED vars
  <2>1. channel' = channel /\ wakeups' = wakeups /\ W' = W
    BY <1>9 DEF vars, W
  <2> QED BY <1>1, <2>1
<1> QED BY <1>3, <1>4, <1>5, <1>6, <1>7, <1>8, <1>9 DEF Next, Sender

(* A step that leaves the window alone and neither the updater's event nor *)
(* the channel's pictures changes keeps the picture where it is.           *)
LEMMA PictureStays ==
  ASSUME SyncInv, throttle' = throttle,
         UNCHANGED <<fb_updated, pixbuf, shown, acks>>,
         event'["updater"] = event["updater"], UnderWay' <=> UnderWay,
         channel' = channel
  PROVE  throttle' => IF UnderWay' THEN InChannel' \/ Undrawn' \/ Acknowledged'
                      ELSE Nowhere'
BY Zenon DEF SyncInv, InChannel, Undrawn, Acknowledged, Nowhere, NoFrame, IsFrame

(* Sending: an event of the reader is no picture, and that of the updater  *)
(* finds none.                                                             *)
LEMMA SendSync ==
  ASSUME TypeOK, KindInv, SyncInv, NEW s \in Senders, SendEvent(s)
  PROVE  SyncInv'
<1>1. channel' = Append(channel, event[s]) /\ at[s] = "sending"
      /\ at' = [at EXCEPT ![s] = "waking"]
      /\ UNCHANGED <<event, throttle, fb_updated, pixbuf, shown, acks>>
  BY DEF SendEvent, WindowUnchanged, config
<1>2. event[s] \in Events /\ event[s].kind \in KindsOf(s)
  BY <1>1 DEF TypeOK, KindInv, KindsOf, NoEvent, Senders
<1>3. /\ DOMAIN channel' = DOMAIN channel \cup {Len(channel) + 1}
      /\ \A i \in DOMAIN channel : channel'[i] = channel[i]
      /\ channel'[Len(channel) + 1] = event[s]
      /\ Len(channel) + 1 \notin DOMAIN channel
  BY <1>1, <1>2, Appended DEF TypeOK
<1>4. \A i \in DOMAIN channel : IsFrame(i)' <=> IsFrame(i)
  BY <1>3 DEF IsFrame
<1>5. \A t \in Senders : at'[t] = "waiting" =>
                           throttle' /\ UnderWay' /\ t = "updater"
  BY <1>1 DEF SyncInv, UnderWay, TypeOK, Senders
<1>6. CASE s = "reader"
  <2>1. event[s].kind # "frame" /\ (UnderWay' <=> UnderWay)
    BY <1>1, <1>2, <1>6 DEF KindsOf, UnderWay, TypeOK, Senders
  <2>2. /\ \A i \in DOMAIN channel' : IsFrame(i)' => i \in DOMAIN channel /\ IsFrame(i)
        /\ \A i \in DOMAIN channel : IsFrame(i) => i \in DOMAIN channel' /\ IsFrame(i)'
    BY <1>3, <1>4, <2>1 DEF IsFrame
  <2>3. (NoFrame => NoFrame') /\ (InChannel => InChannel')
    <3>1. NoFrame => NoFrame'
      BY <2>2 DEF NoFrame
    <3>2. InChannel => InChannel'
      BY <1>1, <1>3, <2>2 DEF InChannel
    <3> QED BY <3>1, <3>2
  <2>4. throttle' => IF UnderWay' THEN InChannel' \/ Undrawn' \/ Acknowledged'
                     ELSE Nowhere'
    BY <1>1, <2>1, <2>3 DEF SyncInv, Undrawn, Acknowledged, Nowhere
  <2> QED BY <1>5, <2>4 DEF SyncInv
<1>7. CASE s = "updater"
  <2>1. ~ UnderWay /\ (UnderWay' <=> event[s].kind = "frame")
    BY <1>1, <1>7 DEF UnderWay, TypeOK, Senders
  <2>2. ASSUME throttle'
        PROVE  IF UnderWay' THEN InChannel' \/ Undrawn' \/ Acknowledged'
               ELSE Nowhere'
    <3>1. NoFrame /\ ~ fb_updated /\ acks = 0
      BY <1>1, <2>1, <2>2 DEF SyncInv, Nowhere
    <3>2. \A i \in DOMAIN channel' : IsFrame(i)' =>
            i = Len(channel) + 1 /\ event[s].kind = "frame"
      BY <1>3, <1>4, <3>1 DEF NoFrame, IsFrame
    <3>3. CASE event[s].kind = "frame"
      <4>1. InChannel'
        <5>1. Len(channel) + 1 \in DOMAIN channel'
          BY <1>3
        <5>2. \A i \in DOMAIN channel' : IsFrame(i)' => i = Len(channel) + 1
          BY <3>2
        <5>3. channel'[Len(channel) + 1] = event'["updater"]
          BY <1>1, <1>3, <1>7
        <5>4. \E i \in DOMAIN channel' : IsFrame(i)'
          BY <5>1, <1>3, <3>3 DEF IsFrame
        <5>5. ~ fb_updated' /\ acks' = 0
          BY <1>1, <3>1
        <5> QED BY <5>2, <5>3, <5>4, <5>5 DEF InChannel
      <4> QED BY <2>1, <3>3, <4>1
    <3>4. CASE event[s].kind # "frame"
      <4>1. Nowhere'
        BY <1>1, <3>1, <3>2, <3>4 DEF Nowhere, NoFrame
      <4> QED BY <2>1, <3>4, <4>1
    <3> QED BY <3>3, <3>4
  <2> QED BY <1>5, <2>2 DEF SyncInv
<1> QED BY <1>6, <1>7 DEF Senders

(* The main loop takes an event: if it is the picture, SDL shows and       *)
(* acknowledges it, and GTK keeps it to be drawn.                          *)
LEMMA IterateSync ==
  ASSUME TypeOK, SyncInv, Iterate
  PROVE  SyncInv'
<1>1. UNCHANGED <<throttle, toolkit, at, event>>
  BY DEF Iterate, config
<1>2. UnderWay' <=> UnderWay
  BY <1>1 DEF UnderWay
<1>3. \A t \in Senders : at'[t] = "waiting" =>
                           throttle' /\ UnderWay' /\ t = "updater"
  BY <1>1, <1>2 DEF SyncInv
<1>4. CASE channel = <<>>
  <2>1. UNCHANGED <<channel, fb_updated, pixbuf, shown, acks>>
    BY <1>4 DEF Iterate
  <2> QED BY <1>1, <1>2, <1>3, <2>1, PictureStays DEF SyncInv
<1>5. CASE channel # <<>>
  <2>1. channel' = Tail(channel) /\ HandleProtocolEvent(channel[1])
    <3>1. channel' = Tail(channel) /\ HandleProtocolEvent(Head(channel))
      BY <1>5 DEF Iterate
    <3>2. Head(channel) = channel[1]
      BY <1>5, Received DEF TypeOK
    <3> QED BY <3>1, <3>2
  <2>2. /\ \A i \in DOMAIN channel' : i + 1 \in DOMAIN channel /\ channel'[i] = channel[i + 1]
        /\ \A i \in DOMAIN channel : i = 1 \/ i - 1 \in DOMAIN channel'
        /\ 1 \in DOMAIN channel
        /\ DOMAIN channel \subseteq Nat /\ DOMAIN channel' \subseteq Nat
    BY <1>5, <2>1, Received DEF TypeOK
  <2>3. \A i \in DOMAIN channel' : IsFrame(i)' <=> IsFrame(i + 1)
    BY <2>2 DEF IsFrame
  <2>4. NoFrame => NoFrame'
    BY <2>2, <2>3 DEF NoFrame
  <2>5. CASE ~ IsFrame(1)
    <3>1. UNCHANGED <<fb_updated, pixbuf, shown, acks>>
      BY <2>1, <2>5 DEF HandleProtocolEvent, IsFrame
    <3>2. ASSUME InChannel PROVE InChannel'
      <4>1. PICK i \in DOMAIN channel : IsFrame(i)
        BY <3>2 DEF InChannel
      <4>2. i - 1 \in DOMAIN channel' /\ IsFrame(i - 1)'
        <5>1. i # 1 /\ i \in Nat
          BY <2>2, <2>5, <4>1
        <5>2. i - 1 \in DOMAIN channel' /\ channel'[i - 1] = channel[i]
          BY <2>2, <5>1
        <5> QED BY <4>1, <5>2 DEF IsFrame
      <4>3. \A j, k \in DOMAIN channel' : IsFrame(j)' /\ IsFrame(k)' => j = k
        BY <2>2, <2>3, <3>2 DEF InChannel
      <4>4. \A j \in DOMAIN channel' : IsFrame(j)' => channel'[j] = event'["updater"]
        BY <1>1, <2>2, <2>3, <3>2 DEF InChannel
      <4>5. ~ fb_updated' /\ acks' = 0
        BY <3>1, <3>2 DEF InChannel
      <4> QED BY <4>2, <4>3, <4>4, <4>5 DEF InChannel
    <3>3. throttle' => IF UnderWay' THEN InChannel' \/ Undrawn' \/ Acknowledged'
                       ELSE Nowhere'
      BY <1>1, <1>2, <2>4, <3>1, <3>2 DEF SyncInv, Undrawn, Acknowledged, Nowhere
    <3> QED BY <1>3, <3>3 DEF SyncInv
  <2>6. ASSUME IsFrame(1), throttle
        PROVE  UnderWay' /\ (Undrawn' \/ Acknowledged')
    <3>1. ~ NoFrame
      BY <2>2, <2>6 DEF NoFrame
    <3>2. UnderWay /\ InChannel
      BY <2>6, <3>1 DEF SyncInv, Undrawn, Acknowledged, Nowhere
    <3>3. channel[1] = event["updater"]
      BY <2>2, <2>6, <3>2 DEF InChannel
    <3>4. NoFrame'
      <4> SUFFICES ASSUME NEW i \in DOMAIN channel', IsFrame(i)' PROVE FALSE
        BY DEF NoFrame
      <4>1. i + 1 \in DOMAIN channel /\ IsFrame(i + 1) /\ i \in Nat \ {0}
        BY <2>1, <2>2, <2>3, <1>5 DEF TypeOK
      <4>2. i + 1 = 1
        BY <2>2, <2>6, <3>2, <4>1 DEF InChannel
      <4> QED BY <4>1, <4>2
    <3>5. pixbuf' = event'["updater"].n
      BY <1>1, <2>1, <2>6, <3>3 DEF HandleProtocolEvent, IsFrame
    <3>6. ~ fb_updated /\ acks = 0
      BY <3>2 DEF InChannel
    <3>7. CASE toolkit = "sdl"
      <4>1. shown' = pixbuf' /\ acks' = 1 /\ fb_updated' = fb_updated
        BY <2>1, <2>6, <3>6, <3>7 DEF HandleProtocolEvent, IsFrame
      <4> QED BY <1>2, <3>2, <3>4, <3>5, <3>6, <4>1 DEF Acknowledged
    <3>8. CASE toolkit # "sdl"
      <4>1. fb_updated' /\ acks' = 0
        BY <2>1, <2>6, <3>6, <3>8 DEF HandleProtocolEvent, IsFrame
      <4> QED BY <1>2, <3>2, <3>4, <3>5, <4>1 DEF Undrawn
    <3> QED BY <3>7, <3>8
  <2>7. CASE IsFrame(1)
    BY <1>1, <1>3, <2>6, <2>7 DEF SyncInv
  <2> QED BY <2>5, <2>7
<1> QED BY <1>4, <1>5

(* Drawing acknowledges the picture if it is one that was not drawn yet.   *)
LEMMA DrawSync ==
  ASSUME SyncInv, Draw
  PROVE  SyncInv'
<1>1. UNCHANGED <<throttle, at, event, channel, pixbuf>>
  BY DEF Draw, config
<1>2. UnderWay' <=> UnderWay
  BY <1>1 DEF UnderWay
<1>3. NoFrame' <=> NoFrame
  BY <1>1 DEF NoFrame, IsFrame
<1>4. \A t \in Senders : at'[t] = "waiting" =>
                           throttle' /\ UnderWay' /\ t = "updater"
  BY <1>1, <1>2 DEF SyncInv
<1>5. shown' = pixbuf' /\ ~ fb_updated'
  BY <1>1 DEF Draw
<1>6. InChannel => InChannel'
  BY <1>1, <1>5 DEF InChannel, IsFrame, Draw
<1>7. Undrawn => Acknowledged'
  BY <1>1, <1>3, <1>5 DEF Undrawn, Acknowledged, Draw
<1>8. Acknowledged => Acknowledged'
  BY <1>1, <1>3, <1>5 DEF Acknowledged, Draw
<1>9. Nowhere => Nowhere'
  BY <1>1, <1>3, <1>5 DEF Nowhere, Draw
<1> QED BY <1>1, <1>2, <1>4, <1>6, <1>7, <1>8, <1>9 DEF SyncInv

(* Every step keeps the picture of a synchronous update in one place.      *)
LEMMA SyncStep ==
  ASSUME TypeOK, KindInv, SyncInv, [Next]_vars
  PROVE  SyncInv'
<1>1. ASSUME NEW s \in Senders, StartEvent(s) PROVE SyncInv'
  <2>1. /\ at[s] = "idle" /\ at' = [at EXCEPT ![s] = "sending"]
        /\ \A t \in Senders \ {s} : event'[t] = event[t]
        /\ UNCHANGED <<throttle, channel, fb_updated, pixbuf, shown, acks>>
    BY <1>1 DEF StartEvent, WindowUnchanged, config, TypeOK
  <2>2. \A t \in Senders : at'[t] = "waiting" =>
                             throttle' /\ UnderWay' /\ t = "updater"
    BY <2>1 DEF SyncInv, UnderWay, TypeOK, Senders
  <2>3. CASE s = "updater"
    <3>1. ~ UnderWay /\ ~ UnderWay'
      BY <2>1, <2>3 DEF UnderWay, TypeOK, Senders
    <3>2. throttle' => Nowhere'
      BY <2>1, <3>1 DEF SyncInv, Nowhere, NoFrame, IsFrame
    <3> QED BY <2>2, <3>1, <3>2 DEF SyncInv
  <2>4. CASE s # "updater"
    <3>1. event'["updater"] = event["updater"] /\ (UnderWay' <=> UnderWay)
      BY <2>1, <2>4 DEF UnderWay, TypeOK, Senders
    <3> QED BY <2>1, <2>2, <3>1, PictureStays DEF SyncInv
  <2> QED BY <2>3, <2>4
<1>2. ASSUME NEW s \in Senders, SendEvent(s) PROVE SyncInv'
  BY <1>2, SendSync
<1>3. ASSUME NEW s \in Senders, WakeUp(s) PROVE SyncInv'
  <2>1. /\ at[s] = "waking"
        /\ at' = [at EXCEPT ![s] = IF throttle /\ event[s].kind = "frame"
                                   THEN "waiting" ELSE "idle"]
        /\ UNCHANGED <<throttle, event, channel, fb_updated, pixbuf, shown, acks>>
    BY <1>3 DEF WakeUp, WindowUnchanged, config
  <2>2. event[s].kind = "frame" => s = "updater"
    BY <2>1 DEF KindInv, KindsOf, Senders
  <2>3. \A t \in Senders : at'[t] = "waiting" =>
                             throttle' /\ UnderWay' /\ t = "updater"
    BY <2>1, <2>2 DEF SyncInv, UnderWay, TypeOK, Senders
  <2>4. throttle => (UnderWay' <=> UnderWay)
    BY <2>1, <2>2 DEF UnderWay, TypeOK, Senders
  <2>5. CASE throttle
    BY <2>1, <2>3, <2>4, <2>5, PictureStays DEF SyncInv
  <2>6. CASE ~ throttle
    BY <2>1, <2>3, <2>6 DEF SyncInv
  <2> QED BY <2>5, <2>6
<1>4. ASSUME NEW s \in Senders, TakeAck(s) PROVE SyncInv'
  <2>1. /\ at[s] = "waiting" /\ acks > 0 /\ acks' = acks - 1
        /\ at' = [at EXCEPT ![s] = "idle"]
        /\ UNCHANGED <<throttle, event, channel, fb_updated, pixbuf, shown>>
    BY <1>4 DEF TakeAck, WindowUnchanged, config
  <2>2. throttle /\ UnderWay /\ s = "updater"
    BY <2>1 DEF SyncInv
  <2>3. Acknowledged
    BY <2>1, <2>2 DEF SyncInv, InChannel, Undrawn
  <2>4. Nowhere'
    BY <2>1, <2>3 DEF Acknowledged, Nowhere, NoFrame, IsFrame
  <2>5. ~ UnderWay'
    BY <2>1, <2>2 DEF UnderWay, TypeOK, Senders
  <2>6. \A t \in Senders : at'[t] # "waiting"
    BY <2>1, <2>2 DEF SyncInv, TypeOK, Senders
  <2> QED BY <2>4, <2>5, <2>6 DEF SyncInv
<1>5. CASE Input
  <2>1. UNCHANGED <<throttle, at, event, channel, fb_updated, pixbuf, shown, acks>>
    BY <1>5 DEF Input, WindowUnchanged, config
  <2> QED BY <2>1, PictureStays DEF SyncInv, UnderWay
<1>6. CASE Iterate
  BY <1>6, IterateSync
<1>7. CASE Draw
  BY <1>7, DrawSync
<1>8. CASE UNCHANGED vars
  <2>1. UNCHANGED <<throttle, at, event, channel, fb_updated, pixbuf, shown, acks>>
    BY <1>8 DEF vars, config
  <2> QED BY <2>1, PictureStays DEF SyncInv, UnderWay
<1> QED BY <1>1, <1>2, <1>3, <1>4, <1>5, <1>6, <1>7, <1>8 DEF Next, Sender

(* The invariant holds in every state.                                     *)
LEMMA Invariant == Spec => []IInv
<1>1. IInv /\ [Next]_vars => IInv'
  BY TypeStep, WakeupStep, SyncStep DEF IInv
<1> QED BY InitInv, <1>1, PTL DEF Spec

-----------------------------------------------------------------------------
(* The channel never holds more than its capacity, and events and pictures *)
(* are ones that were sent.                                                *)
THEOREM TypeCorrect == Spec => []TypeOK
BY Invariant, PTL DEF IInv

(* For any capacity of the channel: no event waits in it without a wakeup  *)
(* that will fetch it.                                                     *)
THEOREM EventsAreFetched == Spec => []WakeupForEachEvent
BY Invariant, PTL DEF IInv

(* update_framebuffer_sync returns when its own picture is in the window.  *)
THEOREM SyncReturnsForItsOwn == Spec => SyncMeansShown
<1>1. IInv /\ [Next]_vars =>
        [\A s \in Senders :
           at[s] = "waiting" /\ at'[s] = "idle" => shown = event[s].n]_vars
  <2> SUFFICES ASSUME IInv, [Next]_vars, NEW s \in Senders,
                      at[s] = "waiting", at'[s] = "idle"
               PROVE  shown = event[s].n
    OBVIOUS
  <2>1. throttle /\ UnderWay /\ s = "updater"
    BY DEF IInv, SyncInv
  <2>2. TakeAck("updater")
    <3>1. ASSUME NEW t \in Senders, StartEvent(t) \/ SendEvent(t) \/ WakeUp(t)
          PROVE  FALSE
      BY <2>1, <3>1 DEF StartEvent, SendEvent, WakeUp, IInv, TypeOK
    <3>2. ASSUME NEW t \in Senders, TakeAck(t) PROVE t = "updater"
      BY <3>2 DEF TakeAck, IInv, SyncInv
    <3>3. ~ Input /\ ~ Iterate /\ ~ Draw /\ ~ UNCHANGED vars
      BY DEF Input, Iterate, Draw, vars
    <3> QED BY <3>1, <3>2, <3>3 DEF Next, Sender
  <2>3. Acknowledged
    BY <2>1, <2>2 DEF TakeAck, IInv, SyncInv, InChannel, Undrawn
  <2> QED BY <2>1, <2>3 DEF Acknowledged
<1> QED BY Invariant, <1>1, PTL DEF Spec, SyncMeansShown

-----------------------------------------------------------------------------
(* Waiting for the main loop                                               *)

(* A sender that waits has an event in the channel, hence a wakeup, or its *)
(* picture is to be drawn: for a channel of any capacity the main loop has *)
(* something to do.                                                        *)
THEOREM NoDeadlock == Spec => []NobodyIsStuck
<1>1. ASSUME IInv, NEW s \in Senders, ~ SenderCanGoOn(s)
      PROVE  channel # <<>> \/ fb_updated
  <2>1. CASE at[s] = "sending"
    BY <1>1, <2>1, ViewAssumption DEF ViewAssumption, SenderCanGoOn, IInv, TypeOK
  <2>2. CASE at[s] = "waiting" /\ acks = 0
    BY <1>1, <2>2 DEF IInv, SyncInv, InChannel, Undrawn, Acknowledged
  <2>3. acks \in Nat
    BY <1>1 DEF IInv, TypeOK
  <2> QED BY <1>1, <2>1, <2>2, <2>3 DEF SenderCanGoOn
<1>2. ASSUME IInv, channel # <<>>
      PROVE  wakeups > 0 \/ \E s \in Senders : at[s] = "waking"
  <2>1. Len(channel) > 0 /\ wakeups \in Nat
    BY <1>2 DEF IInv, TypeOK
  <2>2. CASE {s \in Senders : at[s] = "waking"} = {}
    <3>1. Cardinality({s \in Senders : at[s] = "waking"}) = 0
      BY <2>2, FS_EmptySet
    <3> QED BY <1>2, <2>1, <3>1 DEF IInv, WakeupForEachEvent
  <2> QED BY <2>2
<1>3. IInv => NobodyIsStuck
  BY <1>1, <1>2 DEF NobodyIsStuck
<1> QED BY <1>3, Invariant, PTL

-----------------------------------------------------------------------------
(* The queue of events                                                     *)

\* The channel, the acknowledgements and the steps as the queue sees them.
KindsIn(q) == [i \in DOMAIN q |-> q[i].kind]
Taken == IF ~ throttle THEN 0 ELSE IF fb_updated THEN acks + 1 ELSE acks
QueueStep == [EQ!Next]_(EQ!vars)

(* The kinds of a channel that grows or shrinks.                           *)
LEMMA KindsAfter ==
  ASSUME NEW q \in Seq(Events), NEW e \in Events
  PROVE  /\ KindsIn(q) \in Seq(UNION {KindsOf(s) : s \in Senders})
         /\ Len(KindsIn(q)) = Len(q)
         /\ KindsIn(Append(q, e)) = Append(KindsIn(q), e.kind)
         /\ q # <<>> => /\ KindsIn(q) # <<>> /\ Head(KindsIn(q)) = Head(q).kind
                        /\ KindsIn(Tail(q)) = Tail(KindsIn(q))
<1> DEFINE K == UNION {KindsOf(s) : s \in Senders}
<1>1. DOMAIN q = 1 .. Len(q) /\ Len(q) \in Nat /\ \A i \in DOMAIN q : q[i].kind \in K
  <2>1. DOMAIN q = 1 .. Len(q) /\ Len(q) \in Nat /\ \A i \in DOMAIN q : q[i] \in Events
    OBVIOUS
  <2>2. \A f \in Events : f.kind \in K
    BY DEF Events
  <2> QED BY <2>1, <2>2
<1> HIDE DEF K
<1>2. KindsIn(q) \in Seq(K) /\ Len(KindsIn(q)) = Len(q)
  <2>1. KindsIn(q) \in [1 .. Len(q) -> K]
    BY <1>1 DEF KindsIn
  <2> QED BY <1>1, <2>1
<1>3. e.kind \in K
  BY DEF Events, K
<1>4. KindsIn(Append(q, e)) = Append(KindsIn(q), e.kind)
  BY <1>2, <1>3 DEF KindsIn
<1>5. ASSUME q # <<>>
      PROVE  /\ KindsIn(q) # <<>> /\ Head(KindsIn(q)) = Head(q).kind
             /\ KindsIn(Tail(q)) = Tail(KindsIn(q))
  BY <1>2, <1>5 DEF KindsIn
<1> QED BY <1>2, <1>4, <1>5 DEF K

(* Every step of a toolkit is one of the queue: handling a picture         *)
(* acknowledges it there, drawing it later is not seen.                    *)
LEMMA QueueSteps == IInv /\ [Next]_vars => QueueStep
<1> SUFFICES ASSUME IInv, [Next]_vars PROVE QueueStep
  OBVIOUS
<1> DEFINE kinds == KindsIn(channel)
<1>c. /\ EQ!vars = <<throttle, kinds, Taken>>
      /\ UNCHANGED <<throttle, kinds, Taken>> => QueueStep
  BY DEF EQ!vars, KindsIn, Taken, QueueStep
<1>1. CASE UNCHANGED <<throttle, channel, fb_updated, acks>>
  BY <1>1, <1>c DEF Taken, KindsIn
<1>2. ASSUME NEW s \in Senders, SendEvent(s) PROVE QueueStep
  <2>1. /\ Len(channel) < Capacity /\ channel' = Append(channel, event[s])
        /\ UNCHANGED <<throttle, fb_updated, acks>>
        /\ at[s] = "sending"
    BY <1>2 DEF SendEvent, WindowUnchanged, config
  <2>2. channel \in Seq(Events) /\ event[s] \in Events
    BY <2>1 DEF IInv, TypeOK, KindInv, KindsOf, NoEvent, Senders
  <2>3. /\ kinds' = Append(kinds, event[s].kind) /\ Len(kinds) < Capacity
        /\ event[s].kind \in UNION {KindsOf(t) : t \in Senders}
    BY <2>1, <2>2, KindsAfter DEF Events
  <2>4. UNCHANGED Taken
    BY <2>1 DEF Taken
  <2>5. EQ!Send
    BY <2>1, <2>3, <2>4 DEF EQ!Send, KindsIn, Taken
  <2> QED BY <2>5 DEF QueueStep, EQ!Next
<1>3. ASSUME NEW s \in Senders, TakeAck(s) PROVE QueueStep
  <2>1. /\ acks > 0 /\ acks' = acks - 1 /\ at[s] = "waiting"
        /\ UNCHANGED <<throttle, channel, fb_updated>>
    BY <1>3 DEF TakeAck, WindowUnchanged, config
  <2>2. throttle /\ acks \in Nat
    BY <2>1 DEF IInv, TypeOK, SyncInv
  <2>3. Taken > 0 /\ Taken' = Taken - 1 /\ UNCHANGED kinds
    BY <2>1, <2>2 DEF Taken, KindsIn
  <2>4. EQ!Acknowledge
    BY <2>1, <2>3 DEF EQ!Acknowledge, KindsIn, Taken
  <2> QED BY <2>4 DEF QueueStep, EQ!Next
<1>4. CASE Iterate /\ channel # <<>>
  <2>1. /\ HandleProtocolEvent(Head(channel)) /\ channel' = Tail(channel)
        /\ UNCHANGED throttle
    BY <1>4 DEF Iterate, config
  <2>2. channel \in Seq(Events) /\ Head(channel) \in Events /\ acks \in Nat
    BY <1>4, Received DEF IInv, TypeOK
  <2>3. kinds # <<>> /\ kinds' = Tail(kinds) /\ Head(kinds) = Head(channel).kind
    BY <1>4, <2>1, <2>2, KindsAfter
  <2>4. throttle /\ Head(channel).kind = "frame" => ~ fb_updated
    <3>1. IsFrame(1) <=> Head(channel).kind = "frame"
      BY <1>4, <2>2, Received DEF IsFrame
    <3>2. 1 \in DOMAIN channel
      BY <1>4, <2>2, Received
    <3> QED BY <3>1, <3>2
        DEF IInv, SyncInv, InChannel, Undrawn, Acknowledged, Nowhere, NoFrame
  <2>5. Taken' = IF throttle /\ Head(kinds) = "frame" THEN Taken + 1 ELSE Taken
    BY <2>1, <2>2, <2>3, <2>4 DEF HandleProtocolEvent, Taken
  <2>6. EQ!Take
    BY <2>1, <2>3, <2>5 DEF EQ!Take, KindsIn, Taken
  <2> QED BY <2>6 DEF QueueStep, EQ!Next
<1>5. CASE Draw
  <2>1. UNCHANGED <<throttle, channel>> /\ Taken' = Taken
    BY <1>5 DEF Draw, config, Taken
  <2> QED BY <2>1, <1>c DEF KindsIn
<1> QED BY <1>1, <1>2, <1>3, <1>4, <1>5
    DEF Next, Sender, StartEvent, WakeUp, Input, Iterate, WindowUnchanged, config, vars

(* Either toolkit implements the queue of events that FramePipeline uses,  *)
(* for a channel of any capacity and any number of events.                 *)
THEOREM RefinesEventQueue == Spec => ImplementsEventQueue
<1>1. IInv /\ Init => EQ!Init
  BY DEF Init, EQ!Init, IInv, TypeOK
<1>2. IInv /\ [Next]_vars => [EQ!Next]_(EQ!vars)
  BY QueueSteps DEF QueueStep
<1> QED BY <1>1, <1>2, InitInv, Invariant, PTL DEF Spec, ImplementsEventQueue, EQ!Spec
=============================================================================
