-------------------------- MODULE ViewInputProofs ---------------------------
(***************************************************************************)
(* What the servers believe to be pressed, for any number of keys, letters *)
(* and buttons and a queue of any length, in both toolkits.                *)
(*                                                                         *)
(* What is queued decides about what will be pressed, so the invariants    *)
(* say of every state what the rest of the queue will make of it.          *)
(***************************************************************************)
EXTENDS ViewInput, TLAPS

IsMouse(e) ==
  e.type \in {"MouseButtonDown", "MouseButtonUp", "MouseMotion", "MouseWheel"}

\* After the first i events of q button b is pressed or not, as p says, if it
\* is so now that the buttons x are pressed.  First, where none of its events
\* follows; second, where one does.
LastSays(q, i, b, x, p) ==
  (\A j \in DOMAIN q : j > i => ~ EventOf(q[j], b)) => (p <=> b \in x)
NextSays(q, i, b, p) ==
  \A j \in DOMAIN q :
    /\ j > i /\ EventOf(q[j], b)
    /\ \A l \in DOMAIN q : i < l /\ l < j => ~ EventOf(q[l], b)
    => (p <=> q[j].type = "MouseButtonUp")

\* What the server told last believes, and what every event of GTK and the
\* events of the button itself say, is so.
ButtonInv ==
  \A b \in Buttons :
    /\ LastSays(queue, 0, b, buttons, b \in server_buttons[told])
    /\ Gtk => NextSays(queue, 0, b, b \in server_buttons[told])
    /\ \A i \in DOMAIN queue :
         IsMouse(queue[i]) /\ (Gtk \/ EventOf(queue[i], b))
           => /\ LastSays(queue, i, b, buttons, b \in GtkButtons(queue[i]))
              /\ Gtk => NextSays(queue, i, b, b \in GtkButtons(queue[i]))

\* Key k, and some key, goes up after the first i events of q.
GoesUp(q, i, k) ==
  \E j \in DOMAIN q : j > i /\ q[j].type = "KeyUp" /\ q[j].key = k
SomeGoesUp(q, i) == \E k \in Keys : GoesUp(q, i, k)

\* A key that is no letter, and is or will be pressed at the server, is held or
\* goes up later.
KeyInv ==
  /\ \A i \in DOMAIN queue :
       queue[i].type = "KeyDown" /\ queue[i].key \notin Letters
         => queue[i].key \in held \/ GoesUp(queue, i, queue[i].key)
  /\ \A i \in DOMAIN queue :
       queue[i].type = "TextInput" => queue[i].keysym[1] \in Letters
  /\ \A keysym \in server_keys :
       keysym[1] \notin Letters
         => /\ keysym = Keycode(keysym[1])
            /\ keysym[1] \in held \/ GoesUp(queue, 0, keysym[1])

\* Without Ctrl, a letter that is pressed at the server is among the texts that
\* SDL waits to see released, and while it waits in vain some key goes up.
TextInv ==
  /\ \A i \in DOMAIN queue :
       queue[i].type \in {"KeyDown", "KeyUp"} => "Ctrl" \notin queue[i].keymod
  /\ \A keysym \in server_keys :
       keysym[1] \in Letters => keysym \in pressed_text_keysyms
  /\ \A keysym \in pressed_text_keysyms : keysym[1] \in held \/ SomeGoesUp(queue, 0)
  /\ \A i \in DOMAIN queue :
       queue[i].type = "TextInput"
         => queue[i].keysym[1] \in held \/ SomeGoesUp(queue, i)

IInv ==
  /\ TypeOK
  /\ ButtonInv
  /\ KeyInv
  /\ toolkit = "sdl" /\ "Ctrl" \notin Keys => TextInv

-----------------------------------------------------------------------------
(* Lemmas about events and the queue                                       *)

Events == KeyEvents \cup TextEvents \cup MouseEvents

(* What the toolkit's events consist of.                                   *)
LEMMA EventParts ==
  ASSUME NEW e \in Events
  PROVE  /\ e \in KeyEvents <=> e.type \in {"KeyDown", "KeyUp"}
         /\ e \in TextEvents <=> e.type = "TextInput"
         /\ e \in MouseEvents <=> IsMouse(e)
         /\ e.type \in {"KeyDown", "KeyUp", "TextInput", "MouseButtonDown",
                        "MouseButtonUp", "MouseMotion", "MouseWheel"}
         /\ e \in KeyEvents => e.key \in Keys /\ e.keymod \subseteq {"Shift", "Ctrl"}
         /\ e \in TextEvents => e.keysym \in Keysyms
         /\ e \in MouseEvents => /\ e.state \subseteq Buttons /\ Wheel(e) \subseteq Scroll
                                 /\ Down(e) \subseteq Buttons /\ Up(e) \subseteq Buttons
  BY DEF Events, KeyEvents, TextEvents, MouseEvents, IsMouse, Wheel, Down, Up

(* What the toolkit queues are events.                                     *)
LEMMA EventsMade ==
  /\ \A k \in Keys : \A m \in SUBSET {"Shift", "Ctrl"} :
       /\ [type |-> "KeyDown", key |-> k, keymod |-> m] \in Events
       /\ [type |-> "KeyUp", key |-> k, keymod |-> m] \in Events
       /\ [type |-> "TextInput", keysym |-> Keysym(k, m)] \in Events
  /\ \A b \in Buttons : \A s \in SUBSET Buttons :
       /\ [type |-> "MouseButtonDown", button |-> b, state |-> s] \in Events
       /\ [type |-> "MouseButtonUp", button |-> b, state |-> s] \in Events
  /\ \A s \in SUBSET Buttons :
       /\ [type |-> "MouseMotion", state |-> s] \in Events
       /\ \A y \in Scroll : [type |-> "MouseWheel", y |-> y, state |-> s] \in Events
<1>1. \A k \in Keys : \A m : Keysym(k, m) \in Keysyms
  BY DEF Keysym, Keysyms
<1>2. \A k \in Keys : \A m \in SUBSET {"Shift", "Ctrl"} :
        /\ [type |-> "KeyDown", key |-> k, keymod |-> m] \in KeyEvents
        /\ [type |-> "KeyUp", key |-> k, keymod |-> m] \in KeyEvents
        /\ [type |-> "TextInput", keysym |-> Keysym(k, m)] \in TextEvents
  BY <1>1 DEF KeyEvents, TextEvents
<1>3. \A b \in Buttons : \A s \in SUBSET Buttons :
        /\ [type |-> "MouseButtonDown", button |-> b, state |-> s] \in MouseEvents
        /\ [type |-> "MouseButtonUp", button |-> b, state |-> s] \in MouseEvents
  BY DEF MouseEvents
<1>4. \A s \in SUBSET Buttons :
        /\ [type |-> "MouseMotion", state |-> s] \in MouseEvents
        /\ \A y \in Scroll : [type |-> "MouseWheel", y |-> y, state |-> s] \in MouseEvents
  BY DEF MouseEvents
<1> QED BY <1>2, <1>3, <1>4 DEF Events

(* What a new event does to the queue.                                     *)
LEMMA Queued ==
  ASSUME NEW S, NEW q \in Seq(S), NEW e \in S
  PROVE  /\ Append(q, e) \in Seq(S)
         /\ Len(q) \in Nat /\ Len(Append(q, e)) = Len(q) + 1
         /\ DOMAIN q = 1 .. Len(q) /\ DOMAIN Append(q, e) = 1 .. (Len(q) + 1)
         /\ \A i \in 1 .. Len(q) : Append(q, e)[i] = q[i]
         /\ Append(q, e)[Len(q) + 1] = e
  OBVIOUS

(* What handling an event does to the queue.                               *)
LEMMA Dequeued ==
  ASSUME NEW S, NEW q \in Seq(S), q # <<>>
  PROVE  /\ Tail(q) \in Seq(S)
         /\ Len(q) \in Nat /\ Len(q) >= 1 /\ Len(Tail(q)) = Len(q) - 1
         /\ DOMAIN q = 1 .. Len(q) /\ DOMAIN Tail(q) = 1 .. (Len(q) - 1)
         /\ \A i \in 1 .. (Len(q) - 1) : Tail(q)[i] = q[i + 1]
         /\ Head(q) = q[1] /\ Head(q) \in S
  OBVIOUS

(* A text is queued behind the key that makes it.                          *)
LEMMA TwoQueued ==
  ASSUME NEW S, NEW q \in Seq(S), NEW e \in S, NEW f \in S
  PROVE  q \o <<e, f>> = Append(Append(q, e), f)
  OBVIOUS

-----------------------------------------------------------------------------
(* Lemmas about what the queue leaves behind                               *)

(* What was said of a button is still so with event e queued behind, if e  *)
(* is none of the button's or tells that it was otherwise before.          *)
LEMMA SaidGrows ==
  ASSUME NEW S, NEW q \in Seq(S), NEW e \in S, NEW x, NEW y, NEW b, NEW i \in 0 .. Len(q),
         NEW p \in BOOLEAN,
         ~ EventOf(e, b) => (b \in x <=> b \in y),
         EventOf(e, b) => (b \in x <=> e.type = "MouseButtonUp"),
         LastSays(q, i, b, x, p)
  PROVE  /\ LastSays(Append(q, e), i, b, y, p)
         /\ NextSays(q, i, b, p) => NextSays(Append(q, e), i, b, p)
<1> DEFINE r == Append(q, e)
<1>1. /\ Len(q) \in Nat /\ DOMAIN q = 1 .. Len(q) /\ DOMAIN r = 1 .. (Len(q) + 1)
      /\ \A j \in 1 .. Len(q) : r[j] = q[j]
      /\ r[Len(q) + 1] = e
  BY Queued
<1> HIDE DEF r
<1>2. \A j \in DOMAIN q : j \in DOMAIN r /\ r[j] = q[j]
  BY <1>1
<1>3. Len(q) + 1 \in DOMAIN r /\ Len(q) + 1 > i
  BY <1>1
<1>4. LastSays(r, i, b, y, p)
  BY <1>1, <1>2, <1>3 DEF LastSays
<1>5. ASSUME NextSays(q, i, b, p) PROVE NextSays(r, i, b, p)
  <2> SUFFICES ASSUME NEW j \in DOMAIN r, j > i, EventOf(r[j], b),
                      \A l \in DOMAIN r : i < l /\ l < j => ~ EventOf(r[l], b)
               PROVE  p <=> r[j].type = "MouseButtonUp"
    BY DEF NextSays
  <2>1. CASE j \in DOMAIN q
    BY <1>2, <1>5, <2>1 DEF NextSays
  <2>2. CASE j = Len(q) + 1
    <3>1. \A l \in DOMAIN q : l > i => ~ EventOf(q[l], b)
      BY <1>1, <1>2, <2>2
    <3> QED BY <1>1, <2>2, <3>1 DEF LastSays
  <2> QED BY <1>1, <2>1, <2>2
<1> QED BY <1>4, <1>5 DEF r

(* What the queue says when its first event is handled.                    *)
LEMMA SaidShrinks ==
  ASSUME NEW S, NEW q \in Seq(S), q # <<>>, NEW x, NEW b, NEW p \in BOOLEAN,
         NEW i \in Nat
  PROVE  /\ LastSays(q, i + 1, b, x, p) => LastSays(Tail(q), i, b, x, p)
         /\ NextSays(q, i + 1, b, p) => NextSays(Tail(q), i, b, p)
         /\ ~ EventOf(Head(q), b) =>
              /\ LastSays(q, 0, b, x, p) => LastSays(Tail(q), 0, b, x, p)
              /\ NextSays(q, 0, b, p) => NextSays(Tail(q), 0, b, p)
<1> DEFINE r == Tail(q)
           n == Len(q)
<1>1. /\ n \in Nat /\ n >= 1 /\ DOMAIN q = 1 .. n /\ DOMAIN r = 1 .. (n - 1)
      /\ \A j \in 1 .. (n - 1) : r[j] = q[j + 1]
      /\ Head(q) = q[1]
  BY Dequeued
<1> HIDE DEF r, n
<1>2. \A j \in DOMAIN q : j = 1 \/ (j - 1 \in DOMAIN r /\ r[j - 1] = q[j] /\ j > 1)
  <2>1. \A j \in 1 .. n : j = 1 \/ (j - 1 \in 1 .. (n - 1) /\ (j - 1) + 1 = j /\ j > 1)
    BY <1>1
  <2> QED BY <1>1, <2>1
<1>3. \A j \in DOMAIN r : j + 1 \in DOMAIN q /\ r[j] = q[j + 1] /\ j \in Nat /\ j > 0
  BY <1>1
<1>4. ASSUME LastSays(q, i + 1, b, x, p) PROVE LastSays(r, i, b, x, p)
  <2> SUFFICES ASSUME \A j \in DOMAIN r : j > i => ~ EventOf(r[j], b)
               PROVE  p <=> b \in x
    BY DEF LastSays
  <2>1. \A j \in DOMAIN q : j > i + 1 => ~ EventOf(q[j], b)
    <3>1. \A j \in DOMAIN q : j > i + 1 => j - 1 > i /\ j # 1
      BY <1>1
    <3> QED BY <1>2, <3>1
  <2> QED BY <1>4, <2>1 DEF LastSays
<1>5. ASSUME NextSays(q, i + 1, b, p) PROVE NextSays(r, i, b, p)
  <2> SUFFICES ASSUME NEW j \in DOMAIN r, j > i, EventOf(r[j], b),
                      \A l \in DOMAIN r : i < l /\ l < j => ~ EventOf(r[l], b)
               PROVE  p <=> r[j].type = "MouseButtonUp"
    BY DEF NextSays
  <2>1. j + 1 \in DOMAIN q /\ r[j] = q[j + 1] /\ j + 1 > i + 1
    BY <1>3
  <2>2. \A l \in DOMAIN q : i + 1 < l /\ l < j + 1 => ~ EventOf(q[l], b)
    <3>1. \A l \in DOMAIN q : i + 1 < l /\ l < j + 1 => l # 1 /\ i < l - 1 /\ l - 1 < j
      BY <1>1, <1>3
    <3> QED BY <1>2, <3>1
  <2> QED BY <1>5, <2>1, <2>2 DEF NextSays
<1>6. ASSUME ~ EventOf(Head(q), b), LastSays(q, 0, b, x, p) PROVE LastSays(r, 0, b, x, p)
  <2> SUFFICES ASSUME \A j \in DOMAIN r : j > 0 => ~ EventOf(r[j], b)
               PROVE  p <=> b \in x
    BY DEF LastSays
  <2>1. \A j \in DOMAIN q : j > 0 => ~ EventOf(q[j], b)
    BY <1>1, <1>2, <1>3, <1>6
  <2> QED BY <1>6, <2>1 DEF LastSays
<1>7. ASSUME ~ EventOf(Head(q), b), NextSays(q, 0, b, p) PROVE NextSays(r, 0, b, p)
  <2> SUFFICES ASSUME NEW j \in DOMAIN r, j > 0, EventOf(r[j], b),
                      \A l \in DOMAIN r : 0 < l /\ l < j => ~ EventOf(r[l], b)
               PROVE  p <=> r[j].type = "MouseButtonUp"
    BY DEF NextSays
  <2>1. j + 1 \in DOMAIN q /\ r[j] = q[j + 1] /\ j + 1 > 0
    BY <1>3
  <2>2. \A l \in DOMAIN q : 0 < l /\ l < j + 1 => ~ EventOf(q[l], b)
    <3>1. \A l \in DOMAIN q : 0 < l /\ l < j + 1 => l = 1 \/ (0 < l - 1 /\ l - 1 < j)
      BY <1>1, <1>3
    <3> QED BY <1>1, <1>2, <1>7, <3>1
  <2> QED BY <1>7, <2>1, <2>2 DEF NextSays
<1> QED BY <1>4, <1>5, <1>6, <1>7 DEF r

(* A key that goes up still does when events are queued behind it.         *)
LEMMA UpGrows ==
  ASSUME NEW S, NEW q \in Seq(S), NEW e \in S, NEW i, NEW k, GoesUp(q, i, k)
  PROVE  GoesUp(Append(q, e), i, k)
  BY Queued DEF GoesUp

(* A key goes up when the event that says so is queued.                    *)
LEMMA UpAnew ==
  ASSUME NEW S, NEW q \in Seq(S), NEW e \in S, e.type = "KeyUp",
         NEW i \in 0 .. Len(q)
  PROVE  GoesUp(Append(q, e), i, e.key)
<1>1. /\ Len(q) \in Nat /\ Len(q) + 1 \in DOMAIN Append(q, e)
      /\ Append(q, e)[Len(q) + 1] = e
  BY Queued
<1> QED BY <1>1 DEF GoesUp

(* Unless it is the first event that says so, a key that goes up still     *)
(* does when that one is handled.                                          *)
LEMMA UpShrinks ==
  ASSUME NEW S, NEW q \in Seq(S), q # <<>>, NEW i \in Nat, NEW k
  PROVE  /\ GoesUp(q, i + 1, k) => GoesUp(Tail(q), i, k)
         /\ GoesUp(q, 0, k) /\ ~ (Head(q).type = "KeyUp" /\ Head(q).key = k)
              => GoesUp(Tail(q), 0, k)
<1>1. ASSUME NEW j \in DOMAIN q, q[j].type = "KeyUp", q[j].key = k, NEW m \in Nat, j > m + 1
      PROVE  GoesUp(Tail(q), m, k)
  <2>1. j - 1 \in DOMAIN Tail(q) /\ j - 1 > m /\ Tail(q)[j - 1] = q[(j - 1) + 1] /\ (j - 1) + 1 = j
    BY <1>1, Dequeued
  <2> QED BY <1>1, <2>1 DEF GoesUp
<1>2. \A j \in DOMAIN q : j > 0 => j = 1 \/ j > 0 + 1
  BY Dequeued
<1>3. Head(q) = q[1]
  BY Dequeued
<1> QED BY <1>1, <1>2, <1>3 DEF GoesUp

-----------------------------------------------------------------------------
(* Types                                                                   *)

(* What is sent as a keysym is one.                                        *)
LEMMA KeysymOK == \A k \in Keys : \A m : Keysym(k, m) \in Keysyms
  BY DEF Keysym, Keysyms

(* The menu takes a keysym or the server gets it.                          *)
LEMMA PressStep ==
  ASSUME TypeOK, NEW keysym \in Keysyms, Press(keysym)
  PROVE  /\ menu' \in [f8_pressed : BOOLEAN, relative_mouse_mode : BOOLEAN]
         /\ server_keys' \subseteq server_keys \cup {keysym}
<1>1. MenuAfter(keysym) \in [f8_pressed : BOOLEAN, relative_mouse_mode : BOOLEAN]
  BY DEF MenuAfter, TypeOK
<1> QED BY <1>1 DEF Press, TypeOK

(* What the user does queues one event, and perhaps a text after it.       *)
LEMMA KeyPressed ==
  ASSUME TypeOK, NEW k \in Keys, PressKey(k)
  PROVE  /\ held' = held \cup {k} /\ UNCHANGED buttons /\ ClientUnchanged
         /\ \E e \in Events, f \in Events :
              /\ e.type = "KeyDown" /\ e.key = k /\ e.keymod = Modifiers'
              /\ f.type = "TextInput" /\ f.keysym = Keysym(k, Modifiers')
              /\ \/ queue' = Append(queue, e)
                 \/ /\ queue' = Append(Append(queue, e), f)
                    /\ k \in Letters
<1> DEFINE down == [type |-> "KeyDown", key |-> k, keymod |-> Modifiers']
           text == [type |-> "TextInput", keysym |-> Keysym(k, Modifiers')]
<1>1. Modifiers' \in SUBSET {"Shift", "Ctrl"}
  BY DEF Modifiers
<1>2. down \in Events /\ text \in Events
  BY <1>1, EventsMade
<1>3. queue' = IF Sdl /\ k \in Letters /\ "Ctrl" \notin Modifiers'
               THEN queue \o <<down, text>> ELSE Append(queue, down)
  BY DEF PressKey
<1>4. queue \in Seq(Events)
  BY DEF TypeOK, Events
<1>5. /\ down.type = "KeyDown" /\ down.key = k /\ down.keymod = Modifiers'
      /\ text.type = "TextInput" /\ text.keysym = Keysym(k, Modifiers')
  OBVIOUS
<1>6. held' = held \cup {k} /\ UNCHANGED buttons /\ ClientUnchanged
  BY DEF PressKey
<1> HIDE DEF down, text
<1>7. queue \o <<down, text>> = Append(Append(queue, down), text)
  BY <1>2, <1>4, TwoQueued
<1> QED BY <1>2, <1>3, <1>5, <1>6, <1>7

(* So does a key that is released.                                         *)
LEMMA KeyReleased ==
  ASSUME TypeOK, NEW k \in Keys, ReleaseKey(k)
  PROVE  /\ held' = held \ {k} /\ UNCHANGED buttons /\ ClientUnchanged
         /\ \E e \in Events : /\ e.type = "KeyUp" /\ e.key = k /\ e.keymod = Modifiers'
                              /\ queue' = Append(queue, e)
<1> DEFINE up == [type |-> "KeyUp", key |-> k, keymod |-> Modifiers']
<1>1. Modifiers' \in SUBSET {"Shift", "Ctrl"}
  BY DEF Modifiers
<1>2. up \in Events
  BY <1>1, EventsMade
<1> QED BY <1>2 DEF ReleaseKey

\* What the user does to the mouse.
UserMouse ==
  \/ \E b \in Buttons : PressButton(b) \/ ReleaseButton(b)
  \/ MoveOrScroll

\* An event that says which buttons are pressed now.
MouseQueued ==
  /\ UNCHANGED held /\ buttons' \subseteq Buttons /\ ClientUnchanged
  /\ \E e \in Events : /\ IsMouse(e) /\ GtkButtons(e) \cap Buttons = buttons'
                       /\ \A b : EventOf(e, b) => (b \in buttons <=> e.type = "MouseButtonUp")
                       /\ \A b : ~ EventOf(e, b) => (b \in buttons <=> b \in buttons')
                       /\ queue' = Append(queue, e)

(* What the mouse does queues such an event.                               *)
LEMMA MouseMoved == TypeOK /\ UserMouse => MouseQueued
<1> SUFFICES ASSUME TypeOK, UserMouse PROVE MouseQueued
  OBVIOUS
<1>1. /\ buttons \in SUBSET Buttons
      /\ \A b : b \in Buttons => b \notin Scroll
  BY InputAssumption DEF TypeOK
<1>2. ASSUME NEW b \in Buttons, PressButton(b) PROVE MouseQueued
  <2> DEFINE e == [type |-> "MouseButtonDown", button |-> b, state |-> buttons]
  <2>1. e \in Events
    BY <1>1, EventsMade
  <2>2. /\ Down(e) = {b} /\ Up(e) = {} /\ Wheel(e) = {} /\ IsMouse(e)
        /\ e.state = buttons /\ e.type = "MouseButtonDown" /\ e.button = b
    BY DEF Down, Up, Wheel, IsMouse
  <2>3. queue' = Append(queue, e) /\ buttons' = buttons \cup {b}
        /\ UNCHANGED held /\ ClientUnchanged
        /\ b \notin buttons
    BY <1>2 DEF PressButton
  <2> HIDE DEF e
  <2>4. /\ GtkButtons(e) \cap Buttons = buttons'
        /\ \A c : EventOf(e, c) => (c \in buttons <=> e.type = "MouseButtonUp")
        /\ \A c : ~ EventOf(e, c) => (c \in buttons <=> c \in buttons')
    BY <1>1, <2>2, <2>3 DEF GtkButtons, EventOf
  <2>5. buttons' \subseteq Buttons
    BY <1>1, <2>3
  <2> QED BY <2>1, <2>2, <2>3, <2>4, <2>5 DEF MouseQueued
<1>3. ASSUME NEW b \in Buttons, ReleaseButton(b) PROVE MouseQueued
  <2> DEFINE e == [type |-> "MouseButtonUp", button |-> b, state |-> buttons]
  <2>1. e \in Events
    BY <1>1, EventsMade
  <2>2. /\ Down(e) = {} /\ Up(e) = {b} /\ Wheel(e) = {} /\ IsMouse(e)
        /\ e.state = buttons /\ e.type = "MouseButtonUp" /\ e.button = b
    BY DEF Down, Up, Wheel, IsMouse
  <2>3. queue' = Append(queue, e) /\ buttons' = buttons \ {b}
        /\ UNCHANGED held /\ ClientUnchanged
        /\ b \in buttons
    BY <1>3 DEF ReleaseButton
  <2> HIDE DEF e
  <2>4. /\ GtkButtons(e) \cap Buttons = buttons'
        /\ \A c : EventOf(e, c) => (c \in buttons <=> e.type = "MouseButtonUp")
        /\ \A c : ~ EventOf(e, c) => (c \in buttons <=> c \in buttons')
    BY <1>1, <2>2, <2>3 DEF GtkButtons, EventOf
  <2>5. buttons' \subseteq Buttons
    BY <1>1, <2>3
  <2> QED BY <2>1, <2>2, <2>3, <2>4, <2>5 DEF MouseQueued
<1>4. CASE MoveOrScroll
  <2>1. PICK e \in Events : /\ IsMouse(e) /\ e.state = buttons /\ Down(e) = {} /\ Up(e) = {}
                            /\ Wheel(e) \subseteq Scroll /\ \A b : ~ EventOf(e, b)
                            /\ queue' = Append(queue, e)
    <3>1. CASE queue' = Append(queue, [type |-> "MouseMotion", state |-> buttons])
      BY <1>1, <3>1, EventsMade DEF IsMouse, Down, Up, Wheel, EventOf
    <3>2. ASSUME NEW y \in Scroll,
                 queue' = Append(queue, [type |-> "MouseWheel", y |-> y, state |-> buttons])
          PROVE  \E e \in Events : /\ IsMouse(e) /\ e.state = buttons /\ Down(e) = {}
                                   /\ Up(e) = {} /\ Wheel(e) \subseteq Scroll
                                   /\ \A b : ~ EventOf(e, b)
                                   /\ queue' = Append(queue, e)
      BY <1>1, <3>2, EventsMade DEF IsMouse, Down, Up, Wheel, EventOf
    <3> QED BY <1>4, <3>1, <3>2 DEF MoveOrScroll
  <2>2. UNCHANGED <<held, buttons>> /\ ClientUnchanged
    BY <1>4 DEF MoveOrScroll
  <2>3. GtkButtons(e) \cap Buttons = buttons
    BY <1>1, <2>1 DEF GtkButtons
  <2> QED BY <1>1, <2>1, <2>2, <2>3 DEF MouseQueued
<1> QED BY <1>2, <1>3, <1>4 DEF UserMouse

(* What the server is told of the mouse are buttons.                       *)
LEMMA MouseOK ==
  ASSUME TypeOK, NEW e \in MouseEvents
  PROVE  ButtonsWithoutScrolling(e) \subseteq Buttons
<1>1. /\ e.state \subseteq Buttons /\ Wheel(e) \subseteq Scroll /\ Down(e) \subseteq Buttons
  BY EventParts DEF Events
<1> QED BY <1>1 DEF ButtonsWithoutScrolling, ButtonsState, SdlButtons, GtkButtons, TypeOK

\* What the main loop does to the queue, and leaves alone.
Handles(e) ==
  /\ queue # <<>> /\ e = Head(queue) /\ e \in Events
  /\ queue' = Tail(queue) /\ queue' \in Seq(Events)
  /\ UNCHANGED <<toolkit, held, buttons>>

(* Every action of the main loop handles the first event.                  *)
LEMMA MainLoopHandles == TypeOK /\ MainLoop => Handles(Head(queue))
<1> SUFFICES ASSUME TypeOK, MainLoop PROVE Handles(Head(queue))
  OBVIOUS
<1>1. queue # <<>> /\ queue' = Tail(queue) /\ UNCHANGED <<toolkit, held, buttons>>
  BY DEF MainLoop, HandleKeyDown, HandleKeyUp, HandleText, HandleMouse, IgnoreMotion, Handled
<1>2. queue \in Seq(Events)
  BY DEF TypeOK, Events
<1> QED BY <1>1, <1>2, Dequeued DEF Handles

(* Every action preserves the types.                                       *)
LEMMA TypeOKStep == TypeOK /\ [Next]_vars => TypeOK'
<1> SUFFICES ASSUME TypeOK, [Next]_vars PROVE TypeOK'
  OBVIOUS
<1>1. ASSUME queue' \in Seq(Events), held' \subseteq Keys, buttons' \subseteq Buttons,
             ClientUnchanged
      PROVE  TypeOK'
  BY <1>1 DEF TypeOK, ClientUnchanged, Events
<1>2. queue \in Seq(Events) /\ \A q \in Seq(Events) : \A e \in Events : Append(q, e) \in Seq(Events)
  BY DEF TypeOK, Events
<1>3. ASSUME NEW k \in Keys, PressKey(k) PROVE TypeOK'
  <2>1. held' = held \cup {k} /\ UNCHANGED buttons /\ ClientUnchanged
    BY <1>3, KeyPressed
  <2>2. queue' \in Seq(Events)
    BY <1>2, <1>3, KeyPressed
  <2> QED BY <1>1, <2>1, <2>2 DEF TypeOK
<1>4. ASSUME NEW k \in Keys, ReleaseKey(k) PROVE TypeOK'
  BY <1>1, <1>2, <1>4, KeyReleased DEF TypeOK
<1>5. CASE UserMouse
  <2>1. MouseQueued
    BY <1>5, MouseMoved
  <2> QED BY <1>1, <1>2, <2>1 DEF MouseQueued, TypeOK
<1>6. ASSUME MainLoop, pressed_text_keysyms' \subseteq Keysyms, server_keys' \subseteq Keysyms,
             menu' \in [f8_pressed : BOOLEAN, relative_mouse_mode : BOOLEAN],
             server_buttons' \in [Servers -> SUBSET Buttons], told' \in Servers
      PROVE  TypeOK'
  BY <1>6, MainLoopHandles DEF Handles, TypeOK, Events
<1>7. CASE HandleKeyDown
  <2> DEFINE e == Head(queue)
  <2>1. e \in KeyEvents /\ Keysym(e.key, e.keymod) \in Keysyms
    BY <1>7, MainLoopHandles, EventParts, KeysymOK DEF MainLoop, Handles, HandleKeyDown
  <2>2. server_keys' \subseteq Keysyms
        /\ menu' \in [f8_pressed : BOOLEAN, relative_mouse_mode : BOOLEAN]
    BY <1>7, <2>1, PressStep DEF HandleKeyDown, TypeOK
  <2> QED BY <1>6, <1>7, <2>2 DEF MainLoop, HandleKeyDown, TypeOK
<1>8. CASE HandleKeyUp
  <2>1. server_keys' \subseteq Keysyms /\ pressed_text_keysyms' \subseteq Keysyms
        /\ UNCHANGED <<menu, server_buttons, told>>
    BY <1>8 DEF HandleKeyUp, TypeOK
  <2> QED BY <1>6, <1>8, <2>1 DEF MainLoop, TypeOK
<1>9. CASE HandleText
  <2> DEFINE e == Head(queue)
  <2>1. e.keysym \in Keysyms
    BY <1>9, MainLoopHandles, EventParts DEF MainLoop, Handles, HandleText
  <2>2. server_keys' \subseteq Keysyms
        /\ menu' \in [f8_pressed : BOOLEAN, relative_mouse_mode : BOOLEAN]
    BY <1>9, <2>1, PressStep DEF HandleText, TypeOK
  <2>3. pressed_text_keysyms' \subseteq Keysyms /\ UNCHANGED <<server_buttons, told>>
    BY <1>9, <2>1 DEF HandleText, TypeOK
  <2> QED BY <1>6, <1>9, <2>2, <2>3 DEF MainLoop, TypeOK
<1>10. CASE HandleMouse
  <2>1. ButtonsWithoutScrolling(Head(queue)) \subseteq Buttons
    BY <1>10, MouseOK DEF HandleMouse
  <2>2. server_buttons' \in [Servers -> SUBSET Buttons] /\ told' \in Servers
        /\ UNCHANGED <<menu, pressed_text_keysyms, server_keys>>
    BY <1>10, <2>1 DEF HandleMouse, Handled, TypeOK, Servers
  <2> QED BY <1>6, <1>10, <2>2 DEF MainLoop, TypeOK
<1>11. CASE IgnoreMotion
  <2>1. UNCHANGED <<menu, pressed_text_keysyms, server_keys, server_buttons, told>>
    BY <1>11 DEF IgnoreMotion, Handled
  <2> QED BY <1>6, <1>11, <2>1 DEF MainLoop, TypeOK
<1>12. CASE UNCHANGED vars
  BY <1>12 DEF vars, TypeOK
<1> QED BY <1>3, <1>4, <1>5, <1>7, <1>8, <1>9, <1>10, <1>11, <1>12
        DEF Next, User, UserMouse, MainLoop

-----------------------------------------------------------------------------
(* The invariant                                                           *)

(* The queue and the server told last keep saying which buttons are pressed. *)
LEMMA ButtonStep == TypeOK /\ ButtonInv /\ [Next]_vars => ButtonInv'
<1> SUFFICES ASSUME TypeOK, ButtonInv, [Next]_vars, NEW b \in Buttons
             PROVE  (/\ LastSays(queue, 0, b, buttons, b \in server_buttons[told])
                     /\ Gtk => NextSays(queue, 0, b, b \in server_buttons[told])
                     /\ \A i \in DOMAIN queue :
                          IsMouse(queue[i]) /\ (Gtk \/ EventOf(queue[i], b))
                            => /\ LastSays(queue, i, b, buttons, b \in GtkButtons(queue[i]))
                               /\ Gtk => NextSays(queue, i, b, b \in GtkButtons(queue[i])))'
  BY DEF ButtonInv
<1> DEFINE Says(q, i, x, p) == LastSays(q, i, b, x, p) /\ (Gtk => NextSays(q, i, b, p))
           EventsSay(q, x) ==
             \A i \in DOMAIN q : IsMouse(q[i]) /\ (Gtk \/ EventOf(q[i], b))
               => Says(q, i, x, b \in GtkButtons(q[i]))
           believed == b \in server_buttons[told]
<1>1. /\ queue \in Seq(Events) /\ Says(queue, 0, buttons, believed) /\ EventsSay(queue, buttons)
      /\ believed \in BOOLEAN
  BY DEF TypeOK, Events, ButtonInv
<1>2. ASSUME UNCHANGED toolkit, Says(queue', 0, buttons', believed'), EventsSay(queue', buttons')
      PROVE  (/\ LastSays(queue, 0, b, buttons, b \in server_buttons[told])
              /\ Gtk => NextSays(queue, 0, b, b \in server_buttons[told])
              /\ \A i \in DOMAIN queue :
                   IsMouse(queue[i]) /\ (Gtk \/ EventOf(queue[i], b))
                     => /\ LastSays(queue, i, b, buttons, b \in GtkButtons(queue[i]))
                        /\ Gtk => NextSays(queue, i, b, b \in GtkButtons(queue[i])))'
  BY <1>2 DEF Gtk
<1>3. ASSUME NEW q \in Seq(Events), NEW e \in Events, NEW x, NEW y,
             Says(q, 0, x, believed), EventsSay(q, x),
             IsMouse(e) => (b \in GtkButtons(e) <=> b \in y),
             ~ EventOf(e, b) => (b \in x <=> b \in y),
             EventOf(e, b) => (b \in x <=> e.type = "MouseButtonUp")
      PROVE  Says(Append(q, e), 0, y, believed) /\ EventsSay(Append(q, e), y)
  <2> DEFINE r == Append(q, e)
  <2>1. /\ Len(q) \in Nat /\ DOMAIN q = 1 .. Len(q) /\ DOMAIN r = 1 .. (Len(q) + 1)
        /\ \A i \in 1 .. Len(q) : r[i] = q[i]
        /\ r[Len(q) + 1] = e
    BY Queued
  <2>2. \A i \in 0 .. Len(q) : \A p \in BOOLEAN : Says(q, i, x, p) => Says(r, i, y, p)
    BY <1>3, SaidGrows
  <2> HIDE DEF r
  <2>3. Says(r, 0, y, believed)
    <3>1. 0 \in 0 .. Len(q) /\ believed \in BOOLEAN
      BY <1>1, <2>1
    <3> HIDE DEF Says, believed
    <3> QED BY <1>3, <2>2, <3>1
  <2>4. ASSUME NEW i \in DOMAIN r, IsMouse(r[i]), Gtk \/ EventOf(r[i], b)
        PROVE  Says(r, i, y, b \in GtkButtons(r[i]))
    <3>1. CASE i \in 1 .. Len(q)
      <4>1. i \in 0 .. Len(q) /\ r[i] = q[i] /\ (b \in GtkButtons(q[i])) \in BOOLEAN
        BY <2>1, <3>1
      <4>2. Says(q, i, x, b \in GtkButtons(q[i]))
        BY <1>3, <2>1, <2>4, <3>1, <4>1
      <4> QED BY <2>2, <4>1, <4>2
    <3>2. CASE i = Len(q) + 1
      <4>1. \A j \in DOMAIN r : ~ (j > i)
        BY <2>1, <3>2
      <4>2. b \in GtkButtons(r[i]) <=> b \in y
        BY <1>3, <2>1, <2>4, <3>2
      <4> QED BY <4>1, <4>2 DEF LastSays, NextSays
    <3> QED BY <2>1, <3>1, <3>2
  <2> QED BY <2>3, <2>4 DEF r
<1>4. ASSUME NEW k \in Keys, PressKey(k)
      PROVE  UNCHANGED toolkit /\ Says(queue', 0, buttons', believed') /\ EventsSay(queue', buttons')
  <2>1. PICK e \in Events, f \in Events :
          /\ e.type = "KeyDown" /\ f.type = "TextInput"
          /\ queue' = Append(queue, e) \/ queue' = Append(Append(queue, e), f)
    BY <1>4, KeyPressed
  <2>2. /\ ~ IsMouse(e) /\ ~ IsMouse(f) /\ ~ EventOf(e, b) /\ ~ EventOf(f, b)
        /\ Append(queue, e) \in Seq(Events)
    BY <1>1, <2>1 DEF IsMouse, EventOf
  <2>3. UNCHANGED <<toolkit, server_buttons, told, buttons>>
    BY <1>4, KeyPressed DEF ClientUnchanged
  <2>4. Says(Append(queue, e), 0, buttons, believed) /\ EventsSay(Append(queue, e), buttons)
    BY <1>1, <1>3, <2>2
  <2> HIDE DEF Says, EventsSay, believed
  <2>5. /\ Says(Append(Append(queue, e), f), 0, buttons, believed)
        /\ EventsSay(Append(Append(queue, e), f), buttons)
    BY <1>3, <2>2, <2>4
  <2>6. believed' = believed
    BY <2>3 DEF believed
  <2> QED BY <2>1, <2>3, <2>4, <2>5, <2>6
<1>5. ASSUME NEW k \in Keys, ReleaseKey(k)
      PROVE  UNCHANGED toolkit /\ Says(queue', 0, buttons', believed') /\ EventsSay(queue', buttons')
  <2>1. PICK e \in Events : e.type = "KeyUp" /\ queue' = Append(queue, e)
    BY <1>5, KeyReleased
  <2>2. ~ IsMouse(e) /\ ~ EventOf(e, b)
    BY <2>1 DEF IsMouse, EventOf
  <2>3. UNCHANGED <<toolkit, server_buttons, told, buttons>> /\ believed' = believed
    BY <1>5, KeyReleased DEF ClientUnchanged
  <2> HIDE DEF Says, EventsSay, believed
  <2> QED BY <1>1, <1>3, <2>1, <2>2, <2>3
<1>6. ASSUME UserMouse
      PROVE  UNCHANGED toolkit /\ Says(queue', 0, buttons', believed') /\ EventsSay(queue', buttons')
  <2>1. MouseQueued
    BY <1>6, MouseMoved
  <2>2. PICK e \in Events :
          /\ IsMouse(e) /\ GtkButtons(e) \cap Buttons = buttons'
          /\ \A c : EventOf(e, c) => (c \in buttons <=> e.type = "MouseButtonUp")
          /\ \A c : ~ EventOf(e, c) => (c \in buttons <=> c \in buttons')
          /\ queue' = Append(queue, e)
    BY <2>1 DEF MouseQueued
  <2>3. UNCHANGED <<toolkit, server_buttons, told>> /\ believed' = believed
    BY <2>1 DEF MouseQueued, ClientUnchanged
  <2>4. b \in GtkButtons(e) <=> b \in buttons'
    BY <2>2
  <2> HIDE DEF Says, EventsSay, believed
  <2> QED BY <1>1, <1>3, <2>2, <2>3, <2>4
<1>7. ASSUME Handles(Head(queue)), Says(Tail(queue), 0, buttons, believed')
      PROVE  UNCHANGED toolkit /\ Says(queue', 0, buttons', believed') /\ EventsSay(queue', buttons')
  <2> DEFINE r == Tail(queue)
  <2>1. /\ queue # <<>> /\ queue' = r /\ UNCHANGED <<toolkit, buttons>>
    BY <1>7 DEF Handles
  <2>2. \A i \in DOMAIN r : /\ i + 1 \in DOMAIN queue /\ i \in Nat /\ r[i] = queue[i + 1]
    BY <1>1, <2>1, Dequeued
  <2>3. ASSUME NEW i \in Nat, NEW p \in BOOLEAN, Says(queue, i + 1, buttons, p)
        PROVE  Says(r, i, buttons, p)
    BY <1>1, <2>1, <2>3, SaidShrinks
  <2> HIDE DEF r
  <2>4. EventsSay(r, buttons)
    <3>1. ASSUME NEW i \in DOMAIN r, IsMouse(r[i]), Gtk \/ EventOf(r[i], b)
          PROVE  Says(r, i, buttons, b \in GtkButtons(r[i]))
      <4>1. /\ i + 1 \in DOMAIN queue /\ i \in Nat /\ r[i] = queue[i + 1]
            /\ (b \in GtkButtons(r[i])) \in BOOLEAN
        BY <2>2
      <4>2. Says(queue, i + 1, buttons, b \in GtkButtons(r[i]))
        BY <1>1, <3>1, <4>1
      <4> QED BY <2>3, <4>1, <4>2
    <3> QED BY <3>1
  <2> QED BY <1>7, <2>1, <2>4 DEF r
<1>8. ASSUME Handles(Head(queue)), ~ EventOf(Head(queue), b), UNCHANGED <<server_buttons, told>>
      PROVE  UNCHANGED toolkit /\ Says(queue', 0, buttons', believed') /\ EventsSay(queue', buttons')
  <2>1. queue # <<>> /\ believed' = believed
    BY <1>8 DEF Handles
  <2>2. Says(Tail(queue), 0, buttons, believed)
    BY <1>1, <1>8, <2>1, SaidShrinks, 0 \in Nat
  <2> HIDE DEF Says, EventsSay, believed
  <2> QED BY <1>7, <1>8, <2>1, <2>2
<1>9. CASE HandleKeyDown \/ HandleKeyUp \/ HandleText \/ IgnoreMotion
  <2>1. ~ EventOf(Head(queue), b) /\ UNCHANGED <<server_buttons, told>>
    BY <1>9 DEF HandleKeyDown, HandleKeyUp, HandleText, IgnoreMotion, EventOf
  <2> QED BY <1>2, <1>8, <1>9, <2>1, MainLoopHandles DEF MainLoop
<1>10. CASE HandleMouse
  <2> DEFINE e == Head(queue)
  <2>1. Handles(e) /\ e \in MouseEvents
    BY <1>10, MainLoopHandles DEF MainLoop, HandleMouse
  <2>2. IsMouse(e) /\ Wheel(e) \subseteq Scroll /\ b \notin Scroll
    BY <2>1, EventParts, InputAssumption DEF Handles
  <2>3. believed' <=> b \in ButtonsWithoutScrolling(e)
    BY <1>10 DEF HandleMouse, TypeOK, Servers
  <2>4. /\ queue # <<>> /\ 1 \in DOMAIN queue /\ queue[1] = e
    BY <1>1, <2>1, Dequeued DEF Handles
  <2>5. Gtk \/ EventOf(e, b) => Says(Tail(queue), 0, buttons, b \in GtkButtons(e))
    <3>1. ASSUME Gtk \/ EventOf(e, b) PROVE Says(Tail(queue), 0, buttons, b \in GtkButtons(e))
      <4>1. Says(queue, 0 + 1, buttons, b \in GtkButtons(e))
        BY <1>1, <2>2, <2>4, <3>1
      <4>2. (b \in GtkButtons(e)) \in BOOLEAN /\ 0 \in Nat
        OBVIOUS
      <4> QED BY <1>1, <2>4, <4>1, <4>2, SaidShrinks
    <3> QED BY <3>1
  <2> HIDE DEF e
  <2>6. CASE Gtk
    <3>1. believed' <=> b \in GtkButtons(e)
      BY <2>2, <2>3, <2>6 DEF ButtonsWithoutScrolling, ButtonsState, Sdl, Gtk
    <3>2. Says(Tail(queue), 0, buttons, believed')
      BY <2>5, <2>6, <3>1 DEF LastSays, NextSays
    <3> HIDE DEF Says, EventsSay, believed
    <3> QED BY <1>2, <1>7, <2>1, <3>2 DEF e
  <2>7. CASE ~ Gtk
    <3>1. believed' <=> b \in buttons \/ b \in Down(e)
      BY <2>2, <2>3, <2>7, InputAssumption
      DEF ButtonsWithoutScrolling, ButtonsState, SdlButtons, Sdl, Gtk, TypeOK
    <3>2. LastSays(Tail(queue), 0, b, buttons, believed')
      <4>1. CASE b \in Down(e)
        <5>1. EventOf(e, b) /\ b \in GtkButtons(e)
          BY <4>1 DEF Down, EventOf, GtkButtons, Up
        <5> QED BY <2>5, <3>1, <4>1, <5>1 DEF LastSays
      <4>2. CASE b \notin Down(e)
        BY <3>1, <4>2 DEF LastSays
      <4> QED BY <4>1, <4>2
    <3>3. Says(Tail(queue), 0, buttons, believed')
      BY <2>7, <3>2
    <3> HIDE DEF Says, EventsSay, believed
    <3> QED BY <1>2, <1>7, <2>1, <3>3 DEF e
  <2> QED BY <2>6, <2>7
<1>11. CASE UNCHANGED vars
  BY <1>1, <1>11 DEF vars, Gtk
<1> QED BY <1>2, <1>4, <1>5, <1>6, <1>9, <1>10, <1>11
        DEF Next, User, UserMouse, MainLoop

(* A key that is no letter stays pressed at the server no longer than it   *)
(* is held and its events are queued.                                      *)
LEMMA KeyStep == TypeOK /\ KeyInv /\ [Next]_vars => KeyInv'
<1> SUFFICES ASSUME TypeOK, KeyInv, [Next]_vars PROVE KeyInv'
  OBVIOUS
<1> DEFINE n == Len(queue)
           Downs(q, h) ==
             \A i \in DOMAIN q : q[i].type = "KeyDown" /\ q[i].key \notin Letters
               => q[i].key \in h \/ GoesUp(q, i, q[i].key)
           Texts(q) == \A i \in DOMAIN q : q[i].type = "TextInput" => q[i].keysym[1] \in Letters
           Pressed(s, q, h) ==
             \A keysym \in s : keysym[1] \notin Letters
               => /\ keysym = Keycode(keysym[1])
                  /\ keysym[1] \in h \/ GoesUp(q, 0, keysym[1])
<1>1. /\ queue \in Seq(Events) /\ n \in Nat /\ DOMAIN queue = 1 .. n
      /\ Downs(queue, held) /\ Texts(queue) /\ Pressed(server_keys, queue, held)
  BY DEF TypeOK, Events, KeyInv
<1>2. ASSUME Downs(queue', held'), Texts(queue'), Pressed(server_keys', queue', held')
      PROVE  KeyInv'
  BY <1>2 DEF KeyInv
<1> HIDE DEF n
<1>3. ASSUME NEW q \in Seq(Events), NEW e \in Events, NEW h, NEW h2,
             Downs(q, h), Texts(q), Pressed(server_keys, q, h),
             \A k \in h : k \in h2 \/ (e.type = "KeyUp" /\ e.key = k),
             e.type = "KeyDown" => e.key \in h2,
             e.type = "TextInput" => e.keysym[1] \in Letters
      PROVE  LET r == Append(q, e)
             IN  Downs(r, h2) /\ Texts(r) /\ Pressed(server_keys, r, h2)
  <2> DEFINE r == Append(q, e)
  <2>1. /\ Len(q) \in Nat /\ DOMAIN q = 1 .. Len(q) /\ DOMAIN r = 1 .. (Len(q) + 1)
        /\ \A i \in 1 .. Len(q) : r[i] = q[i]
        /\ r[Len(q) + 1] = e
    BY Queued
  <2>2. \A i, k : GoesUp(q, i, k) => GoesUp(r, i, k)
    BY UpGrows
  <2>3. \A i \in 0 .. Len(q) : \A k \in h : k \in h2 \/ GoesUp(r, i, k)
    BY <1>3, UpAnew
  <2> HIDE DEF r
  <2>4. ASSUME NEW i \in 1 .. (Len(q) + 1), r[i].type = "KeyDown", r[i].key \notin Letters
        PROVE  r[i].key \in h2 \/ GoesUp(r, i, r[i].key)
    <3>1. CASE i = Len(q) + 1
      BY <1>3, <2>1, <2>4, <3>1
    <3>2. CASE i # Len(q) + 1
      <4>1. i \in 1 .. Len(q) /\ i \in 0 .. Len(q)
        BY <2>1, <3>2
      <4> QED BY <1>3, <2>1, <2>2, <2>3, <2>4, <4>1
    <3> QED BY <3>1, <3>2
  <2>5. ASSUME NEW i \in 1 .. (Len(q) + 1), r[i].type = "TextInput"
        PROVE  r[i].keysym[1] \in Letters
    <3>1. CASE i = Len(q) + 1
      BY <1>3, <2>1, <2>5, <3>1
    <3>2. CASE i # Len(q) + 1
      <4>1. i \in 1 .. Len(q)
        BY <2>1, <3>2
      <4> QED BY <1>3, <2>1, <2>5, <4>1
    <3> QED BY <3>1, <3>2
  <2>6. 0 \in 0 .. Len(q)
    BY <2>1
  <2>7. Pressed(server_keys, r, h2)
    BY <1>3, <2>2, <2>3, <2>6
  <2> QED BY <2>1, <2>4, <2>5, <2>7 DEF r
<1>4. ASSUME NEW k \in Keys, PressKey(k) PROVE KeyInv'
  <2>1. /\ held' = held \cup {k} /\ UNCHANGED server_keys
    BY <1>4, KeyPressed DEF ClientUnchanged
  <2>2. PICK e \in Events, f \in Events :
          /\ e.type = "KeyDown" /\ e.key = k
          /\ f.type = "TextInput" /\ f.keysym = Keysym(k, Modifiers')
          /\ \/ queue' = Append(queue, e)
             \/ queue' = Append(Append(queue, e), f) /\ k \in Letters
    BY <1>4, KeyPressed
  <2> DEFINE q == Append(queue, e)
  <2>3. q \in Seq(Events) /\ Downs(q, held') /\ Texts(q) /\ Pressed(server_keys, q, held')
    <3>1. /\ \A x \in held : x \in held' \/ (e.type = "KeyUp" /\ e.key = x)
          /\ e.type = "KeyDown" => e.key \in held'
          /\ e.type = "TextInput" => e.keysym[1] \in Letters
      BY <2>1, <2>2
    <3>2. q \in Seq(Events)
      BY <1>1
    <3> HIDE DEF Downs, Texts, Pressed
    <3> QED BY <1>1, <1>3, <3>1, <3>2
  <2> HIDE DEF q
  <2>4. CASE queue' = q
    BY <1>2, <2>1, <2>3, <2>4
  <2>5. CASE queue' = Append(q, f) /\ k \in Letters
    <3>1. f.keysym[1] \in Letters
      BY <2>2, <2>5 DEF Keysym
    <3>2. /\ \A x \in held' : x \in held' \/ (f.type = "KeyUp" /\ f.key = x)
          /\ f.type = "KeyDown" => f.key \in held'
          /\ f.type = "TextInput" => f.keysym[1] \in Letters
      BY <2>2, <3>1
    <3>3. LET r == Append(q, f)
          IN  Downs(r, held') /\ Texts(r) /\ Pressed(server_keys, r, held')
      <4> HIDE DEF Downs, Texts, Pressed
      <4> QED BY <1>3, <2>3, <3>2
    <3> QED BY <1>2, <2>1, <2>5, <3>3
  <2> QED BY <2>2, <2>4, <2>5 DEF q
<1>5. ASSUME NEW e \in Events, queue' = Append(queue, e), UNCHANGED server_keys,
             \A k \in held : k \in held' \/ (e.type = "KeyUp" /\ e.key = k),
             e.type \notin {"KeyDown", "TextInput"}
      PROVE  KeyInv'
  <2>1. LET r == Append(queue, e)
        IN  Downs(r, held') /\ Texts(r) /\ Pressed(server_keys, r, held')
    <3> HIDE DEF Downs, Texts, Pressed
    <3> QED BY <1>1, <1>3, <1>5
  <2> QED BY <1>2, <1>5, <2>1
<1>6. ASSUME NEW k \in Keys, ReleaseKey(k) PROVE KeyInv'
  <2>1. held' = held \ {k} /\ UNCHANGED server_keys
    BY <1>6, KeyReleased DEF ClientUnchanged
  <2>2. PICK e \in Events : e.type = "KeyUp" /\ e.key = k /\ queue' = Append(queue, e)
    BY <1>6, KeyReleased
  <2> QED BY <1>5, <2>1, <2>2
<1>7. CASE UserMouse
  <2>1. MouseQueued
    BY <1>7, MouseMoved
  <2>2. PICK e \in Events : IsMouse(e) /\ queue' = Append(queue, e)
    BY <2>1 DEF MouseQueued
  <2>3. e.type \notin {"KeyDown", "TextInput"} /\ UNCHANGED <<held, server_keys>>
    BY <2>1, <2>2 DEF IsMouse, MouseQueued, ClientUnchanged
  <2> QED BY <1>5, <2>2, <2>3
<1>8. ASSUME MainLoop,
             \A keysym \in server_keys' : keysym[1] \notin Letters =>
               \/ /\ keysym \in server_keys
                  /\ ~ (Head(queue).type = "KeyUp" /\ Head(queue).key = keysym[1])
               \/ /\ Head(queue).type = "KeyDown" /\ Head(queue).key = keysym[1]
                  /\ keysym = Keycode(keysym[1])
      PROVE  KeyInv'
  <2> DEFINE r == Tail(queue)
             e == Head(queue)
  <2>1. queue # <<>> /\ queue' = r /\ UNCHANGED held
    BY <1>8, MainLoopHandles DEF Handles
  <2>2. /\ n >= 1 /\ DOMAIN r = 1 .. (n - 1) /\ e = queue[1]
        /\ \A i \in 1 .. (n - 1) : r[i] = queue[i + 1]
    BY <1>1, <2>1, Dequeued DEF n
  <2>3. /\ \A i \in Nat : \A k : GoesUp(queue, i + 1, k) => GoesUp(r, i, k)
        /\ \A k : GoesUp(queue, 0, k) /\ ~ (e.type = "KeyUp" /\ e.key = k) => GoesUp(r, 0, k)
    BY <1>1, <2>1, UpShrinks
  <2> HIDE DEF r, e
  <2>4. \A i \in 1 .. (n - 1) : i + 1 \in 1 .. n /\ i \in Nat
    BY <1>1
  <2>5. Downs(r, held)
    BY <1>1, <2>2, <2>3, <2>4
  <2>6. Texts(r)
    BY <1>1, <2>2, <2>4
  <2>7. ASSUME NEW keysym \in server_keys', keysym[1] \notin Letters
        PROVE  keysym = Keycode(keysym[1]) /\ (keysym[1] \in held \/ GoesUp(r, 0, keysym[1]))
    <3>1. CASE keysym \in server_keys /\ ~ (e.type = "KeyUp" /\ e.key = keysym[1])
      BY <1>1, <2>3, <2>7, <3>1
    <3>2. CASE e.type = "KeyDown" /\ e.key = keysym[1] /\ keysym = Keycode(keysym[1])
      <4>1. 1 \in 1 .. n /\ 0 + 1 = 1 /\ 0 \in Nat
        BY <1>1, <2>2
      <4>2. e.key \in held \/ GoesUp(queue, 0 + 1, e.key)
        BY <1>1, <2>2, <2>7, <3>2, <4>1
      <4> QED BY <2>3, <3>2, <4>1, <4>2
    <3> QED BY <1>8, <2>7, <3>1, <3>2 DEF e
  <2> QED BY <1>2, <2>1, <2>5, <2>6, <2>7
<1>9. CASE HandleKeyDown
  <2> DEFINE e == Head(queue)
             keysym == Keysym(e.key, e.keymod)
  <2>1. e \in Events /\ e.type = "KeyDown" /\ e.key \in Keys /\ keysym \in Keysyms
    BY <1>9, MainLoopHandles, EventParts, KeysymOK DEF MainLoop, Handles, HandleKeyDown
  <2>2. server_keys' \subseteq server_keys \cup {keysym}
    BY <1>9, <2>1, PressStep DEF HandleKeyDown
  <2>3. keysym[1] = e.key /\ (e.key \notin Letters => keysym = Keycode(e.key))
    BY DEF Keysym, Keycode
  <2> HIDE DEF e, keysym
  <2> QED BY <1>8, <1>9, <2>1, <2>2, <2>3 DEF MainLoop, e
<1>10. CASE HandleKeyUp
  <2> DEFINE e == Head(queue)
  <2>1. e.type = "KeyUp"
    BY <1>10 DEF HandleKeyUp
  <2>2. ASSUME e.key \notin Letters PROVE Keycode(e.key) \notin server_keys'
    <3>1. SentAsKey(e) /\ Keysym(e.key, e.keymod) = Keycode(e.key)
      BY <2>2 DEF SentAsKey, Keysym, Keycode
    <3> QED BY <1>10, <3>1 DEF HandleKeyUp
  <2>3. server_keys' \subseteq server_keys
    BY <1>10 DEF HandleKeyUp
  <2> HIDE DEF e
  <2>4. ASSUME NEW keysym \in server_keys', keysym[1] \notin Letters
        PROVE  keysym \in server_keys /\ ~ (e.type = "KeyUp" /\ e.key = keysym[1])
    <3>1. keysym = Keycode(keysym[1])
      BY <1>1, <2>3, <2>4
    <3> QED BY <2>2, <2>3, <2>4, <3>1
  <2> QED BY <1>8, <1>10, <2>4 DEF MainLoop, e
<1>11. CASE HandleText
  <2> DEFINE e == Head(queue)
  <2>1. e \in Events /\ e.type = "TextInput" /\ e.keysym \in Keysyms
    BY <1>11, MainLoopHandles, EventParts DEF MainLoop, Handles, HandleText
  <2>2. server_keys' \subseteq server_keys \cup {e.keysym}
    BY <1>11, <2>1, PressStep DEF HandleText
  <2>3. e.keysym[1] \in Letters
    <3>1. queue # <<>> /\ queue[1] = e /\ 1 \in DOMAIN queue
      BY <1>1, <1>11, Dequeued DEF HandleText
    <3> QED BY <1>1, <2>1, <3>1
  <2> HIDE DEF e
  <2> QED BY <1>8, <1>11, <2>1, <2>2, <2>3 DEF MainLoop, e
<1>12. CASE HandleMouse \/ IgnoreMotion
  <2>1. UNCHANGED server_keys
    BY <1>12 DEF HandleMouse, IgnoreMotion, Handled
  <2>2. Head(queue).type # "KeyUp"
    BY <1>12 DEF HandleMouse, IgnoreMotion, MouseEvents
  <2> QED BY <1>8, <1>12, <2>1, <2>2 DEF MainLoop
<1>13. CASE UNCHANGED vars
  BY <1>13 DEF vars, KeyInv
<1> QED BY <1>4, <1>6, <1>7, <1>9, <1>10, <1>11, <1>12, <1>13
        DEF Next, User, UserMouse, MainLoop

(* In SDL, and without Ctrl, a letter that is pressed at the server is one *)
(* of the texts, and some key goes up after its key.                       *)
LEMMA TextStep ==
  ASSUME "Ctrl" \notin Keys, toolkit = "sdl", TypeOK, KeyInv, TextInv, [Next]_vars
  PROVE  TextInv'
<1> DEFINE n == Len(queue)
           Plain(q) ==
             \A i \in DOMAIN q : q[i].type \in {"KeyDown", "KeyUp"} => "Ctrl" \notin q[i].keymod
           Letter(s, p) == \A keysym \in s : keysym[1] \in Letters => keysym \in p
           Waits(p, q, h) == \A keysym \in p : keysym[1] \in h \/ SomeGoesUp(q, 0)
           Texts(q, h) ==
             \A i \in DOMAIN q : q[i].type = "TextInput"
               => q[i].keysym[1] \in h \/ SomeGoesUp(q, i)
<1>1. /\ queue \in Seq(Events) /\ n \in Nat /\ DOMAIN queue = 1 .. n
      /\ Plain(queue) /\ Letter(server_keys, pressed_text_keysyms)
      /\ Waits(pressed_text_keysyms, queue, held) /\ Texts(queue, held)
  BY DEF TypeOK, Events, TextInv
<1>2. ASSUME Plain(queue'), Letter(server_keys', pressed_text_keysyms'),
             Waits(pressed_text_keysyms', queue', held'), Texts(queue', held')
      PROVE  TextInv'
  BY <1>2 DEF TextInv
<1>3. "Ctrl" \notin Modifiers'
  <2>1. held' \subseteq Keys
    BY TypeOKStep DEF TypeOK
  <2> QED BY <2>1 DEF Modifiers
<1> HIDE DEF n
<1>4. ASSUME NEW q \in Seq(Events), NEW e \in Events, NEW h, NEW h2,
             Plain(q), Waits(pressed_text_keysyms, q, h), Texts(q, h),
             h \subseteq h2 \/ e.type = "KeyUp",
             e.type \in {"KeyDown", "KeyUp"} => e.keymod = Modifiers',
             e.type = "TextInput" => e.keysym[1] \in h2
      PROVE  LET r == Append(q, e)
             IN  Plain(r) /\ Waits(pressed_text_keysyms, r, h2) /\ Texts(r, h2)
  <2> DEFINE r == Append(q, e)
  <2>1. /\ Len(q) \in Nat /\ DOMAIN q = 1 .. Len(q) /\ DOMAIN r = 1 .. (Len(q) + 1)
        /\ \A i \in 1 .. Len(q) : r[i] = q[i]
        /\ r[Len(q) + 1] = e
    BY Queued
  <2>2. \A i : SomeGoesUp(q, i) => SomeGoesUp(r, i)
    BY UpGrows DEF SomeGoesUp
  <2>3. \A i \in 0 .. Len(q) : h \subseteq h2 \/ SomeGoesUp(r, i)
    <3>1. e.type = "KeyUp" => e.key \in Keys
      BY EventParts
    <3> QED BY <1>4, <3>1, UpAnew DEF SomeGoesUp
  <2> HIDE DEF r
  <2>4. \A i \in 1 .. (Len(q) + 1) : i = Len(q) + 1 \/ (i \in 1 .. Len(q) /\ i \in 0 .. Len(q))
    BY <2>1
  <2>5. Plain(r)
    BY <1>3, <1>4, <2>1, <2>4
  <2>6. Waits(pressed_text_keysyms, r, h2)
    <3>1. 0 \in 0 .. Len(q)
      BY <2>1
    <3> QED BY <1>4, <2>2, <2>3, <3>1
  <2>7. ASSUME NEW i \in 1 .. (Len(q) + 1), r[i].type = "TextInput"
        PROVE  r[i].keysym[1] \in h2 \/ SomeGoesUp(r, i)
    <3>1. CASE i = Len(q) + 1
      BY <1>4, <2>1, <2>7, <3>1
    <3>2. CASE i \in 1 .. Len(q) /\ i \in 0 .. Len(q)
      BY <1>4, <2>1, <2>2, <2>3, <2>7, <3>2
    <3> QED BY <2>4, <3>1, <3>2
  <2> QED BY <2>1, <2>5, <2>6, <2>7 DEF r
<1>5. ASSUME NEW k \in Keys, PressKey(k) PROVE TextInv'
  <2>1. held' = held \cup {k} /\ UNCHANGED <<server_keys, pressed_text_keysyms>>
    BY <1>5, KeyPressed DEF ClientUnchanged
  <2>2. PICK e \in Events, f \in Events :
          /\ e.type = "KeyDown" /\ e.key = k /\ e.keymod = Modifiers'
          /\ f.type = "TextInput" /\ f.keysym = Keysym(k, Modifiers')
          /\ queue' = Append(queue, e) \/ queue' = Append(Append(queue, e), f)
    BY <1>5, KeyPressed
  <2> DEFINE q == Append(queue, e)
  <2>3. /\ q \in Seq(Events) /\ Plain(q) /\ Waits(pressed_text_keysyms, q, held')
        /\ Texts(q, held')
    <3>1. /\ held \subseteq held' \/ e.type = "KeyUp"
          /\ e.type \in {"KeyDown", "KeyUp"} => e.keymod = Modifiers'
          /\ e.type = "TextInput" => e.keysym[1] \in held'
      BY <2>1, <2>2
    <3>2. q \in Seq(Events)
      BY <1>1
    <3> HIDE DEF Plain, Waits, Texts
    <3> QED BY <1>1, <1>4, <3>1, <3>2
  <2> HIDE DEF q
  <2>4. CASE queue' = q
    BY <1>1, <1>2, <2>1, <2>3, <2>4
  <2>5. CASE queue' = Append(q, f)
    <3>1. f.keysym[1] \in held'
      BY <2>1, <2>2 DEF Keysym
    <3>2. /\ held' \subseteq held' \/ f.type = "KeyUp"
          /\ f.type \in {"KeyDown", "KeyUp"} => f.keymod = Modifiers'
          /\ f.type = "TextInput" => f.keysym[1] \in held'
      BY <2>2, <3>1
    <3>3. LET r == Append(q, f)
          IN  Plain(r) /\ Waits(pressed_text_keysyms, r, held') /\ Texts(r, held')
      <4> HIDE DEF Plain, Waits, Texts
      <4> QED BY <1>4, <2>3, <3>2
    <3> QED BY <1>1, <1>2, <2>1, <2>5, <3>3
  <2> QED BY <2>2, <2>4, <2>5 DEF q
<1>6. ASSUME NEW e \in Events, queue' = Append(queue, e),
             UNCHANGED <<server_keys, pressed_text_keysyms>>,
             held \subseteq held' \/ e.type = "KeyUp",
             e.type \in {"KeyDown", "KeyUp"} => e.keymod = Modifiers',
             e.type # "TextInput"
      PROVE  TextInv'
  <2>1. LET r == Append(queue, e)
        IN  Plain(r) /\ Waits(pressed_text_keysyms, r, held') /\ Texts(r, held')
    <3> HIDE DEF Plain, Waits, Texts
    <3> QED BY <1>1, <1>4, <1>6
  <2> QED BY <1>1, <1>2, <1>6, <2>1
<1>7. ASSUME NEW k \in Keys, ReleaseKey(k) PROVE TextInv'
  <2>1. UNCHANGED <<server_keys, pressed_text_keysyms>>
    BY <1>7, KeyReleased DEF ClientUnchanged
  <2>2. PICK e \in Events : /\ e.type = "KeyUp" /\ e.keymod = Modifiers'
                            /\ queue' = Append(queue, e)
    BY <1>7, KeyReleased
  <2> QED BY <1>6, <2>1, <2>2
<1>8. CASE UserMouse
  <2>1. MouseQueued
    BY <1>8, MouseMoved
  <2>2. PICK e \in Events : IsMouse(e) /\ queue' = Append(queue, e)
    BY <2>1 DEF MouseQueued
  <2>3. /\ e.type \notin {"KeyDown", "KeyUp", "TextInput"}
        /\ UNCHANGED <<held, server_keys, pressed_text_keysyms>>
    BY <2>1, <2>2 DEF IsMouse, MouseQueued, ClientUnchanged
  <2> QED BY <1>6, <2>2, <2>3
<1>9. ASSUME MainLoop,
             Letter(server_keys', pressed_text_keysyms'),
             \A keysym \in pressed_text_keysyms' :
               \/ keysym[1] \in held
               \/ /\ keysym \in pressed_text_keysyms
                  /\ Head(queue).type # "KeyUp"
               \/ /\ Head(queue).type = "TextInput"
                  /\ keysym = Head(queue).keysym
      PROVE  TextInv'
  <2> DEFINE r == Tail(queue)
             e == Head(queue)
  <2>1. queue # <<>> /\ queue' = r /\ UNCHANGED held
    BY <1>9, MainLoopHandles DEF Handles
  <2>2. /\ n >= 1 /\ DOMAIN r = 1 .. (n - 1) /\ e = queue[1]
        /\ \A i \in 1 .. (n - 1) : r[i] = queue[i + 1]
    BY <1>1, <2>1, Dequeued DEF n
  <2>3. /\ \A i \in Nat : SomeGoesUp(queue, i + 1) => SomeGoesUp(r, i)
        /\ SomeGoesUp(queue, 0) /\ e.type # "KeyUp" => SomeGoesUp(r, 0)
    BY <1>1, <2>1, UpShrinks DEF SomeGoesUp
  <2> HIDE DEF r, e
  <2>4. \A i \in 1 .. (n - 1) : i + 1 \in 1 .. n /\ i \in Nat
    BY <1>1
  <2>5. Plain(r)
    BY <1>1, <2>2, <2>4
  <2>6. Texts(r, held)
    BY <1>1, <2>2, <2>3, <2>4
  <2>7. ASSUME NEW keysym \in pressed_text_keysyms'
        PROVE  keysym[1] \in held \/ SomeGoesUp(r, 0)
    <3>1. CASE keysym \in pressed_text_keysyms /\ e.type # "KeyUp"
      BY <1>1, <2>3, <3>1
    <3>2. CASE e.type = "TextInput" /\ keysym = e.keysym
      <4>1. 1 \in 1 .. n /\ 0 + 1 = 1 /\ 0 \in Nat
        BY <1>1, <2>2
      <4>2. e.keysym[1] \in held \/ SomeGoesUp(queue, 0 + 1)
        BY <1>1, <2>2, <3>2, <4>1
      <4> QED BY <2>3, <3>2, <4>1, <4>2
    <3> QED BY <1>9, <2>7, <3>1, <3>2 DEF e
  <2> QED BY <1>2, <1>9, <2>1, <2>5, <2>6, <2>7
<1>10. CASE HandleKeyDown
  <2> DEFINE e == Head(queue)
  <2>1. e \in Events /\ e.type = "KeyDown" /\ e.key \in Keys
    BY <1>10, MainLoopHandles, EventParts DEF MainLoop, Handles, HandleKeyDown
  <2>2. "Ctrl" \notin e.keymod
    <3>1. queue # <<>> /\ queue[1] = e /\ 1 \in DOMAIN queue
      BY <1>1, <1>10, Dequeued DEF HandleKeyDown
    <3> QED BY <1>1, <2>1, <3>1
  <2>3. ASSUME NEW keysym \in server_keys', keysym[1] \in Letters PROVE keysym \in server_keys
    <3>1. CASE SentAsKey(e)
      <4>1. e.key \notin Letters
        BY <2>2, <3>1 DEF SentAsKey, Gtk
      <4>2. Press(Keysym(e.key, e.keymod)) /\ Keysym(e.key, e.keymod) \in Keysyms
        BY <1>10, <2>1, <3>1, KeysymOK DEF HandleKeyDown
      <4>3. keysym \in server_keys \/ keysym = Keysym(e.key, e.keymod)
        BY <4>2, PressStep
      <4> QED BY <2>3, <4>1, <4>3 DEF Keysym
    <3>2. CASE ~ SentAsKey(e)
      BY <1>10, <3>2 DEF HandleKeyDown
    <3> QED BY <3>1, <3>2
  <2>4. UNCHANGED pressed_text_keysyms /\ e.type # "KeyUp"
    BY <1>10, <2>1 DEF HandleKeyDown
  <2> QED BY <1>1, <1>9, <1>10, <2>3, <2>4 DEF MainLoop
<1>11. CASE HandleKeyUp
  <2>1. /\ pressed_text_keysyms' = pressed_text_keysyms \ ReleasedText
        /\ server_keys' \subseteq server_keys \ ReleasedText
    BY <1>11 DEF HandleKeyUp
  <2>2. \A keysym \in pressed_text_keysyms' : keysym[1] \in held
    <3>1. ASSUME NEW keysym \in pressed_text_keysyms' PROVE keysym[1] \in held
      <4>1. keysym \in {Keycode(k) : k \in held}
        BY <2>1 DEF ReleasedText
      <4>2. PICK k \in held : keysym = <<k, FALSE>>
        BY <4>1 DEF Keycode
      <4> QED BY <4>2
    <3> QED BY <3>1
  <2> QED BY <1>1, <1>9, <1>11, <2>1, <2>2 DEF MainLoop
<1>12. CASE HandleText
  <2> DEFINE e == Head(queue)
  <2>1. e.type = "TextInput" /\ e.keysym \in Keysyms
    BY <1>12, MainLoopHandles, EventParts DEF MainLoop, Handles, HandleText
  <2>2. /\ server_keys' \subseteq server_keys \cup {e.keysym}
        /\ pressed_text_keysyms' = pressed_text_keysyms \cup {e.keysym}
    BY <1>12, <2>1, PressStep DEF HandleText
  <2> QED BY <1>1, <1>9, <1>12, <2>1, <2>2 DEF MainLoop
<1>13. CASE HandleMouse \/ IgnoreMotion
  <2>1. UNCHANGED <<server_keys, pressed_text_keysyms>>
    BY <1>13 DEF HandleMouse, IgnoreMotion, Handled
  <2>2. Head(queue).type # "KeyUp"
    BY <1>13 DEF HandleMouse, IgnoreMotion, MouseEvents
  <2> QED BY <1>1, <1>9, <1>13, <2>1, <2>2 DEF MainLoop
<1>14. CASE UNCHANGED vars
  BY <1>14 DEF vars, TextInv
<1> QED BY <1>5, <1>7, <1>8, <1>10, <1>11, <1>12, <1>13, <1>14
        DEF Next, User, UserMouse, MainLoop

(* The invariant holds when the view starts.                               *)
LEMMA InitInv == Init => IInv
<1> SUFFICES ASSUME Init PROVE IInv
  OBVIOUS
<1>1. /\ queue = <<>> /\ queue \in Seq(Events) /\ Len(queue) = 0 /\ DOMAIN queue = {}
      /\ held = {} /\ buttons = {} /\ server_keys = {} /\ pressed_text_keysyms = {}
      /\ server_buttons = [s \in Servers |-> {}] /\ told = "rfb"
  BY DEF Init
<1>2. TypeOK
  <2>1. menu \in [f8_pressed : BOOLEAN, relative_mouse_mode : BOOLEAN] /\ told \in Servers
    BY <1>1 DEF Init, Servers
  <2> QED BY <1>1, <2>1 DEF Init, TypeOK, Events
<1>3. ButtonInv
  <2>1. server_buttons[told] = buttons
    BY <1>1 DEF Servers
  <2> QED BY <1>1, <2>1 DEF ButtonInv, LastSays, NextSays
<1>4. KeyInv /\ TextInv
  BY <1>1 DEF KeyInv, TextInv
<1> QED BY <1>2, <1>3, <1>4 DEF IInv

(* The invariant holds in every state.                                     *)
LEMMA Invariance == Spec => []IInv
<1>1. IInv /\ [Next]_vars => IInv'
  <2> SUFFICES ASSUME IInv, [Next]_vars PROVE IInv'
    OBVIOUS
  <2>1. UNCHANGED toolkit
    <3>1. CASE User
      <4>1. ClientUnchanged
        BY <3>1 DEF User, PressKey, ReleaseKey, PressButton, ReleaseButton, MoveOrScroll
      <4> QED BY <4>1 DEF ClientUnchanged
    <3>2. CASE MainLoop
      BY <3>2, MainLoopHandles DEF IInv, Handles
    <3> QED BY <3>1, <3>2 DEF Next, vars
  <2>2. toolkit' = "sdl" /\ "Ctrl" \notin Keys => TextInv'
    BY <2>1, TextStep DEF IInv
  <2> QED BY <2>1, <2>2, TypeOKStep, ButtonStep, KeyStep DEF IInv
<1> QED BY <1>1, InitInv, PTL DEF Spec

-----------------------------------------------------------------------------
(* Theorems                                                                *)

(* The queue carries events, keys and buttons are what they are.           *)
THEOREM TypeCorrect == Spec => []TypeOK
<1>1. IInv => TypeOK
  BY DEF IInv
<1> QED BY <1>1, Invariance, PTL

(* The server that was told last knows of every button that has no event   *)
(* waiting, and with GTK takes no two clicks for one, however many buttons *)
(* and events there are, in both toolkits and both modes of the mouse.     *)
THEOREM ServersKnowTheButtons == Spec => []ButtonsAgree
<1>1. IInv => ButtonsAgree
  <2> SUFFICES ASSUME IInv, NEW b \in Buttons
               PROVE  /\ (\A i \in DOMAIN queue : ~ EventOf(queue[i], b))
                           => (b \in server_buttons[told] <=> b \in buttons)
                      /\ \A i \in DOMAIN queue :
                           Gtk /\ NextOf(b, i)
                             => (b \in server_buttons[told] <=> queue[i].type = "MouseButtonUp")
    BY DEF ButtonsAgree
  <2>1. /\ LastSays(queue, 0, b, buttons, b \in server_buttons[told])
        /\ Gtk => NextSays(queue, 0, b, b \in server_buttons[told])
    BY DEF IInv, ButtonInv
  <2>2. \A i \in DOMAIN queue : i > 0
    <3>1. queue \in Seq(Events)
      BY DEF IInv, TypeOK, Events
    <3> QED BY <3>1
  <2> QED BY <2>1, <2>2 DEF LastSays, NextSays, NextOf
<1> QED BY <1>1, Invariance, PTL

(* Nothing but letters is left pressed when all was handled.               *)
OnlyLettersStay ==
  held = {} /\ queue = <<>> => \A keysym \in server_keys : keysym[1] \in Letters

(* Whatever the user does with Ctrl, once nothing is pressed and           *)
(* everything was handled only letters can be left pressed at the server.  *)
THEOREM OtherKeysReleased == Spec => []OnlyLettersStay
<1>1. IInv => OnlyLettersStay
  <2> SUFFICES ASSUME IInv, held = {}, queue = <<>>, NEW keysym \in server_keys
               PROVE  keysym[1] \in Letters
    BY DEF OnlyLettersStay
  <2> QED BY DEF IInv, KeyInv, GoesUp
<1> QED BY <1>1, Invariance, PTL

(* Where Ctrl is not pressed SDL releases every key, and GTK every key but *)
(* letters; GTK does so with Ctrl, too.  (With SDL a letter that goes down *)
(* under Ctrl and up without it is not released.)                          *)
THEOREM EveryKeyIsReleased ==
  ASSUME "Ctrl" \notin Keys \/ "sdl" \notin Toolkits
  PROVE  Spec => []KeysReleased
<1>1. IInv => KeysReleased
  <2> SUFFICES ASSUME IInv, held = {}, queue = <<>>, NEW keysym \in server_keys
               PROVE  Gtk /\ keysym[1] \in Letters
    BY DEF KeysReleased
  <2>1. keysym[1] \in Letters
    BY DEF IInv, KeyInv, GoesUp
  <2>2. CASE toolkit = "sdl"
    <3>1. TextInv
      BY <2>2 DEF IInv, TypeOK
    <3>2. keysym \in pressed_text_keysyms /\ ~ SomeGoesUp(queue, 0)
      BY <2>1, <3>1 DEF TextInv, SomeGoesUp, GoesUp
    <3> QED BY <3>1, <3>2 DEF TextInv
  <2> QED BY <2>1, <2>2, InputAssumption DEF IInv, TypeOK, Gtk
<1> QED BY <1>1, Invariance, PTL

(* Without Ctrl no key that goes up, and no other event, releases a small  *)
(* letter at the server while its key is held; a capital goes up with the  *)
(* next key that does, and with nothing else.                              *)
THEOREM HeldSmallLettersStay ==
  ASSUME "Ctrl" \notin Keys
  PROVE  Spec => OnlyCapitalsGoUpEarly
<1> DEFINE Stays ==
      \A k \in Letters : \A capital \in BOOLEAN :
        /\ Sdl /\ k \in held
        /\ <<k, capital>> \in server_keys \ server_keys'
        => capital /\ Head(queue).type = "KeyUp"
<1>1. IInv /\ [Next]_vars => [Stays]_vars
  <2> SUFFICES ASSUME IInv, Next, NEW k \in Letters, NEW capital \in BOOLEAN,
                      Sdl, k \in held, <<k, capital>> \in server_keys \ server_keys'
               PROVE  capital /\ Head(queue).type = "KeyUp"
    OBVIOUS
  <2>1. CASE User
    BY <2>1 DEF User, PressKey, ReleaseKey, PressButton, ReleaseButton, MoveOrScroll,
                ClientUnchanged
  <2>2. CASE HandleKeyUp
    <3> DEFINE e == Head(queue)
               key == IF SentAsKey(e) THEN {Keysym(e.key, e.keymod)} ELSE {}
    <3>1. /\ server_keys' = server_keys \ (key \cup ReleasedText)
          /\ queue # <<>> /\ e.type = "KeyUp"
      BY <2>2 DEF HandleKeyUp
    <3>2. "Ctrl" \notin e.keymod
      <4>1. queue \in Seq(Events)
        BY DEF IInv, TypeOK, Events
      <4>2. 1 \in DOMAIN queue /\ queue[1] = e
        BY <3>1, <4>1, Dequeued
      <4> QED BY <3>1, <4>2 DEF IInv, TextInv, Sdl
    <3>3. <<k, FALSE>> \notin key
      BY <3>2 DEF SentAsKey, Keysym, Sdl, Gtk
    <3>4. <<k, FALSE>> \notin ReleasedText
      BY DEF ReleasedText, Keycode
    <3> QED BY <3>1, <3>3, <3>4
  <2>3. CASE HandleKeyDown \/ HandleText \/ HandleMouse \/ IgnoreMotion
    <3>1. server_keys \subseteq server_keys'
      BY <2>3 DEF HandleKeyDown, HandleText, HandleMouse, IgnoreMotion, Handled, Press
    <3> QED BY <3>1
  <2> QED BY <2>1, <2>2, <2>3 DEF Next, MainLoop
<1> QED BY <1>1, Invariance, PTL DEF Spec, OnlyCapitalsGoUpEarly

=============================================================================
