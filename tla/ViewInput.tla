----------------------------- MODULE ViewInput -----------------------------
(***************************************************************************)
(* Keyboard and mouse in the views, src/presentation/sdl.rs and gtk.rs     *)
(* with menu.rs.  The toolkit queues events and keeps the state of the     *)
(* keyboard and of the mouse; the main loop handles one event at a time.   *)
(*                                                                         *)
(* With SDL it asks for the STATE while it does, so the state may be ahead *)
(* of the event.  A letter is sent to the server when SDL says which text  *)
(* it makes; every other key, and a letter under Ctrl, when it goes down.  *)
(* With GTK an event carries what there is to know: the buttons that were  *)
(* pressed before it, and the keysym under the modifiers of that moment.   *)
(*                                                                         *)
(* The channel to the write end keeps its order (RfbWriteEnd), so what the *)
(* server has been told is kept here as what it believes is pressed.       *)
(***************************************************************************)
EXTENDS Naturals, Sequences

CONSTANTS Keys,      \* "Shift", "Ctrl", "F6", "F8", letters and other keys
          Letters,   \* keys whose keycode is the text they make
          Buttons,   \* left, middle, right
          Toolkits,  \* the views that are considered: "sdl", "gtk"
          MaxQueue   \* bound: the user waits while the toolkit's queue is that long

\* The wheel's buttons, which are never among those the toolkit knows as pressed.
Scroll == {"scroll_up", "scroll_down"}

ASSUME InputAssumption ==
  /\ Letters \subseteq Keys \ {"Shift", "Ctrl", "F6", "F8"}
  /\ Buttons \cap Scroll = {}
  /\ Toolkits \subseteq {"sdl", "gtk"}
  /\ MaxQueue \in Nat

VARIABLES
  toolkit,              \* the view that main() runs
  held, buttons,        \* toolkit: pressed keys, pressed buttons
  queue,                \* toolkit: events, oldest first
  pressed_text_keysyms, \* MainLoop of SDL
  menu,                 \* Menu: f8_pressed, relative_mouse_mode
  server_keys,          \* keysyms the RFB server believes to be pressed
  server_buttons,       \* buttons: at the RFB server, at the mouse server
  told                  \* history: the server that was told of the buttons last

vars == <<toolkit, held, buttons, queue, pressed_text_keysyms, menu, server_keys,
          server_buttons, told>>

Sdl == toolkit = "sdl"
Gtk == toolkit = "gtk"

Servers == {"rfb", "mouse"}

\* A keysym is a key and whether it is the capital of a letter.
Keysyms == Keys \X BOOLEAN

\* The keysym of a keycode, sdl_keycode_to_x11_keysym, and of a text.
Keysym(key, keymod) == <<key, key \in Letters /\ "Shift" \in keymod>>
Keycode(key) == <<key, FALSE>>

Modifiers == held \cap {"Shift", "Ctrl"}

KeyEvents == [type : {"KeyDown", "KeyUp"}, key : Keys, keymod : SUBSET {"Shift", "Ctrl"}]
TextEvents == [type : {"TextInput"}, keysym : Keysyms]
\* state: the buttons before the event, for GTK.
MouseEvents ==
  [type : {"MouseButtonDown", "MouseButtonUp"}, button : Buttons, state : SUBSET Buttons]
    \cup [type : {"MouseMotion"}, state : SUBSET Buttons]
    \cup [type : {"MouseWheel"}, y : Scroll, state : SUBSET Buttons]

Init ==
  /\ toolkit \in Toolkits
  /\ held = {} /\ buttons = {}
  /\ queue = <<>>
  /\ pressed_text_keysyms = {}
  /\ menu = [f8_pressed |-> FALSE, relative_mouse_mode |-> FALSE]
  /\ server_keys = {}
  /\ server_buttons = [s \in Servers |-> {}]
  /\ told = "rfb"

-----------------------------------------------------------------------------
(* The user and the toolkit (external)                                     *)

ClientUnchanged ==
  UNCHANGED <<toolkit, pressed_text_keysyms, menu, server_keys, server_buttons, told>>

\* A key goes down or repeats.  Without Ctrl a letter also makes a text,
\* which SDL reports.
PressKey(k) ==
  /\ Len(queue) < MaxQueue
  /\ held' = held \cup {k}
  /\ LET keymod == Modifiers'
         down == [type |-> "KeyDown", key |-> k, keymod |-> keymod]
         text == [type |-> "TextInput", keysym |-> Keysym(k, keymod)]
     IN  queue' = IF Sdl /\ k \in Letters /\ "Ctrl" \notin keymod
                  THEN queue \o <<down, text>> ELSE Append(queue, down)
  /\ UNCHANGED buttons /\ ClientUnchanged

\* keymod no longer has the modifier that is released.
ReleaseKey(k) ==
  /\ Len(queue) < MaxQueue
  /\ k \in held
  /\ held' = held \ {k}
  /\ queue' = Append(queue, [type |-> "KeyUp", key |-> k, keymod |-> Modifiers'])
  /\ UNCHANGED buttons /\ ClientUnchanged

PressButton(b) ==
  /\ Len(queue) < MaxQueue
  /\ b \notin buttons
  /\ buttons' = buttons \cup {b}
  /\ queue' = Append(queue, [type |-> "MouseButtonDown", button |-> b, state |-> buttons])
  /\ UNCHANGED held /\ ClientUnchanged

ReleaseButton(b) ==
  /\ Len(queue) < MaxQueue
  /\ b \in buttons
  /\ buttons' = buttons \ {b}
  /\ queue' = Append(queue, [type |-> "MouseButtonUp", button |-> b, state |-> buttons])
  /\ UNCHANGED held /\ ClientUnchanged

MoveOrScroll ==
  /\ Len(queue) < MaxQueue
  /\ \/ queue' = Append(queue, [type |-> "MouseMotion", state |-> buttons])
     \/ \E y \in Scroll :
          queue' = Append(queue, [type |-> "MouseWheel", y |-> y, state |-> buttons])
  /\ UNCHANGED <<held, buttons>> /\ ClientUnchanged

-----------------------------------------------------------------------------
(* Menu::intercept_key_press                                               *)

Intercepts(keysym) == menu.f8_pressed \/ keysym = Keycode("F8")

MenuAfter(keysym) ==
  [f8_pressed |-> ~ menu.f8_pressed /\ keysym = Keycode("F8"),
   relative_mouse_mode |->
     IF menu.f8_pressed /\ keysym = Keycode("F6")
     THEN ~ menu.relative_mouse_mode ELSE menu.relative_mouse_mode]

-----------------------------------------------------------------------------
(* MainLoop::iterate of SDL, the signal handlers of GTK                    *)

\* handle_key_event, handle_keyboard_input with down = true: the menu takes it, or the server gets it.
Press(keysym) ==
  IF Intercepts(keysym)
  THEN menu' = MenuAfter(keysym) /\ UNCHANGED server_keys
  ELSE server_keys' = server_keys \cup {keysym} /\ UNCHANGED menu

\* Keys that are sent at once, without waiting for the text they make.
SentAsKey(e) == Gtk \/ "Ctrl" \in e.keymod \/ e.key \notin Letters

HandleKeyDown ==
  /\ queue # <<>> /\ Head(queue).type = "KeyDown"
  /\ IF SentAsKey(Head(queue))
     THEN Press(Keysym(Head(queue).key, Head(queue).keymod))
     ELSE UNCHANGED <<menu, server_keys>>
  /\ queue' = Tail(queue)
  /\ UNCHANGED <<toolkit, held, buttons, pressed_text_keysyms, server_buttons, told>>

\* Mistake: every text key is released as soon as any key is.
AllText == pressed_text_keysyms

\* Mistake: only the text of the released key itself is looked for.
TextOfEvent == pressed_text_keysyms \cap {Keycode(Head(queue).key)}

\* drain_filter: text keys that are not pressed any more.
ReleasedText == pressed_text_keysyms \ {Keycode(k) : k \in held}

\* The key itself, if it was sent as a key, and the released text keys.
HandleKeyUp ==
  /\ queue # <<>> /\ Head(queue).type = "KeyUp"
  /\ LET e == Head(queue)
         key == IF SentAsKey(e) THEN {Keysym(e.key, e.keymod)} ELSE {}
     IN  server_keys' = server_keys \ (key \cup ReleasedText)
  /\ pressed_text_keysyms' = pressed_text_keysyms \ ReleasedText
  /\ queue' = Tail(queue)
  /\ UNCHANGED <<toolkit, held, buttons, menu, server_buttons, told>>

HandleText ==
  /\ queue # <<>> /\ Head(queue).type = "TextInput"
  /\ pressed_text_keysyms' = pressed_text_keysyms \cup {Head(queue).keysym}
  /\ Press(Head(queue).keysym)
  /\ queue' = Tail(queue)
  /\ UNCHANGED <<toolkit, held, buttons, server_buttons, told>>

Wheel(e) == IF e.type = "MouseWheel" THEN {e.y} ELSE {}
Down(e) == IF e.type = "MouseButtonDown" THEN {e.button} ELSE {}
Up(e) == IF e.type = "MouseButtonUp" THEN {e.button} ELSE {}

\* get_buttons_state, updated_buttons_state: the state of this moment, which
\* may lack a button that is up again by now.
SdlButtons(e) == buttons \cup Wheel(e) \cup Down(e)

\* Mistake: GDK's state is taken for the state after the event.
StateOfEvent(e) == e.state \cup Wheel(e)

\* compute_buttons_state: the state before the event and what it changes.
GtkButtons(e) == (e.state \cup Wheel(e) \cup Down(e)) \ Up(e)

\* Mistake: a button that is up again by now is not reported.
StateOnly(e) == IF Sdl THEN buttons ELSE GtkButtons(e)

ButtonsState(e) == IF Sdl THEN SdlButtons(e) ELSE GtkButtons(e)

\* What the last GuiEvent of this event says: the wheel is pressed and
\* released within one event.
ButtonsWithoutScrolling(e) == ButtonsState(e) \ Scroll

Handled ==
  /\ queue' = Tail(queue)
  /\ UNCHANGED <<toolkit, held, buttons, pressed_text_keysyms, menu, server_keys>>

HandleMouse ==
  /\ queue # <<>> /\ Head(queue) \in MouseEvents
  /\ LET server == IF menu.relative_mouse_mode THEN "mouse" ELSE "rfb"
     IN  /\ server_buttons' =
              [server_buttons EXCEPT ![server] = ButtonsWithoutScrolling(Head(queue))]
         /\ told' = server
  /\ Handled

\* GTK in the relative mode: a motion to the center, where the pointer is
\* warped after every other event, is not reported.
IgnoreMotion ==
  /\ queue # <<>> /\ Head(queue).type = "MouseMotion"
  /\ Gtk /\ menu.relative_mouse_mode
  /\ UNCHANGED <<server_buttons, told>>
  /\ Handled

-----------------------------------------------------------------------------
User ==
  \/ \E k \in Keys : PressKey(k) \/ ReleaseKey(k)
  \/ \E b \in Buttons : PressButton(b) \/ ReleaseButton(b)
  \/ MoveOrScroll

MainLoop ==
  HandleKeyDown \/ HandleKeyUp \/ HandleText \/ HandleMouse \/ IgnoreMotion

Next == User \/ MainLoop

\* The main loop handles what is queued; nothing forces the user.
Spec == Init /\ [][Next]_vars /\ WF_vars(MainLoop)

-----------------------------------------------------------------------------
(* Properties                                                              *)

TypeOK ==
  /\ toolkit \in Toolkits
  /\ held \subseteq Keys /\ buttons \subseteq Buttons
  /\ queue \in Seq(KeyEvents \cup TextEvents \cup MouseEvents)
  /\ pressed_text_keysyms \subseteq Keysyms
  /\ menu \in [f8_pressed : BOOLEAN, relative_mouse_mode : BOOLEAN]
  /\ server_keys \subseteq Keysyms
  /\ server_buttons \in [Servers -> SUBSET Buttons]
  /\ told \in Servers

(* When nothing is pressed and everything was handled the server believes  *)
(* that no key is pressed, in whatever order Shift, letters and the keys   *)
(* of the menu went up and however late the main loop was.  With GTK that  *)
(* is so except for letters, whose keysym depends on Shift.                *)
KeysReleased ==
  held = {} /\ queue = <<>>
    => \A keysym \in server_keys : Gtk /\ keysym[1] \in Letters

(* Every key that goes up looks for letters to release.  A letter whose    *)
(* key is held goes up at the server only then, and only if it is a        *)
(* capital: the texts are compared with the unshifted keycodes of the keys *)
(* that are pressed, so a held capital is never among them and goes up     *)
(* with the next key, whatever that is; a small letter stays pressed.      *)
OnlyCapitalsGoUpEarly ==
  [][\A k \in Letters : \A capital \in BOOLEAN :
       /\ Sdl /\ k \in held
       /\ <<k, capital>> \in server_keys \ server_keys'
       => capital /\ Head(queue).type = "KeyUp"]_vars

EventOf(e, b) == e.type \in {"MouseButtonDown", "MouseButtonUp"} /\ e.button = b

\* The first event of button b that waits.
NextOf(b, i) ==
  EventOf(queue[i], b) /\ \A j \in DOMAIN queue : j < i => ~ EventOf(queue[j], b)

(* The server that was told last knows of every button that has no event   *)
(* waiting whether it is pressed: neither a button that went up and down   *)
(* again in between nor the wheel leaves a wrong one behind.  With GTK it  *)
(* also believes what was so before the first event that waits, so no two  *)
(* clicks look like one.  (The other server is not told when the menu      *)
(* changes the mode of the mouse: it may go on believing in a button.)     *)
ButtonsAgree ==
  \A b \in Buttons :
    /\ (\A i \in DOMAIN queue : ~ EventOf(queue[i], b))
         => (b \in server_buttons[told] <=> b \in buttons)
    /\ \A i \in DOMAIN queue :
         Gtk /\ NextOf(b, i)
           => (b \in server_buttons[told] <=> queue[i].type = "MouseButtonUp")

(* A click reaches a server, also one that is over before the main loop    *)
(* handles its first event, if no server believes the button to be pressed *)
(* when its turn comes.  (With SDL that may be otherwise: a button that is *)
(* down again when its Up is handled is reported as pressed all along, so  *)
(* the second of two clicks made faster than the main loop is lost.)       *)
ClicksArrive ==
  \A b \in Buttons :
    /\ \A s \in Servers : b \notin server_buttons[s]
    /\ \E i \in DOMAIN queue : NextOf(b, i) /\ queue[i].type = "MouseButtonDown"
    ~> b \in server_buttons[told]
=============================================================================
