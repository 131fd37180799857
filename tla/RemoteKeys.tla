----------------------------- MODULE RemoteKeys -----------------------------
(***************************************************************************)
(* Key presses of a remote control, drivers/input/rc/rc-main.c: the thread *)
(* of the decoders reports messages (rc_keydown, rc_repeat, rc_keyup), a   *)
(* timer releases the key when none has come for a while, and a user       *)
(* changes the table of keys.  Everything under keylock is one step; the   *)
(* key is looked up under another lock before, and a handler that has      *)
(* expired may run late.                                                   *)
(***************************************************************************)
EXTENDS Naturals, FiniteSets

CONSTANTS
  Messages,     \* scancodes, each with its toggle bit
  Keycodes,
  Timeout,      \* ticks from the last message to keyup_jiffies
  NULL          \* KEY_RESERVED, and no message

Mapped == {m[1] : m \in Messages}     \* the scancodes

VARIABLES
  rmap,           \* the table: the key of each scancode, NULL if none
  looked,         \* the message rc_keydown is about, and the key it found
  keypressed, last_keycode,
  last,           \* last_scancode and last_toggle
  left,           \* ticks until keyup_jiffies
  due, late_up,   \* ticks until timer_keyup expires, or NULL; its handler is about to run
  down,           \* the keys input_dev has been told are pressed
  quiet,          \* history: ticks since the last message about the key pressed
  remapped        \* history: a message repeated a scancode whose key had changed

press == <<keypressed, last_keycode, last, down, remapped>>
keyup == <<left, due, late_up, quiet>>
vars == <<rmap, looked, press, keyup>>

Ticks == 0..Timeout

TypeOK ==
  /\ rmap \in [Mapped -> Keycodes \cup {NULL}]
  /\ looked \in (Messages \X (Keycodes \cup {NULL})) \cup {NULL}
  /\ keypressed \in BOOLEAN /\ last_keycode \in Keycodes \cup {NULL}
  /\ last \in Messages \cup {NULL}
  /\ left \in Ticks /\ due \in Ticks \cup {NULL} /\ late_up \in BOOLEAN
  /\ down \subseteq Keycodes /\ quiet \in Ticks /\ remapped \in BOOLEAN

Init ==
  /\ rmap = [s \in Mapped |-> NULL]
  /\ looked = NULL
  /\ keypressed = FALSE /\ last_keycode = NULL /\ last = NULL
  /\ left = 0 /\ due = NULL /\ late_up = FALSE
  /\ down = {} /\ quiet = 0 /\ remapped = FALSE

\* keyup_jiffies and the timer are moved on.
Restart == left' = Timeout /\ due' = Timeout /\ quiet' = 0 /\ UNCHANGED late_up

-----------------------------------------------------------------------------
(* The decoders.                                                           *)

\* rc_keydown looks the key up,
LookUp(m) ==
  /\ looked = NULL
  /\ looked' = <<m, rmap[m[1]]>>
  /\ UNCHANGED <<rmap, press, keyup>>

\* Fault: another key does not release the one that is pressed.
DoKeydownOver(m, k) ==
  LET new == ~keypressed \/ last # m
  IN  /\ keypressed' = (keypressed \/ (new /\ k # NULL))
      /\ down' = down \cup (IF new THEN {k} \ {NULL} ELSE {})
      /\ last' = m /\ last_keycode' = k
      /\ remapped' = (remapped \/ (~new /\ k # last_keycode))

\* releases another key that is pressed and presses this one (ir_do_keydown),
DoKeydown(m, k) ==
  LET new == ~keypressed \/ last # m
      others == IF keypressed THEN down \ {last_keycode} ELSE down
  IN  /\ keypressed' = IF new THEN k # NULL ELSE keypressed
      /\ down' = IF new THEN others \cup ({k} \ {NULL}) ELSE down
      /\ last' = m /\ last_keycode' = k
      /\ remapped' = (remapped \/ (~new /\ k # last_keycode))

\* and sets the time it is to be released.
KeyDown ==
  /\ looked # NULL
  /\ DoKeydown(looked[1], looked[2])
  /\ IF keypressed' THEN Restart ELSE UNCHANGED keyup
  /\ looked' = NULL
  /\ UNCHANGED rmap

\* Fault: only keyup_jiffies is moved on.
RepeatUntimed ==
  /\ looked = NULL /\ keypressed
  /\ left' = Timeout /\ quiet' = 0
  /\ UNCHANGED <<due, late_up, rmap, looked, press>>

\* rc_repeat; with no key pressed it changes nothing.
Repeat ==
  /\ looked = NULL /\ keypressed
  /\ Restart
  /\ UNCHANGED <<rmap, looked, press>>

\* ir_do_keyup
DoKeyup ==
  /\ down' = IF keypressed THEN down \ {last_keycode} ELSE down
  /\ keypressed' = FALSE
  /\ UNCHANGED <<last_keycode, last, remapped>>

\* rc_keyup
KeyUp ==
  /\ looked = NULL /\ keypressed
  /\ DoKeyup
  /\ UNCHANGED <<rmap, looked, keyup>>

-----------------------------------------------------------------------------
(* The timer, and the user's EVIOCSKEYCODE.                                *)

Tick ==
  /\ left > 0 \/ quiet < Timeout \/ (due # NULL /\ due > 0)
  /\ due \notin {0}
  /\ left' = IF left > 0 THEN left - 1 ELSE 0
  /\ due' = IF due = NULL THEN NULL ELSE due - 1
  /\ quiet' = IF quiet < Timeout THEN quiet + 1 ELSE quiet
  /\ UNCHANGED <<rmap, looked, press, late_up>>

Expire ==
  /\ due = 0
  /\ due' = NULL /\ late_up' = TRUE
  /\ UNCHANGED <<rmap, looked, press, left, quiet>>

\* Fault: the handler does not look at keyup_jiffies.
TimerKeyupBlind ==
  /\ late_up
  /\ late_up' = FALSE
  /\ DoKeyup
  /\ UNCHANGED <<rmap, looked, left, due, quiet>>

\* ir_timer_keyup
TimerKeyup ==
  /\ late_up
  /\ late_up' = FALSE
  /\ IF left = 0 THEN DoKeyup ELSE UNCHANGED press
  /\ UNCHANGED <<rmap, looked, left, due, quiet>>

\* ir_setkeycode, as Keymap shows it.
Remap(s, k) ==
  /\ rmap' = [rmap EXCEPT ![s] = k]
  /\ UNCHANGED <<looked, press, keyup>>

-----------------------------------------------------------------------------

Timer == Tick \/ Expire \/ TimerKeyup

Next ==
  \/ \E m \in Messages : LookUp(m)
  \/ KeyDown \/ Repeat \/ KeyUp
  \/ Timer
  \/ \E s \in Mapped, k \in Keycodes \cup {NULL} : Remap(s, k)

Spec == Init /\ [][Next]_vars

\* Time passes, and in the end the handler of an expired timer runs.
Fairness == WF_vars(Timer)

FairSpec == Spec /\ Fairness

-----------------------------------------------------------------------------
(* What the input device is told.                                          *)

\* The one key that is down is the one that will be released, whatever else was
\* pressed and however the timer meets the messages; unless the key of the
\* scancode was changed while it was held (rc-main.c:626-636, 737-763).
PressedIsReleased ==
  ~remapped => down = (IF keypressed THEN {last_keycode} ELSE {})

\* The timer releases no key before the time after the last message about it is
\* up, though the message come when its handler is about to run: what the comment
\* at rc-main.c:668-677 is about (rc-main.c:678-680, 714-717, 784-788).
NoEarlyRelease ==
  [][keypressed /\ ~keypressed' /\ late_up /\ ~late_up' => quiet = Timeout]_vars

\* A press ends, unless messages about the key keep coming (rc-main.c:663-682,
\* 714-717, 784-788).
PressEnds == []<>(~keypressed \/ quiet = 0)
=============================================================================
