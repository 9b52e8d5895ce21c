------------------------------- MODULE Button -------------------------------
(***************************************************************************)
(* The button: the state machine of iot_button.c, which its esp_timer runs *)
(* once per period, and the event handler of em_button, which it calls and *)
(* which posts the events that start provisioning and the factory reset.   *)
(* Times are in periods.  The device has one button, created once without  *)
(* power saving and with one callback per event (button.c:65-95); deleting *)
(* it, taking callbacks back and the getters have no caller.               *)
(*                                                                         *)
(* A timestamp is kept as its age.  The clock, milliseconds in 32 bits,    *)
(* may wrap around after a press: wraps_in periods later, if it is not 0.  *)
(* That a break lasts 49 days is left out.                                 *)
(***************************************************************************)
EXTENDS Naturals

CONSTANTS
  Debounce,      \* CONFIG_BUTTON_DEBOUNCE_TICKS
  Short,         \* CONFIG_BUTTON_SHORT_PRESS_TIME_MS
  Long,          \* CONFIG_BUTTON_LONG_PRESS_TIME_MS
  Serial,        \* CONFIG_BUTTON_LONG_PRESS_HOLD_SERIAL_TIME_MS
  BreakMax,      \* CONFIG_EM_BUTTON_BREAK_TIME_MAX_MS
  VeryLong,      \* CONFIG_EM_BUTTON_VERY_LONG_PRESS_TIME_MS
  Clicks,        \* CONFIG_EM_BUTTON_MULTIPLE_CLICKS_NUM
  MaxClicks,     \* bound: clicks in a row
  MaxHold        \* bound: how long the button is held

ASSUME ButtonAssumption ==
  {Debounce, Short, Long, Serial, BreakMax, VeryLong, Clicks} \subseteq Nat

VARIABLES
  btn,        \* button_dev_t
  evt,        \* the callback of this period, if any: the event that it reports
  previous,   \* evt_previous
  pressed,    \* ts_pressed,
  wraps_in,   \* ... and when the clock wraps around after it
  break,      \* ts_break
  posted,     \* the event that is posted in this period
  held,       \* history: how long the button has been down,
  gap,        \* ... how long after the last 3x click it went down,
  resets      \* ... and whether this press has asked for a factory reset

buttonVars == <<btn, evt, previous, pressed, wraps_in, break, posted, held, gap, resets>>

\* iot_button_create, button_init
ButtonInit ==
  /\ btn = [state |-> "down?", ticks |-> 0, repeat |-> 0, debounce |-> 0, active |-> FALSE,
            hold_cnt |-> 0, started |-> FALSE]
  /\ evt = "none" /\ previous = "none" /\ posted = "none"
  /\ pressed = 0 /\ wraps_in = 0 /\ break = 0
  /\ held = 0 /\ gap = 0 /\ resets = FALSE

-----------------------------------------------------------------------------
(* iot_button.c: button_handler                                            *)

\* The head of the handler: the ticks, and the level once it is stable
Sampled(active) ==
  LET b == [btn EXCEPT !.ticks = IF btn.state = "down?" THEN @ ELSE @ + 1] IN
  CASE active = b.active -> [b EXCEPT !.debounce = 0]
    [] active # b.active /\ b.debounce + 1 < Debounce -> [b EXCEPT !.debounce = @ + 1]
    [] OTHER -> [b EXCEPT !.debounce = 0, !.active = active]

\* Each case yields the button and the callback that it calls.
To(b, state, event) == [b |-> [b EXCEPT !.state = state], evt |-> event]
Stay(b) == To(b, b.state, "none")

PressDownCheck(b) ==
  IF b.active THEN To([b EXCEPT !.ticks = 0, !.repeat = 1], "up?", "PRESS_DOWN") ELSE Stay(b)

\* long_press.press_time of the one callback is that of the button, and it
\* is called when the ticks get there.
PressUpCheck(b) ==
  CASE ~b.active -> To([b EXCEPT !.ticks = 0], "repeat down?", "none")
    [] b.active /\ b.ticks >= Long ->
         To([b EXCEPT !.started = TRUE], "long up?",
            IF b.started THEN "none" ELSE "LONG_PRESS_START")
    [] OTHER -> Stay(b)

\* The callbacks for one, two and Clicks clicks
ClickEvent(repeat) ==
  CASE repeat = 1 -> "SINGLE_CLICK"
    [] repeat = 2 -> "DOUBLE_CLICK"
    [] repeat = Clicks -> "MULTIPLE_CLICK"
    [] OTHER -> "none"

PressRepeatDownCheck(b) ==
  CASE b.active -> To([b EXCEPT !.ticks = 0, !.repeat = @ + 1], "repeat up?", "PRESS_DOWN")
    [] ~b.active /\ b.ticks > Short -> To([b EXCEPT !.repeat = 0], "down?", ClickEvent(b.repeat))
    [] OTHER -> Stay(b)

PressRepeatUpCheck(b) ==
  CASE b.active -> Stay(b)
    [] ~b.active /\ b.ticks < Short -> To([b EXCEPT !.ticks = 0], "repeat down?", "none")
    [] OTHER -> To(b, "down?", "none")

PressLongPressUpCheck(b) ==
  CASE ~b.active -> To([b EXCEPT !.hold_cnt = 0, !.started = FALSE], "down?", "none")
    [] b.active /\ b.ticks >= (b.hold_cnt + 1) * Serial + Long ->
         To([b EXCEPT !.hold_cnt = @ + 1], b.state, "LONG_PRESS_HOLD")
    [] OTHER -> Stay(b)

ButtonStep(b) ==
  CASE b.state = "down?" -> PressDownCheck(b)
    [] b.state = "up?" -> PressUpCheck(b)
    [] b.state = "repeat down?" -> PressRepeatDownCheck(b)
    [] b.state = "repeat up?" -> PressRepeatUpCheck(b)
    [] b.state = "long up?" -> PressLongPressUpCheck(b)

-----------------------------------------------------------------------------
(* button.c: button_handler for the callback evt'                          *)

\* Ages grow until nothing tells them apart.
Older(age, max) == IF age > max THEN age ELSE age + 1

Tracking == previous = "MULTIPLE_CLICK"

\* ts_pressed + VERY_LONG_PRESS_TIME < ts in 32 bits: when the sum wraps
\* around and ts does not yet, it is the smaller one.
VeryLongElapsed(age) == age > VeryLong \/ (wraps_in # 0 /\ age < wraps_in)

\* Fault: a break that was too long is forgotten.
PressedAfterAnyBreak ==
  /\ evt' = "PRESS_DOWN"
  /\ pressed' = 0
  /\ wraps_in' \in 0..VeryLong
  /\ posted' = "none"
  /\ UNCHANGED previous

Pressed ==
  /\ evt' = "PRESS_DOWN"
  /\ pressed' = 0
  /\ wraps_in' \in 0..VeryLong
  /\ previous' = IF Tracking /\ break >= BreakMax THEN "none" ELSE previous
  /\ posted' = "none"

Clicked ==
  /\ evt' \in {"SINGLE_CLICK", "DOUBLE_CLICK", "MULTIPLE_CLICK"}
  /\ posted' = CASE evt' = "SINGLE_CLICK" -> "1X_CLICK"
                 [] evt' = "DOUBLE_CLICK" -> "2X_CLICK"
                 [] evt' = "MULTIPLE_CLICK" -> "3X_CLICK"
  /\ previous' = evt'

LongPressed ==
  /\ evt' = "LONG_PRESS_START"
  /\ IF Tracking THEN posted' = "3X_SHORT_1X_LONG" /\ UNCHANGED previous
     ELSE posted' = "1X_LONG_PRESS" /\ previous' = evt'

\* The event is posted once: evt_previous is overwritten.
HeldOn ==
  /\ evt' = "LONG_PRESS_HOLD"
  /\ IF ~Tracking THEN posted' = "none" /\ previous' = evt'
     ELSE IF VeryLongElapsed(pressed + 1)
     THEN posted' = "3X_SHORT_1X_VERY_LONG" /\ previous' = evt'
     ELSE posted' = "none" /\ UNCHANGED previous

NotCalled ==
  /\ evt' = "none"
  /\ posted' = "none"
  /\ UNCHANGED previous

\* button_cb: a period, the button's level being active or not.
ButtonCb(active) ==
  LET r == ButtonStep(Sampled(active)) IN
  /\ active => held < MaxHold /\ btn.repeat <= MaxClicks
  /\ btn' = r.b /\ evt' = r.evt
  /\ \/ Pressed
     \/ /\ Clicked \/ LongPressed \/ HeldOn \/ NotCalled
        /\ pressed' = Older(pressed, VeryLong)
        /\ UNCHANGED wraps_in
  /\ break' = IF evt' = "MULTIPLE_CLICK" THEN 0 ELSE Older(break, BreakMax)
  /\ held' = IF r.b.active THEN held + 1 ELSE 0
  /\ gap' = IF held = 0 /\ r.b.active THEN Older(break, BreakMax) ELSE gap
  /\ resets' = (held' > 0 /\ (resets \/ posted' = "3X_SHORT_1X_VERY_LONG"))

ButtonNext == \E active \in BOOLEAN : ButtonCb(active)

-----------------------------------------------------------------------------
(* Properties                                                              *)

(***************************************************************************)
(* A factory reset is asked for only on purpose (button.c:16-62): three    *)
(* clicks, a break that is not too long, and one press that lasts, however *)
(* the button bounces and whatever was clicked before or in between; and   *)
(* a press asks for it once.  If the clock wraps around during the press,  *)
(* the press need only be long, not very long (button.c:49).               *)
(***************************************************************************)
FactoryResetMeant ==
  [][posted' = "3X_SHORT_1X_VERY_LONG" =>
       /\ held > IF wraps_in' = 0 THEN VeryLong ELSE Long
       /\ gap' <= BreakMax
       /\ ~resets]_buttonVars
=============================================================================
