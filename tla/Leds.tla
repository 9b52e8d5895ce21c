-------------------------------- MODULE Leds --------------------------------
(***************************************************************************)
(* The LED's scenes, em_led_scene/scene.c: what an event or an identify    *)
(* message shows (led_scene_evt.c), and the delayed call change_led_state  *)
(* that blinks it.  Scenes are changed in the event task and in the task   *)
(* that receives messages, and blinked in the timer task, with no lock:    *)
(* each loses the processor wherever it calls the scheduler or the LED,    *)
(* and the timer task, whose priority is the lowest, between any two       *)
(* statements.  An argument is read and passed on in one step.             *)
(*                                                                         *)
(* There is one pending call at most (see Scheduler).  What the LED shows  *)
(* is the background, nothing, or a scene's color; SCENE_OFF makes         *)
(* nothing the background.                                                 *)
(***************************************************************************)
EXTENDS Integers

CONSTANTS
  Separation,   \* SCENE_BLINK_SEPARATION_MS
  TOn, TOff,    \* how long the LED is on and off
  Period,       \* blink.period of the identify message
  Repeats,      \* bound: blink.repeats of the scenes of events
  IdentifyCounts,  \* bound: the counts of identify messages
  Word          \* 2^32: toggles are counted down modulo Word

ASSUME LedsAssumption ==
  /\ {Separation, TOn, TOff, Word} \subseteq Nat \ {0}
  /\ Period \in Nat /\ Repeats \subseteq Nat /\ IdentifyCounts \subseteq Nat

LedTasks == {"event", "rx"}
NoCall == 0

VARIABLES
  rq_led_on,
  once,       \* once.remaining_toggles
  periodic,   \* periodic: remaining_toggles, remaining_time, repeats, period
  call,       \* the delay that change_led_state is scheduled with, and its param
  changer,    \* the timer task: the next part of change_led_state, its param
              \* or next_change_time
  setter,     \* the tasks that set a scene: the scene, and what is to be done
  led         \* what the LED shows

ledVars == <<rq_led_on, once, periodic, call, changer, setter, led>>

Idle == [at |-> "idle", arg |-> 0]
NoScene == [type |-> "none", repeats |-> 0, at |-> "idle"]

LedInit ==
  /\ rq_led_on = FALSE /\ once = 0
  /\ periodic = [toggles |-> 0, time |-> 0, repeats |-> 0, period |-> 0]
  /\ call = NoCall /\ changer = Idle
  /\ setter = [t \in LedTasks |-> NoScene]
  /\ led = "bg"

-----------------------------------------------------------------------------
(* The timer task: change_led_state                                        *)

NextChange == IF rq_led_on THEN TOn ELSE TOff

CallLed ==
  /\ changer = Idle /\ call # NoCall
  /\ call' = NoCall
  /\ changer' = [at |-> "look", arg |-> call]
  /\ UNCHANGED <<rq_led_on, once, periodic, setter, led>>

\* The branches test the toggles and the time; the tests and what follows
\* them are two steps.
Look ==
  /\ changer.at = "look"
  /\ periodic' = [periodic EXCEPT !.time = IF @ > 0 THEN @ - changer.arg ELSE @]
  /\ changer' = [changer EXCEPT !.at =
       CASE once > 0 -> "once"
         [] once = 0 /\ periodic.toggles > 0 ->
              IF periodic'.time > 0 THEN "wait" ELSE "periodic"
         [] OTHER -> "restore"]
  /\ UNCHANGED <<rq_led_on, once, call, setter, led>>

ToggleOnce ==
  /\ changer.at = "once"
  /\ changer' = [at |-> "switch", arg |-> NextChange]
  /\ once' = (once - 1) % Word
  /\ UNCHANGED <<rq_led_on, periodic, call, setter, led>>

TogglePeriodic ==
  /\ changer.at = "periodic"
  /\ changer' = [at |-> "switch", arg |-> NextChange]
  /\ LET left == (periodic.toggles - 1) % Word IN
     periodic' =
       IF left # 0 THEN [periodic EXCEPT !.toggles = left]
       ELSE [periodic EXCEPT !.toggles = 2 * periodic.repeats, !.time = periodic.period + NextChange]
  /\ UNCHANGED <<rq_led_on, once, call, setter, led>>

Switch ==
  /\ changer.at = "switch"
  /\ led' = IF rq_led_on THEN "scene" ELSE "off"
  /\ changer' = [changer EXCEPT !.at = "flip"]
  /\ UNCHANGED <<rq_led_on, once, periodic, call, setter>>

FlipAndSchedule ==
  /\ changer.at = "flip"
  /\ rq_led_on' = ~rq_led_on
  /\ call' = changer.arg
  /\ changer' = Idle
  /\ UNCHANGED <<once, periodic, setter, led>>

\* The time is read again: a scene may have been set since it was tested.
WaitForPeriod ==
  /\ changer.at = "wait"
  /\ call' = periodic.time
  /\ changer' = Idle
  /\ UNCHANGED <<rq_led_on, once, periodic, setter, led>>

Restore ==
  /\ changer.at = "restore"
  /\ led' = "bg"
  /\ changer' = Idle
  /\ UNCHANGED <<rq_led_on, once, periodic, call, setter>>

ChangeLedState ==
  Look \/ ToggleOnce \/ TogglePeriodic \/ Switch \/ FlipAndSchedule \/ WaitForPeriod \/ Restore

-----------------------------------------------------------------------------
(* The event task and the RX task: scene_change_handler                    *)

\* The event task, whose priority is higher, may run while the RX task is in
\* the handler.
Set(t, scene) == setter' = [setter EXCEPT ![t] = scene]

\* SCENE_CONST_BG
SetBackground ==
  /\ led' = IF periodic.toggles = 0 /\ once = 0 THEN "bg" ELSE led
  /\ UNCHANGED <<rq_led_on, once, periodic, call, setter>>

\* Fault: clearing one scene stops the call that blinks the other.
ClearAndCancel(type) ==
  /\ once' = IF type = "CLEAR_PERIODIC" THEN once ELSE 0
  /\ periodic' = IF type = "CLEAR_ONCE" THEN periodic
                 ELSE [periodic EXCEPT !.toggles = 0, !.period = 0]
  /\ led' = "bg" /\ call' = NoCall
  /\ UNCHANGED <<rq_led_on, setter>>

\* SCENE_CLEAR_ONCE, SCENE_CLEAR_PERIODIC, SCENE_CLEAR_ALL: a call that is
\* pending stays so.
ClearScene(type) ==
  /\ once' = IF type = "CLEAR_PERIODIC" THEN once ELSE 0
  /\ periodic' = IF type = "CLEAR_ONCE" THEN periodic
                 ELSE [periodic EXCEPT !.toggles = 0, !.period = 0]
  /\ led' = "bg"
  /\ UNCHANGED <<rq_led_on, call, setter>>

\* SCENE_BLINK_ONCE, SCENE_BLINK_PERIODIC and SCENE_OFF cancel the call first,
Cancel(t, type, repeats) ==
  /\ call' = NoCall
  /\ Set(t, [type |-> type, repeats |-> repeats, at |-> "cancelled"])
  /\ UNCHANGED <<rq_led_on, once, periodic, led>>

\* ... write the scene and put the LED out,
WriteScene(t) ==
  LET s == setter[t] IN
  /\ s.at = "cancelled"
  /\ once' = CASE s.type = "BLINK_ONCE" -> 2 * s.repeats
               [] s.type = "BLINK_PERIODIC" -> once
               [] s.type = "OFF" -> 0
  /\ periodic' = CASE s.type = "BLINK_ONCE" -> periodic
                   [] s.type = "BLINK_PERIODIC" ->
                        [toggles |-> 2 * s.repeats, time |-> Separation,
                         repeats |-> s.repeats, period |-> Period]
                   [] s.type = "OFF" -> [periodic EXCEPT !.toggles = 0]
  /\ rq_led_on' = (s.type # "OFF" \/ rq_led_on)
  /\ led' = IF s.type = "OFF" THEN "bg" ELSE "off"
  /\ Set(t, IF s.type = "OFF" THEN NoScene ELSE [s EXCEPT !.at = "written"])
  /\ UNCHANGED <<call, changer>>

\* ... and schedule the call anew.
ScheduleScene(t) ==
  /\ setter[t].at = "written"
  /\ call' = Separation
  /\ Set(t, NoScene)
  /\ UNCHANGED <<rq_led_on, once, periodic, changer, led>>

MayEnter(t) == setter[t] = NoScene /\ (t = "rx" => setter["event"] = NoScene)

\* scenes_list: no event has a periodic scene or the background (the station's
\* disconnection, which had, is commented out); provisioning and going online
\* have two scenes, the first of which clears.
ScenesOfEvents ==
  [type : {"BLINK_ONCE"}, repeats : Repeats] \cup [type : {"CLEAR_ONCE", "CLEAR_ALL"}, repeats : {0}]

\* event_handler: any event may come next.
EventScene ==
  /\ MayEnter("event")
  /\ \E scene \in ScenesOfEvents :
       IF scene.type = "BLINK_ONCE" THEN Cancel("event", scene.type, scene.repeats)
       ELSE ClearScene(scene.type)
  /\ UNCHANGED changer

\* led_evt_identify_msg_handler: any scene.  The asserts of on_blink_once and
\* on_blink_periodic restart the device.
AssertFails(type, count) ==
  \/ type \in {"BLINK_ONCE", "BLINK_PERIODIC"} /\ count = 0
  \/ type = "BLINK_PERIODIC" /\ count * (TOn + TOff) >= Period

Identify ==
  /\ MayEnter("rx")
  /\ \/ SetBackground
     \/ \E type \in {"CLEAR_ONCE", "CLEAR_PERIODIC", "CLEAR_ALL"} : ClearScene(type)
     \/ \E type \in {"BLINK_ONCE", "BLINK_PERIODIC", "OFF"}, count \in IdentifyCounts :
          ~AssertFails(type, count) /\ Cancel("rx", type, count)
  /\ UNCHANGED changer

IdentifyAborts ==
  /\ MayEnter("rx")
  /\ \E type \in {"BLINK_ONCE", "BLINK_PERIODIC"}, count \in IdentifyCounts : AssertFails(type, count)
  /\ rq_led_on' = FALSE /\ once' = 0
  /\ periodic' = [toggles |-> 0, time |-> 0, repeats |-> 0, period |-> 0]
  /\ call' = NoCall /\ changer' = Idle
  /\ setter' = [t \in LedTasks |-> NoScene]
  /\ led' = "bg"

LedNext ==
  \/ CallLed \/ ChangeLedState
  \/ EventScene \/ Identify \/ IdentifyAborts
  \/ \E t \in LedTasks :
       /\ t = "rx" => setter["event"] = NoScene
       /\ WriteScene(t) \/ ScheduleScene(t)

-----------------------------------------------------------------------------
(* Properties                                                              *)

(***************************************************************************)
(* The LED does not get stuck (scene.c:44-110): whatever scenes are set    *)
(* and cleared while change_led_state is under way, when no task is at it  *)
(* and no call is pending, nothing is left to blink and the LED shows the  *)
(* background.                                                             *)
(***************************************************************************)
LedSettles ==
  changer = Idle /\ setter = [t \in LedTasks |-> NoScene] /\ call = NoCall =>
    once = 0 /\ periodic.toggles = 0 /\ led = "bg"
=============================================================================
