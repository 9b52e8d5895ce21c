---------------------------- MODULE ButtonCallbacks ----------------------------
(***************************************************************************)
(* The callbacks of iot_button.c that have an argument, those of long      *)
(* presses and of several clicks: registering them in order, taking them   *)
(* back, and calling them.  Any task registers at any time, without a      *)
(* lock; the handler runs once per period in the esp_timer task.  Module   *)
(* Button has the rest of the handler, with the callbacks that the device  *)
(* registers.                                                              *)
(*                                                                         *)
(* Times are in periods, and those of callbacks are whole periods that are *)
(* longer than a short press, so that the second test of the time          *)
(* (iot_button.c:386) refuses none.  There is memory for all of them.      *)
(***************************************************************************)
EXTENDS Integers, Sequences, FiniteSets, SequencesExt, FiniteSetsExt

CONSTANTS
  LongTicks,        \* long_press_ticks of the button when it is created
  Tolerance,        \* TOLERANCE
  PressTimes,       \* long_press.press_time; 0 stands for no arguments
  ClickCounts,      \* multiple_clicks.clicks
  Callees,          \* those to be called
  MaxCallbacks,     \* bound: callbacks of an event
  MaxTicks          \* bound: how long the button is held

ASSUME CallbacksAssumption ==
  /\ LongTicks \in Nat \ {0} /\ Tolerance \in Nat
  /\ PressTimes \subseteq Nat \ {0} /\ ClickCounts \subseteq Nat

VARIABLES
  cb_info,     \* of an event, the sequence of its callbacks: argument and function
  long_ticks,  \* long_press_ticks
  count,       \* count[0]: the callback of a long press that is next
  phase,       \* "released", or held: "press up?", "long press up?"
  ticks,
  wanted,      \* history: the callbacks registered and not taken back
  called,      \* ... those called in this press, or after these clicks
  steady       \* ... and whether nothing was changed during this press

callbackVars == <<cb_info, long_ticks, count, phase, ticks, wanted, called, steady>>

ArgEvents == {"LONG_PRESS_START", "MULTIPLE_CLICK"}

CallbacksInit ==
  /\ cb_info = [e \in ArgEvents |-> <<>>]
  /\ wanted = [e \in ArgEvents |-> {}]
  /\ long_ticks = LongTicks
  /\ count = 0 /\ phase = "released" /\ ticks = 0 /\ called = <<>> /\ steady = TRUE

-----------------------------------------------------------------------------
(* iot_button_register_cb, iot_button_unregister_cb                        *)

\* Fault: the new callback stays at the end.
InsertedLast(s, cb) == Append(s, cb)

\* The new callback is at the end, and moves towards the head past those
\* with a larger argument.
Inserted(s, cb) ==
  InsertAt(s, 1 + Max({0} \cup {i \in DOMAIN s : s[i].arg <= cb.arg}), cb)

\* Without arguments, a callback is called when a press becomes long; a time
\* that is shorter than that makes a press long earlier.  The first callback
\* of an event starts the count.
RegisterCb(event, args, f) ==
  LET arg == IF args = 0 THEN long_ticks ELSE args
      cb == [arg |-> arg, f |-> f] IN
  /\ Len(cb_info[event]) < MaxCallbacks
  /\ cb \notin wanted[event]
  /\ cb_info' = [cb_info EXCEPT ![event] = Inserted(@, cb)]
  /\ wanted' = [wanted EXCEPT ![event] = @ \cup {cb}]
  /\ count' = IF event = "LONG_PRESS_START" /\ cb_info[event] = <<>> THEN 0 ELSE count
  /\ long_ticks' = IF event = "LONG_PRESS_START" /\ arg < long_ticks THEN arg ELSE long_ticks
  /\ steady' = FALSE
  /\ UNCHANGED <<phase, ticks, called>>

\* All callbacks of the event, or the first one with this argument; the
\* count then stays where it is.  Callbacks that are not there are refused.
UnregisterCb(event, args) ==
  /\ \/ /\ args = 0 /\ cb_info[event] # <<>>
        /\ cb_info' = [cb_info EXCEPT ![event] = <<>>]
        /\ wanted' = [wanted EXCEPT ![event] = {}]
        /\ count' = IF event = "LONG_PRESS_START" THEN 0 ELSE count
     \/ /\ \E i \in DOMAIN cb_info[event] :
             /\ cb_info[event][i].arg = args
             /\ \A j \in 1..i-1 : cb_info[event][j].arg # args
             /\ cb_info' = [cb_info EXCEPT ![event] = RemoveAt(@, i)]
             /\ wanted' = [wanted EXCEPT ![event] = @ \ {cb_info[event][i]}]
        /\ UNCHANGED count
  /\ steady' = FALSE
  /\ UNCHANGED <<long_ticks, phase, ticks, called>>

-----------------------------------------------------------------------------
(* button_handler                                                          *)

LongPresses == cb_info["LONG_PRESS_START"]

\* The callbacks of one time from the count on are called together.
CallFrom(time) ==
  LET next == Cardinality({i \in count+1..Len(LongPresses) : LongPresses[i].arg = time}) IN
  /\ called' = called \o SubSeq(LongPresses, count + 1, count + next)
  /\ count' = count + next

NothingCalled == UNCHANGED <<called, count>>

\* The button goes down: PRESS_DOWN_CHECK
GoesDown ==
  /\ phase = "released"
  /\ phase' = "press up?" /\ ticks' = 0
  /\ called' = <<>> /\ steady' = TRUE
  /\ UNCHANGED <<cb_info, wanted, long_ticks, count>>

\* PRESS_UP_CHECK, the button still down: the press becomes long.
BecomesLong ==
  /\ phase = "press up?"
  /\ ticks < MaxTicks /\ ticks' = ticks + 1
  /\ IF ticks' < long_ticks THEN UNCHANGED phase /\ NothingCalled
     ELSE /\ phase' = "long press up?"
          /\ IF /\ LongPresses # <<>> /\ count = 0
                /\ ticks' - long_ticks <= Tolerance
                /\ LongPresses[1].arg = long_ticks
             THEN CallFrom(long_ticks) ELSE NothingCalled
  /\ UNCHANGED <<cb_info, wanted, long_ticks, steady>>

\* PRESS_LONG_PRESS_UP_CHECK, the button still down.  With no callback left,
\* the time that is read from behind the last one is of no consequence; no
\* time is below long_ticks, so the search for another one is left out.
StaysDown ==
  /\ phase = "long press up?"
  /\ ticks < MaxTicks /\ ticks' = ticks + 1
  /\ IF count < Len(LongPresses) /\ LongPresses[count + 1].arg - ticks' \in -Tolerance..Tolerance
     THEN CallFrom(LongPresses[count + 1].arg) ELSE NothingCalled
  /\ UNCHANGED <<cb_info, wanted, long_ticks, phase, steady>>

\* PRESS_UP_CHECK and PRESS_LONG_PRESS_UP_CHECK, the button up
GoesUp ==
  /\ phase # "released"
  /\ phase' = "released" /\ ticks' = 0
  /\ count' = IF phase = "long press up?" /\ LongPresses # <<>> THEN 0 ELSE count
  /\ called' = <<>>
  /\ UNCHANGED <<cb_info, wanted, long_ticks, steady>>

\* PRESS_REPEAT_DOWN_CHECK, after n clicks
ClicksDone(n) ==
  /\ phase = "released"
  /\ called' = SelectSeq(cb_info["MULTIPLE_CLICK"], LAMBDA c : c.arg = n)
  /\ UNCHANGED <<cb_info, wanted, long_ticks, count, phase, ticks, steady>>

CallbacksNext ==
  \/ \E t \in PressTimes \cup {0} :
       \/ \E f \in Callees : RegisterCb("LONG_PRESS_START", t, f)
       \/ UnregisterCb("LONG_PRESS_START", t)
  \/ \E n \in ClickCounts :
       \/ \E f \in Callees : RegisterCb("MULTIPLE_CLICK", n, f)
       \/ ClicksDone(n)
  \/ \E n \in ClickCounts \cup {0} : UnregisterCb("MULTIPLE_CLICK", n)
  \/ GoesDown \/ BecomesLong \/ StaysDown \/ GoesUp

-----------------------------------------------------------------------------
(* Properties                                                              *)

(***************************************************************************)
(* However callbacks were registered, taken back and called before         *)
(* (iot_button.c:348-509, 239-264), the lists hold those that are wanted,  *)
(* each once, in order, and none of a time at which no press is long yet.  *)
(* And a press during which none is added or removed calls every one, no   *)
(* earlier than the tolerance allows, no later than its time, and once.    *)
(***************************************************************************)
CalledOnTime ==
  /\ \A e \in ArgEvents :
       /\ Range(cb_info[e]) = wanted[e] /\ IsInjective(cb_info[e])
       /\ \A i \in 2..Len(cb_info[e]) : cb_info[e][i - 1].arg <= cb_info[e][i].arg
  /\ \A c \in wanted["LONG_PRESS_START"] : c.arg >= long_ticks
  /\ phase # "released" /\ steady =>
       /\ IsInjective(called)
       /\ \A c \in wanted["LONG_PRESS_START"] :
            /\ ticks >= c.arg => c \in Range(called)
            /\ c \in Range(called) => ticks >= c.arg - Tolerance
=============================================================================
