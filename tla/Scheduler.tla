------------------------------ MODULE Scheduler ------------------------------
(***************************************************************************)
(* The delayed-call scheduler of em_scheduler/scheduler.c together with    *)
(* the FreeRTOS timer service it runs on.                                  *)
(*                                                                         *)
(* Tasks call scheduler_set_callback and scheduler_cancel_callback.  Each  *)
(* call holds scheduler_mtx while it edits one slot of scheduler_entry and *)
(* sends commands for the slot's timer to the timer command queue, whose   *)
(* only reader is the timer daemon.  When a timer expires the daemon runs  *)
(* callback_wrapper, which takes the same mutex, empties the slot, stops   *)
(* the timer (through the same queue), gives the mutex and calls the user  *)
(* callback, which may call the scheduler again.                           *)
(*                                                                         *)
(* Time is abstract: an armed timer may expire whenever the daemon looks.  *)
(* A call with delay SCH_NO_DELAY runs the callback in the caller and      *)
(* leaves the scheduler alone, so it is not an action here.  The entries   *)
(* are read and written only under scheduler_mtx, so a call's edit of its  *)
(* slot is one step with taking the mutex; each command it sends is a      *)
(* step of its own, because sending blocks while the queue is full.        *)
(***************************************************************************)
EXTENDS Naturals, Sequences, FiniteSets

CONSTANTS
  Callbacks,    \* the callbacks of the application
  Params,       \* (param, user_ctx) pairs
  Tasks,        \* the tasks that call the scheduler
  Daemon,       \* the FreeRTOS timer task
  MaxEntries,   \* CONFIG_EM_SCHEDULER_MAX_ENTRIES
  QueueLength,  \* CONFIG_FREERTOS_TIMER_QUEUE_LENGTH
  None          \* no message, no call, no owner

Slots == 1..MaxEntries
Threads == Tasks \cup {Daemon}
Msg == [cb : Callbacks, param : Params]
SetCall == [op : {"set"}, cb : Callbacks, param : Params]
CancelCall == [op : {"cancel"}, cb : Callbacks]
Calls == SetCall \cup CancelCall
Command == [op : {"stop", "period", "start"}, slot : Slots]

(***************************************************************************)
(* The application has no more distinct callbacks than slots: there are    *)
(* ten callers' functions and CONFIG_EM_SCHEDULER_MAX_ENTRIES is 12.       *)
(***************************************************************************)
ASSUME SchedulerAssumption ==
  /\ MaxEntries \in Nat /\ QueueLength \in Nat \ {0}
  /\ IsFiniteSet(Callbacks) /\ Cardinality(Callbacks) <= MaxEntries
  /\ Daemon \notin Tasks
  /\ None \notin Threads \cup Msg \cup Calls \cup Params

VARIABLES
  entry,    \* scheduler_entry[i].msg while .scheduled is set, else None
  owner,    \* the thread that holds scheduler_mtx
  todo,     \* the timer commands the owner has yet to send
  call,     \* the scheduler call each thread is in
  armed,    \* the slots whose timer is in the daemon's list of active timers
  cmdq,     \* the timer command queue
  dpc,      \* where the daemon is
  dslot,    \* the slot whose expired timer the daemon is serving, or None
  cb_data,  \* callback_wrapper's copy of the message
  aborted   \* the assertion that failed, or "no"

vars == <<entry, owner, todo, call, armed, cmdq, dpc, dslot, cb_data, aborted>>
timers == <<armed, cmdq, dpc, dslot, cb_data>>

\* A failed assertion aborts the program: nothing moves any more.
Running == aborted = "no"

Init ==
  /\ entry = [i \in Slots |-> None]
  /\ owner = None
  /\ todo = <<>>
  /\ call = [t \in Threads |-> None]
  /\ armed = {}
  /\ cmdq = <<>>
  /\ dpc = "idle"
  /\ dslot = None
  /\ cb_data = None
  /\ aborted = "no"

-----------------------------------------------------------------------------
(* The calls                                                               *)

Cmd(op, i) == [op |-> op, slot |-> i]

\* Fault: the search starts at the second entry.
EntriesFromSecond(cb) ==
  {i \in Slots : i > 1 /\ entry[i] # None /\ entry[i].cb = cb}

\* find_entry: the slots scheduled for cb (it returns the first).
Entries(cb) == {i \in Slots : entry[i] # None /\ entry[i].cb = cb}

\* The slots a schedule_entry for a new callback walks over and may take.
FreeSlots == {i \in Slots : entry[i] = None}
IsFirst(i, S) == i \in S /\ \A j \in S : i <= j

\* A thread enters a scheduler call; the daemon does so from a user callback.
Call(t, c) ==
  /\ Running
  /\ call[t] = None
  /\ t = Daemon => dpc = "callback"
  /\ call' = [call EXCEPT ![t] = c]
  /\ UNCHANGED <<entry, owner, todo, aborted, timers>>

TakeMutex(t) ==
  /\ Running
  /\ owner = None
  /\ call[t] # None
  /\ owner' = t

\* scheduler_cancel_callback
Cancel(t) ==
  /\ TakeMutex(t)
  /\ call[t].op = "cancel"
  /\ \/ /\ Entries(call[t].cb) = {}
        /\ UNCHANGED <<entry, todo>>
     \/ \E i \in Slots :
          /\ IsFirst(i, Entries(call[t].cb))
          /\ entry' = [entry EXCEPT ![i] = None]
          /\ todo' = <<Cmd("stop", i)>>
  /\ UNCHANGED <<call, aborted, timers>>

\* Fault: the timer is stopped and not started again.
RescheduleNoStart(t) ==
  /\ TakeMutex(t)
  /\ call[t].op = "set"
  /\ \E i \in Slots :
     /\ IsFirst(i, Entries(call[t].cb))
     /\ entry' = [entry EXCEPT ![i].param = call[t].param]
     /\ todo' = <<Cmd("stop", i)>>
  /\ UNCHANGED <<call, aborted, timers>>

\* scheduler_set_callback for a callback that is already scheduled
Reschedule(t) ==
  /\ TakeMutex(t)
  /\ call[t].op = "set"
  /\ \E i \in Slots :
     /\ IsFirst(i, Entries(call[t].cb))
     /\ entry' = [entry EXCEPT ![i].param = call[t].param]
     /\ todo' = <<Cmd("stop", i), Cmd("period", i), Cmd("start", i)>>
  /\ UNCHANGED <<call, aborted, timers>>

\* scheduler_set_callback for a callback that is not scheduled
Schedule(t) ==
  /\ TakeMutex(t)
  /\ call[t].op = "set"
  /\ Entries(call[t].cb) = {}
  /\ \/ /\ FreeSlots = {}
        /\ aborted' = "no_free_entry"
        /\ UNCHANGED <<entry, todo>>
     \/ \E i \in Slots :
        /\ IsFirst(i, FreeSlots)
        /\ \E j \in 1..(i - 1) : entry[j].cb = call[t].cb
        /\ aborted' = "scheduled_twice"
        /\ UNCHANGED <<entry, todo>>
     \/ \E i \in Slots :
        /\ IsFirst(i, FreeSlots)
        /\ \A j \in 1..(i - 1) : entry[j].cb # call[t].cb
        /\ entry' = [entry EXCEPT ![i] = [cb |-> call[t].cb, param |-> call[t].param]]
        /\ todo' = <<Cmd("period", i), Cmd("start", i)>>
        /\ UNCHANGED aborted
  /\ UNCHANGED <<call, timers>>

\* Fault: a command is sent whether or not there is room.
SendWithoutRoom ==
  /\ Running
  /\ todo # <<>>
  /\ cmdq' = Append(cmdq, Head(todo))
  /\ todo' = Tail(todo)
  /\ UNCHANGED <<entry, owner, call, armed, dpc, dslot, cb_data, aborted>>

\* Fault: with the queue full the command is dropped, as with no wait.
SendOrDrop ==
  /\ Running
  /\ todo # <<>>
  /\ cmdq' = IF Len(cmdq) < QueueLength THEN Append(cmdq, Head(todo)) ELSE cmdq
  /\ todo' = Tail(todo)
  /\ UNCHANGED <<entry, owner, call, armed, dpc, dslot, cb_data, aborted>>

\* xTimerStop, xTimerChangePeriod and xTimerStart wait portMAX_DELAY for room.
SendCommand ==
  /\ Running
  /\ todo # <<>>
  /\ Len(cmdq) < QueueLength
  /\ cmdq' = Append(cmdq, Head(todo))
  /\ todo' = Tail(todo)
  /\ UNCHANGED <<entry, owner, call, armed, dpc, dslot, cb_data, aborted>>

\* Fault: a cancel that finds no entry returns without giving the mutex.
EndCallKeepMutex(t) ==
  /\ Running
  /\ owner = t
  /\ call[t] # None
  /\ todo = <<>>
  /\ owner' = IF call[t].op = "cancel" THEN owner ELSE None
  /\ call' = [call EXCEPT ![t] = None]
  /\ UNCHANGED <<entry, todo, aborted, timers>>

\* The call gives the mutex and returns.
EndCall(t) ==
  /\ Running
  /\ owner = t
  /\ call[t] # None
  /\ todo = <<>>
  /\ owner' = None
  /\ call' = [call EXCEPT ![t] = None]
  /\ UNCHANGED <<entry, todo, aborted, timers>>

-----------------------------------------------------------------------------
(* The timer daemon                                                        *)

\* The daemon finds an expired timer before it looks at the queue.
Expire(i) ==
  /\ Running
  /\ dpc = "idle"
  /\ i \in armed
  /\ armed' = armed \ {i}
  /\ dpc' = "wrapper"
  /\ dslot' = i
  /\ UNCHANGED <<entry, owner, todo, call, cmdq, cb_data, aborted>>

\* One command of the queue; the daemon stays in this loop until it is empty.
\* A start whose expiry time has passed already runs the timer's callback.
ProcessCommand ==
  /\ Running
  /\ dpc \in {"idle", "commands"}
  /\ cmdq # <<>>
  /\ cmdq' = Tail(cmdq)
  /\ LET c == Head(cmdq) IN
     \/ /\ c.op = "stop"
        /\ armed' = armed \ {c.slot}
        /\ dpc' = "commands"
        /\ UNCHANGED dslot
     \/ /\ c.op \in {"period", "start"}
        /\ armed' = armed \cup {c.slot}
        /\ dpc' = "commands"
        /\ UNCHANGED dslot
     \/ /\ c.op = "start"
        /\ armed' = armed \ {c.slot}
        /\ dpc' = "wrapper"
        /\ dslot' = c.slot
  /\ UNCHANGED <<entry, owner, todo, call, cb_data, aborted>>

QueueEmpty ==
  /\ Running
  /\ dpc = "commands"
  /\ cmdq = <<>>
  /\ dpc' = "idle"
  /\ UNCHANGED <<entry, owner, todo, call, armed, cmdq, dslot, cb_data, aborted>>

\* callback_wrapper takes the mutex: the slot must be scheduled.
StaleExpiry ==
  /\ Running
  /\ dpc = "wrapper"
  /\ owner = None
  /\ entry[dslot] = None
  /\ owner' = Daemon
  /\ aborted' = "not_scheduled"
  /\ UNCHANGED <<entry, todo, call, timers>>

\* Fault: the entry is cleared without stopping its timer.
PickMessageNoStop ==
  /\ Running
  /\ dpc = "wrapper"
  /\ owner = None
  /\ entry[dslot] # None
  /\ owner' = Daemon
  /\ cb_data' = entry[dslot]
  /\ entry' = [entry EXCEPT ![dslot] = None]
  /\ dpc' = "clearing"
  /\ UNCHANGED <<todo, call, armed, cmdq, dslot, aborted>>

\* Fault: the entry stays scheduled until after the callback.
PickMessageKeepEntry ==
  /\ Running
  /\ dpc = "wrapper"
  /\ owner = None
  /\ entry[dslot] # None
  /\ owner' = Daemon
  /\ cb_data' = entry[dslot]
  /\ todo' = <<Cmd("stop", dslot)>>
  /\ dpc' = "clearing"
  /\ UNCHANGED <<entry, call, armed, cmdq, dslot, aborted>>

\* ... copies the message and clears the entry, which stops the timer ...
PickMessage ==
  /\ Running
  /\ dpc = "wrapper"
  /\ owner = None
  /\ entry[dslot] # None
  /\ owner' = Daemon
  /\ cb_data' = entry[dslot]
  /\ entry' = [entry EXCEPT ![dslot] = None]
  /\ todo' = <<Cmd("stop", dslot)>>
  /\ dpc' = "clearing"
  /\ UNCHANGED <<call, armed, cmdq, dslot, aborted>>

\* ... gives the mutex and calls the user callback ...
CallUser ==
  /\ Running
  /\ dpc = "clearing"
  /\ todo = <<>>
  /\ owner' = None
  /\ dpc' = "callback"
  /\ UNCHANGED <<entry, todo, call, armed, cmdq, dslot, cb_data, aborted>>

\* ... which returns to the daemon's command loop.
UserReturns ==
  /\ Running
  /\ dpc = "callback"
  /\ call[Daemon] = None
  /\ cb_data' = None
  /\ dslot' = None
  /\ dpc' = "commands"
  /\ UNCHANGED <<entry, owner, todo, call, armed, cmdq, aborted>>

-----------------------------------------------------------------------------
Enter(t) == Cancel(t) \/ Reschedule(t) \/ Schedule(t)

Serve ==
  \/ ProcessCommand \/ QueueEmpty
  \/ StaleExpiry \/ PickMessage \/ CallUser \/ UserReturns

Next ==
  \/ \E t \in Threads, c \in Calls : Call(t, c)
  \/ \E t \in Threads : Enter(t) \/ EndCall(t)
  \/ SendCommand
  \/ \E i \in Slots : Expire(i)
  \/ Serve

Spec == Init /\ [][Next]_vars

(***************************************************************************)
(* Every task that can run gets to run, and a mutex that is given again    *)
(* and again is not kept from one waiter for ever (FreeRTOS hands it to a  *)
(* waiter, and callers are idle between events).  Armed timers expire.     *)
(***************************************************************************)
Fairness ==
  /\ WF_vars(SendCommand)
  /\ \A t \in Threads : WF_vars(EndCall(t))
  /\ \A t \in Threads : SF_vars(Enter(t))
  /\ \A i \in Slots : SF_vars(Expire(i))
  /\ SF_vars(Serve)

FairSpec == Spec /\ Fairness
-----------------------------------------------------------------------------
(* Properties                                                              *)

TypeOK ==
  /\ entry \in [Slots -> Msg \cup {None}]
  /\ owner \in Threads \cup {None}
  /\ todo \in Seq(Command)
  /\ call \in [Threads -> Calls \cup {None}]
  /\ armed \in SUBSET Slots
  /\ cmdq \in Seq(Command) /\ Len(cmdq) <= QueueLength
  /\ dpc \in {"idle", "commands", "wrapper", "clearing", "callback"}
  /\ dslot \in Slots \cup {None}
  /\ cb_data \in Msg \cup {None}
  /\ aborted \in {"no", "no_free_entry", "scheduled_twice", "not_scheduled"}

(***************************************************************************)
(* The assertions in schedule_entry (scheduler.c:96 and :120) never fail,  *)
(* whatever the calls: no callback is ever in two slots, and there is a    *)
(* free slot for every callback that is not scheduled.                     *)
(***************************************************************************)
CallersNeverAbort == aborted \notin {"no_free_entry", "scheduled_twice"}

\* The commands the daemon has yet to process, in order.
Unprocessed == cmdq \o todo

\* Slot i's timer is armed once the commands of q are processed, starting with
\* the timers of A armed: the last command about i arms it, or there is none
\* and it is armed already.
ArmedAfter(A, q, i) ==
  \/ \E k \in DOMAIN q :
        /\ q[k].slot = i /\ q[k].op # "stop"
        /\ \A j \in DOMAIN q : j > k => q[j].slot # i
  \/ i \in A /\ \A k \in DOMAIN q : q[k].slot # i

WillBeArmed(i) == ArmedAfter(armed, Unprocessed, i)

(***************************************************************************)
(* The table and the timers agree (scheduler.c:33-121): a scheduled slot's *)
(* timer runs, or will as soon as the queued commands are processed, or    *)
(* has expired and its wrapper is on its way, so no request is lost; and a *)
(* free slot's timer is stopped, or will be, so no timer is left running   *)
(* that a later request of the slot does not know of.                      *)
(***************************************************************************)
TimersFollowEntries ==
  \A i \in Slots :
    /\ entry[i] # None => WillBeArmed(i) \/ (dpc = "wrapper" /\ dslot = i)
    /\ entry[i] = None => ~WillBeArmed(i)

\* The parameters callback cb is scheduled with, or None.
Requested(cb) ==
  IF Entries(cb) = {} THEN None
  ELSE entry[CHOOSE i \in Slots : i \in Entries(cb)].param

(***************************************************************************)
(* The scheduler implements the promise of em/scheduler.h: whatever the    *)
(* interleaving of callers, commands and expiries, a callback that is      *)
(* called was requested, was neither cancelled nor served before its       *)
(* message was picked, and gets the parameters it was pending with; the    *)
(* calls run one at a time.                                                *)
(***************************************************************************)
Promise ==
  INSTANCE DelayedCalls
  WITH pending <- [cb \in Callbacks |-> Requested(cb)],
       running <- cb_data
KeepsPromise == Promise!Spec

\* The command queue is full, its reader is not reading and whoever is to
\* make it read is waiting for room: the holder of scheduler_mtx sends while
\* the daemon waits for the mutex, or the daemon itself sends.
Wedged ==
  /\ Len(cmdq) = QueueLength
  /\ todo # <<>>
  /\ dpc = "wrapper" \/ owner = Daemon \/ call[Daemon] # None

Broken == aborted # "no" \/ Wedged

(***************************************************************************)
(* A wedged scheduler stays wedged: nothing but a reset brings it back     *)
(* (the waits of scheduler.c:37, 74-80 and 109-112 have no timeout).       *)
(***************************************************************************)
WedgedForever == [][Wedged => Wedged']_vars

(***************************************************************************)
(* An abort and the full command queue are the only ways to be stuck: a    *)
(* call returns, unless the scheduler breaks.                              *)
(***************************************************************************)
CallsReturn == \A t \in Threads : call[t] # None ~> call[t] = None \/ Broken

\* No thread is in a scheduler call.
Quiet == \A t \in Threads : call[t] = None

(***************************************************************************)
(* Every request is served in the end: when no further calls come in, the  *)
(* table empties by itself (a callback that is scheduled again and again   *)
(* may be put off for ever, which is what debouncing is for).              *)
(***************************************************************************)
RequestsServed ==
  <>[]Quiet => <>(Broken \/ [](\A i \in Slots : entry[i] = None))

(***************************************************************************)
(* assert(scheduler_entry[idx].scheduled), scheduler.c:131: an expired     *)
(* timer finds its slot scheduled.                                         *)
(***************************************************************************)
ExpiredTimerIsScheduled == aborted # "not_scheduled"
=============================================================================
