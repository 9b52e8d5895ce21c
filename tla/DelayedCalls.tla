---------------------------- MODULE DelayedCalls ----------------------------
(***************************************************************************)
(* What em/scheduler.h promises its users, without timers, slots or tasks: *)
(* every callback has at most one pending request, a later request         *)
(* replaces the parameters of the earlier one, a cancelled request is      *)
(* gone, and the requests that are served are served one at a time, each   *)
(* once, with the parameters of the last call that asked for it.           *)
(***************************************************************************)
CONSTANTS
  Callbacks,   \* the functions that are scheduled
  Params,      \* the (param, user_ctx) pairs they are scheduled with
  None         \* no request, no running callback

VARIABLES
  pending,     \* the parameters each callback is pending with, or None
  running      \* the request being served, or None

vars == <<pending, running>>

TypeOK ==
  /\ pending \in [Callbacks -> Params \cup {None}]
  /\ running \in [cb : Callbacks, param : Params] \cup {None}

Init ==
  /\ pending = [cb \in Callbacks |-> None]
  /\ running = None

Set(cb, p) ==
  /\ pending' = [pending EXCEPT ![cb] = p]
  /\ UNCHANGED running

Cancel(cb) ==
  /\ pending' = [pending EXCEPT ![cb] = None]
  /\ UNCHANGED running

Fire(cb) ==
  /\ running = None
  /\ pending[cb] # None
  /\ running' = [cb |-> cb, param |-> pending[cb]]
  /\ pending' = [pending EXCEPT ![cb] = None]

Return ==
  /\ running' = None
  /\ UNCHANGED pending

Next ==
  \/ \E cb \in Callbacks, p \in Params : Set(cb, p)
  \/ \E cb \in Callbacks : Cancel(cb) \/ Fire(cb)
  \/ Return

Spec == Init /\ [][Next]_vars
=============================================================================
