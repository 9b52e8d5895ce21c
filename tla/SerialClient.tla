---------------------------- MODULE SerialClient ----------------------------
(***************************************************************************)
(* The request/response client of em_serial_client: a table of one-shot    *)
(* and periodic requests, a timer that says when the next one is due, and  *)
(* a task that owns the table and takes commands from a queue of two.      *)
(*                                                                         *)
(* The queue is filled by the application (em_sc_send, em_sc_send_periodic,*)
(* em_sc_remove_periodic), by the UART task (one command per chunk), by    *)
(* the FreeRTOS timer daemon (the timer expired) and by a response handler *)
(* that runs in the client's own task and removes its own request          *)
(* (inv_fw_ver_handler).  All of them wait for room for ever.              *)
(*                                                                         *)
(* Only the task reads or writes the table, so handling a command is one   *)
(* step up to where it can block: each timer command it sends, and the     *)
(* handler's command, is a step of its own.  Times are milliseconds of the *)
(* client's own accounting (since_last_sent); when the armed timer expires *)
(* is left open.  The bytes on the line are abstract: a chunk is one frame *)
(* of the inverter, and the parser is that of rs232_2400_protocol, which   *)
(* looks at the last frame it is shown.                                    *)
(***************************************************************************)
EXTENDS Integers, Sequences, FiniteSets, FiniteSetsExt, SequencesExt

CONSTANTS
  Ids,              \* request ids
  SelfRemoving,     \* the ids whose response handler removes the request
  Timeouts,         \* timeouts of one-shot requests, ms
  Retries,          \* their retries
  Periods,          \* periods of periodic requests, ms
  MaxRqs,           \* CONFIG_EM_SERIAL_CLIENT_MAX_RQS
  CmdQueueLength,   \* length of cmd_queue (task.c:30)
  TimerQueueLength, \* CONFIG_FREERTOS_TIMER_QUEUE_LENGTH
  RingFrames,       \* frames the ring buffer holds
  PeekFrames,       \* frames that process_data reads from it
  ValidStatus,      \* the status the parser reports for a valid response
  None,             \* EXP_RSP_INVALID, and the id of a slot never used
  MaxCalls,         \* bound: calls of the application
  MaxUnanswered,    \* bound: answers the inverter still owes per request
  MaxLag            \* bound: a send fails only in the first MaxLag ms it may be sent

Slots == 1..MaxRqs

ASSUME SerialClientAssumption ==
  /\ SelfRemoving \subseteq Ids /\ Ids \cap {None, "nak", "bad"} = {}
  /\ Timeouts \subseteq Nat /\ Retries \subseteq 0..255
  /\ Periods \subseteq Nat \ {0, 1}       \* assert(period > 1), tx.c:74
  /\ {MaxRqs, CmdQueueLength, TimerQueueLength, RingFrames} \subseteq Nat \ {0}
  /\ PeekFrames \in 1..RingFrames
  /\ ValidStatus \in {"ok", "unknown"}

\* A frame of the inverter: the response to a request, a refusal, or garbled.
Frame == Ids \cup {"nak", "bad"}
AppCommand ==
  [type : {"add"}, id : Ids, timeout : Timeouts, retries : Retries]
    \cup [type : {"periodic"}, id : Ids, period : Periods]
    \cup [type : {"remove"}, id : Ids]
Command == AppCommand \cup [type : {"data"}, frame : Frame] \cup [type : {"timer"}]

VARIABLES
  rq,          \* the request table
  last_rq_id,  \* id of the request sent last, None once it is answered
  timer,       \* pimpl->timer is not NULL
  cmd_queue,   \* commands for the task
  todo,        \* timer commands the task has yet to send
  removing,    \* the id the task's response handler is about to remove
  timerq,      \* the timer command queue
  armed,       \* the timer is in the daemon's list of active timers
  dpc,         \* the daemon: "idle", or "sending" from sender_timer_cb
  ring,        \* the frames in the ring buffer
  unanswered,  \* how many answers the inverter owes to each request
  calls,       \* calls made by the application (bounded)
  aborted      \* what stopped the program, or "no"

table == <<rq, last_rq_id, timer>>
daemon == <<timerq, armed, dpc>>
vars == <<rq, last_rq_id, timer, cmd_queue, todo, removing, timerq, armed, dpc,
          ring, unanswered, calls, aborted>>

Running == aborted = "no"

Init ==
  /\ rq = [i \in Slots |->
            [id |-> None, timeout |-> 0, since |-> 0, retries |-> 0, max |-> 0,
             payload |-> FALSE, active |-> FALSE, periodic |-> FALSE]]
  /\ last_rq_id = None
  /\ timer = FALSE
  /\ cmd_queue = <<>>
  /\ todo = <<>>
  /\ removing = None
  /\ timerq = <<>>
  /\ armed = FALSE
  /\ dpc = "idle"
  /\ ring = <<>>
  /\ unanswered = [id \in Ids |-> 0]
  /\ calls = 0
  /\ aborted = "no"

-----------------------------------------------------------------------------
(* The table                                                               *)

Active(r) == {i \in Slots : r[i].active}
Free(r) == Slots \ Active(r)

\* How long until a request is due; timeout is a uint16_t.
Due(r, i) == r[i].timeout - r[i].since
Earliest(r) == Min({Due(r, i) : i \in Active(r)})

\* Fault: the payload is freed and its pointer kept.
DeactivateKeepPointer(r, i) == [r EXCEPT ![i].active = FALSE]

\* deactivate_rq
Deactivate(r, i) == [r EXCEPT ![i].active = FALSE, ![i].payload = FALSE]

\* schedule_next_timer_evt: the time to the next event passes for every request.
Elapse(r, d) == [i \in Slots |-> IF r[i].active
                                 THEN [r[i] EXCEPT !.since = @ + d] ELSE r[i]]

\* What ack_rsp does to the table: the first active request with this id is
\* satisfied, and a one-shot request that may be retried is done.
AckTable(r, id) ==
  LET S == {i \in Active(r) : r[i].id = id} IN
  IF S = {} THEN r
  ELSE LET i == Min(S)
           s == [r EXCEPT ![i].since = 0, ![i].retries = 0]
       IN IF r[i].max > 0 THEN Deactivate(s, i) ELSE s

\* start_timer creates the timer on first use, otherwise changes its period,
\* and starts it.  It is created in a static buffer: doing so while the timer
\* that was there is still linked in the daemon's list corrupts that list, and
\* what the daemon does from then on is undefined; the behaviour ends there.
StartTimer ==
  /\ timer' = TRUE
  /\ todo' = IF timer THEN <<"period", "start">> ELSE <<"start">>
  /\ aborted' = IF ~timer /\ armed THEN "timer_relinked" ELSE aborted

NoTimer == UNCHANGED <<timer, todo, aborted>>

-----------------------------------------------------------------------------
(* Callers of the queue                                                    *)

Room == Len(cmd_queue) < CmdQueueLength

Enqueue(c) == Room /\ cmd_queue' = Append(cmd_queue, c)

\* em_sc_send, em_sc_send_periodic and em_sc_remove_periodic
AppCalls(c) ==
  /\ Running
  /\ calls < MaxCalls
  /\ Enqueue(c)
  /\ calls' = calls + 1
  /\ UNCHANGED <<table, todo, removing, daemon, ring, unanswered, aborted>>

\* uart_rx_cb: the inverter answers a request it was sent, at any later time,
\* with the response, a refusal, or something that the line has garbled.  An
\* answer that is lost is one that never arrives.
FrameArrives(id, f) ==
  /\ Running
  /\ unanswered[id] > 0
  /\ f \in {id, "nak", "bad"}
  /\ Enqueue([type |-> "data", frame |-> f])
  /\ unanswered' = [unanswered EXCEPT ![id] = @ - 1]
  /\ UNCHANGED <<table, todo, removing, daemon, ring, calls, aborted>>

\* The timer expires: the daemon enters sender_timer_cb ...
TimerExpires ==
  /\ Running
  /\ dpc = "idle"
  /\ armed
  /\ armed' = FALSE
  /\ dpc' = "sending"
  /\ UNCHANGED <<table, cmd_queue, todo, removing, timerq, ring, unanswered, calls,
                 aborted>>

\* ... which waits for room in the queue.
TimerSends ==
  /\ Running
  /\ dpc = "sending"
  /\ Enqueue([type |-> "timer"])
  /\ dpc' = "idle"
  /\ UNCHANGED <<table, todo, removing, timerq, armed, ring, unanswered, calls, aborted>>

\* Between callbacks the daemon processes its commands; a start that is late
\* already runs the callback.
TimerCommand ==
  /\ Running
  /\ dpc = "idle"
  /\ timerq # <<>>
  /\ timerq' = Tail(timerq)
  /\ \/ /\ Head(timerq) \in {"period", "start"}
        /\ armed' = TRUE
        /\ UNCHANGED dpc
     \/ /\ Head(timerq) = "start"
        /\ armed' = FALSE
        /\ dpc' = "sending"
     \/ /\ Head(timerq) \in {"stop", "delete"}
        /\ armed' = FALSE
        /\ UNCHANGED dpc
  /\ UNCHANGED <<table, cmd_queue, todo, removing, ring, unanswered, calls, aborted>>

-----------------------------------------------------------------------------
(* The task                                                                *)

\* The task is at its queue: no timer command to send, no handler running.
AtQueue == todo = <<>> /\ removing = None

\* The task takes the first command, which is of the given type.
Takes(type) ==
  /\ Running
  /\ AtQueue
  /\ cmd_queue # <<>>
  /\ Head(cmd_queue).type = type
  /\ cmd_queue' = Tail(cmd_queue)

Cmd == Head(cmd_queue)

\* A request takes the first free slot, whose payload must have been freed.
Insert(request) ==
  IF Free(rq) = {} THEN UNCHANGED rq /\ NoTimer
  ELSE LET i == Min(Free(rq)) IN
       IF rq[i].payload
       THEN aborted' = "payload_not_null" /\ UNCHANGED <<rq, timer, todo>>
       ELSE rq' = [rq EXCEPT ![i] = request[i]] /\ StartTimer

\* add_rq: due in 100 ms times its index.
AddRq ==
  /\ Takes("add")
  /\ Insert([i \in Slots |->
       [id |-> Cmd.id, timeout |-> Cmd.timeout % 65536,
        since |-> Cmd.timeout - (i - 1) * 100, retries |-> 0, max |-> Cmd.retries,
        payload |-> TRUE, active |-> TRUE, periodic |-> FALSE]])
  /\ UNCHANGED <<last_rq_id, removing, daemon, ring, unanswered, calls>>

\* add_periodic_rq: due in 500 ms times its number.
AddPeriodicRq ==
  /\ Takes("periodic")
  /\ Insert([i \in Slots |->
       [id |-> Cmd.id, timeout |-> Cmd.period % 65536,
        since |-> Cmd.period - i * 500, retries |-> 0, max |-> 0,
        payload |-> TRUE, active |-> TRUE, periodic |-> TRUE]])
  /\ UNCHANGED <<last_rq_id, removing, daemon, ring, unanswered, calls>>

Periodic(id) == {i \in Slots : rq[i].periodic /\ rq[i].id = id}

\* Fault: the timer is deleted whichever requests are left.
RemoveAndDeleteTimer ==
  /\ Takes("remove")
  /\ IF Periodic(Cmd.id) = {} THEN UNCHANGED rq /\ NoTimer
     ELSE /\ rq' = Deactivate(rq, Min(Periodic(Cmd.id)))
          /\ UNCHANGED aborted
          /\ IF timer
             THEN timer' = FALSE /\ todo' = <<"stop", "delete">>
             ELSE UNCHANGED <<timer, todo>>
  /\ UNCHANGED <<last_rq_id, removing, daemon, ring, unanswered, calls>>

\* remove_periodic_rq: the first slot that holds, or held, the periodic
\* request; with no request left the timer is stopped and deleted.
RemovePeriodicRq ==
  /\ Takes("remove")
  /\ IF Periodic(Cmd.id) = {} THEN UNCHANGED rq /\ NoTimer
     ELSE /\ rq' = Deactivate(rq, Min(Periodic(Cmd.id)))
          /\ UNCHANGED aborted
          /\ IF Active(rq') = {} /\ timer
             THEN timer' = FALSE /\ todo' = <<"stop", "delete">>
             ELSE UNCHANGED <<timer, todo>>
  /\ UNCHANGED <<last_rq_id, removing, daemon, ring, unanswered, calls>>

\* schedule_next_timer_evt on table r; there is no next event without requests.
ScheduleNext(r, d) ==
  IF Active(r) = {} THEN rq' = r /\ NoTimer
  ELSE rq' = Elapse(r, d) /\ StartTimer

\* send_rq, nothing is due: wait until the first request is.
NothingDue ==
  /\ Takes("timer")
  /\ IF Active(rq) = {} THEN ScheduleNext(rq, 0)
     ELSE Earliest(rq) > 50 /\ ScheduleNext(rq, Earliest(rq))
  /\ UNCHANGED <<last_rq_id, removing, daemon, ring, unanswered, calls>>

\* The request that send_rq sends: the first of those that are due first.
DueFirst(i) ==
  /\ i \in Active(rq)
  /\ Due(rq, i) = Earliest(rq)
  /\ \A j \in Active(rq) : Due(rq, j) = Earliest(rq) => i <= j

\* send_rq, the UART does not take the request: retry after 500 ms.
SendFails ==
  /\ Takes("timer")
  /\ \E i \in Slots :
       /\ DueFirst(i)
       /\ Due(rq, i) \in (51 - MaxLag)..50
       /\ last_rq_id' = rq[i].id
  /\ ScheduleNext(rq, 500)
  /\ UNCHANGED <<removing, daemon, ring, unanswered, calls>>

\* Fault: a one-shot request's tries are not counted.
SentTableNoCount(i) ==
  IF ~rq[i].periodic
  THEN IF rq[i].retries > rq[i].max
       THEN Deactivate([rq EXCEPT ![i].since = 0, ![i].retries = 0], i)
       ELSE [rq EXCEPT ![i].since = 0]
  ELSE [rq EXCEPT ![i].since = 0]

\* What sending request i does to the table: a one-shot request is dropped
\* after its last retry, a periodic one is tried three times per period.
SentTable(i) ==
  LET n == (rq[i].retries + 1) % 256
      r == [rq EXCEPT ![i].retries = n] IN
  IF ~rq[i].periodic
  THEN IF n > rq[i].max
       THEN Deactivate([r EXCEPT ![i].since = 0, ![i].retries = 0], i)
       ELSE [r EXCEPT ![i].since = 0]
  ELSE IF n > 2
       THEN [r EXCEPT ![i].since = 0, ![i].retries = 0]
       ELSE [r EXCEPT ![i].since = @ - 100]

\* The next event is 100 ms away or more, so that the response can come in --
\* unless a request is late: the test compares as uint32_t, and the negative
\* delay passes it.
NextDelay(r) == IF Earliest(r) \in 0..99 THEN 100 ELSE Earliest(r)

\* send_rq, the first request that is due goes out.
SendRq ==
  /\ Takes("timer")
  /\ \E i \in Slots :
       /\ DueFirst(i)
       /\ Due(rq, i) <= 50
       /\ last_rq_id' = rq[i].id
       /\ unanswered' = [unanswered EXCEPT ![rq[i].id] =
                           IF @ < MaxUnanswered THEN @ + 1 ELSE @]
       /\ LET r == SentTable(i) IN
          ScheduleNext(r, IF Active(r) = {} THEN 0 ELSE NextDelay(r))
  /\ UNCHANGED <<removing, daemon, ring, calls>>

-----------------------------------------------------------------------------
(* Responses                                                               *)

\* em_ringbuf_write: the newest RingFrames frames.
Stored(f) == LET s == Append(ring, f) IN
             IF Len(s) > RingFrames THEN Tail(s) ELSE s
Peeked(s) == SubSeq(s, 1, IF Len(s) < PeekFrames THEN Len(s) ELSE PeekFrames)
Rest(s) == SubSeq(s, Len(Peeked(s)) + 1, Len(s))

\* process_data when no response is expected: the frame stays in the buffer.
Unexpected ==
  /\ Takes("data")
  /\ last_rq_id = None
  /\ ring' = Stored(Cmd.frame)
  /\ UNCHANGED <<table, todo, removing, daemon, unanswered, calls, aborted>>

\* process_data: the parser takes what it is shown, and judges the last frame.
Parses ==
  /\ Takes("data")
  /\ last_rq_id # None
  /\ ring' = Rest(Stored(Cmd.frame))

LastFrame == Last(Peeked(Stored(Cmd.frame)))

\* The frame is garbled, or the parser does not report it as OK, or it is the
\* response to some other request and does not decode as one to the last.
Discarded ==
  /\ Parses
  /\ \/ LastFrame = "bad"
     \/ LastFrame \in Ids /\ ValidStatus # "ok"
     \/ LastFrame \in Ids /\ LastFrame # last_rq_id
  /\ UNCHANGED <<table, todo, removing, daemon, unanswered, calls, aborted>>

\* The inverter refuses the request: ack_rsp.
Refused ==
  /\ Parses
  /\ LastFrame = "nak"
  /\ rq' = AckTable(rq, last_rq_id)
  /\ last_rq_id' = None
  /\ UNCHANGED <<timer, todo, removing, daemon, unanswered, calls, aborted>>

\* packet_handler: ack_rsp, then the handler of the request sent last.
Answered ==
  /\ Parses
  /\ LastFrame \in Ids /\ ValidStatus = "ok"
  /\ rq' = AckTable(rq, last_rq_id)
  /\ last_rq_id' = None
  /\ removing' = IF last_rq_id \in SelfRemoving THEN last_rq_id ELSE None
  /\ UNCHANGED <<timer, todo, daemon, unanswered, calls, aborted>>

\* The handler (inv_fw_ver_handler) removes its request, through the queue.
HandlerRemoves ==
  /\ Running
  /\ removing # None
  /\ Enqueue([type |-> "remove", id |-> removing])
  /\ removing' = None
  /\ UNCHANGED <<table, todo, daemon, ring, unanswered, calls, aborted>>

\* Fault: the same command is sent again and again.
SendTimerCommandAgain ==
  /\ Running
  /\ todo # <<>>
  /\ Len(timerq) < TimerQueueLength
  /\ timerq' = Append(timerq, Head(todo))
  /\ UNCHANGED <<table, cmd_queue, todo, removing, armed, dpc, ring, unanswered, calls,
                 aborted>>

\* The task sends a timer command, waiting for room in the daemon's queue.
SendTimerCommand ==
  /\ Running
  /\ todo # <<>>
  /\ Len(timerq) < TimerQueueLength
  /\ timerq' = Append(timerq, Head(todo))
  /\ todo' = Tail(todo)
  /\ UNCHANGED <<table, cmd_queue, removing, armed, dpc, ring, unanswered, calls, aborted>>

-----------------------------------------------------------------------------
Handle ==
  \/ AddRq \/ AddPeriodicRq \/ RemovePeriodicRq
  \/ NothingDue \/ SendFails \/ SendRq
  \/ Unexpected \/ Discarded \/ Refused \/ Answered
  \/ HandlerRemoves \/ SendTimerCommand

Daemon == TimerExpires \/ TimerSends \/ TimerCommand

Next ==
  \/ \E c \in AppCommand : AppCalls(c)
  \/ \E id \in Ids, f \in Frame : FrameArrives(id, f)
  \/ Daemon
  \/ Handle

Spec == Init /\ [][Next]_vars

(***************************************************************************)
(* The task and the daemon run whenever they can: both are above the idle  *)
(* task and block only on the queues.  Nothing is assumed of the           *)
(* application, of the inverter or of the line.                            *)
(***************************************************************************)
FairSpec == Spec /\ WF_vars(Handle) /\ WF_vars(Daemon)

-----------------------------------------------------------------------------
(* Properties                                                              *)

(***************************************************************************)
(* Every buffer that serialize_func allocated belongs to one active        *)
(* request: none is leaked or sent after it was freed, whichever of the    *)
(* last retry, the response and the removal comes first, and the           *)
(* assertions of tx.c:44 and tx.c:101 hold when a slot is used again.      *)
(***************************************************************************)
PayloadsOwned ==
  /\ \A i \in Slots : rq[i].active <=> rq[i].payload
  /\ aborted # "payload_not_null"

\* The timer was created again in the memory of the one that is still linked
\* in the daemon's list (tx.c:179-183).
TimerRelinked == aborted = "timer_relinked"

\* The timer will be running once the daemon has processed its commands; of a
\* timer in a corrupted list nothing can be said.
WillRun == /\ ~TimerRelinked
           /\ LET q == timerq \o todo IN
              IF q = <<>> THEN armed ELSE Last(q) \in {"period", "start"}

\* The deletion of the timer has been sent, and is yet to be carried out.
DeletionQueued == timerq # <<>> /\ Last(timerq) = "delete"

(***************************************************************************)
(* Polling never dies quietly (task.c:83-194, tx.c:125-208): as long as    *)
(* there is an active request the timer runs, or is about to, or its       *)
(* expiry is on its way to the task.  There is one exception: the last     *)
(* request was removed (tx.c:145) and another one is added before the      *)
(* daemon has carried out the stop and the deletion.  The timer is then    *)
(* created again while its predecessor in the same memory runs, and        *)
(* polling may end for good.  It is the only exception: a timer that no    *)
(* longer runs, or whose deletion is carried out, is replaced by one that  *)
(* does run.                                                               *)
(***************************************************************************)
PollingGoesOn ==
  /\ Active(rq) # {} =>
       \/ WillRun
       \/ dpc = "sending"
       \/ \E k \in DOMAIN cmd_queue : cmd_queue[k].type = "timer"
       \/ TimerRelinked
  /\ TimerRelinked => armed /\ DeletionQueued

(***************************************************************************)
(* Everyone waits for everyone: the task for room in the queue that only   *)
(* it empties, or the task for the daemon's queue while the daemon waits   *)
(* for the task's.                                                         *)
(***************************************************************************)
Wedged ==
  /\ ~Room
  /\ \/ removing # None
     \/ todo # <<>> /\ Len(timerq) = TimerQueueLength /\ dpc = "sending"

\* The client breaks when it is wedged, and when the timer is created again in
\* the daemon's list (the assertions hold: PayloadsOwned).
Broken == aborted # "no" \/ Wedged

\* There is no other way to stop the task: it gets back to its queue
\* (task.c:50-56) unless the client breaks.
TaskReturns == ~AtQueue ~> AtQueue \/ Broken

(***************************************************************************)
(* A one-shot request does not stay for ever (task.c:131-139, rx.c:183):   *)
(* it is answered, or given up after its retries, even if it is always the *)
(* last one to be due and no answer ever comes, unless the client breaks.  *)
(***************************************************************************)
OneShotsEnd ==
  \A i \in Slots :
    rq[i].active /\ ~rq[i].periodic ~> ~(rq[i].active /\ ~rq[i].periodic) \/ Broken

(***************************************************************************)
(* task.c:148, "retry after 100ms": when a periodic request goes out and   *)
(* has tries left, the timer is started so that it is tried again 100 ms   *)
(* later (it may have gone out up to 50 ms early).                         *)
(***************************************************************************)
RetryAfter100ms ==
  [][SendRq => \A i \in Slots :
       DueFirst(i) /\ rq[i].periodic /\ rq[i].retries < 2
         => NextDelay(SentTable(i)) \in 100..150]_vars

(***************************************************************************)
(* task.c:132, "retry after timeout if rsp not received": a valid response *)
(* to the request that was sent last, which the parser is shown, ends the  *)
(* wait for it.                                                            *)
(***************************************************************************)
ValidResponseIsReceived ==
  [][(Parses /\ LastFrame = last_rq_id)
       => last_rq_id' = None]_vars
=============================================================================
