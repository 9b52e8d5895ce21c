----------------------------- MODULE TcpClient -----------------------------
(***************************************************************************)
(* The TCP client of em_tcp_client: a TX task that owns the connection and *)
(* takes commands from cmd_q, an RX task that polls the socket and reports *)
(* its failure, senders that put a buffer into send_q and a command into   *)
(* cmd_q, the scheduler that asks for the next connection attempt, and the *)
(* Wi-Fi and event-loop handlers.                                          *)
(*                                                                         *)
(* Asking for a connection or a disconnection first empties cmd_q and then *)
(* sends the command without waiting; other tasks may run in between.      *)
(* Delays are abstract: a scheduled attempt may start at any later time.   *)
(* Messages are identified by their sender, and a buffer that was freed    *)
(* while it is still in send_q is told apart; touching it, or freeing a    *)
(* buffer twice, ends the run as the heap's checks would.  The handler of  *)
(* WIFI_EVENT_AP_STADISCONNECTED is left out: that event is raised by a    *)
(* soft access point, and the device is a station.  So is the decoding of  *)
(* received data, and em_tcp_client_disconnect_panic, which is followed by *)
(* a restart.                                                              *)
(***************************************************************************)
EXTENDS Naturals, Sequences, FiniteSets

CONSTANTS
  Senders,           \* the tasks that send messages
  CmdQueueLength,    \* CONFIG_EM_TCP_CMD_MSG_Q_MAX
  SendQueueLength,   \* CONFIG_EM_TCP_TX_SEND_MSG_Q_MAX
  RxQueueLength,     \* CONFIG_EM_TCP_RX_STATE_MSG_Q_MAX
  MaxEvents          \* bound: ONLINE and OFFLINE events in the event loop

\* Who asks for a connection or a disconnection.
Submitters == {"tx", "rx", "timer"}

ASSUME TcpClientAssumption ==
  /\ {CmdQueueLength, SendQueueLength, RxQueueLength, MaxEvents} \subseteq Nat \ {0}
  /\ Senders \cap {"freed"} = {}

VARIABLES
  conn_state,  \* what the client takes the connection for
  link,        \* the transport: "closed", "open", or "broken" (it reports errors)
  cmd_q,       \* commands for the TX task
  send_q,      \* buffers to send, by sender, or "freed"
  rx_q,        \* RESUME messages for the RX task: how many
  submit,      \* the command each submitter is to send, its reset being done
  tx,          \* where the TX task is
  rx,          \* the RX task: waits for rx_q "forever", "sleeps", or "polls"
  sender,      \* senders between their two queues: "pushed", or "popped" once
               \* the TX task has taken the buffer
  long_delay,  \* conn_delay_offset_ms is an hour
  timer,       \* connect_handler is scheduled
  wifi,        \* CONNECTED_BIT of wifi_evt_group
  got_ip,      \* ip_assigned_handler is about to run
  events,      \* ONLINE and OFFLINE events that are posted
  registered,  \* the protocol's TX handler is set
  aborted      \* what stopped the program, or "no"

outside == <<wifi, got_ip, events, registered>>
vars == <<conn_state, link, cmd_q, send_q, rx_q, submit, tx, rx, sender, long_delay,
          timer, wifi, got_ip, events, registered, aborted>>

Running == aborted = "no"

Init ==
  /\ conn_state = "disconnected"
  /\ link = "closed"
  /\ cmd_q = <<>> /\ send_q = <<>> /\ rx_q = 0
  /\ submit = [s \in Submitters |-> "none"]
  /\ tx = "idle" /\ rx = "forever"
  /\ sender = [s \in Senders |-> "idle"]
  /\ long_delay = FALSE
  /\ timer = FALSE
  /\ wifi = FALSE /\ got_ip = FALSE
  /\ events = <<>> /\ registered = FALSE
  /\ aborted = "no"

\* The first half of submit_tcp_client_connect and ..._disconnect.
ResetFor(s, cmd) ==
  /\ cmd_q' = <<>>
  /\ submit' = [submit EXCEPT ![s] = cmd]

\* The second half: the command must fit into the queue.
Submit(s) ==
  /\ Running
  /\ submit[s] # "none"
  /\ submit' = [submit EXCEPT ![s] = "none"]
  /\ IF Len(cmd_q) < CmdQueueLength
     THEN cmd_q' = Append(cmd_q, submit[s]) /\ UNCHANGED aborted
     ELSE aborted' = "cmd_q_full" /\ UNCHANGED cmd_q
  /\ UNCHANGED <<conn_state, link, send_q, rx_q, tx, rx, sender, long_delay, timer, outside>>

-----------------------------------------------------------------------------
(* Senders: em_tcp_client_send, called through the protocol's TX handler   *)

Push(s) ==
  /\ Running
  /\ registered
  /\ sender[s] = "idle"
  /\ Len(send_q) < SendQueueLength     \* otherwise the message is dropped
  /\ send_q' = Append(send_q, s)
  /\ sender' = [sender EXCEPT ![s] = "pushed"]
  /\ UNCHANGED <<conn_state, link, cmd_q, rx_q, submit, tx, rx, long_delay, timer,
                 outside, aborted>>

PushCommand(s) ==
  /\ Running
  /\ sender[s] # "idle"
  /\ Len(cmd_q) < CmdQueueLength
  /\ cmd_q' = Append(cmd_q, "send")
  /\ sender' = [sender EXCEPT ![s] = "idle"]
  /\ UNCHANGED <<conn_state, link, send_q, rx_q, submit, tx, rx, long_delay, timer,
                 outside, aborted>>

\* The place of sender s's newest buffer in send_q.
Newest(s, k) == k \in DOMAIN send_q /\ send_q[k] = s
                /\ \A j \in DOMAIN send_q : j > k => send_q[j] # s

\* cmd_q stays full: the send fails, and send_data (sender.c:21) frees the
\* buffer that is in send_q, or that the TX task has freed.
PushTimesOut(s) ==
  /\ Running
  /\ sender[s] # "idle"
  /\ Len(cmd_q) = CmdQueueLength
  /\ sender' = [sender EXCEPT ![s] = "idle"]
  /\ \/ /\ sender[s] = "pushed"
        /\ \E k \in DOMAIN send_q :
             Newest(s, k) /\ send_q' = [send_q EXCEPT ![k] = "freed"]
        /\ UNCHANGED aborted
     \/ /\ sender[s] = "popped"
        /\ aborted' = "double_free"
        /\ UNCHANGED send_q
  /\ UNCHANGED <<conn_state, link, cmd_q, rx_q, submit, tx, rx, long_delay, timer, outside>>

\* em_tcp_client_set_long_reconnecting_delay, dropped when cmd_q is full: the
\* RX task dispatches the server's refusal of the client info.
SetLongDelay ==
  /\ Running
  /\ rx = "polls" /\ link = "open"
  /\ Len(cmd_q) < CmdQueueLength
  /\ cmd_q' = Append(cmd_q, "long_delay")
  /\ UNCHANGED <<conn_state, link, send_q, rx_q, submit, tx, rx, sender, long_delay,
                 timer, outside, aborted>>

-----------------------------------------------------------------------------
(* The TX task                                                             *)

Takes(cmd) ==
  /\ Running
  /\ tx = "idle" /\ submit["tx"] = "none"
  /\ cmd_q # <<>>
  /\ Head(cmd_q) = cmd

TakeConnect ==
  /\ Takes("connect")
  /\ cmd_q' = Tail(cmd_q)
  /\ conn_state' = "connecting"
  /\ tx' = "connecting"
  /\ UNCHANGED <<link, send_q, rx_q, submit, rx, sender, long_delay, timer, outside, aborted>>

\* Fault: nobody is told.
ConnectFailsSilently ==
  /\ Running
  /\ tx = "connecting"
  /\ link' = "closed"
  /\ tx' = "idle"
  /\ UNCHANGED <<conn_state, cmd_q, send_q, rx_q, submit, rx, sender, long_delay, timer,
                 outside, aborted>>

ConnectFails ==
  /\ Running
  /\ tx = "connecting"
  /\ link' = "closed"
  /\ ResetFor("tx", "disconnect")
  /\ tx' = "idle"
  /\ UNCHANGED <<conn_state, send_q, rx_q, rx, sender, long_delay, timer, outside, aborted>>

\* open_conn_handler succeeds and resumes the RX task ...
ConnectSucceeds ==
  /\ Running
  /\ tx = "connecting"
  /\ wifi
  /\ link' = "open"
  /\ IF rx_q < RxQueueLength
     THEN rx_q' = rx_q + 1 /\ tx' = "opened" /\ UNCHANGED aborted
     ELSE aborted' = "rx_q_full" /\ UNCHANGED <<rx_q, tx>>
  /\ UNCHANGED <<conn_state, cmd_q, send_q, submit, rx, sender, long_delay, timer, outside>>

\* ... and the TX task says so.
Opened ==
  /\ Running
  /\ tx = "opened"
  /\ Len(events) < MaxEvents
  /\ conn_state' = "connected"
  /\ long_delay' = FALSE
  /\ events' = Append(events, "online")
  /\ tx' = "idle"
  /\ UNCHANGED <<link, cmd_q, send_q, rx_q, submit, rx, sender, timer, wifi, got_ip,
                 registered, aborted>>

TakeDisconnect ==
  /\ Takes("disconnect")
  /\ cmd_q' = Tail(cmd_q)
  /\ conn_state' = "disconnected"
  /\ tx' = "closing"
  /\ UNCHANGED <<link, send_q, rx_q, submit, rx, sender, long_delay, timer, outside, aborted>>

\* Fault: an attempt is scheduled only if there was a connection.
CloseAndMaybeReconnect ==
  /\ Running
  /\ tx = "closing"
  /\ Len(events) < MaxEvents
  /\ timer' = (timer \/ (wifi /\ link # "closed"))
  /\ link' = "closed"
  /\ events' = Append(events, "offline")
  /\ tx' = "idle"
  /\ UNCHANGED <<conn_state, cmd_q, send_q, rx_q, submit, rx, sender, long_delay, wifi,
                 got_ip, registered, aborted>>

\* CMD_DISCONNECT after the state is set: with Wi-Fi an attempt is scheduled.
Close ==
  /\ Running
  /\ tx = "closing"
  /\ Len(events) < MaxEvents
  /\ link' = "closed"
  /\ timer' = (timer \/ wifi)
  /\ events' = Append(events, "offline")
  /\ tx' = "idle"
  /\ UNCHANGED <<conn_state, cmd_q, send_q, rx_q, submit, rx, sender, long_delay, wifi,
                 got_ip, registered, aborted>>

\* Fault: without a connection all the buffers are dropped.
TakeSendDropsAll ==
  /\ Takes("send")
  /\ send_q # <<>>
  /\ send_q' = IF conn_state = "connected" THEN Tail(send_q) ELSE <<>>
  /\ IF conn_state # "connected" \/ link # "open"
     THEN ResetFor("tx", "disconnect")
     ELSE cmd_q' = Tail(cmd_q) /\ UNCHANGED submit
  /\ UNCHANGED <<conn_state, link, rx_q, tx, rx, sender, long_delay, timer, outside, aborted>>

\* The sender whose buffer is taken before it has sent its command.
Popped ==
  [s \in Senders |->
    IF sender[s] = "pushed" /\ send_q[1] = s /\ \A k \in 2..Len(send_q) : send_q[k] # s
    THEN "popped" ELSE sender[s]]

\* Fault: without a connection the message waits for one, and so does the task.
TakeSendWaits ==
  /\ Takes("send")
  /\ conn_state = "connected"
  /\ send_q' = IF send_q = <<>> THEN <<>> ELSE Tail(send_q)
  /\ cmd_q' = Tail(cmd_q)
  /\ UNCHANGED <<conn_state, link, rx_q, submit, tx, rx, sender, long_delay, timer,
                 outside, aborted>>

\* send_handler takes the oldest buffer; without a connection it frees it and
\* fails, as it does when the transport cannot send.
TakeSend ==
  /\ Takes("send")
  /\ IF send_q = <<>>
     THEN cmd_q' = Tail(cmd_q) /\ UNCHANGED <<send_q, submit, sender, aborted>>
     ELSE /\ send_q' = Tail(send_q)
          /\ sender' = Popped
          /\ aborted' = IF send_q[1] = "freed" THEN "use_after_free" ELSE aborted
          /\ IF conn_state # "connected" \/ link # "open"
             THEN ResetFor("tx", "disconnect")
             ELSE cmd_q' = Tail(cmd_q) /\ UNCHANGED submit
  /\ UNCHANGED <<conn_state, link, rx_q, tx, rx, long_delay, timer, outside>>

TakeLongDelay ==
  /\ Takes("long_delay")
  /\ cmd_q' = Tail(cmd_q)
  /\ long_delay' = TRUE
  /\ UNCHANGED <<conn_state, link, send_q, rx_q, submit, tx, rx, sender, timer, outside,
                 aborted>>

-----------------------------------------------------------------------------
(* The RX task                                                             *)

\* A RESUME message, or the end of its sleep, makes the task poll.
RxWakes ==
  /\ Running
  /\ submit["rx"] = "none"
  /\ \/ rx \in {"forever", "sleeps"} /\ rx_q > 0 /\ rx_q' = rx_q - 1
     \/ rx = "sleeps" /\ rx_q = 0 /\ UNCHANGED rx_q
  /\ rx' = "polls"
  /\ UNCHANGED <<conn_state, link, cmd_q, send_q, submit, tx, sender, long_delay, timer,
                 outside, aborted>>

\* Nothing to read, or something that is read and dispatched.
RxPolls ==
  /\ Running
  /\ rx = "polls"
  /\ link = "open"
  /\ rx' = "sleeps"
  /\ UNCHANGED <<conn_state, link, cmd_q, send_q, rx_q, submit, tx, sender, long_delay,
                 timer, outside, aborted>>

\* Fault: an error puts the task to sleep without a word.
RxErrorUnreported ==
  /\ Running
  /\ rx = "polls"
  /\ link # "open"
  /\ rx' = "forever"
  /\ UNCHANGED <<conn_state, link, cmd_q, send_q, rx_q, submit, tx, sender, long_delay,
                 timer, outside, aborted>>

\* The poll or the read fails: disconnect, and wait to be resumed.
RxError ==
  /\ Running
  /\ rx = "polls"
  /\ link # "open"
  /\ ResetFor("rx", "disconnect")
  /\ rx' = "forever"
  /\ UNCHANGED <<conn_state, link, send_q, rx_q, tx, sender, long_delay, timer, outside,
                 aborted>>

-----------------------------------------------------------------------------
(* The scheduler, Wi-Fi, the event loop and the network                    *)

\* connect_handler
TimerFires ==
  /\ Running
  /\ submit["timer"] = "none"
  /\ timer
  /\ timer' = FALSE
  /\ ResetFor("timer", "connect")
  /\ UNCHANGED <<conn_state, link, send_q, rx_q, tx, rx, sender, long_delay, outside, aborted>>

\* IP_EVENT_STA_GOT_IP: the Wi-Fi module's handler, then the client's.
GotIp ==
  /\ Running
  /\ ~got_ip
  /\ wifi' = TRUE
  /\ got_ip' = TRUE
  /\ UNCHANGED <<conn_state, link, cmd_q, send_q, rx_q, submit, tx, rx, sender, long_delay,
                 timer, events, registered, aborted>>

IpAssigned ==
  /\ Running
  /\ got_ip
  /\ got_ip' = FALSE
  /\ timer' = TRUE
  /\ UNCHANGED <<conn_state, link, cmd_q, send_q, rx_q, submit, tx, rx, sender, long_delay,
                 wifi, events, registered, aborted>>

WifiLost ==
  /\ Running
  /\ wifi /\ ~got_ip
  /\ wifi' = FALSE
  /\ UNCHANGED <<conn_state, link, cmd_q, send_q, rx_q, submit, tx, rx, sender, long_delay,
                 timer, got_ip, events, registered, aborted>>

\* The connection dies, with or without Wi-Fi.
LinkBreaks ==
  /\ Running
  /\ link = "open"
  /\ link' = "broken"
  /\ UNCHANGED <<conn_state, cmd_q, send_q, rx_q, submit, tx, rx, sender, long_delay, timer,
                 outside, aborted>>

\* tcp_client_event_handler sets or clears the protocol's TX handler.
HandleEvent ==
  /\ Running
  /\ events # <<>>
  /\ events' = Tail(events)
  /\ registered' = (Head(events) = "online")
  /\ UNCHANGED <<conn_state, link, cmd_q, send_q, rx_q, submit, tx, rx, sender, long_delay,
                 timer, wifi, got_ip, aborted>>

-----------------------------------------------------------------------------
TxTask ==
  \/ TakeConnect \/ ConnectFails \/ ConnectSucceeds \/ Opened
  \/ TakeDisconnect \/ Close \/ TakeSend \/ TakeLongDelay
  \/ Submit("tx")

RxTask == RxWakes \/ RxPolls \/ RxError \/ Submit("rx")

Next ==
  \/ TxTask \/ RxTask
  \/ \E s \in Senders : Push(s) \/ PushCommand(s) \/ PushTimesOut(s)
  \/ SetLongDelay
  \/ TimerFires \/ Submit("timer")
  \/ GotIp \/ IpAssigned \/ WifiLost \/ LinkBreaks \/ HandleEvent

Spec == Init /\ [][Next]_vars

(***************************************************************************)
(* The tasks run whenever they can, scheduled attempts start, and the      *)
(* event loop handles its events.  A connection attempt may fail again and *)
(* again, and nothing is assumed of senders, Wi-Fi and network.            *)
(***************************************************************************)
Fairness ==
  /\ WF_vars(TxTask) /\ WF_vars(RxTask)
  /\ WF_vars(TimerFires) /\ WF_vars(Submit("timer"))
  /\ WF_vars(IpAssigned) /\ WF_vars(HandleEvent)
  /\ \A s \in Senders : WF_vars(PushCommand(s) \/ PushTimesOut(s))

FairSpec == Spec /\ Fairness
-----------------------------------------------------------------------------
(* Properties                                                              *)

Queued(cmd) == {k \in DOMAIN cmd_q : cmd_q[k] = cmd}
Sending == {s \in Senders : sender[s] # "idle"}

(***************************************************************************)
(* tcp_client.c:240-243 and :463-472: every CMD_SEND, sent or about to be, *)
(* has a buffer in send_q, so the TX task never finds send_q empty,        *)
(* whatever the resets of cmd_q and the failing senders do in between.     *)
(***************************************************************************)
SendsHaveBuffers ==
  Running => Cardinality(Queued("send")) + Cardinality(Sending) <= Len(send_q)

\* A command that will make or mend the connection is on its way.
Moving ==
  \/ Queued("connect") \cup Queued("disconnect") # {}
  \/ \E s \in Submitters : submit[s] # "none"
  \/ tx # "idle"

(***************************************************************************)
(* The device is never left offline (tcp_client.c:307-334, 369-380): while *)
(* there is Wi-Fi and no connection, an attempt is under way or scheduled, *)
(* even if the command that asked for it was wiped out by a reset.         *)
(***************************************************************************)
ReconnectPending ==
  wifi /\ Running => conn_state = "connected" \/ timer \/ got_ip \/ Moving

(***************************************************************************)
(* A dead connection is never taken for a live one for good                *)
(* (tcp_client.c:87-160, 228-232): the RX task is about to look at it, or  *)
(* a command that ends it is on its way.                                   *)
(***************************************************************************)
DeadLinkNoticed ==
  conn_state = "connected" /\ link # "open" /\ Running
    => rx # "forever" \/ rx_q > 0 \/ Moving

\* send_q is full of buffers whose commands are gone: every reset of cmd_q
\* (tcp_client.c:65, :183) leaves those of the commands that it wipes out.
Muted ==
  /\ Len(send_q) = SendQueueLength
  /\ Queued("send") = {}
  /\ Sending = {}

\* It takes that, or an abort, to stop the sending: a full send_q gets room
\* again (tcp_client.c:463-472, 336-356).
SendQueueDrains ==
  Len(send_q) = SendQueueLength ~> Len(send_q) < SendQueueLength \/ Muted \/ ~Running

Trouble == GotIp \/ WifiLost \/ LinkBreaks \/ ConnectFails

\* Nobody has anything left to do but to wait.
Settled ==
  /\ tx = "idle" /\ cmd_q = <<>>
  /\ \A s \in Submitters : submit[s] = "none"
  /\ Sending = {} /\ events = <<>> /\ rx_q = 0
  /\ link = "open" \/ rx = "forever"

\* An attempt or a message overtakes what is still going on.  An attempt comes
\* CONFIG_EM_TCP_RECONNECT_TIMEOUT_MS (5 s) after a disconnection and messages
\* come seconds apart, the RX task sleeps for 500 ms and senders wait for 10:
\* that does not go on in the long run.
Overtaking == ~Settled /\ (TimerFires \/ \E s \in Senders : Push(s))

(***************************************************************************)
(* When the network stops making trouble the client gets connected and     *)
(* stays connected: stale errors, stale attempts and resets that wipe out  *)
(* each other's commands die down.                                         *)
(***************************************************************************)
Recovers ==
  <>[][~Trouble /\ ~Overtaking]_vars
    => <>[](conn_state = "connected" \/ ~wifi \/ ~Running)

(***************************************************************************)
(* tcp_client.c:470, "cmd_q full, drop": a message whose command does not  *)
(* fit is dropped, and the TX task does not send it later.                 *)
(***************************************************************************)
DroppedIsNotSent == aborted # "use_after_free"
=============================================================================
