---------------------------- MODULE Provisioning ----------------------------
(***************************************************************************)
(* Provisioning over Bluetooth LE (em_ble_prov_svc/ble_prov_svc.c) on the  *)
(* BLE core (em_ble_core/ble_adv.c, ble_gatt.c).                           *)
(*                                                                         *)
(* Three clicks of the button open a session of 60 s; a scan finished at   *)
(* boot without credentials opens one without an end.  A client suspends   *)
(* the end; when it leaves the session has its delay again.                *)
(*                                                                         *)
(* The event task starts sessions, one event of the queue at a time; the   *)
(* daemon ends them when the scheduled call is due, and Rx before an       *)
(* update (dispatcher.c:112): they may meet inside em_ble_deinit, which    *)
(* tests, then clears `initialized`.  The host task runs the GAP and GATT  *)
(* callbacks.                                                              *)
(*                                                                         *)
(* External: the events of the Wi-Fi station, which come in any order, and *)
(* NimBLE.  Starting it while it is up or half stopped aborts              *)
(* (gatt_svr_init's assertion, sys_evt.c:58); stopping it disconnects the  *)
(* client, with the GAP event; stopping it twice does nothing or aborts,   *)
(* and freeing it while it runs aborts.                                    *)
(***************************************************************************)
EXTENDS Naturals, Sequences

CONSTANT MaxEvents  \* bound: what comes from outside waits while so many
                    \* events are queued

VARIABLES
  events,       \* the event loop's queue
  starting,     \* the event task is in em_ble_prov_start, after em_ble_init
  initialized,
  host,         \* NimBLE: "down", "syncing", "ready", "advertising",
                \* "connected" or "stopped"
  scheduled,    \* prov_stop_wrapper is scheduled
  stopper,      \* where em_ble_deinit is, in each task that stops BLE
  written,      \* wifi_credentials: what the client has written
  conn_result,  \* wifi_conn_result
  limited       \* history: this session has been given a delay

provVars == <<events, starting, initialized, host, scheduled, stopper, written,
              conn_result, limited>>

Stoppers == {"Daemon", "Rx"}

ProvInit ==
  /\ events = <<>> /\ starting = FALSE
  /\ initialized = FALSE /\ host = "down" /\ scheduled = FALSE
  /\ stopper = [t \in Stoppers |-> "idle"]
  /\ written = {} /\ conn_result = "none" /\ limited = FALSE

\* An abort: the device restarts.
Abort ==
  /\ events' = <<>> /\ starting' = FALSE
  /\ initialized' = FALSE /\ host' = "down" /\ scheduled' = FALSE
  /\ stopper' = [t \in Stoppers |-> "idle"]
  /\ written' = {} /\ conn_result' = "none" /\ limited' = FALSE

HasRoom == Len(events) < MaxEvents

-----------------------------------------------------------------------------
(* The GAP callback and the stack's own, in the host task                  *)

\* start_advertising; the stack knows its address once it has synchronised.
StartAdvertising == host' = IF initialized THEN "advertising" ELSE "ready"

OnSync ==
  /\ host = "syncing"
  /\ StartAdvertising
  /\ UNCHANGED <<events, starting, initialized, scheduled, stopper, written, conn_result, limited>>

ClientConnects ==
  /\ host = "advertising" /\ HasRoom
  /\ host' = "connected"
  /\ events' = Append(events, "ble_connected")
  /\ UNCHANGED <<starting, initialized, scheduled, stopper, written, conn_result, limited>>

\* A connection fails, or the advertising is over.
ConnectFails ==
  /\ host = "advertising"
  /\ StartAdvertising
  /\ UNCHANGED <<events, starting, initialized, scheduled, stopper, written, conn_result, limited>>

ClientLeaves ==
  /\ host = "connected" /\ HasRoom
  /\ StartAdvertising
  /\ events' = Append(events, "ble_disconnected")
  /\ UNCHANGED <<starting, initialized, scheduled, stopper, written, conn_result, limited>>

\* handle_gap_event_cb: the other events are printed.
GapEvent == ClientConnects \/ ConnectFails \/ ClientLeaves

\* default_chr_access_cb, write_chr_handler
WriteCredential(c) ==
  /\ host = "connected" /\ c \notin written
  /\ written' = written \cup {c}
  /\ UNCHANGED <<events, starting, initialized, host, scheduled, stopper, conn_result, limited>>

\* The station is told to connect: see Wifi.
WriteConnection ==
  /\ host = "connected" /\ written = {"ssid", "password"}
  /\ conn_result' = "in progress"
  /\ UNCHANGED <<events, starting, initialized, host, scheduled, stopper, written, limited>>

-----------------------------------------------------------------------------
(* The event task                                                          *)

Outside == {"3x_click", "scan_done", "wifi_connected", "wifi_disconnected"}

Post(e) ==
  /\ HasRoom
  /\ events' = Append(events, e)
  /\ UNCHANGED <<starting, initialized, host, scheduled, stopper, written, conn_result, limited>>

Takes(e) == ~starting /\ events # <<>> /\ Head(events) = e /\ events' = Tail(events)

BleInitAborts == ~initialized /\ host # "down"

\* Fault: em_ble_prov_start returns when BLE is up already.
BleInitOnce(delayed) ==
  \/ /\ initialized
     /\ limited' = (limited \/ delayed)
     /\ UNCHANGED <<starting, initialized, host>>
  \/ /\ ~initialized /\ ~BleInitAborts
     /\ starting' = delayed
     /\ initialized' = TRUE /\ host' = "syncing" /\ limited' = FALSE

\* em_ble_init, for a session with or without a delay
BleInit(delayed) ==
  \/ /\ initialized
     /\ starting' = delayed
     /\ UNCHANGED <<initialized, host, limited>>
  \/ /\ ~initialized /\ ~BleInitAborts
     /\ starting' = delayed
     /\ initialized' = TRUE /\ host' = "syncing" /\ limited' = FALSE

\* button_event_handler; during an update it does nothing.
On3xClick ==
  /\ Takes("3x_click")
  /\ BleInit(TRUE) \/ UNCHANGED <<starting, initialized, host, limited>>
  /\ UNCHANGED <<scheduled, stopper, written, conn_result>>

\* em_ble_prov_start, after em_ble_init
ScheduleStop ==
  /\ starting
  /\ starting' = FALSE
  /\ scheduled' = TRUE /\ limited' = TRUE
  /\ UNCHANGED <<events, initialized, host, stopper, written, conn_result>>

\* wifi_scan_done_hnd
OnApList ==
  /\ Takes("scan_done")
  /\ IF conn_result = "none" THEN BleInit(FALSE)
     ELSE UNCHANGED <<starting, initialized, host, limited>>
  /\ UNCHANGED <<scheduled, stopper, written, conn_result>>

StartAborts ==
  /\ ~starting /\ events # <<>> /\ BleInitAborts
  /\ \/ Head(events) = "3x_click"
     \/ Head(events) = "scan_done" /\ conn_result = "none"
  /\ Abort

\* wifi_connected_hnd, wifi_disconnected_hnd
OnWifi ==
  /\ \/ Takes("wifi_connected") /\ conn_result' = "successful"
     \/ Takes("wifi_disconnected") /\ conn_result' = "none"
  /\ UNCHANGED <<starting, initialized, host, scheduled, stopper, written, limited>>

\* em_ble_conn_hnd, em_ble_disconn_hnd
OnClient ==
  /\ \/ Takes("ble_connected") /\ scheduled' = FALSE /\ UNCHANGED limited
     \/ Takes("ble_disconnected") /\ scheduled' = TRUE /\ limited' = TRUE
  /\ UNCHANGED <<starting, initialized, host, stopper, written, conn_result>>

-----------------------------------------------------------------------------
(* em_ble_prov_stop, in the daemon and in Rx                               *)

\* prov_stop_wrapper is due, or update_start_handler runs; the test of
\* em_ble_deinit.
ProvStop(t) ==
  /\ stopper[t] = "idle"
  /\ t = "Daemon" => scheduled
  /\ scheduled' = IF t = "Daemon" THEN FALSE ELSE scheduled
  /\ stopper' = [stopper EXCEPT ![t] = IF initialized THEN "clear" ELSE "idle"]
  /\ UNCHANGED <<events, starting, initialized, host, written, conn_result, limited>>

ClearInitialized(t) ==
  /\ stopper[t] = "clear"
  /\ initialized' = FALSE
  /\ stopper' = [stopper EXCEPT ![t] = "stop"]
  /\ UNCHANGED <<events, starting, host, scheduled, written, conn_result, limited>>

\* nimble_port_stop
PortStop(t) ==
  /\ stopper[t] = "stop"
  /\ host' = IF host = "down" THEN "down" ELSE "stopped"
  /\ events' = IF host = "connected" THEN Append(events, "ble_disconnected") ELSE events
  /\ stopper' = [stopper EXCEPT ![t] = "deinit"]
  /\ UNCHANGED <<starting, initialized, scheduled, written, conn_result, limited>>

\* nimble_port_deinit
PortDeinit(t) ==
  /\ stopper[t] = "deinit" /\ host \in {"stopped", "down"}
  /\ host' = "down"
  /\ stopper' = [stopper EXCEPT ![t] = "idle"]
  /\ UNCHANGED <<events, starting, initialized, scheduled, written, conn_result, limited>>

\* Both tasks have passed the test: the second finds nothing to stop, or a
\* session that has started since.
StopAborts(t) ==
  /\ \/ stopper[t] = "stop" /\ host = "down"
     \/ stopper[t] = "deinit" /\ host # "stopped"
  /\ Abort

ProvNext ==
  \/ OnSync \/ GapEvent
  \/ \E c \in {"ssid", "password"} : WriteCredential(c)
  \/ WriteConnection
  \/ \E e \in Outside : Post(e)
  \/ On3xClick \/ ScheduleStop \/ OnApList \/ StartAborts \/ OnWifi \/ OnClient
  \/ \E t \in Stoppers :
       ProvStop(t) \/ ClearInitialized(t) \/ PortStop(t) \/ PortDeinit(t) \/ StopAborts(t)

-----------------------------------------------------------------------------
(* A session that was given a delay ends (ble_prov_svc.c:294-345): while   *)
(* the radio is on with no client and nothing under way, its end is        *)
(* scheduled.  The connection cancels the end from one task while sessions *)
(* start and stop in three others.                                         *)
SessionEnds ==
  /\ initialized /\ limited
  /\ host \in {"ready", "advertising"}
  /\ \A i \in DOMAIN events : events[i] \notin {"ble_connected", "ble_disconnected"}
  /\ ~starting
  /\ \A t \in Stoppers : stopper[t] = "idle"
  => scheduled
=============================================================================
