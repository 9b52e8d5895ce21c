-------------------------------- MODULE Wifi --------------------------------
(***************************************************************************)
(* The Wi-Fi station (em_wifi/src/wifi.c, wifi_scan.c): it reconnects      *)
(* endlessly, except that one disconnection asked for on demand is let     *)
(* through.                                                                *)
(*                                                                         *)
(* em_wifi_sta_connect runs in app_main at boot and in the BLE host task   *)
(* later; the handlers run in the event task, one event of the default     *)
(* loop's queue at a time; factory resets and restarts run in the daemon.  *)
(* They share the bits of wifi_evt_group.                                  *)
(*                                                                         *)
(* External: the driver.  esp_wifi_connect while it is connecting or       *)
(* connected changes nothing (ESP_ERR_WIFI_CONN, which the callers         *)
(* accept); a lost or refused link, and esp_wifi_disconnect when there is  *)
(* a link or an attempt, give one WIFI_EVENT_STA_DISCONNECTED.  The        *)
(* credentials themselves and the events posted for other components are   *)
(* left out: Provisioning takes those from anywhere.                       *)
(***************************************************************************)
EXTENDS Naturals, Sequences

CONSTANT MaxPending  \* bound: what comes from outside waits while so many
                     \* events are queued

VARIABLES
  bits,       \* wifi_evt_group
  radio,      \* the driver: "idle", "connecting" or "up"
  pending,    \* the event loop's queue
  handler,    \* where the event task is, inside a handler
  connector,  \* where em_wifi_sta_connect is
  scanner,    \* where em_wifi_scan_start is
  scanning,   \* the driver scans
  config,     \* the flash holds credentials
  leaving     \* where the factory reset or the restart is

wifiVars == <<bits, radio, pending, handler, connector, scanner, scanning, config, leaving>>

\* app_main, in em_wifi_sta_init after the driver has started.
StaInit(credentials) ==
  [bits      |-> IF credentials THEN {"PROVISIONED"} ELSE {},
   connector |-> IF credentials THEN "connect?" ELSE "idle",
   scanner   |-> IF credentials THEN "idle" ELSE "start"]

WifiInit ==
  /\ config \in BOOLEAN
  /\ bits = StaInit(config).bits
  /\ connector = StaInit(config).connector
  /\ scanner = StaInit(config).scanner
  /\ radio = "idle" /\ pending = <<>> /\ handler = "idle"
  /\ scanning = FALSE /\ leaving = "no"

\* esp_restart: what is in RAM is lost.
WifiRestart ==
  /\ leaving = "restart"
  /\ bits' = StaInit(config).bits
  /\ connector' = StaInit(config).connector
  /\ scanner' = StaInit(config).scanner
  /\ radio' = "idle" /\ pending' = <<>> /\ handler' = "idle"
  /\ scanning' = FALSE /\ leaving' = "no"
  /\ UNCHANGED config

IsConnected == "CONNECTED" \in bits           \* em_wifi_sta_is_connected(0)
IsProvisioned == "PROVISIONED" \in bits
IsDisconnectedOnDemand == "DISCONNECT_DEMAND" \in bits

Room == Len(pending) < MaxPending
Queued(e) == \E i \in DOMAIN pending : pending[i] = e

-----------------------------------------------------------------------------
(* The driver                                                              *)

EspConnect == radio' = IF radio = "idle" THEN "connecting" ELSE radio

\* Whether esp_wifi_disconnect ends something.
EspDisconnect ==
  /\ radio' = "idle"
  /\ pending' = IF radio = "idle" THEN pending ELSE Append(pending, "wifi_disconnected")

LinkLost ==
  /\ radio # "idle" /\ Room
  /\ EspDisconnect
  /\ UNCHANGED <<bits, handler, connector, scanner, scanning, config, leaving>>

\* The access point accepts the station and DHCP gives it an address; or
\* another one.
GotIp ==
  /\ radio # "idle" /\ Room
  /\ radio' = "up"
  /\ pending' = Append(pending, "got_ip")
  /\ UNCHANGED <<bits, handler, connector, scanner, scanning, config, leaving>>

ScanDone ==
  /\ scanning /\ Room
  /\ scanning' = FALSE
  /\ pending' = Append(pending, "wifi_scan_done")
  /\ UNCHANGED <<bits, radio, handler, connector, scanner, config, leaving>>

-----------------------------------------------------------------------------
(* em_wifi_sta_connect                                                     *)

\* write_chr_handler: the client writes the connection's characteristic.
StaConnect ==
  /\ connector = "idle"
  /\ connector' = "connect?"
  /\ UNCHANGED <<bits, radio, pending, handler, scanner, scanning, config, leaving>>

\* The first half: the demand is cleared, the credentials are written.  When
\* the station had none it goes on to connect.
SetCredentials ==
  /\ connector = "connect?"
  /\ bits' = (bits \ {"DISCONNECT_DEMAND"}) \cup {"PROVISIONED"}
  /\ config' = TRUE
  /\ connector' = IF IsProvisioned THEN "connected?" ELSE "connect"
  /\ UNCHANGED <<radio, pending, handler, scanner, scanning, leaving>>

TestConnected ==
  /\ connector = "connected?"
  /\ connector' = IF IsConnected THEN "disconnect" ELSE "connect"
  /\ UNCHANGED <<bits, radio, pending, handler, scanner, scanning, config, leaving>>

\* Fault: the link is taken down with em_wifi_sta_disconnect.
DisconnectOnDemand ==
  /\ connector = "disconnect"
  /\ connector' = "idle"
  /\ EspDisconnect
  /\ bits' = bits \cup {"DISCONNECT_DEMAND"}
  /\ UNCHANGED <<handler, scanner, scanning, config, leaving>>

\* The handler of the disconnection connects again.
DisconnectToChange ==
  /\ connector = "disconnect"
  /\ connector' = "idle"
  /\ EspDisconnect
  /\ UNCHANGED <<bits, handler, scanner, scanning, config, leaving>>

Connect ==
  /\ connector = "connect"
  /\ connector' = "idle"
  /\ EspConnect
  /\ UNCHANGED <<bits, pending, handler, scanner, scanning, config, leaving>>

-----------------------------------------------------------------------------
(* em_wifi_scan_start, called once, at boot: the bit, which says that      *)
(* nothing is to be started, is set after the driver has started           *)

ScanStart ==
  /\ scanner = "start"
  /\ "SCAN_IN_PROGRESS" \notin bits
  /\ \/ scanner' = "started" /\ scanning' = TRUE
     \/ scanner' = "idle" /\ UNCHANGED scanning  \* the driver refuses
  /\ UNCHANGED <<bits, radio, pending, handler, connector, config, leaving>>

ScanStarted ==
  /\ scanner = "started"
  /\ scanner' = "idle"
  /\ bits' = bits \cup {"SCAN_IN_PROGRESS"}
  /\ UNCHANGED <<radio, pending, handler, connector, scanning, config, leaving>>

-----------------------------------------------------------------------------
(* wifi_event_handler and ip_assigned_handler                              *)

Handles(e) == handler = "idle" /\ pending # <<>> /\ Head(pending) = e

OnDisconnected ==
  /\ Handles("wifi_disconnected")
  /\ pending' = Tail(pending)
  /\ bits' = bits \ {"CONNECTED", "DISCONNECT_DEMAND"}
  /\ handler' = IF IsDisconnectedOnDemand THEN "idle" ELSE "reconnect"
  /\ UNCHANGED <<radio, connector, scanner, scanning, config, leaving>>

Reconnect ==
  /\ handler = "reconnect"
  /\ handler' = "idle"
  /\ EspConnect
  /\ UNCHANGED <<bits, pending, connector, scanner, scanning, config, leaving>>

OnGotIp ==
  /\ Handles("got_ip")
  /\ bits' = bits \cup {"CONNECTED"}
  /\ pending' = Tail(pending)
  /\ UNCHANGED <<radio, handler, connector, scanner, scanning, config, leaving>>

\* scan_done_handler
OnScanDone ==
  /\ Handles("wifi_scan_done")
  /\ bits' = bits \ {"SCAN_IN_PROGRESS"}
  /\ pending' = Tail(pending)
  /\ UNCHANGED <<radio, handler, connector, scanner, scanning, config, leaving>>

\* wifi_event_handler: the other events change nothing here.
WifiEvent == OnDisconnected \/ Reconnect \/ OnScanDone

-----------------------------------------------------------------------------
(* em_wifi_factory_reset, and the shutdown handler of main.c               *)

\* em_wifi_sta_disconnect: the bit, then the driver
StaDisconnect ==
  \/ /\ leaving = "no"
     /\ bits' = bits \cup {"DISCONNECT_DEMAND"}
     /\ leaving' = "demanded"
     /\ UNCHANGED <<radio, pending, handler, connector, scanner, scanning, config>>
  \/ /\ leaving = "demanded"
     /\ EspDisconnect
     /\ leaving' = "disconnected"
     /\ UNCHANGED <<bits, handler, connector, scanner, scanning, config>>

FactoryReset ==
  /\ leaving = "disconnected"
  /\ config' = FALSE
  /\ leaving' = "reset"
  /\ UNCHANGED <<bits, radio, pending, handler, connector, scanner, scanning>>

StopReconnecting ==
  /\ leaving \in {"no", "reset"}
  /\ bits' = bits \cup {"DISCONNECT_DEMAND"}
  /\ leaving' = "restart"
  /\ UNCHANGED <<radio, pending, handler, connector, scanner, scanning, config>>

WifiNext ==
  \/ LinkLost \/ GotIp \/ ScanDone
  \/ StaConnect \/ SetCredentials \/ TestConnected \/ DisconnectToChange \/ Connect
  \/ ScanStart \/ ScanStarted
  \/ WifiEvent \/ OnGotIp
  \/ StaDisconnect \/ FactoryReset \/ StopReconnecting \/ WifiRestart

-----------------------------------------------------------------------------
(* Without Wi-Fi the device cannot be repaired from afar (wifi.c:30-31): a *)
(* provisioned station that nobody takes down has a link or an attempt, or *)
(* the event that starts the next one.  The demand bit is the danger: set  *)
(* when there is nothing left to disconnect it would swallow the next      *)
(* loss.                                                                   *)
ReconnectComes ==
  /\ IsProvisioned /\ leaving = "no"
  /\ connector = "idle" /\ handler # "reconnect"
  => \/ radio # "idle"
     \/ Queued("wifi_disconnected")
=============================================================================
