-------------------------------- MODULE Gatt --------------------------------
(***************************************************************************)
(* The characteristics of the provisioning service: the access callback    *)
(* (em_ble_core/ble_gatt.c) and its two handlers (ble_prov_svc.c).  A      *)
(* client writes a network and a password piece by piece, has the station  *)
(* connect, and reads what became of it and which access points there are. *)
(* Sessions, and who may hold one, are in Provisioning.                    *)
(*                                                                         *)
(* The callbacks run in the host task, one access at a time; all of them   *)
(* pass their bytes through one buffer.  The station's events and the scan *)
(* are handled in the event task, of lower priority: the host task may     *)
(* come in between, and the event task while the host task waits in        *)
(* em_wifi_sta_connect.                                                    *)
(*                                                                         *)
(* The handlers' refusals are positive codes, which the callback takes for *)
(* a success (write) or a length (read).                                   *)
(*                                                                         *)
(* A text of up to MAX_CHR_LEN bytes is copied into its array unchecked,   *)
(* and on into what lies behind: the password, the flags, and then other   *)
(* data of the program, where the behaviour of the model ends.             *)
(*                                                                         *)
(* External: the client, and NimBLE, which lets it read and write what the *)
(* characteristics' flags say.  The device's id is left out.               *)
(***************************************************************************)
EXTENDS Integers, Sequences

CONSTANTS
  SsidCap,     \* the lengths of wifi_credentials' arrays: 32 and
  PasswordCap, \* 64 (wifi.h:12-13)
  MaxChrLen,   \* MAX_CHR_LEN: 128
  Letters,     \* what a text is made of; 0 is none
  MaxRecords,  \* CONFIG_EM_WIFI_MAX_SCAN_RECORDS
  ApIds        \* bound: what is written to select an access point

ASSUME GattAssumption ==
  /\ SsidCap \in Nat /\ PasswordCap \in Nat /\ MaxChrLen \in Nat
  /\ 0 \notin Letters /\ MaxRecords \in Nat /\ ApIds \subseteq Nat

VARIABLES
  wifi_credentials,  \* ssid and password: arrays
  were_set,          \* ssid_set, password_set
  wifi_conn_status,
  status_next,       \* the event task has cleared the status and will write this
  connecting,        \* the host task is in em_wifi_sta_connect
  selected_ap_id,
  ap_list,           \* len, and the record that is there: its ssid
  chr_op_buffer,     \* the first two bytes: no more is read when they are old
  reply,             \* what the last access gave the client
  told,              \* history: what the station was told to connect to
  meant,             \* history: what the client wrote
  overrun            \* history: the arrays that were overrun since they were written

gattVars == <<wifi_credentials, were_set, wifi_conn_status, status_next, connecting,
              selected_ap_id, ap_list, chr_op_buffer, reply, told, meant, overrun>>

Texts == UNION {[1..n -> Letters] : n \in 0..MaxChrLen}
NoReply == [of |-> "none", bytes |-> <<>>]
Untold == [ssid |-> <<0>>, password |-> <<0>>]

\* em_wifi_credentials_t: where the arrays are, and the flags behind them
Cap == [ssid |-> SsidCap, password |-> PasswordCap]
Offset == [ssid |-> 0, password |-> SsidCap]
FlagOffset == [ssid |-> SsidCap + PasswordCap, password |-> SsidCap + PasswordCap + 1]
StructLen == SsidCap + PasswordCap + 2

GattInit ==
  /\ wifi_credentials = [f \in {"ssid", "password"} |-> [i \in 1..Cap[f] |-> 0]]
  /\ were_set = {}
  /\ wifi_conn_status = "Disconnected" /\ status_next = "none" /\ connecting = FALSE
  /\ selected_ap_id = 0 /\ ap_list = [len |-> 0, ssid |-> <<>>]
  /\ chr_op_buffer = <<0, 0>> /\ reply = NoReply
  /\ told = Untold /\ meant = [ssid |-> <<>>, password |-> <<>>, ap_id |-> 0]
  /\ overrun = {}

\* strnlen: what comes before the first 0
TextOf(cells) ==
  LET n == CHOOSE n \in 0..Len(cells) :
             /\ \A i \in 1..n : cells[i] # 0
             /\ n < Len(cells) => cells[n + 1] = 0
  IN SubSeq(cells, 1, n)

Buffered(bytes) ==
  [i \in 1..2 |-> IF i <= Len(bytes) THEN bytes[i] ELSE chr_op_buffer[i]]

-----------------------------------------------------------------------------
(* Reading: default_chr_access_cb, read_chr_handler                        *)

\* What the handler puts into the buffer, and the length it returns
Puts(bytes) == [put |-> bytes, ret |-> Len(bytes)]
NotPermitted == [put |-> <<>>, ret |-> 2]  \* BLE_ATT_ERR_READ_NOT_PERMITTED

ReadHandler(chr) ==
  CASE chr = "ssid" ->
         Puts(IF TextOf(wifi_credentials.ssid) = <<>> THEN <<0>> ELSE TextOf(wifi_credentials.ssid))
    [] chr = "connection" -> Puts(<<wifi_conn_status, wifi_conn_status>>)
    [] chr = "aps" ->
         Puts(IF selected_ap_id >= ap_list.len THEN <<0, 0, 0>>
              ELSE <<1, 1, Len(ap_list.ssid)>> \o ap_list.ssid)  \* sizeof rssi, sizeof channel
    [] chr = "ap_id" ->
         IF selected_ap_id >= MaxRecords THEN NotPermitted
         ELSE [put |-> <<selected_ap_id, 0>>, ret |-> 1]

ReadChr(chr) ==
  /\ ~connecting
  /\ LET r == ReadHandler(chr) IN
     /\ chr_op_buffer' = Buffered(r.put)
     /\ reply' = [of |-> chr, bytes |-> SubSeq(r.put \o Buffered(r.put), 1, r.ret)]
  /\ told' = Untold
  /\ UNCHANGED <<wifi_credentials, were_set, wifi_conn_status, status_next, connecting,
                 selected_ap_id, ap_list, meant, overrun>>

-----------------------------------------------------------------------------
(* Writing: default_chr_access_cb, gatt_svr_chr_write, write_chr_handler   *)

\* The bytes are in the buffer before the handler looks at them; at least
\* one is asked for.
Writes(chr, bytes) ==
  /\ ~connecting
  /\ bytes # <<>>
  /\ chr_op_buffer' = Buffered(bytes)
  /\ reply' = [of |-> "write", bytes |-> <<>>]

\* Fault: the array is not cleared first.
StoredOver(field, text) ==
  [g \in {"ssid", "password"} |->
     [i \in 1..Cap[g] |->
        LET at == Offset[g] - Offset[field] + i
        IN IF at \in 1..Len(text) THEN text[at] ELSE wifi_credentials[g][i]]]

\* memset of the array, memcpy of all that was written
Stored(field, text) ==
  [g \in {"ssid", "password"} |->
     [i \in 1..Cap[g] |->
        LET at == Offset[g] - Offset[field] + i
        IN IF at \in 1..Len(text) THEN text[at]
           ELSE IF g = field THEN 0 ELSE wifi_credentials[g][i]]]

WriteText(field, text) ==
  /\ Writes(field, text)
  /\ wifi_credentials' = Stored(field, text)
  /\ were_set' = {field} \cup {g \in {"ssid", "password"} :
                   g \in were_set \/ Len(text) > FlagOffset[g] - Offset[field]}
  /\ meant' = [meant EXCEPT ![field] = text]
  /\ overrun' = (overrun \ {field})
                  \cup (IF Len(text) > Cap[field] THEN {field, "password"} ELSE {})
                  \cup (IF Len(text) > StructLen - Offset[field] THEN {"other data"} ELSE {})
  /\ told' = Untold
  /\ UNCHANGED <<wifi_conn_status, status_next, connecting, selected_ap_id, ap_list>>

\* Anything written to the connection connects; em_wifi_sta_connect asserts
\* that the texts leave room for their end (wifi.c:101-102).
Fits(field, text) == Len(text) < Cap[field]

WriteToConnect(bytes) ==
  LET texts == [f \in {"ssid", "password"} |-> TextOf(wifi_credentials[f])] IN
  /\ Writes("connection", bytes)
  /\ IF were_set # {"ssid", "password"} THEN told' = Untold /\ UNCHANGED connecting
     ELSE /\ Fits("ssid", texts.ssid) /\ Fits("password", texts.password)
          /\ told' = texts /\ connecting' = TRUE
  /\ UNCHANGED <<wifi_credentials, were_set, wifi_conn_status, status_next,
                 selected_ap_id, ap_list, meant, overrun>>

\* The rest of the write, after em_wifi_sta_connect
SaysConnecting ==
  /\ connecting
  /\ connecting' = FALSE
  /\ wifi_conn_status' = "Connecting..."
  /\ UNCHANGED <<wifi_credentials, were_set, status_next, selected_ap_id, ap_list,
                 chr_op_buffer, reply, told, meant, overrun>>

\* The assertion restarts the device.
ConnectAborts ==
  /\ ~connecting
  /\ were_set = {"ssid", "password"}
  /\ \E f \in {"ssid", "password"} : ~Fits(f, TextOf(wifi_credentials[f]))
  /\ wifi_credentials' = [f \in {"ssid", "password"} |-> [i \in 1..Cap[f] |-> 0]]
  /\ were_set' = {}
  /\ wifi_conn_status' = "Disconnected" /\ status_next' = "none" /\ connecting' = FALSE
  /\ selected_ap_id' = 0 /\ ap_list' = [len |-> 0, ssid |-> <<>>]
  /\ chr_op_buffer' = <<0, 0>> /\ reply' = NoReply
  /\ told' = Untold /\ meant' = [ssid |-> <<>>, password |-> <<>>, ap_id |-> 0]
  /\ overrun' = {}

\* One byte selects; another length is refused, which the client is not told.
WriteApId(bytes) ==
  /\ Writes("ap_id", bytes)
  /\ IF Len(bytes) = 1
     THEN selected_ap_id' = bytes[1] /\ meant' = [meant EXCEPT !.ap_id = bytes[1]]
     ELSE UNCHANGED <<selected_ap_id, meant>>
  /\ told' = Untold
  /\ UNCHANGED <<wifi_credentials, were_set, wifi_conn_status, status_next, connecting, ap_list,
                 overrun>>

\* write_chr_handler knows no write to the access points: refused likewise.
WriteAps(bytes) ==
  /\ Writes("aps", bytes)
  /\ told' = Untold
  /\ UNCHANGED <<wifi_credentials, were_set, wifi_conn_status, status_next, connecting,
                 selected_ap_id, ap_list, meant, overrun>>

-----------------------------------------------------------------------------
(* The event task                                                          *)

\* wifi_connected_hnd, wifi_disconnected_hnd: the status is cleared,
StationEvent(word) ==
  /\ status_next = "none"
  /\ wifi_conn_status' = ""
  /\ status_next' = word
  /\ UNCHANGED <<wifi_credentials, were_set, connecting, selected_ap_id, ap_list,
                 chr_op_buffer, reply, told, meant, overrun>>

\* and written.
StationStatus ==
  /\ status_next # "none"
  /\ wifi_conn_status' = status_next
  /\ status_next' = "none"
  /\ UNCHANGED <<wifi_credentials, were_set, connecting, selected_ap_id, ap_list,
                 chr_op_buffer, reply, told, meant, overrun>>

\* wifi_scan_done_hnd: first the length, then the records.  There is one scan.
ScanLength ==
  /\ ap_list.len = 0
  /\ ap_list' = [ap_list EXCEPT !.len = 1]
  /\ UNCHANGED <<wifi_credentials, were_set, wifi_conn_status, status_next, connecting,
                 selected_ap_id, chr_op_buffer, reply, told, meant, overrun>>

ScanRecords(ssid) ==
  /\ ap_list.len = 1 /\ ap_list.ssid = <<>>
  /\ ap_list' = [ap_list EXCEPT !.ssid = ssid]
  /\ UNCHANGED <<wifi_credentials, were_set, wifi_conn_status, status_next, connecting,
                 selected_ap_id, chr_op_buffer, reply, told, meant, overrun>>

GattNext ==
  /\ "other data" \notin overrun
  /\ \/ \E chr \in {"ssid", "connection", "aps", "ap_id"} : ReadChr(chr)
     \/ \E f \in {"ssid", "password"}, text \in Texts : WriteText(f, text)
     \/ WriteToConnect(<<0>>) \/ SaysConnecting \/ ConnectAborts
     \/ \E id \in ApIds : WriteApId(<<id>>) \/ WriteApId(<<id, id>>)
     \/ WriteAps(<<0>>)
     \/ \E word \in {"Connected", "reason"} : StationEvent(word)
     \/ StationStatus
     \/ ScanLength \/ \E ssid \in {t \in Texts : Len(t) <= SsidCap} : ScanRecords(ssid)

-----------------------------------------------------------------------------
(* What the client writes is what is used (ble_prov_svc.c:175-287),        *)
(* whatever else went through the buffer and however long the texts before *)
(* were: the station is told the network and the password that were        *)
(* written last, whole and nothing more; the network and the selection     *)
(* read back as they were written, a selection out of range excepted.      *)
(* A network name that is longer than its array (ble_prov_svc.c:248) is    *)
(* read back cut, and the password behind it is not what was written until *)
(* it is written again; it is never told itself, for the assertion of      *)
(* em_wifi_sta_connect fails.  The same is true of a password that is too  *)
(* long (252).  What comes of other data that a text runs into is open.    *)
ProvisionedAsWritten ==
  /\ told # Untold =>
       /\ told.ssid = meant.ssid
       /\ told.password = meant.password \/ "password" \in overrun
  /\ reply.of = "ssid" /\ "ssid" \notin overrun =>
       reply.bytes \in {meant.ssid, <<0>>} /\ (reply.bytes = <<0>> <=> meant.ssid = <<>>)
  /\ reply.of = "ap_id" /\ meant.ap_id < MaxRecords => reply.bytes = <<meant.ap_id>>
=============================================================================
