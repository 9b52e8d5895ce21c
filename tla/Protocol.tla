------------------------------ MODULE Protocol ------------------------------
(***************************************************************************)
(* The server's protocol, em_tcp_protocol: how messages are laid out       *)
(* (messages.h), read (parser.c), written (serializer.c), received         *)
(* (receiver.c), sent (sender.c) and answered (dispatcher.c).              *)
(*                                                                         *)
(* A layout is the sequence of the widths of a message's fields in bytes.  *)
(* A field comes through when the reader finds it at the writer's offset   *)
(* with the writer's width; byte order and values are left out: all the    *)
(* integer readers and writers are little endian.  n is the number of      *)
(* entries of a message's variable part.  The decoder clears its buffer,   *)
(* so what a parser reads past the end of a message is zero.               *)
(*                                                                         *)
(* The server is external.  A message that the device can write too, the   *)
(* server writes as the device does; any other it writes as its structure. *)
(* What the handlers do is modelled elsewhere (Device, Update, Leds,       *)
(* Provisioning); here they return what they may return.                   *)
(***************************************************************************)
EXTENDS Integers, Sequences, SequencesExt

CONSTANTS
  Counts,       \* the numbers of entries that messages are built with
  BlockMaxSize  \* CONFIG_EM_COREDUMP_BLOCK_MAX_SIZE

ASSUME ProtocolAssumption ==
  Counts \subseteq Nat /\ 0 \in Counts /\ BlockMaxSize \in Nat

VARIABLES
  tx,      \* the client is online: it has registered its tx handler, which
           \* has room
  last,    \* the message received last, and what became of it
  outgoing \* the messages sent since, each with its length and its buffer's

protocolVars == <<tx, last, outgoing>>

-----------------------------------------------------------------------------
(* Structures (messages.h)                                                 *)

\* f, and g where f says nothing
f ++ g == [x \in DOMAIN f \cup DOMAIN g |-> IF x \in DOMAIN f THEN f[x] ELSE g[x]]

\* A layout is a sequence of runs <<width, number of such fields>>.
F(widths) == [i \in DOMAIN widths |-> <<widths[i], 1>>]
Array(n, w) == <<<<w, n>>>>

ByteCount(layout) ==
  LET upto[i \in 0..Len(layout)] ==
        IF i = 0 THEN 0 ELSE upto[i - 1] + layout[i][1] * layout[i][2]
  IN upto[Len(layout)]

\* sizeof: every member at a multiple of its size, the end at one of the largest
Aligned(n, w) == ((n + w - 1) \div w) * w
Widest(layout) == Max({layout[i][1] : i \in DOMAIN layout} \cup {1})
SizeOf(layout) ==
  LET upto[i \in 0..Len(layout)] ==
        IF i = 0 THEN 0
        ELSE Aligned(upto[i - 1], layout[i][1]) + layout[i][1] * layout[i][2]
  IN Aligned(upto[Len(layout)], Widest(layout))

QuartersInDay == 96
MaxDefinedModes == 6
ImageUrlMaxLen == 128
ScheduleLen == (QuartersInDay * 7) \div 8

SystemStructs == [
  client_info |-> F(<<2, 2, 8, 4, 4, 1, 4, 1, 1, 1, 2, 4>>),
  connection_status |-> F(<<2, 8, 4, 2, 2, 4>>),
  identify |-> F(<<2, 1, 1>>),
  update_installedfw |-> F(<<2, 4, 4, 1, 8>>),
  update_start |-> F(<<2, 2, 1, 4, 4, 4, 1, 2>>) \o Array(ImageUrlMaxLen + 1, 1),
  update_status |-> F(<<2, 4, 1, 1, 1>>),
  update_install |-> F(<<2, 4, 4>>)]

MeterStructs == [
  meter_current_limit |-> F(<<2, 4>>),
  meter_alarms |-> F(<<2, 8>>),
  energyprice_day |-> F(<<2, 2, 8, 1, 2>>) \o Array(QuartersInDay, 2),
  energyprice_day_get |-> F(<<2, 2, 8>>),
  energyprice_price_threshold |-> F(<<2, 4>>),
  energyprice_cheap_period |-> F(<<2, 1>>),
  energyprice_active_price_limit |-> F(<<2, 4>>),
  energyprice_tariff |-> F(<<2, 2>>)]

WirelessStructs == [
  wireless_enable |-> F(<<2, 1, 1>>),
  wireless_credentials |-> F(<<2, 1, 2>>) \o Array(32, 1) \o F(<<2>>) \o Array(64, 1),
  wireless_tx_power |-> F(<<2, 1, 2>>),
  wireless_channel |-> F(<<2, 1, 1>>)]

RelayStructs == [
  relay_mode |-> F(<<2, 1>>),
  relay_state |-> F(<<2, 1>>),
  relay_default_state |-> F(<<2, 1>>),
  relay_pwm |-> F(<<2, 1, 2, 1>>),
  relay_inverted_output |-> F(<<2, 1>>),
  relay_one_shot |-> F(<<2, 1, 8, 8, 1>>),
  relay_button_config |-> F(<<2, 2>>) \o Array(MaxDefinedModes, 1),
  relay_schedule |-> F(<<2, 2>>) \o Array(ScheduleLen, 1)]

OtherStructs == [
  environment_sunny_time |-> F(<<2, 1>>),
  environment_cloud_cover |-> F(<<2, 8, 2, 2>>) \o Array(QuartersInDay, 2),
  environment_position |-> F(<<2, 8, 8>>),
  diag_coredump_start |-> F(<<2, 4, 4>>),
  diag_coredump_body |-> F(<<2, 4, 2>>) \o Array(BlockMaxSize, 1),
  diag_coredump_end |-> F(<<2, 4>>),
  status |-> F(<<2, 1, 2>>),
  get |-> F(<<2, 2, 4>>)]

Structs == SystemStructs ++ MeterStructs ++ WirelessStructs ++ RelayStructs ++ OtherStructs

-----------------------------------------------------------------------------
(* Writing (serializer.c): the layout that each function writes            *)

SerializeSystem == [
  client_info |-> F(<<2, 2, 8, 4, 4, 1, 4, 1, 1, 1, 2, 4>>),
  update_installedfw |-> F(<<2, 4, 4, 4, 8>>),
  update_status |-> F(<<2, 4, 1, 1, 1>>)]

SerializePrices == [
  energyprice_day_get |-> F(<<2, 2, 8>>),
  energyprice_cheap_period |-> F(<<2, 1>>),
  energyprice_active_price_limit |-> F(<<2, 4>>),
  energyprice_tariff |-> F(<<2, 2>>)]

SerializeWireless(n) == [
  wireless_status |-> F(<<2, 1, 1, 4, 1, 1>>),
  wireless_credentials |-> F(<<2, 1, 2>>) \o Array(n, 1) \o F(<<2>>) \o Array(n, 1),
  wireless_tx_power |-> F(<<2, 1, 2>>),
  wireless_channel |-> F(<<2, 1, 1>>)]

SerializeRelay(n) == [
  relay_mode |-> F(<<2, 1>>),
  relay_default_state |-> F(<<2, 1>>),
  relay_state |-> F(<<2, 1>>),
  relay_pwm |-> F(<<2, 1, 2, 1>>),
  relay_inverted_output |-> F(<<2, 1>>),
  relay_one_shot |-> F(<<2, 1, 8, 8, 1>>),
  relay_button_config |-> F(<<2, 2>>) \o Array(n, 1),
  relay_schedule |-> F(<<2, 2>>) \o Array(ScheduleLen, 1),
  relay_snapshots |-> F(<<2, 8, 1, 2>>) \o Array(n, 4) \o F(<<2>>) \o Array(n, 1)
                        \o F(<<2>>) \o Array(n, 2)]

SerializeEnvironment(n) == [
  energyprice_price_threshold |-> F(<<2, 4>>),
  environment_sunny_time |-> F(<<2, 1>>),
  environment_cloud_cover |-> F(<<2, 8, 2, 2>>) \o Array(n, 2),
  environment_position |-> F(<<2, 8, 8>>)]

SerializeMeter(n) == [
  meter_measurement |-> F(<<2, 8, 2>>) \o Array(n, 1) \o F(<<2>>) \o Array(n, 4),
  meter_measurement_history |-> F(<<2, 8, 1, 2>>) \o Array(n, 4) \o F(<<2>>) \o Array(n, 4),
  meter_current_limit |-> F(<<2, 4>>),
  meter_alarms |-> F(<<2, 8>>),
  energy_accumulated |-> F(<<2, 8, 1, 8>>),
  energy_history |-> F(<<2, 8, 1, 4, 2>>) \o Array(n, 4)]

SerializeDiag(n) == [
  diag_coredump_start |-> F(<<2, 4, 4>>),
  diag_coredump_body |-> F(<<2, 4, 2>>) \o Array(n, 1),
  diag_coredump_end |-> F(<<2, 4>>),
  diag_debug_info |-> F(<<2, 2>>) \o Array(n, 1),
  diag_logs_settings |-> F(<<2, 1>>) \o Array(6, 8),
  status |-> F(<<2, 1, 2>>)]

Serialize(n) ==
  SerializeSystem ++ SerializePrices ++ SerializeWireless(n) ++ SerializeRelay(n)
    ++ SerializeEnvironment(n) ++ SerializeMeter(n) ++ SerializeDiag(n)

Layouts == [n \in Counts |-> Serialize(n)]

-----------------------------------------------------------------------------
(* Sending (sender.c): the buffer that each function allocates, and the    *)
(* function it has it written by                                           *)

Own(types) == [t \in types |-> t]

\* protocol_send_wireless_channel
WriterOfChannel == "wireless_tx_power"
Writers(n) == [Own(DOMAIN Serialize(n)) EXCEPT !["wireless_channel"] = WriterOfChannel]

StructBuffers(types) == [t \in types |-> SizeOf(Structs[t])]

SystemBuffers ==
  StructBuffers({"update_installedfw", "update_status"})
    ++ [client_info |-> ByteCount(Structs.client_info)]  \* packed

WirelessBuffers(n) == [
  wireless_status |-> 2 + 1 + 1 + 4 + 1 + 1,
  wireless_credentials |-> 2 + 1 + 2 + n + 2 + n,
  wireless_tx_power |-> 2 + 1 + 2,
  wireless_channel |-> 2 + 2 * 1]

PriceBuffers ==
  StructBuffers({"energyprice_day_get", "energyprice_price_threshold",
                 "energyprice_cheap_period", "energyprice_active_price_limit",
                 "environment_sunny_time", "energyprice_tariff"})

RelayBuffers(n) ==
  StructBuffers({"relay_mode", "relay_state", "relay_default_state", "relay_pwm",
                 "relay_button_config", "relay_schedule", "relay_one_shot"})
    ++ [relay_inverted_output |-> 2 + 1,
        relay_snapshots |-> 2 + 8 + 1 + n * (4 + 1 + 2) + 3 * 2]

MeterBuffers(n) ==
  StructBuffers({"environment_position"})
    ++ [meter_measurement |-> 2 + 8 + n * (1 + 4) + 2 * 2,
        meter_measurement_history |-> 2 + 8 + 1 + n * (4 + 4) + 2 * 2,
        meter_current_limit |-> 2 + 4,
        meter_alarms |-> 2 + 8,
        energy_accumulated |-> 2 + 8 + 1 + 8,
        energy_history |-> 2 + 1 + 8 + 4 + n * 4 + 2]

DiagBuffers(n) ==
  StructBuffers({"diag_coredump_start", "diag_coredump_body", "diag_coredump_end", "status"})
    ++ [diag_debug_info |-> 2 + 2 + n,
        diag_logs_settings |-> 2 + 1 + 6 * (6 * 8)]

Buffers(n) ==
  SystemBuffers ++ WirelessBuffers(n) ++ PriceBuffers ++ RelayBuffers(n)
    ++ MeterBuffers(n) ++ DiagBuffers(n)

\* The message that a send function makes
Made == [n \in Counts |->
          [t \in DOMAIN Buffers(n) |->
            LET w == Writers(n)[t] IN
            [of |-> t, type |-> w, len |-> ByteCount(Layouts[n][w]), cap |-> Buffers(n)[t]]]]
Sent(t, n) == Made[n][t]

\* send_data, once the buffer is written: its result is not the handler's.
\* Without a handler, or when that has no room, the message is dropped.
SendData(messages) == outgoing' = IF tx THEN messages ELSE <<>>

-----------------------------------------------------------------------------
(* Reading (parser.c): the length that is asked for, or the least, and the *)
(* layout that is read                                                     *)

Exactly(n, fields) == [exact |-> TRUE, len |-> n, reads |-> fields]
AtLeast(n, fields) == [exact |-> FALSE, len |-> n, reads |-> fields]

ParseSystem(n) == [
  connection_status |-> Exactly(2 + 8 + 3 * 4, F(<<2, 8, 4, 2, 2, 4>>)),
  identify |-> Exactly(2 + 2 * 1, F(<<2, 1, 1>>)),
  update_start |-> Exactly(3 * 4 + 3 * 2 + 2 * 1 + n,
                           F(<<2, 2, 1, 4, 4, 4, 1, 2>>) \o Array(n, 1)),
  update_install |-> Exactly(2 * 4 + 2, F(<<2, 4, 4>>))]

ParseMeter == [
  meter_current_limit |-> Exactly(2 + 4, F(<<2, 4>>)),
  meter_alarms |-> Exactly(2 + 8, F(<<2, 8>>)),
  energyprice_day |-> AtLeast(8 + 1 + 2 + 2 + 2 + QuartersInDay * 2,
                              F(<<2, 2, 8, 1, 2>>) \o Array(QuartersInDay, 2)),
  energyprice_price_threshold |-> Exactly(2 + 4, F(<<2, 4>>)),
  energyprice_cheap_period |-> Exactly(2 + 1, F(<<2, 1>>)),
  energyprice_tariff |-> Exactly(2 + 2, F(<<2, 2>>))]

ParseWireless == [
  wireless_enable |-> Exactly(2 * 1, F(<<2, 1, 1>>)),
  wireless_credentials |-> AtLeast(2 + 1 + 2 * 2, F(<<2, 1, 2, 2>>)),
  wireless_tx_power |-> Exactly(2 + 1 + 1, F(<<2, 1, 2>>)),
  wireless_channel |-> Exactly(2 + 1 + 1, F(<<2, 1, 1>>))]

\* Fault: a length of the one-shot message is left out.
ParseRelayShort(n) == [
  relay_mode |-> Exactly(2 + 1, F(<<2, 1>>)),
  relay_state |-> Exactly(2 + 1, F(<<2, 1>>)),
  relay_default_state |-> Exactly(2 + 1, F(<<2, 1>>)),
  relay_pwm |-> Exactly(2 * 2 + 2 * 1, F(<<2, 1, 2, 1>>)),
  relay_inverted_output |-> Exactly(2 + 1, F(<<2, 1>>)),
  relay_one_shot |-> Exactly(2 + 1 + 8 + 8, F(<<2, 1, 8, 8, 1>>)),
  relay_button_config |-> Exactly(2 + 2 + n, F(<<2, 2>>) \o Array(MaxDefinedModes, 1)),
  relay_schedule |-> AtLeast(2 + 2 + ScheduleLen, F(<<2, 2>>) \o Array(ScheduleLen, 1))]

ParseRelay(n) == [
  relay_mode |-> Exactly(2 + 1, F(<<2, 1>>)),
  relay_state |-> Exactly(2 + 1, F(<<2, 1>>)),
  relay_default_state |-> Exactly(2 + 1, F(<<2, 1>>)),
  relay_pwm |-> Exactly(2 * 2 + 2 * 1, F(<<2, 1, 2, 1>>)),
  relay_inverted_output |-> Exactly(2 + 1, F(<<2, 1>>)),
  relay_one_shot |-> Exactly(2 + 1 + 8 + 8 + 1, F(<<2, 1, 8, 8, 1>>)),
  relay_button_config |-> Exactly(2 + 2 + n, F(<<2, 2>>) \o Array(MaxDefinedModes, 1)),
  relay_schedule |-> AtLeast(2 + 2 + ScheduleLen, F(<<2, 2>>) \o Array(ScheduleLen, 1))]

ParseOther == [
  environment_sunny_time |-> Exactly(2 + 1, F(<<2, 1>>)),
  environment_cloud_cover |-> AtLeast(2 + 8 + 2 + 2, F(<<2, 8, 2, 2>>) \o Array(QuartersInDay, 2)),
  environment_position |-> AtLeast(2 + 2 * 4, F(<<2, 8, 8>>)),
  status |-> Exactly(2 * 2 + 1, F(<<2, 1, 2>>)),
  get |-> Exactly(2 * 2 + 4, F(<<2, 2, 4>>))]

Parse(n) ==
  ParseSystem(n) ++ ParseMeter ++ ParseWireless ++ ParseRelay(n) ++ ParseOther

Parsers == [n \in Counts |-> Parse(n)]

\* The asserts of the parsers, once the length is accepted
Asserts(t, n) ==
  /\ t = "update_start" => n < ImageUrlMaxLen
  /\ t = "wireless_credentials" => 32 < 2 - 1 /\ 64 < 2 - 1
  /\ t = "relay_schedule" => n = ScheduleLen
  /\ t = "environment_cloud_cover" => n = QuartersInDay

-----------------------------------------------------------------------------
(* Receiving (receiver.c): the structure that each type is parsed into     *)

ReceivedSystem ==
  Own({"connection_status", "identify", "update_start", "update_install"})

ReceivedWireless == [
  wireless_enable |-> "wireless_enable",
  wireless_set_credentials |-> "wireless_credentials",
  wireless_set_tx_power |-> "wireless_tx_power",
  wireless_set_channel |-> "wireless_channel"]

ReceivedPrices == [
  energyprice_day |-> "energyprice_day",
  energyprice_set_price_threshold |-> "energyprice_price_threshold",
  energyprice_set_cheap_period |-> "energyprice_cheap_period",
  energyprice_set_tariff |-> "energyprice_tariff"]

ReceivedRelay == [
  relay_set_mode |-> "relay_mode",
  relay_set_state |-> "relay_state",
  relay_set_default_state |-> "relay_default_state",
  relay_set_pwm |-> "relay_pwm",
  relay_set_inverted_output |-> "relay_inverted_output",
  relay_set_button_config |-> "relay_button_config",
  relay_set_schedule |-> "relay_schedule",
  relay_set_one_shot |-> "relay_one_shot"]

ReceivedOther == [
  environment_set_sunny_time |-> "environment_sunny_time",
  environment_cloud_cover |-> "environment_cloud_cover",
  environment_set_position |-> "environment_position",
  meter_set_current_limit |-> "meter_current_limit",
  meter_clear_alarms |-> "meter_alarms",
  status |-> "status",
  get |-> "get"]

Received ==
  ReceivedSystem ++ ReceivedWireless ++ ReceivedPrices ++ ReceivedRelay ++ ReceivedOther

\* These have no parser: any length will do.
Bare == {"reboot", "factory_reset", "diag_coredump_confirmed"}

\* The types that the device only sends, or that are left of older devices
SentOnly == {
  "client_info", "update_installedfw", "update_status", "update_stop",
  "wireless_status", "wireless_credentials", "wireless_tx_power", "wireless_channel",
  "energyprice_day_get", "energyprice_price_threshold", "energyprice_cheap_period",
  "energyprice_active_price_limit", "energyprice_tariff",
  "relay_mode", "relay_state", "relay_default_state", "relay_pwm", "relay_inverted_output",
  "relay_button_config", "relay_schedule", "relay_one_shot", "relay_snapshots",
  "environment_sunny_time", "environment_set_cloud_cover", "environment_position",
  "bms_soc", "bms_cycles",
  "meter_measurement", "meter_measurement_history", "meter_current_limit", "meter_alarms",
  "energy_accumulated", "energy_history",
  "diag_coredump_start", "diag_coredump_body", "diag_coredump_end", "diag_debug_info",
  "diag_set_logs_settings", "diag_logs_settings"}

MsgTypes == SentOnly \cup Bare \cup DOMAIN Received

MsgBufferSize == SizeOf(Structs.energyprice_day)  \* BIGGEST_RECV_MESSAGE_SIZE

\* What the server writes for type t
Wire(t, n) ==
  IF t \in Bare THEN F(<<2>>)
  ELSE LET s == Received[t] IN
       IF s \in DOMAIN Layouts[n] THEN Layouts[n][s]
       ELSE IF s = "update_start" THEN Front(Structs[s]) \o Array(n, 1)
       ELSE Structs[s]

\* parse_message: what becomes of a message of type t that is d bytes longer
\* than it should be
OutcomeOf(t, n, d) ==
  LET len == ByteCount(Wire(t, n)) + d
      p == Parsers[n][Received[t]]
  IN IF len < 2 THEN "refused"
     ELSE IF t \in Bare THEN "accepted"
     ELSE IF IF p.exact THEN len # p.len ELSE len < p.len THEN "refused"
     ELSE IF ~Asserts(Received[t], n) THEN "aborts"
     ELSE "accepted"

Outcome == [n \in Counts |-> [t \in DOMAIN Received \cup Bare |-> [d \in {-1, 0, 1} |-> OutcomeOf(t, n, d)]]]

\* Every field that was written is read as it was written.
ComesThrough(t, n) ==
  t \in Bare \/
    LET wire == Wire(t, n)
        reads == Parsers[n][Received[t]].reads
    IN /\ Len(reads) = Len(wire)
       /\ \A i \in DOMAIN wire : reads[i][1] = wire[i][1] /\ reads[i][2] >= wire[i][2]
       /\ IsPrefix(Front(wire), reads)

-----------------------------------------------------------------------------
(* Handling (dispatcher.c): what dispatcher_handler may return             *)

\* What the components called return when they fail: their own codes,
\* esp_err.h's, esp_wifi.h's
Failures == {-1, 1, 3, 257, 258, 259, 12289, 12308}
NotSupported == 262  \* ESP_ERR_NOT_SUPPORTED
NotFound == 261
InvalidArg == 258

\* The other protocol, and a power below 2 or above 21 dBm, are refused;
\* Bluetooth and Wi-Fi may fail.
WirelessHandlers == [
  wireless_enable |-> {0, InvalidArg} \cup Failures,
  wireless_set_credentials |-> {0, InvalidArg},
  wireless_set_tx_power |-> {0, InvalidArg} \cup Failures,
  wireless_set_channel |-> {0, InvalidArg} \cup Failures]

SystemHandlers == [
  connection_status |-> {0}, reboot |-> {0}, factory_reset |-> {0}, identify |-> {0},
  update_start |-> {0} \cup Failures, update_install |-> {0}]

OtherHandlers == [
  environment_cloud_cover |-> {0},
  environment_set_position |-> {0, InvalidArg},
  diag_coredump_confirmed |-> {0},
  status |-> {0}]

\* mapper
Handlers == SystemHandlers ++ WirelessHandlers ++ OtherHandlers

\* dispatcher_handler
HandlerResults(t) == IF t \in DOMAIN Handlers THEN Handlers[t] ELSE {NotSupported}

\* What get_handler sends for the types it knows; for the others, whose
\* senders are commented out, nothing.
Answered == {"update_installedfw", "update_status", "wireless_status",
             "wireless_credentials", "wireless_tx_power", "wireless_channel",
             "environment_position", "diag_logs_settings"}
Silent == {"meter_measurement", "meter_measurement_history", "meter_current_limit",
           "energy_accumulated", "energy_history"}
MayFail == [wireless_status |-> -2, wireless_credentials |-> -1, wireless_tx_power |-> -1,
            wireless_channel |-> -1, meter_measurement_history |-> -2]

\* The results of get_handler for a request of type r
GetResults(r) ==
  IF r \notin Answered \cup Silent THEN {NotFound}
  ELSE {0} \cup IF r \in DOMAIN MayFail THEN {MayFail[r]} ELSE {}

\* protocol_send_status(rq_type, ret): the error is a byte.
Status(t, ret) == Sent("status", 0) ++ [rq_type |-> t, error |-> ret % 256]

-----------------------------------------------------------------------------
NoMessage == [type |-> "none", n |-> 0, delta |-> 0, outcome |-> "none", ret |-> 0, rq |-> "none"]

ProtocolInit == tx = FALSE /\ last = NoMessage /\ outgoing = <<>>

\* protocol_receiver_dispatcher.  What is refused is not answered.
ReceiveMessage(t, n, d) ==
  /\ LET o == Outcome[n][t][d] IN
     \/ /\ o # "accepted"
        /\ last' = [NoMessage EXCEPT !.type = t, !.n = n, !.delta = d, !.outcome = o]
        /\ outgoing' = <<>>
     \/ /\ o = "accepted" /\ t # "get"
        /\ \E ret \in HandlerResults(t) :
             /\ last' = [NoMessage EXCEPT !.type = t, !.n = n, !.delta = d, !.outcome = o,
                                          !.ret = ret]
             /\ SendData(<<Status(t, ret)>>)
  /\ UNCHANGED tx

\* Fault: a value that is asked for is followed by a status.
ReceiveGetAndStatus(r) ==
  /\ \E ret \in GetResults(r) :
       /\ last' = [NoMessage EXCEPT !.type = "get", !.outcome = "accepted", !.rq = r, !.ret = ret]
       /\ SendData((IF ret = 0 /\ r \in Answered THEN <<Sent(r, 0)>> ELSE <<>>)
                     \o <<Status("get", ret)>>)
  /\ UNCHANGED tx

\* ... for MSGTYPE_GET, which the handler answers itself when it succeeds
ReceiveGet(r) ==
  /\ \E ret \in GetResults(r) :
       /\ last' = [NoMessage EXCEPT !.type = "get", !.outcome = "accepted", !.rq = r, !.ret = ret]
       /\ \/ ret # 0 /\ SendData(<<Status("get", ret)>>)
          \/ ret = 0 /\ r \in Answered /\ SendData(<<Sent(r, 0)>>)
          \/ ret = 0 /\ r \in Silent /\ SendData(<<>>)
  /\ UNCHANGED tx

\* A type that parse_message does not know, in messages.h or not
ReceiveUnknown(t) ==
  /\ last' = [NoMessage EXCEPT !.type = t, !.outcome = "refused"]
  /\ outgoing' = <<>>
  /\ UNCHANGED tx

\* The callers' entries fit the structures that hold them.
Sendable(t, n) ==
  /\ t = "relay_button_config" => n <= MaxDefinedModes
  /\ t = "relay_schedule" => n = ScheduleLen
  /\ t = "wireless_credentials" => n < 32
  /\ t \in {"diag_coredump_body", "diag_debug_info"} => n <= BlockMaxSize

\* Any protocol_send_* function, in any task
SendAny(t, n) ==
  /\ Sendable(t, n)
  /\ SendData(<<Sent(t, n)>>)
  /\ last' = NoMessage
  /\ UNCHANGED tx

\* protocol_register_tx_handler
RegisterTx ==
  /\ tx' = ~tx
  /\ last' = NoMessage /\ outgoing' = <<>>

ProtocolNext ==
  \/ \E t \in DOMAIN Received \cup Bare, n \in Counts, d \in {-1, 0, 1} : ReceiveMessage(t, n, d)
  \/ \E r \in MsgTypes : ReceiveGet(r)
  \/ \E t \in SentOnly \cup {"unknown"} : ReceiveUnknown(t)
  \/ \E n \in Counts : \E t \in DOMAIN Made[n] : SendAny(t, n)
  \/ RegisterTx

-----------------------------------------------------------------------------
(* Properties                                                              *)

\* The counts that a message of type t may have
Fit(t, n) ==
  /\ t = "update_start" => n < ImageUrlMaxLen
  /\ t = "relay_set_button_config" => n <= MaxDefinedModes
  /\ t = "relay_set_schedule" => n = ScheduleLen
  /\ t = "environment_cloud_cover" => n = QuartersInDay

\* The parsers of these disagree with their messages (parser.c:292, 318, 333).
Garbled == {"wireless_enable", "wireless_set_credentials", "wireless_set_tx_power"}

(***************************************************************************)
(* Parser and serializer are written by hand, field by field, and nothing  *)
(* ties them to each other (parser.c:89-607, serializer.c:86-504): a       *)
(* message of the right length is accepted, and every field of it comes    *)
(* through, unless it is one of the three whose length check does not      *)
(* count the fields; and the structure that it is copied to msg_buffer     *)
(* from is not larger than msg_buffer (receiver.c:15).                     *)
(***************************************************************************)
ParsedAsSent ==
  last.type \in DOMAIN Received /\ last.delta = 0 /\ Fit(last.type, last.n) =>
    /\ last.outcome = "accepted" <=> last.type \notin Garbled
    /\ last.outcome = "accepted" =>
         /\ ComesThrough(last.type, last.n)
         /\ SizeOf(Structs[Received[last.type]]) <= MsgBufferSize

(***************************************************************************)
(* While the client is online, every request that is accepted is answered  *)
(* once (receiver.c:434-437), and the answer tells a failure from a        *)
(* success, cut to a byte as it is; a value asked for comes as what it is, *)
(* in a buffer with room for it, but the channel (sender.c:154) and the    *)
(* values whose senders are commented out.                                 *)
(***************************************************************************)
AnsweredOnce ==
  LET got == last.type = "get" /\ last.ret = 0 IN
  /\ last.outcome = "accepted" /\ tx /\ ~(got /\ last.rq \in Silent) =>
       /\ Len(outgoing) = 1
       /\ IF got THEN outgoing[1].type = last.rq \/ last.rq = "wireless_channel"
          ELSE /\ outgoing[1].type = "status" /\ outgoing[1].rq_type = last.type
               /\ outgoing[1].error = 0 <=> last.ret = 0
  /\ \A i \in DOMAIN outgoing : outgoing[i].len <= outgoing[i].cap \/ outgoing[i].of = "wireless_channel"
=============================================================================
