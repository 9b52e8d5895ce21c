-------------------------------- MODULE Parts --------------------------------
(***************************************************************************)
(* The parts of the firmware that keep their state to themselves, in one   *)
(* state machine.  They share no variable, and what one asks of another    *)
(* (the serial client of its ring buffer, the TCP client of SLIP and of    *)
(* the protocol, the download of the decryption, the timer service of the  *)
(* LEDs) is, in the part that is asked, one of the calls that its own      *)
(* module allows at any time.  Hence one of them at work at a time: a      *)
(* behaviour of all of them together shows each of them a behaviour of its *)
(* own, with stutters.  The others are at rest, at one initial state.      *)
(***************************************************************************)
EXTENDS RingBuf, Slip, Protocol, Coredump, EncryptedImage, Button, Leds, Wifi,
        Provisioning, Gatt, Rs232, Dataset, Meters, Inverter, ButtonCallbacks

VARIABLE part  \* the part at work

partsVars == <<part, vars, slipVars, protocolVars, coredumpVars, imageVars,
               buttonVars, ledVars, wifiVars, provVars, gattVars, rs232Vars,
               datasetVars, metersVars, inverterVars, callbackVars>>

PartsInit ==
  /\ part \in {"ring buffer", "slip", "protocol", "core dump", "image", "button",
               "callbacks", "leds", "wi-fi", "provisioning", "gatt", "rs232",
               "dataset", "meters", "inverter"}
  /\ Init /\ SlipInit /\ ProtocolInit /\ CoredumpInit /\ ImageInit
  /\ ButtonInit /\ LedInit /\ WifiInit /\ ProvInit /\ GattInit /\ Rs232Init
  /\ DatasetInit /\ MetersInit /\ InverterInit /\ CallbacksInit
  /\ part # "ring buffer" => buffer = [i \in 0..Size-1 |-> CHOOSE b \in Bytes : TRUE]
  /\ part # "core dump" => image
  /\ part # "image" => img = [len |-> CHOOSE n \in BinarySizes : TRUE, fault |-> "none"]
  /\ part # "wi-fi" => config

\* p works, the others rest.
Works(p) ==
  /\ part = p /\ UNCHANGED part
  /\ IF p = "ring buffer" THEN TRUE ELSE UNCHANGED vars
  /\ IF p = "slip" THEN TRUE ELSE UNCHANGED slipVars
  /\ IF p = "protocol" THEN TRUE ELSE UNCHANGED protocolVars
  /\ IF p = "core dump" THEN TRUE ELSE UNCHANGED coredumpVars
  /\ IF p = "image" THEN TRUE ELSE UNCHANGED imageVars
  /\ IF p = "button" THEN TRUE ELSE UNCHANGED buttonVars
  /\ IF p = "leds" THEN TRUE ELSE UNCHANGED ledVars
  /\ IF p = "wi-fi" THEN TRUE ELSE UNCHANGED wifiVars
  /\ IF p = "provisioning" THEN TRUE ELSE UNCHANGED provVars
  /\ IF p = "gatt" THEN TRUE ELSE UNCHANGED gattVars
  /\ IF p = "rs232" THEN TRUE ELSE UNCHANGED rs232Vars
  /\ IF p = "dataset" THEN TRUE ELSE UNCHANGED datasetVars
  /\ IF p = "meters" THEN TRUE ELSE UNCHANGED metersVars
  /\ IF p = "inverter" THEN TRUE ELSE UNCHANGED inverterVars
  /\ IF p = "callbacks" THEN TRUE ELSE UNCHANGED callbackVars

PartsNext ==
  \/ Works("ring buffer") /\ Next
  \/ Works("slip") /\ SlipNext
  \/ Works("protocol") /\ ProtocolNext
  \/ Works("core dump") /\ CoredumpNext
  \/ Works("image") /\ ImageNext
  \/ Works("button") /\ ButtonNext
  \/ Works("leds") /\ LedNext
  \/ Works("wi-fi") /\ WifiNext
  \/ Works("provisioning") /\ ProvNext
  \/ Works("gatt") /\ GattNext
  \/ Works("rs232") /\ Rs232Next
  \/ Works("dataset") /\ DatasetNext
  \/ Works("meters") /\ MetersNext
  \/ Works("inverter") /\ InverterNext
  \/ Works("callbacks") /\ CallbacksNext

PartsSpec ==
  /\ PartsInit
  /\ [][PartsNext]_partsVars
=============================================================================
