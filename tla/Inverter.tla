------------------------------- MODULE Inverter -------------------------------
(***************************************************************************)
(* What the handlers of the inverter's answers do (msg_handlers.c,         *)
(* inverter.c): they integrate the power of each line into energies, move  *)
(* these into a history of limited length, and report the status to the    *)
(* server.  One handler runs at a time, in the task of the serial client.  *)
(*                                                                         *)
(* The clock is that of time(), in seconds.  It may be set forwards or     *)
(* backwards (SNTP), and it may tick once during a handler, which reads it *)
(* again for every line.                                                   *)
(*                                                                         *)
(* The averages that power_history_last_entry returns, of the AC output    *)
(* and of PV, are external: inverter.c calls functions that no file of the *)
(* repository defines (it does not compile at this commit), and the server *)
(* is external too.  Voltages, frequencies and the load are left out.      *)
(* Faults are never asked for (inverter.c:95-115), the handler of the      *)
(* model is the second one for the same answer, hence never called, and    *)
(* the firmware version is only logged; that its handler removes its own   *)
(* request is in SerialClient.                                             *)
(***************************************************************************)
EXTENDS Integers, Sequences

CONSTANTS
  Powers,      \* the powers of a line, in W, as natural numbers
  MaxClock,    \* bound: the clock
  EnergyMod,   \* 2^64: energies are unsigned
  MaxEnergy,   \* bound: how far what is recorded goes from 0, either way
  MinDiff,     \* min_energy_diff
  HistoryLen,  \* the length of the history
  Flags        \* device status, warnings and modes

ASSUME InverterAssumption ==
  Powers \subseteq Nat /\ MaxClock \in Nat /\ EnergyMod \in Nat \ {0}

Lines == {"battery", "ac", "pv"}
Counters == {"charge", "discharge", "ac", "pv"}

VARIABLES
  now,        \* time(NULL)
  power,      \* of a line, the power that the next measurement integrates
  timestamp,  \* of a line, 0: not measured yet
  energy_meas,
  history,    \* energy_history
  integral,   \* history: of each line, its power over the time on the clock
              \* since the history was last cleared,
  missed,     \* ... and what of it the AC output was not measured for
  inv_status, \* with changed
  server      \* history: the status that the server has been sent last

energyVars == <<power, timestamp, energy_meas, history, integral, missed>>
statusVars == <<inv_status, server>>
inverterVars == <<now, energyVars, statusVars>>

NoEnergies == [c \in Counters |-> 0]
Plus(e, f) == [c \in Counters |-> (e[c] + f[c]) % EnergyMod]

Total(entries) ==
  LET upto[n \in 0..Len(entries)] ==
        IF n = 0 THEN NoEnergies ELSE Plus(upto[n - 1], entries[n])
  IN upto[Len(entries)]

InverterInit ==
  /\ now = 1
  /\ power = [l \in Lines |-> 0] /\ timestamp = [l \in Lines |-> 0]
  /\ energy_meas = NoEnergies /\ history = <<>>
  /\ integral = [l \in Lines |-> 0] /\ missed = 0
  /\ inv_status = [mode |-> 0, status |-> 0, warnings |-> 0, changed |-> FALSE]
  /\ server = [mode |-> 0, status |-> 0, warnings |-> 0]

-----------------------------------------------------------------------------
(* A measurement, at[l] being the clock when line l is handled             *)

\* The time over which a line's power is integrated; that of the AC output
\* is counted from the measurement of PV (inverter.c:319).
Elapsed(l, at) ==
  IF timestamp[l] = 0 THEN 0
  ELSE at[l] - timestamp[IF l = "ac" THEN "pv" ELSE l]

Delta(l, at) == power[l] * Elapsed(l, at)

\* inv_set_meas_battery, inv_set_meas_ac_out, inv_set_meas_pv: what is added
\* to the counters: a negative energy of the battery as a discharge, those of
\* the AC output and of PV, which a clock set back makes negative, as they are.
\* Grid power is passed as 0 (msg_handlers.c:47), and adds nothing.
EnergiesOf(at) ==
  LET battery == Delta("battery", at) IN
  [charge |-> IF battery > 0 THEN battery ELSE 0,
   discharge |-> IF battery > 0 THEN 0 ELSE -battery,
   ac |-> Delta("ac", at),
   pv |-> Delta("pv", at)]

\* The energies that the counters and the history hold
Recorded == Plus(energy_meas, Total(history))

\* Fault: the counters are not reset when they are moved.
StoreWithoutReset(energy) ==
  IF history # <<>> /\ \A c \in Counters : energy[c] < MinDiff
  THEN energy_meas' = energy /\ UNCHANGED history
  ELSE LET entries == Append(history, energy) IN
       /\ energy_meas' = IF Len(entries) < HistoryLen THEN energy ELSE NoEnergies
       /\ history' = IF Len(entries) < HistoryLen THEN entries ELSE <<>>

\* inv_store_energy_meas: once the history has an entry, energies that are
\* all small wait.  A history that is full is cleared, and nothing is done
\* with what it held: the call that sends it is commented out (inverter.c:255).
StoreEnergy(energy) ==
  IF history # <<>> /\ \A c \in Counters : energy[c] < MinDiff
  THEN energy_meas' = energy /\ UNCHANGED history
  ELSE LET entries == Append(history, energy) IN
       /\ energy_meas' = NoEnergies
       /\ history' = IF Len(entries) < HistoryLen THEN entries ELSE <<>>

\* inv_set_status, inv_set_warnings, inv_set_mode
Changed(field, value) ==
  [inv_status EXCEPT ![field] = value, !.changed = @ \/ inv_status[field] # value]

\* inv_meas_qpigs_handler: battery, grid, AC output and PV, in this order,
\* then the status and the history.
QpigsHandler(next, status, tick) ==
  LET at == [battery |-> now, ac |-> now + (IF tick = "before ac" THEN 1 ELSE 0),
             pv |-> now + (IF tick = "none" THEN 0 ELSE 1)] IN
  /\ at["pv"] <= MaxClock
  /\ \A c \in Counters : Recorded[c] <= MaxEnergy \/ EnergyMod - Recorded[c] <= MaxEnergy
  /\ now' = at["pv"]
  /\ StoreEnergy(Plus(energy_meas, EnergiesOf(at)))
  /\ integral' = [l \in Lines |->
       IF history' = <<>> THEN 0 ELSE
       integral[l] + IF timestamp[l] = 0 THEN 0 ELSE power[l] * (at[l] - timestamp[l])]
  /\ missed' = IF history' = <<>> THEN 0
               ELSE missed + power["ac"] * (timestamp["pv"] - timestamp["ac"])
  /\ power' = next
  /\ timestamp' = at
  /\ inv_status' = Changed("status", status)
  /\ UNCHANGED server

\* inv_warning_flags_handler
WarningFlagsHandler(flags) ==
  /\ inv_status' = Changed("warnings", flags)
  /\ UNCHANGED <<now, energyVars, server>>

\* inv_mode_handler: only here the server is told what has changed.
ModeHandler(mode) ==
  /\ inv_status' = [Changed("mode", mode) EXCEPT !.changed = FALSE]
  /\ server' = IF Changed("mode", mode).changed
               THEN [f \in DOMAIN server |-> Changed("mode", mode)[f]] ELSE server
  /\ UNCHANGED <<now, energyVars>>

\* External: time passes, or the clock is set.
ClockMoves ==
  /\ now' \in 1..MaxClock
  /\ UNCHANGED <<energyVars, statusVars>>

\* The averages that the next measurements integrate: only the battery may
\* give power as well as take it.
NextPowers ==
  {p \in [Lines -> Powers \cup {-w : w \in Powers}] : p["ac"] \in Powers /\ p["pv"] \in Powers}

InverterNext ==
  \/ \E next \in NextPowers, status \in Flags, tick \in {"none", "before ac", "before pv"} :
       QpigsHandler(next, status, tick)
  \/ \E f \in Flags : WarningFlagsHandler(f) \/ ModeHandler(f)
  \/ ClockMoves

-----------------------------------------------------------------------------
(* Properties                                                              *)

(***************************************************************************)
(* From one clearing of the history to the next, no energy is lost or      *)
(* counted twice between the counters, which are reset when they are moved,*)
(* and the history (inverter.c:185-258): modulo their width, which a clock *)
(* that is set back makes them wrap around, in all they hold what has      *)
(* flowed on every line, by the clock, but for the AC output in the second *)
(* of a measurement in which the clock ticked before PV was handled.  What *)
(* a history holds when it is cleared is lost.  And the server's view is   *)
(* that of the device unless a change is waiting for the next answer with  *)
(* the mode (inverter.c:420).                                              *)
(***************************************************************************)
EnergyKept ==
  /\ Recorded["charge"] = (integral["battery"] + Recorded["discharge"]) % EnergyMod
  /\ Recorded["pv"] = integral["pv"] % EnergyMod
  /\ Recorded["ac"] = (integral["ac"] - missed) % EnergyMod
  /\ ~inv_status.changed => server = [f \in DOMAIN server |-> inv_status[f]]
=============================================================================
