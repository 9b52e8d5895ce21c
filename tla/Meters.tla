-------------------------------- MODULE Meters --------------------------------
(***************************************************************************)
(* The measurements that storage.c keeps in RAM: the current value of each *)
(* quantity, the history of a meter (the time of its first entry, and of   *)
(* each entry the offset to that time), the history of energy (the time of *)
(* its first entry, and an interval), and the list of those to be told of  *)
(* changes.  Nobody is ever told, nothing shortens a history again, and    *)
(* a factory reset forgets all but the list.                               *)
(*                                                                         *)
(* Meters do not touch each other, so one stands for voltage and power, and*)
(* for current, which has no history (storage.c:650).  Each operation holds*)
(* storage_mtx but to test its arguments, hence is a single step.          *)
(***************************************************************************)
EXTENDS Integers, Sequences, SequencesExt

CONSTANTS
  CompileTime,      \* em_utils_get_compile_time: no entry is older
  MaxTime,          \* bound: the clock
  OffsetMod,        \* 2^32, for offsets, the interval and energies
  MeterEntries,     \* MAX_METER_ENTRIES
  EnergyEntries,    \* MAX_ENERGY_ENTRIES
  Measured,         \* the values that are measured: int32_t
  Produced,         \* the energies that are produced: uint64_t
  Callbacks         \* those who want to be told

ASSUME MetersAssumption ==
  OffsetMod \in Nat \ {0} /\ {CompileTime, MaxTime, MeterEntries, EnergyEntries} \subseteq Nat

VARIABLES
  meter,     \* storage_meter_t
  energy,    \* storage_energy_t
  listeners, \* storage_slist, the head first
  flush,     \* what the last call that adds an entry returned, and of what
  measured,  \* history: the entries of the meter as they were added,
  produced   \* ... and those of energy

metersVars == <<meter, energy, listeners, flush, measured, produced>>

Times == 0..MaxTime

\* factory_config: no current value, no entries
NoMeter == [value |-> 0, time |-> 0, ref |-> 0, entries |-> <<>>]
NoEnergy == [ref |-> 0, interval |-> 0, entries |-> <<>>]

\* The answer to a caller that adds an entry: flush is told when it was the last that
\* there is room for, or there was none; not of an entry that is too old.
FlushAnswer(of, datetime, size, max) ==
  IF datetime < CompileTime THEN [of |-> "refused", told |-> FALSE]
  ELSE [of |-> of, told |-> size + 1 >= max]

MetersInit ==
  /\ meter = NoMeter /\ energy = NoEnergy
  /\ listeners = <<>> /\ flush = [of |-> "nothing", told |-> FALSE]
  /\ measured = <<>> /\ produced = <<>>

\* storage_set_meter_value; storage_meter_value reads the pair back.
SetMeterValue(datetime, value) ==
  /\ meter' = [meter EXCEPT !.value = value, !.time = datetime]
  /\ UNCHANGED <<energy, listeners, flush, measured, produced>>

\* Fault: the reference is that of the latest entry.
LatestRef(datetime) == datetime

\* ref_timestamp when an entry is added
MeterRef(datetime) == IF meter.entries = <<>> THEN datetime ELSE meter.ref

\* storage_add_meter_entry: an entry that is too old, or for which there is
\* no room, is left out.
AddMeterEntry(datetime, value) ==
  /\ IF datetime < CompileTime \/ Len(meter.entries) >= MeterEntries
     THEN UNCHANGED <<meter, measured>>
     ELSE /\ meter' = [meter EXCEPT
                         !.ref = MeterRef(datetime),
                         !.entries = Append(@, [offset |-> (datetime - MeterRef(datetime)) % OffsetMod,
                                                value |-> value])]
          /\ measured' = Append(measured, [time |-> datetime, value |-> value])
  /\ flush' = FlushAnswer("meter", datetime, Len(meter.entries), MeterEntries)
  /\ UNCHANGED <<energy, listeners, produced>>

\* The interval, set by the first entry after the first one that is not at
\* its time; entries at other times are kept all the same.
EnergyInterval(datetime) ==
  IF energy.entries # <<>> /\ energy.interval = 0
  THEN (datetime - energy.ref) % OffsetMod ELSE energy.interval

\* storage_add_energy_entry
AddEnergyEntry(datetime, value) ==
  /\ IF datetime < CompileTime \/ Len(energy.entries) >= EnergyEntries
     THEN UNCHANGED <<energy, produced>>
     ELSE /\ energy' = [ref |-> IF energy.entries = <<>> THEN datetime ELSE energy.ref,
                        interval |-> EnergyInterval(datetime),
                        entries |-> Append(energy.entries, value % OffsetMod)]
          /\ produced' = Append(produced, [time |-> datetime, value |-> value])
  /\ flush' = FlushAnswer("energy", datetime, Len(energy.entries), EnergyEntries)
  /\ UNCHANGED <<meter, listeners, measured>>

\* storage_register_on_changed_callback: to the head of the list, once
RegisterOnChanged(c) ==
  /\ listeners' = <<c>> \o SelectSeq(listeners, LAMBDA l : l # c)
  /\ UNCHANGED <<meter, energy, flush, measured, produced>>

\* storage_unregister_on_changed_callback
UnregisterOnChanged(c) ==
  /\ listeners' = SelectSeq(listeners, LAMBDA l : l # c)
  /\ UNCHANGED <<meter, energy, flush, measured, produced>>

\* storage_set_factory_config
ForgetMeters ==
  /\ meter' = NoMeter /\ energy' = NoEnergy
  /\ measured' = <<>> /\ produced' = <<>>
  /\ flush' = [of |-> "nothing", told |-> FALSE]
  /\ UNCHANGED listeners

MetersNext ==
  \/ \E t \in Times, v \in Measured : SetMeterValue(t, v) \/ AddMeterEntry(t, v)
  \/ \E t \in Times, v \in Produced : AddEnergyEntry(t, v)
  \/ \E c \in Callbacks : RegisterOnChanged(c) \/ UnregisterOnChanged(c)
  \/ ForgetMeters

-----------------------------------------------------------------------------
(* Properties                                                              *)

\* The interval between the first two entries, at different times
Apart == produced[2].time - produced[1].time

(***************************************************************************)
(* What is read back is what was added (storage.c:640-729), with the       *)
(* clock set in between or not: the meter's entries, but for the times of  *)
(* those more than 2^32 s after the first or before it, where the offset   *)
(* wraps around; the energies below 2^32 (one that is larger is cut to     *)
(* that width, storage.c:718), at the interval of the first two, if all    *)
(* were in time.  A caller is told to flush exactly when no other entry    *)
(* can be added; one whose entry is too old is not told, whether there is  *)
(* room or not.                                                            *)
(***************************************************************************)
HistoryReadsBack ==
  /\ Len(meter.entries) = Len(measured) /\ Len(energy.entries) = Len(produced)
  /\ \A i \in DOMAIN measured :
       /\ meter.entries[i].value = measured[i].value
       /\ measured[i].time - measured[1].time \in 0..OffsetMod-1 =>
            meter.ref + meter.entries[i].offset = measured[i].time
  /\ \A i \in DOMAIN produced :
       produced[i].value \in 0..OffsetMod-1 => energy.entries[i] = produced[i].value
  /\ Len(produced) >= 2 /\ Apart \in 1..OffsetMod-1
       => \A i \in DOMAIN produced :
            produced[i].time = produced[1].time + (i - 1) * Apart =>
              energy.ref + (i - 1) * energy.interval = produced[i].time
  /\ flush.of = "meter" => (flush.told <=> Len(meter.entries) >= MeterEntries)
  /\ flush.of = "energy" => (flush.told <=> Len(energy.entries) >= EnergyEntries)
=============================================================================
