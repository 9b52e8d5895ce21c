------------------------------- MODULE Storage -------------------------------
(***************************************************************************)
(* The persistent settings of main/modules/storage/storage.c: a database   *)
(* in RAM, its copy in the NVS library, a mutex, and a dump that the       *)
(* scheduler runs in the timer task when no setting has changed for 700    *)
(* ms.                                                                     *)
(*                                                                         *)
(* A setter holds storage_mtx while it changes the database, hands the     *)
(* entry to NVS, sets its section's bit in dump_request and schedules      *)
(* dump_check.  dump_check gives the mutex before it saves the checksum,   *)
(* clears dump_request and commits, so setters run in between.             *)
(* esp_restart() first saves the whole database                            *)
(* (storage_force_dump_panic).                                             *)
(*                                                                         *)
(* The scheduler is here as far as it can block: its mutex, which every    *)
(* call holds while it sends the commands for a timer, one by one, into a  *)
(* queue of bounded length; and the timer task, the queue's only reader,   *)
(* which takes the same mutex when a timer has expired and stops that      *)
(* timer before it calls dump_check or another callback.  What a request   *)
(* promises is Scheduler's subject.  Timers of other components are left   *)
(* out: only the serial client has any, and nothing starts it.             *)
(*                                                                         *)
(* NVS is external: "pending nvs_set_* calls" (storage.c:401) survive a    *)
(* restart only if they were committed, or if the library happened to      *)
(* write them; a restart therefore keeps any subset of the pending keys.   *)
(* A key that was never written reads as its factory value.  An entry      *)
(* that NVS fails to read or write is logged and passed over; failed are   *)
(* the keys whose last access failed.  The checksum of a database is the   *)
(* record of its fields: CRC collisions are left out.                      *)
(*                                                                         *)
(* Only the section STORAGE_DEVICE has fields that are ever set; the bit   *)
(* of STORAGE_DS is never requested.  The values of the meters and the     *)
(* on-changed callbacks have no caller and are left out.                   *)
(***************************************************************************)
EXTENDS Naturals, Sequences, FiniteSets

CONSTANTS
  Tasks,        \* the tasks that set
  Daemon,       \* the timer task: runs the scheduler's callbacks
  Main,         \* the task of app_main: restarts when it rolls back
  UniqueIds,    \* the device's ids, 0 among them
  Positions,    \* the values of a coordinate
  Home,         \* the factory coordinate
  Fragile,      \* bound: the keys that NVS may fail to read or write
  Other,        \* any other task that calls the scheduler
  OtherCounts,  \* bound: how many commands the calls from elsewhere send
  QueueLength,  \* CONFIG_FREERTOS_TIMER_QUEUE_LENGTH
  MaxSets,      \* bound: the settings of a run
  None

Threads == Tasks \cup {Daemon, Main}
Fields == {"unique_id", "lat", "long"}
Keys == Fields \cup {"crc"}

Data == [unique_id : UniqueIds, lat : Positions, long : Positions]
Crc(d) == [unique_id |-> d.unique_id, lat |-> d.lat, long |-> d.long]
Database == [unique_id : UniqueIds, lat : Positions, long : Positions,
             crc : Data \cup {None}]
Writes == [key : {"unique_id"}, val : UniqueIds]
            \cup [key : {"lat", "long"}, val : Positions]

\* factory_config; its checksum is 0, which is no checksum.
Factory == [unique_id |-> 0, lat |-> Home, long |-> Home, crc |-> None]

ASSUME StorageAssumption ==
  /\ 0 \in UniqueIds /\ Home \in Positions
  /\ QueueLength \in Nat \ {0} /\ MaxSets \in Nat
  /\ Fragile \subseteq Keys /\ OtherCounts \subseteq 1..3
  /\ Daemon \notin Tasks /\ Main \notin Tasks /\ Daemon # Main
  /\ Other \notin Threads
  /\ None \notin Threads \cup Data \cup {Other}

VARIABLES
  database,       \* the database in RAM
  nvs,            \* what nvs_get returns: the committed and the pending writes
  flash,          \* what is committed
  failed,         \* history: the keys whose last write or read failed
  dump_request,   \* the bit of STORAGE_DEVICE
  storage_mtx,    \* the thread that holds the mutex
  step,           \* where each thread is
  todo,           \* the entries a setter has yet to save
  dump_due,       \* dump_check is scheduled
  scheduler_mtx,  \* the thread that holds the scheduler's mutex
  left,           \* the timer commands that thread has yet to send
  cmds,           \* the commands in the timer command queue
  sets            \* bound: the settings so far

stored == <<database, nvs, flash, failed>>
scheduler == <<scheduler_mtx, left, cmds>>
svars == <<stored, scheduler, dump_request, storage_mtx, step, todo, dump_due, sets>>

StorageInit ==
  /\ database = Factory /\ nvs = Factory /\ flash = Factory /\ failed = {}
  /\ dump_request = FALSE
  /\ storage_mtx = None /\ scheduler_mtx = None
  /\ step = [t \in Threads |-> "idle"]
  /\ todo = [t \in Tasks |-> <<>>]
  /\ dump_due = FALSE
  /\ left = 0 /\ cmds = 0 /\ sets = 0

Goto(t, s) == step' = [step EXCEPT ![t] = s]

-----------------------------------------------------------------------------
(* The scheduler's mutex and the timer command queue                       *)

\* A call or the wrapper takes the mutex, with n commands to send: a stop
\* cancels or ends a request, two more start one again, which for a new
\* request are all.
TakeScheduler(t, n) ==
  /\ scheduler_mtx = None
  /\ scheduler_mtx' = t /\ left' = n
  /\ UNCHANGED cmds

\* xTimer* with portMAX_DELAY, but for the last command of a call
SendCommand ==
  /\ left > 1 /\ cmds < QueueLength
  /\ left' = left - 1 /\ cmds' = cmds + 1
  /\ UNCHANGED <<stored, scheduler_mtx, dump_request, storage_mtx, step, todo, dump_due, sets>>

\* The last command, and the mutex is given.
LastCommand(t) ==
  /\ scheduler_mtx = t /\ left = 1 /\ cmds < QueueLength
  /\ scheduler_mtx' = None /\ left' = 0 /\ cmds' = cmds + 1

\* A scheduler call that has nothing to do with the storage
CallScheduler(t, n) ==
  /\ step[t] = "call" /\ TakeScheduler(t, n)
  /\ Goto(t, "calling")
  /\ UNCHANGED <<stored, dump_request, storage_mtx, todo, dump_due, sets>>

\* It returns; a handler may go on to set.
CallReturns(t) ==
  /\ step[t] = "calling" /\ LastCommand(t)
  /\ Goto(t, IF t \in Tasks /\ todo[t] # <<>> THEN "take" ELSE "idle")
  /\ UNCHANGED <<stored, dump_request, storage_mtx, todo, dump_due, sets>>

\* The same in any other task
OtherCall(n) ==
  /\ TakeScheduler(Other, n)
  /\ UNCHANGED <<stored, dump_request, storage_mtx, step, todo, dump_due, sets>>

OtherReturns ==
  /\ LastCommand(Other)
  /\ UNCHANGED <<stored, dump_request, storage_mtx, step, todo, dump_due, sets>>

\* The timer task takes a command.
Drain ==
  /\ step[Daemon] = "idle" /\ cmds > 0
  /\ cmds' = cmds - 1
  /\ UNCHANGED <<stored, scheduler_mtx, left, dump_request, storage_mtx, step, todo, dump_due, sets>>

\* A timer has expired, and callback_wrapper waits for the mutex ...
Expire ==
  /\ step[Daemon] = "idle"
  /\ Goto(Daemon, "expired")
  /\ UNCHANGED <<stored, scheduler, dump_request, storage_mtx, todo, dump_due, sets>>

\* ... takes it to clear the entry, with its stop to send ...
ClearEntry ==
  /\ step[Daemon] = "expired" /\ TakeScheduler(Daemon, 1)
  /\ Goto(Daemon, "stop")
  /\ UNCHANGED <<stored, dump_request, storage_mtx, todo, dump_due, sets>>

\* ... and without it calls the callback, which begins at s.
Callback(s) ==
  /\ step[Daemon] = "stop" /\ LastCommand(Daemon)
  /\ Goto(Daemon, s)
  /\ UNCHANGED <<stored, dump_request, storage_mtx, todo, sets>>

\* A callback of another module, which may call the scheduler
OtherCallback == (Callback("call") \/ Callback("idle")) /\ UNCHANGED dump_due

-----------------------------------------------------------------------------
(* Setting.  Each set is: take the mutex, save entries one by one, give it. *)

\* A handler begins: "take" if it sets first, "call" if it calls the
\* scheduler first (ws may then be empty).
StartSet(t, ws, s) ==
  /\ step[t] = "idle" /\ sets < MaxSets
  /\ sets' = sets + 1
  /\ todo' = [todo EXCEPT ![t] = ws]
  /\ Goto(t, s)
  /\ UNCHANGED <<stored, scheduler, dump_request, storage_mtx, dump_due>>

SetDeviceUniqueId(t, id, s) == StartSet(t, <<[key |-> "unique_id", val |-> id]>>, s)
SetCoordinates(t, lat, long) ==
  StartSet(t, <<[key |-> "long", val |-> long], [key |-> "lat", val |-> lat]>>, "take")

\* A handler that only calls the scheduler
StartCall(t) ==
  /\ step[t] = "idle"
  /\ Goto(t, "call")
  /\ UNCHANGED <<stored, scheduler, dump_request, storage_mtx, todo, dump_due, sets>>

TakeStorage(t) ==
  /\ step[t] = "take" /\ storage_mtx = None
  /\ storage_mtx' = t
  /\ Goto(t, "save")
  /\ UNCHANGED <<stored, scheduler, dump_request, todo, dump_due, sets>>

\* The setter goes on with its next entry or gives the mutex.
NextEntry(t) ==
  /\ todo' = [todo EXCEPT ![t] = Tail(todo[t])]
  /\ IF Tail(todo[t]) = <<>>
       THEN Goto(t, "idle") /\ storage_mtx' = None
       ELSE Goto(t, "save") /\ UNCHANGED storage_mtx

\* process_db_entry: the nvs_set of the entry's type
NvsSet(w) == nvs' = [nvs EXCEPT ![w.key] = w.val] /\ failed' = failed \ {w.key}

\* The assignment, and storage_save_db_entry up to the request.  An entry
\* that NVS does not take is left at that, and no dump is asked for.
SaveEntry(t) ==
  /\ step[t] = "save"
  /\ LET w == Head(todo[t]) IN
     /\ database' = [database EXCEPT ![w.key] = w.val]
     /\ \/ /\ NvsSet(w)
           /\ Goto(t, "request")
           /\ UNCHANGED <<storage_mtx, todo>>
        \/ /\ w.key \in Fragile
           /\ failed' = failed \cup {w.key}
           /\ NextEntry(t)
           /\ UNCHANGED nvs
  /\ UNCHANGED <<flash, scheduler, dump_request, dump_due, sets>>

SectionDumpRequest(t) ==
  /\ step[t] = "request"
  /\ dump_request' = TRUE
  /\ Goto(t, "schedule")
  /\ UNCHANGED <<stored, scheduler, storage_mtx, todo, dump_due, sets>>

\* scheduler_set_callback(dump_check), still with storage_mtx: it waits for
\* the scheduler's mutex, ...
ScheduleDump(t) ==
  /\ step[t] = "schedule" /\ TakeScheduler(t, IF dump_due THEN 3 ELSE 2)
  /\ dump_due' = TRUE
  /\ Goto(t, "send")
  /\ UNCHANGED <<stored, dump_request, storage_mtx, todo, sets>>

\* Fault: storage_mtx is kept after the last entry.
ScheduledKeepsMutex(t) ==
  /\ step[t] = "send" /\ LastCommand(t)
  /\ todo' = [todo EXCEPT ![t] = Tail(todo[t])]
  /\ Goto(t, IF Tail(todo[t]) = <<>> THEN "idle" ELSE "save")
  /\ UNCHANGED <<stored, dump_request, storage_mtx, dump_due, sets>>

\* ... and with both for room in the timer queue.
DumpScheduled(t) ==
  /\ step[t] = "send" /\ LastCommand(t)
  /\ NextEntry(t)
  /\ UNCHANGED <<stored, dump_request, dump_due, sets>>

-----------------------------------------------------------------------------
(* The dump, in the timer task                                             *)

StartDump == dump_due /\ dump_due' = FALSE /\ Callback("dump")

\* The part of dump_check that holds the mutex.
DumpCheck ==
  /\ step[Daemon] = "dump" /\ storage_mtx = None
  /\ \/ /\ ~dump_request \/ Crc(database) = database.crc
        /\ dump_request' = FALSE
        /\ Goto(Daemon, "idle")
        /\ UNCHANGED database
     \/ /\ dump_request /\ Crc(database) # database.crc
        /\ database' = [database EXCEPT !.crc = Crc(database)]
        /\ Goto(Daemon, "crc")
        /\ UNCHANGED dump_request
  /\ UNCHANGED <<nvs, flash, failed, scheduler, storage_mtx, todo, dump_due, sets>>

\* save_crc_of_section(STORAGE_DEVICE), without the mutex from here on.  A
\* write that fails aborts: the device restarts.
SaveCrc ==
  /\ step[Daemon] = "crc"
  /\ nvs' = [nvs EXCEPT !.crc = database.crc] /\ failed' = failed \ {"crc"}
  /\ Goto(Daemon, "clear")
  /\ UNCHANGED <<database, flash, scheduler, dump_request, storage_mtx, todo, dump_due, sets>>

ClearRequest ==
  /\ step[Daemon] = "clear"
  /\ dump_request' = FALSE
  /\ Goto(Daemon, "commit")
  /\ UNCHANGED <<stored, scheduler, storage_mtx, todo, dump_due, sets>>

Commit ==
  /\ step[Daemon] = "commit"
  /\ flash' = nvs
  /\ Goto(Daemon, "idle")
  /\ UNCHANGED <<database, nvs, failed, scheduler, dump_request, storage_mtx, todo, dump_due, sets>>

\* Fault: the request is cleared after the commit.
ClearLast ==
  \/ /\ step[Daemon] = "clear"
     /\ flash' = nvs
     /\ Goto(Daemon, "commit")
     /\ UNCHANGED <<database, nvs, failed, scheduler, dump_request, storage_mtx, todo, dump_due, sets>>
  \/ /\ step[Daemon] = "commit"
     /\ dump_request' = FALSE
     /\ Goto(Daemon, "idle")
     /\ UNCHANGED <<stored, scheduler, storage_mtx, todo, dump_due, sets>>

DumpClearsLast == StartDump \/ DumpCheck \/ SaveCrc \/ ClearLast

\* dump_check, from its call to its return
Dump == StartDump \/ DumpCheck \/ SaveCrc \/ ClearRequest \/ Commit

-----------------------------------------------------------------------------
(* Factory reset, orderly restart and crash                                *)

\* A callback of the scheduler enters esp_restart() ("shutdown") or a
\* factory reset ("factory"); app_main's task enters esp_restart().
RunRestart(s) == Callback(s) /\ UNCHANGED dump_due
MainRestarts ==
  /\ step[Main] = "idle"
  /\ Goto(Main, "shutdown")
  /\ UNCHANGED <<stored, scheduler, dump_request, storage_mtx, todo, dump_due, sets>>

\* storage_set_factory_config gives the mutex before it saves.
SetFactoryConfig ==
  /\ step[Daemon] = "factory" /\ storage_mtx = None
  /\ database' = Factory
  /\ Goto(Daemon, "factory_save")
  /\ UNCHANGED <<nvs, flash, failed, scheduler, dump_request, storage_mtx, todo, dump_due, sets>>

\* Fault: the entries are not written before the commit.
CommitOnly(t) ==
  /\ step[t] \in {"factory_save", "shutdown"} /\ storage_mtx = None
  /\ flash' = nvs
  /\ Goto(t, IF step[t] = "shutdown" THEN "restart" ELSE "shutdown")
  /\ UNCHANGED <<database, nvs, failed, scheduler, dump_request, storage_mtx, todo, dump_due, sets>>

\* write_db_entries: the entries that NVS does not take are passed over.
WriteDbEntries(refused) ==
  /\ nvs' = [k \in Keys |-> IF k \in refused THEN nvs[k] ELSE database[k]]
  /\ failed' = refused

\* save_database: at the end of a factory reset, and as shutdown handler
SaveDatabase(t) ==
  /\ step[t] \in {"factory_save", "shutdown"} /\ storage_mtx = None
  /\ \E refused \in SUBSET Fragile : WriteDbEntries(refused)
  /\ flash' = nvs'
  /\ Goto(t, IF step[t] = "shutdown" THEN "restart" ELSE "shutdown")
  /\ UNCHANGED <<database, scheduler, dump_request, storage_mtx, todo, dump_due, sets>>

\* What NVS has after a restart: kept are the pending keys that it had
\* written.
Surviving(kept) == [k \in Keys |-> IF k \in kept THEN nvs[k] ELSE flash[k]]

\* read_db_entries: an entry that cannot be read keeps the factory value.
ReadDbEntries(unread) ==
  /\ database' = [k \in Keys |-> IF k \in unread THEN Factory[k] ELSE nvs'[k]]
  /\ failed' = unread

\* Losing everything volatile, then storage_init: factory values, and over
\* them whatever NVS has.
Boot(kept) ==
  /\ flash' = Surviving(kept) /\ nvs' = flash'
  /\ \E unread \in SUBSET Fragile : ReadDbEntries(unread)
  /\ dump_request' = FALSE
  /\ storage_mtx' = None /\ scheduler_mtx' = None
  /\ step' = [t \in Threads |-> "idle"]
  /\ todo' = [t \in Tasks |-> <<>>]
  /\ dump_due' = FALSE
  /\ left' = 0 /\ cmds' = 0
  /\ UNCHANGED sets

-----------------------------------------------------------------------------
(* The storage under any use of it                                         *)

Setting ==
  \E t \in Tasks :
    \/ \E id \in UniqueIds, s \in {"take", "call"} : SetDeviceUniqueId(t, id, s)
    \/ \E lat, long \in Positions : SetCoordinates(t, lat, long)
    \/ StartCall(t)

SetStep(t) ==
  \/ CallReturns(t)
  \/ TakeStorage(t) \/ SaveEntry(t) \/ SectionDumpRequest(t)
  \/ ScheduleDump(t) \/ DumpScheduled(t)

\* The timer task's part of the scheduler, and its callbacks' calls
Wrap ==
  \/ ClearEntry \/ OtherCallback
  \/ \E n \in OtherCounts : CallScheduler(Daemon, n)
  \/ CallReturns(Daemon)

Others == (\E n \in OtherCounts : OtherCall(n)) \/ OtherReturns

Saving == SetFactoryConfig \/ \E t \in {Daemon, Main} : SaveDatabase(t)

\* Everything but a restart
Running ==
  \/ Setting
  \/ \E t \in Tasks, n \in {2, 3} : CallScheduler(t, n)
  \/ \E t \in Tasks : SetStep(t)
  \/ Dump
  \/ \E s \in {"shutdown", "factory"} : RunRestart(s)
  \/ MainRestarts
  \/ Saving
  \/ \E n \in {2, 3} : OtherCall(n)
  \/ Expire \/ Wrap \/ Others \/ SendCommand \/ Drain

StorageNext == Running \/ \E kept \in SUBSET Keys : Boot(kept)

StorageSpec == StorageInit /\ [][StorageNext]_svars

-----------------------------------------------------------------------------
(* Properties                                                              *)

SetSteps == {"idle", "call", "calling", "take", "save", "request", "schedule", "send"}
Steps == SetSteps \cup {"expired", "stop", "dump", "crc", "clear", "commit",
                        "factory", "factory_save", "shutdown", "restart"}

StorageTypeOK ==
  /\ database \in Database /\ nvs \in Database /\ flash \in Database
  /\ failed \subseteq Keys
  /\ dump_request \in BOOLEAN /\ dump_due \in BOOLEAN
  /\ storage_mtx \in Threads \cup {None}
  /\ scheduler_mtx \in Threads \cup {Other, None}
  /\ step \in [Threads -> Steps]
  /\ \A t \in Tasks : step[t] \in SetSteps
  /\ todo \in [Tasks -> Seq(Writes)]
  /\ left \in 0..3 /\ cmds \in 0..QueueLength /\ sets \in 0..MaxSets

\* A setter has asked, or will ask, for the dump of what it set.
Requested ==
  \/ dump_request /\ (dump_due \/ step[Daemon] = "dump" \/ \E t \in Tasks : step[t] = "schedule")
  \/ \E t \in Tasks : step[t] = "request"

\* The timer task is about to commit.
Committing == step[Daemon] \in {"crc", "clear", "commit", "factory_save"}

\* The database is back at the one that the committed checksum is of.
BackAtChecksum ==
  /\ database.crc # None /\ database.crc = flash.crc
  /\ \A k \in Fields \ failed : database.crc[k] = database[k]

(***************************************************************************)
(* Nothing that was set is forgotten (storage.c:385-402): dump_check reads *)
(* and clears dump_request and commits without the mutex, while setters    *)
(* hand entries to NVS and ask for a dump.  Still, when nobody is left     *)
(* that would commit, all fields are committed.  Two exceptions: the       *)
(* fields that NVS failed to take or give when they were last set, saved   *)
(* or read, for which the code does nothing more (storage.c:295-313,       *)
(* 439-443); and a database that, but for these, is back at the one that   *)
(* the committed checksum is of, which dump_check takes for "no change"    *)
(* (storage.c:356, 377).                                                   *)
(***************************************************************************)
NothingForgotten ==
  \/ Requested
  \/ Committing
  \/ BackAtChecksum
  \/ \A k \in Fields \ failed : flash[k] = database[k]

\* The queue is full, the thread that holds the scheduler's mutex has a
\* command for it, and its reader waits: for that mutex, for room itself, or
\* for the mutex of a setter that waits for either.
Wedged ==
  /\ cmds = QueueLength /\ scheduler_mtx # None
  /\ \/ step[Daemon] \in {"expired", "stop", "call", "calling"}
     \/ /\ step[Daemon] \in {"dump", "factory", "factory_save", "shutdown"}
        /\ \E t \in Tasks : storage_mtx = t /\ step[t] \in {"schedule", "send"}
=============================================================================
