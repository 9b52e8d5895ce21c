----------------------------- MODULE DeviceProofs -----------------------------
(***************************************************************************)
(* Nothing that was set is forgotten, for every use of the storage: any    *)
(* tasks, values, queue length and number of settings, any keys that NVS   *)
(* fails to read or write, with restarts and crashes anywhere; the device  *)
(* uses the storage as Storage allows; and its own safety properties hold, *)
(* for every length of the confirmation, every delay of the                *)
(* authentication, and any number of settings and restarts.                *)
(*                                                                         *)
(* NothingForgotten is not inductive: a commit writes what NVS was handed, *)
(* so SInv adds that NVS has the fields of the database whenever the timer *)
(* task may commit, but for those it refused (NvsFollows), that a checksum *)
(* in RAM is the committed one unless a dump is under way (CrcFollows),    *)
(* that a setter has an entry left (EntryLeft), and who holds storage_mtx  *)
(* (Locked).  DInv adds to SInv when the confirmation that a connection    *)
(* status announced is due (Announced), what a factory reset under way has *)
(* left in RAM and in flash (Resetting), and how many restarts there can   *)
(* have been (Counted).                                                    *)
(***************************************************************************)
EXTENDS Device, TLAPS

-----------------------------------------------------------------------------
(* The storage                                                             *)

\* A setter between its two accesses of the mutex
Setter(t) == step[t] \in {"save", "request", "schedule", "send"}

Locked ==
  /\ storage_mtx \in Tasks \cup {None}
  /\ \A t \in Tasks : Setter(t) <=> storage_mtx = t

EntryLeft == \A t \in Tasks : step[t] = "take" \/ Setter(t) => todo[t] # <<>>

\* All that was set has been handed to NVS, but for a factory reset under
\* way and for what NVS refused.
NvsFollows ==
  step[Daemon] # "factory_save" => \A k \in Fields \ failed : nvs[k] = database[k]

\* The checksum is handed to NVS and committed by the dump that computes it.
CrcFollows ==
  /\ step[Daemon] # "crc" => database.crc \in {None, nvs.crc}
  /\ step[Daemon] \notin {"crc", "clear", "commit"} => database.crc \in {None, flash.crc}

SInv == StorageTypeOK /\ Locked /\ EntryLeft /\ NvsFollows /\ CrcFollows /\ NothingForgotten

-----------------------------------------------------------------------------
(* Databases                                                               *)

LEMMA FactoryIsDatabase == Factory \in Database
BY StorageAssumption DEF Database, Factory

LEMMA WriteIsDatabase ==
  ASSUME NEW d \in Database, NEW w \in Writes
  PROVE  /\ w.key \in Fields
         /\ [d EXCEPT ![w.key] = w.val] \in Database
         /\ [d EXCEPT ![w.key] = w.val].crc = d.crc
<1>1. CASE w \in [key : {"unique_id"}, val : UniqueIds]
  <2>1. w.key = "unique_id" /\ w.val \in UniqueIds  BY <1>1
  <2> QED  BY <2>1 DEF Database, Fields
<1>2. CASE w \in [key : {"lat", "long"}, val : Positions]
  <2>1. w.key \in {"lat", "long"} /\ w.val \in Positions  BY <1>2
  <2> QED  BY <2>1 DEF Database, Fields
<1> QED  BY <1>1, <1>2 DEF Writes

LEMMA WriteChanges ==
  ASSUME NEW d \in Database, NEW w \in Writes
  PROVE  /\ [d EXCEPT ![w.key] = w.val][w.key] = w.val
         /\ \A k \in Fields \ {w.key} : [d EXCEPT ![w.key] = w.val][k] = d[k]
<1>1. w.key \in Fields  BY WriteIsDatabase
<1> QED  BY <1>1 DEF Database, Fields

LEMMA CrcIsData ==
  ASSUME NEW d \in Database
  PROVE  Crc(d) \in Data /\ \A k \in Fields : Crc(d)[k] = d[k]
BY DEF Database, Crc, Data, Fields

LEMMA CrcSaved ==
  ASSUME NEW d \in Database, NEW c \in Data \cup {None}
  PROVE  /\ [d EXCEPT !.crc = c] \in Database
         /\ [d EXCEPT !.crc = c].crc = c
         /\ \A k \in Fields : [d EXCEPT !.crc = c][k] = d[k]
BY DEF Database, Fields

LEMMA CrcOfDatabase == ASSUME NEW d \in Database  PROVE  d.crc \in Data \cup {None}
BY DEF Database

LEMMA MixIsDatabase ==
  ASSUME NEW c \in Database, NEW d \in Database, NEW S, NEW e,
         e = [k \in Keys |-> IF k \in S THEN c[k] ELSE d[k]]
  PROVE  e \in Database
BY DEF Keys, Fields, Database

-----------------------------------------------------------------------------
(* One lemma for each group of steps                                       *)

LEMMA Init_SInv == StorageInit => SInv
<1> SUFFICES ASSUME StorageInit  PROVE SInv  OBVIOUS
<1>1. StorageTypeOK
  <2>1. todo \in [Tasks -> Seq(Writes)]  BY DEF StorageInit
  <2>2. step \in [Threads -> Steps] /\ \A t \in Tasks : step[t] \in SetSteps
    BY DEF StorageInit, Threads, Steps, SetSteps
  <2>3. cmds \in 0..QueueLength /\ sets \in 0..MaxSets /\ left \in 0..3
    BY StorageAssumption DEF StorageInit
  <2> QED  BY FactoryIsDatabase, <2>1, <2>2, <2>3 DEF StorageInit, StorageTypeOK
<1>2. Locked /\ EntryLeft
  BY StorageAssumption DEF StorageInit, Locked, Setter, EntryLeft, Threads
<1>3. NvsFollows /\ NothingForgotten
  BY DEF StorageInit, NvsFollows, NothingForgotten
<1>4. CrcFollows  BY DEF StorageInit, CrcFollows
<1> QED  BY <1>1, <1>2, <1>3, <1>4 DEF SInv

\* Where a thread neither holds storage_mtx nor is about to commit
Calm == {"idle", "call", "calling", "take", "expired", "stop", "factory", "shutdown"}

LEMMA CalmSteps ==
  ASSUME SInv, StorageTypeOK', EntryLeft',
         UNCHANGED <<stored, dump_request, storage_mtx, dump_due>>,
         \A u \in Threads : step'[u] = step[u] \/ {step[u], step'[u]} \subseteq Calm
  PROVE  SInv'
<1> USE DEF SInv, Threads, stored
<1>1. \A t \in Threads : step[t] \notin Calm \/ step'[t] \notin Calm => step'[t] = step[t]
  OBVIOUS
<1>2. \A t \in Tasks : Setter(t)' <=> Setter(t)  BY <1>1 DEF Setter, Calm
<1>3. Locked'  BY <1>2 DEF Locked
<1>4. \A s \in {"factory_save", "crc", "clear", "commit", "dump"} :
        step'[Daemon] = s <=> step[Daemon] = s
  BY <1>1 DEF Calm
<1>5. NvsFollows' /\ CrcFollows'  BY <1>4 DEF NvsFollows, CrcFollows
<1>6. Requested => Requested'  BY <1>1 DEF Requested, Calm
<1>7. Committing => Committing'  BY <1>1 DEF Committing, Calm
<1>8. BackAtChecksum => BackAtChecksum'  BY DEF BackAtChecksum
<1>9. NothingForgotten'  BY <1>6, <1>7, <1>8 DEF NothingForgotten
<1> QED  BY <1>3, <1>5, <1>9

\* Only the step of one thread changes, within Calm.
LEMMA CalmStep ==
  ASSUME SInv, NEW t \in Threads, NEW s \in Calm,
         Goto(t, s), step[t] \in Calm, t \in Tasks => s \in SetSteps,
         UNCHANGED <<stored, dump_request, storage_mtx, todo, dump_due, sets>>,
         s = "take" => t \in Tasks /\ todo[t] # <<>>,
         scheduler_mtx' \in Threads \cup {Other, None},
         left' \in 0..3, cmds' \in 0..QueueLength
  PROVE  SInv'
<1> USE DEF SInv, Goto, Threads
<1>1. StorageTypeOK'
  <2>1. step' \in [Threads -> Steps] /\ \A u \in Tasks : step'[u] \in SetSteps
    BY DEF StorageTypeOK, Steps, SetSteps, Calm
  <2> QED  BY <2>1 DEF StorageTypeOK, stored
<1>2. EntryLeft'
  <2>1. \A u \in Tasks : Setter(u)' => Setter(u)
    BY StorageAssumption DEF Setter, Calm, StorageTypeOK
  <2>2. \A u \in Tasks : step'[u] = "take" => step[u] = "take" \/ todo[u] # <<>>
    BY StorageAssumption DEF StorageTypeOK
  <2> QED  BY <2>1, <2>2 DEF EntryLeft
<1>3. \A u \in Threads : step'[u] = step[u] \/ {step[u], step'[u]} \subseteq Calm
  BY DEF StorageTypeOK
<1> QED  BY <1>1, <1>2, <1>3, CalmSteps

\* Only the scheduler changes.
LEMMA SchedulerStep ==
  ASSUME SInv, UNCHANGED <<stored, dump_request, storage_mtx, step, todo, dump_due, sets>>,
         scheduler_mtx' \in Threads \cup {Other, None},
         left' \in 0..3, cmds' \in 0..QueueLength
  PROVE  SInv'
<1>1. StorageTypeOK'  BY DEF SInv, StorageTypeOK, stored
<1>2. EntryLeft'  BY DEF SInv, EntryLeft, Setter
<1> QED  BY <1>1, <1>2, CalmSteps

LEMMA StartSet_SInv ==
  ASSUME SInv, NEW t \in Tasks, NEW ws \in Seq(Writes), ws # <<>>,
         NEW s \in {"take", "call"}, StartSet(t, ws, s)
  PROVE  SInv'
<1> USE StorageAssumption DEF StartSet, Goto, SInv, Threads, scheduler
<1>1. StorageTypeOK'  BY DEF StorageTypeOK, Steps, SetSteps, stored
<1>2. EntryLeft'  BY DEF EntryLeft, Setter, StorageTypeOK
<1>3. \A u \in Threads : step'[u] = step[u] \/ {step[u], step'[u]} \subseteq Calm
  BY DEF StorageTypeOK, Calm
<1> QED  BY <1>1, <1>2, <1>3, CalmSteps

LEMMA Call_SInv ==
  ASSUME SInv, NEW t \in Threads, NEW n \in 1..3,
         \/ t \in Tasks /\ StartCall(t)
         \/ t # Main /\ (CallScheduler(t, n) \/ CallReturns(t))
  PROVE  SInv'
<1> USE StorageAssumption DEF SInv, StorageTypeOK, Threads
<1>1. CASE t \in Tasks /\ StartCall(t)
  <2>1. Goto(t, "call") /\ step[t] = "idle" /\ "call" \in Calm /\ "call" \in SetSteps
    BY <1>1 DEF StartCall, Calm, SetSteps
  <2> QED  BY <1>1, <2>1, CalmStep DEF StartCall, scheduler, Calm
<1>2. CASE CallScheduler(t, n)
  <2>1. Goto(t, "calling") /\ step[t] = "call" /\ "calling" \in Calm /\ "calling" \in SetSteps
    BY <1>2 DEF CallScheduler, Calm, SetSteps
  <2>2. scheduler_mtx' = t /\ left' = n /\ cmds' = cmds
    BY <1>2 DEF CallScheduler, TakeScheduler
  <2> QED  BY <1>2, <2>1, <2>2, CalmStep DEF CallScheduler, Calm
<1>3. CASE CallReturns(t)
  <2> DEFINE s == IF t \in Tasks /\ todo[t] # <<>> THEN "take" ELSE "idle"
  <2>1. Goto(t, s) /\ step[t] = "calling" /\ s \in Calm /\ s \in SetSteps
    BY <1>3 DEF CallReturns, Calm, SetSteps
  <2>2. scheduler_mtx' = None /\ left' = 0 /\ cmds' \in 0..QueueLength
    BY <1>3 DEF CallReturns, LastCommand
  <2>3. s = "take" => t \in Tasks /\ todo[t] # <<>>  OBVIOUS
  <2>4. step[t] \in Calm  BY <2>1 DEF Calm
  <2>5. UNCHANGED <<stored, dump_request, storage_mtx, todo, dump_due, sets>>
    BY <1>3 DEF CallReturns
  <2> HIDE DEF s
  <2> QED  BY <2>1, <2>2, <2>3, <2>4, <2>5, CalmStep
<1> QED  BY <1>1, <1>2, <1>3

LEMMA TakeStorage_SInv ==
  ASSUME SInv, NEW t \in Tasks, TakeStorage(t)  PROVE SInv'
<1> USE StorageAssumption DEF TakeStorage, Goto, SInv, Threads, stored, scheduler
<1>1. StorageTypeOK'  BY DEF StorageTypeOK, Steps, SetSteps
<1>2. Locked'  BY DEF Locked, Setter, StorageTypeOK
<1>3. EntryLeft'  BY DEF EntryLeft, Setter, StorageTypeOK
<1>4. NvsFollows' /\ CrcFollows'  BY DEF NvsFollows, CrcFollows, StorageTypeOK
<1>5. NothingForgotten'
  BY DEF NothingForgotten, Requested, Committing, BackAtChecksum, StorageTypeOK
<1> QED  BY <1>1, <1>2, <1>3, <1>4, <1>5

\* The setter goes on with its next entry or gives the mutex.
LEMMA NextEntryKeeps ==
  ASSUME SInv, NEW t \in Tasks, Setter(t), NextEntry(t)
  PROVE  /\ todo' \in [Tasks -> Seq(Writes)]
         /\ step' \in [Threads -> Steps] /\ \A u \in Tasks : step'[u] \in SetSteps
         /\ storage_mtx' \in Tasks \cup {None}
         /\ Locked' /\ EntryLeft'
         /\ \A u \in Threads \ {t} : step'[u] = step[u]
         /\ Daemon # t /\ storage_mtx = t
<1> USE StorageAssumption DEF NextEntry, Goto, SInv, Threads
<1>0. storage_mtx = t  BY DEF Locked
<1>1. todo[t] \in Seq(Writes) /\ todo[t] # <<>> /\ Tail(todo[t]) \in Seq(Writes)
  BY DEF StorageTypeOK, EntryLeft
<1>2. todo' \in [Tasks -> Seq(Writes)]  BY <1>1 DEF StorageTypeOK
<1>3. step' \in [Threads -> Steps] /\ \A u \in Tasks : step'[u] \in SetSteps
  BY DEF StorageTypeOK, Steps, SetSteps
<1>4. Locked'  BY <1>0 DEF Locked, Setter, StorageTypeOK
<1>5. EntryLeft'  BY DEF EntryLeft, Setter, StorageTypeOK
<1>6. \A u \in Threads \ {t} : step'[u] = step[u]  BY DEF StorageTypeOK
<1> QED  BY <1>0, <1>2, <1>3, <1>4, <1>5, <1>6 DEF Locked

LEMMA SaveEntry_SInv ==
  ASSUME SInv, NEW t \in Tasks, SaveEntry(t)  PROVE SInv'
<1> USE DEF SInv
<1> DEFINE w == Head(todo[t])
<1>1. w \in Writes /\ Setter(t) /\ storage_mtx = t /\ step[t] = "save"
  BY DEF StorageTypeOK, EntryLeft, Setter, Locked, SaveEntry
<1>0. /\ database' = [database EXCEPT ![w.key] = w.val] /\ database \in Database
      /\ flash' = flash /\ UNCHANGED <<scheduler, dump_request, dump_due, sets>>
      /\ nvs \in Database
  BY DEF SaveEntry, StorageTypeOK
<1>a. NvsSet(w) => nvs' = [nvs EXCEPT ![w.key] = w.val] /\ failed' = failed \ {w.key}
  BY DEF NvsSet
<1> HIDE DEF w
<1>2. /\ w.key \in Fields /\ w.key \in Keys
      /\ database' \in Database /\ database'.crc = database.crc
      /\ \A k \in Fields \ {w.key} : database'[k] = database[k]
      /\ database'[w.key] = w.val
      /\ flash' = flash /\ UNCHANGED <<scheduler, dump_request, dump_due, sets>>
  <2>1. w.key \in Fields /\ w.key \in Keys  BY <1>0, <1>1, WriteIsDatabase DEF Keys
  <2>2. database' \in Database /\ database'.crc = database.crc
    BY <1>0, <1>1, WriteIsDatabase
  <2>3. /\ \A k \in Fields \ {w.key} : database'[k] = database[k]
        /\ database'[w.key] = w.val
    BY <1>0, <1>1, WriteChanges
  <2> QED  BY <1>0, <2>1, <2>2, <2>3
<1>3. CASE NvsSet(w) /\ Goto(t, "request") /\ UNCHANGED <<storage_mtx, todo>>
  <2>1. /\ nvs' \in Database /\ nvs'.crc = nvs.crc
        /\ \A k \in Fields \ {w.key} : nvs'[k] = nvs[k]
        /\ nvs'[w.key] = w.val /\ failed' = failed \ {w.key}
    <3>1. nvs' = [nvs EXCEPT ![w.key] = w.val] /\ failed' = failed \ {w.key}
      BY <1>3, <1>a
    <3>2. nvs' \in Database /\ nvs'.crc = nvs.crc  BY <1>0, <1>1, <3>1, WriteIsDatabase
    <3>3. /\ \A k \in Fields \ {w.key} : nvs'[k] = nvs[k]
          /\ nvs'[w.key] = w.val
      BY <1>0, <1>1, <3>1, WriteChanges
    <3> QED  BY <3>1, <3>2, <3>3
  <2>2. step' = [step EXCEPT ![t] = "request"] /\ UNCHANGED <<storage_mtx, todo>>
    BY <1>3 DEF Goto
  <2>3. StorageTypeOK'
    <3>1. step' \in [Threads -> Steps] /\ \A u \in Tasks : step'[u] \in SetSteps
      BY <2>2 DEF StorageTypeOK, Threads, Steps, SetSteps
    <3> QED  BY <1>2, <2>1, <2>2, <3>1 DEF StorageTypeOK, scheduler
  <2>4. Locked' /\ EntryLeft'
    BY <1>1, <2>2, StorageAssumption DEF Locked, EntryLeft, Setter, StorageTypeOK, Threads
  <2>5. step'[Daemon] = step[Daemon] /\ step'[t] = "request"
    BY <2>2, StorageAssumption DEF StorageTypeOK, Threads
  <2>6. NvsFollows' /\ CrcFollows'
    BY <1>2, <2>1, <2>5 DEF NvsFollows, CrcFollows
  <2>7. NothingForgotten'  BY <2>5 DEF NothingForgotten, Requested
  <2> QED  BY <2>3, <2>4, <2>6, <2>7
<1>4. CASE failed' = failed \cup {w.key} /\ NextEntry(t) /\ UNCHANGED nvs
  <2>1. nvs' = nvs /\ failed' = failed \cup {w.key} /\ failed' \subseteq Keys
    BY <1>2, <1>4 DEF StorageTypeOK
  <2>2. /\ todo' \in [Tasks -> Seq(Writes)]
        /\ step' \in [Threads -> Steps] /\ \A u \in Tasks : step'[u] \in SetSteps
        /\ storage_mtx' \in Tasks \cup {None}
        /\ Locked' /\ EntryLeft'
        /\ \A u \in Threads \ {t} : step'[u] = step[u]
        /\ Daemon # t
    BY <1>1, <1>4, NextEntryKeeps
  <2>3. StorageTypeOK'  BY <1>2, <2>1, <2>2 DEF StorageTypeOK, scheduler, Threads
  <2>4. step'[Daemon] = step[Daemon]  BY <2>2 DEF Threads
  <2>5. NvsFollows' /\ CrcFollows'
    BY <1>2, <2>1, <2>4 DEF NvsFollows, CrcFollows
  <2>6. Requested => Requested'
    <3>1. \A u \in Tasks : step[u] \in {"request", "schedule"} => step'[u] = step[u]
      BY <1>1, <2>2 DEF Threads
    <3> QED  BY <1>2, <2>4, <3>1 DEF Requested
  <2>7. Committing => Committing'  BY <2>4 DEF Committing
  <2>8. BackAtChecksum => BackAtChecksum'  BY <1>2, <2>1 DEF BackAtChecksum
  <2>9. NothingForgotten'  BY <1>2, <2>1, <2>6, <2>7, <2>8 DEF NothingForgotten
  <2> QED  BY <2>2, <2>3, <2>5, <2>9
<1> QED  BY <1>3, <1>4 DEF SaveEntry, w

LEMMA SectionDumpRequest_SInv ==
  ASSUME SInv, NEW t \in Tasks, SectionDumpRequest(t)  PROVE SInv'
<1> USE StorageAssumption DEF SectionDumpRequest, Goto, SInv, Threads, stored, scheduler
<1>1. StorageTypeOK'  BY DEF StorageTypeOK, Steps, SetSteps
<1>2. Locked'  BY DEF Locked, Setter, StorageTypeOK
<1>3. EntryLeft'  BY DEF EntryLeft, Setter, StorageTypeOK
<1>4. NvsFollows' /\ CrcFollows'  BY DEF NvsFollows, CrcFollows, StorageTypeOK
<1>5. NothingForgotten'  BY DEF NothingForgotten, Requested, StorageTypeOK
<1> QED  BY <1>1, <1>2, <1>3, <1>4, <1>5

LEMMA ScheduleDump_SInv ==
  ASSUME SInv, NEW t \in Tasks, ScheduleDump(t)  PROVE SInv'
<1> USE StorageAssumption
    DEF ScheduleDump, TakeScheduler, Goto, SInv, Threads, stored
<1>1. StorageTypeOK'
  <2>1. step' \in [Threads -> Steps] /\ \A u \in Tasks : step'[u] \in SetSteps
    BY DEF StorageTypeOK, Steps, SetSteps
  <2>2. left' \in 0..3  OBVIOUS
  <2> QED  BY <2>1, <2>2 DEF StorageTypeOK
<1>2. Locked'  BY DEF Locked, Setter, StorageTypeOK
<1>3. EntryLeft'  BY DEF EntryLeft, Setter, StorageTypeOK
<1>4. NvsFollows' /\ CrcFollows'  BY DEF NvsFollows, CrcFollows, StorageTypeOK
<1>5. NothingForgotten'
  BY DEF NothingForgotten, Requested, Committing, BackAtChecksum, StorageTypeOK
<1> QED  BY <1>1, <1>2, <1>3, <1>4, <1>5

LEMMA DumpScheduled_SInv ==
  ASSUME SInv, NEW t \in Tasks, DumpScheduled(t)  PROVE SInv'
<1> USE DEF SInv
<1>1. Setter(t) /\ NextEntry(t) /\ step[t] = "send"  BY DEF DumpScheduled, Setter
<1>2. /\ scheduler_mtx' = None /\ left' = 0 /\ cmds' \in 0..QueueLength
      /\ UNCHANGED <<stored, dump_request, dump_due, sets>>
  BY StorageAssumption DEF DumpScheduled, LastCommand, StorageTypeOK
<1>3. /\ todo' \in [Tasks -> Seq(Writes)]
      /\ step' \in [Threads -> Steps] /\ \A u \in Tasks : step'[u] \in SetSteps
      /\ storage_mtx' \in Tasks \cup {None}
      /\ Locked' /\ EntryLeft'
      /\ \A u \in Threads \ {t} : step'[u] = step[u]
      /\ Daemon # t
  BY <1>1, NextEntryKeeps
<1>4. StorageTypeOK'  BY <1>2, <1>3 DEF StorageTypeOK, stored, Threads
<1>5. step'[Daemon] = step[Daemon]  BY <1>3 DEF Threads
<1>6. NvsFollows' /\ CrcFollows'  BY <1>2, <1>5 DEF NvsFollows, CrcFollows, stored
<1>7. Requested => Requested'
  <2>1. \A u \in Tasks : step[u] \in {"request", "schedule"} => step'[u] = step[u]
    BY <1>1, <1>3 DEF Threads
  <2> QED  BY <1>2, <1>5, <2>1 DEF Requested
<1>8. NothingForgotten'
  BY <1>2, <1>5, <1>7 DEF NothingForgotten, Committing, BackAtChecksum, stored
<1> QED  BY <1>3, <1>4, <1>6, <1>8

LEMMA StartDump_SInv == ASSUME SInv, StartDump  PROVE SInv'
<1> USE StorageAssumption
    DEF StartDump, Callback, LastCommand, Goto, SInv, Threads, stored
<1>1. StorageTypeOK'
  <2>1. step' \in [Threads -> Steps] /\ \A u \in Tasks : step'[u] \in SetSteps
    BY DEF StorageTypeOK, Steps, SetSteps
  <2>2. left' \in 0..3 /\ cmds' \in 0..QueueLength  BY DEF StorageTypeOK
  <2> QED  BY <2>1, <2>2 DEF StorageTypeOK
<1>2. Locked' /\ EntryLeft'  BY DEF Locked, Setter, EntryLeft, StorageTypeOK
<1>3. NvsFollows' /\ CrcFollows'  BY DEF NvsFollows, CrcFollows, StorageTypeOK
<1>4. NothingForgotten'
  BY DEF NothingForgotten, Requested, Committing, BackAtChecksum, StorageTypeOK
<1> QED  BY <1>1, <1>2, <1>3, <1>4

LEMMA DumpCheck_SInv == ASSUME SInv, DumpCheck  PROVE SInv'
<1> USE StorageAssumption DEF DumpCheck, Goto, SInv, Threads, scheduler
<1>1. Locked' /\ EntryLeft'  BY DEF Locked, Setter, EntryLeft, StorageTypeOK
<1>2. Crc(database) \in Data /\ \A k \in Fields : Crc(database)[k] = database[k]
  BY CrcIsData DEF StorageTypeOK
<1>3. CASE dump_request /\ Crc(database) # database.crc
  <2>1. database' \in Database /\ \A k \in Fields : database'[k] = database[k]
    <3>1. database' = [database EXCEPT !.crc = Crc(database)]  BY <1>3
    <3> QED  BY <1>2, <3>1, CrcSaved DEF StorageTypeOK
  <2>2. StorageTypeOK'  BY <1>3, <2>1 DEF StorageTypeOK, Steps, SetSteps
  <2>3. NvsFollows' /\ CrcFollows'
    BY <1>3, <2>1 DEF NvsFollows, CrcFollows, StorageTypeOK
  <2>4. NothingForgotten'  BY <1>3 DEF NothingForgotten, Committing, StorageTypeOK
  <2> QED  BY <1>1, <2>2, <2>3, <2>4
<1>4. CASE ~(dump_request /\ Crc(database) # database.crc)
  <2>1. StorageTypeOK'  BY <1>4 DEF StorageTypeOK, Steps, SetSteps
  <2>2. NvsFollows' /\ CrcFollows'  BY <1>4 DEF NvsFollows, CrcFollows, StorageTypeOK
  <2>3. NothingForgotten'
    <3>1. CASE dump_request
      <4>1. database.crc = Crc(database) /\ database.crc # None
        BY <1>2, <1>4, <3>1 DEF StorageTypeOK
      <4>2. database.crc = flash.crc  BY <4>1 DEF CrcFollows
      <4> QED  BY <1>2, <1>4, <3>1, <4>1, <4>2 DEF NothingForgotten, BackAtChecksum
    <3>2. CASE ~dump_request
      BY <1>4, <3>2
      DEF NothingForgotten, Requested, Committing, BackAtChecksum, StorageTypeOK
    <3> QED  BY <3>1, <3>2
  <2> QED  BY <1>1, <2>1, <2>2, <2>3
<1> QED  BY <1>3, <1>4

LEMMA Dump_SInv == ASSUME SInv, Dump  PROVE SInv'
<1> USE StorageAssumption DEF Goto, SInv, Threads, scheduler
<1>1. CASE SaveCrc
  <2> USE <1>1 DEF SaveCrc
  <2>1. /\ nvs' \in Database /\ nvs'.crc = database.crc
        /\ \A k \in Fields : nvs'[k] = nvs[k]
    BY CrcOfDatabase, CrcSaved DEF StorageTypeOK
  <2>2. StorageTypeOK'  BY <2>1 DEF StorageTypeOK, Steps, SetSteps
  <2>3. Locked' /\ EntryLeft'  BY DEF Locked, Setter, EntryLeft, StorageTypeOK
  <2>4. NvsFollows' /\ CrcFollows'
    BY <2>1 DEF NvsFollows, CrcFollows, StorageTypeOK, Fields
  <2>5. NothingForgotten'  BY DEF NothingForgotten, Committing, StorageTypeOK
  <2> QED  BY <2>2, <2>3, <2>4, <2>5
<1>2. CASE ClearRequest
  <2> USE <1>2 DEF ClearRequest, stored
  <2>1. StorageTypeOK'  BY DEF StorageTypeOK, Steps, SetSteps
  <2>2. Locked' /\ EntryLeft'  BY DEF Locked, Setter, EntryLeft, StorageTypeOK
  <2>3. NvsFollows' /\ CrcFollows'  BY DEF NvsFollows, CrcFollows, StorageTypeOK
  <2>4. NothingForgotten'  BY DEF NothingForgotten, Committing, StorageTypeOK
  <2> QED  BY <2>1, <2>2, <2>3, <2>4
<1>3. CASE Commit
  <2> USE <1>3 DEF Commit
  <2>1. StorageTypeOK'  BY DEF StorageTypeOK, Steps, SetSteps
  <2>2. Locked' /\ EntryLeft'  BY DEF Locked, Setter, EntryLeft, StorageTypeOK
  <2>3. NvsFollows' /\ CrcFollows'  BY DEF NvsFollows, CrcFollows, StorageTypeOK
  <2>4. NothingForgotten'  BY DEF NothingForgotten, NvsFollows
  <2> QED  BY <2>1, <2>2, <2>3, <2>4
<1> QED  BY <1>1, <1>2, <1>3, StartDump_SInv, DumpCheck_SInv DEF Dump

LEMMA Restart_SInv ==
  ASSUME SInv, MainRestarts \/ \E s \in {"idle", "call", "shutdown", "factory"} : RunRestart(s)
  PROVE  SInv'
<1> USE StorageAssumption DEF SInv, StorageTypeOK, Threads, Calm
<1>1. CASE MainRestarts
  BY <1>1, CalmStep DEF MainRestarts, scheduler
<1>2. ASSUME NEW s \in {"idle", "call", "shutdown", "factory"}, RunRestart(s)  PROVE SInv'
  <2>1. left' \in 0..3 /\ cmds' \in 0..QueueLength /\ scheduler_mtx' = None
    BY <1>2 DEF RunRestart, Callback, LastCommand
  <2> QED  BY <1>2, <2>1, CalmStep DEF RunRestart, Callback
<1> QED  BY <1>1, <1>2

LEMMA Saving_SInv == ASSUME SInv, Saving  PROVE SInv'
<1> USE StorageAssumption DEF Goto, SInv, Threads, scheduler
<1>1. CASE SetFactoryConfig
  <2> USE <1>1 DEF SetFactoryConfig
  <2>1. StorageTypeOK'
    BY FactoryIsDatabase DEF StorageTypeOK, Steps, SetSteps
  <2>2. Locked' /\ EntryLeft'  BY DEF Locked, Setter, EntryLeft, StorageTypeOK
  <2>3. NvsFollows' /\ NothingForgotten'
    BY DEF NvsFollows, NothingForgotten, Committing, StorageTypeOK
  <2>4. CrcFollows'  BY DEF CrcFollows, Factory
  <2> QED  BY <2>1, <2>2, <2>3, <2>4
<1>2. ASSUME NEW t \in {Daemon, Main}, SaveDatabase(t)  PROVE SInv'
  <2>1. PICK refused \in SUBSET Fragile : WriteDbEntries(refused)
    BY <1>2 DEF SaveDatabase
  <2>2. flash' = nvs' /\ database' = database  BY <1>2 DEF SaveDatabase
  <2>3. /\ nvs' \in Database /\ failed' = refused /\ failed' \subseteq Keys
        /\ \A k \in Fields \ failed' : nvs'[k] = database[k]
        /\ nvs'.crc \in {database.crc, nvs.crc}
    <3>1. /\ nvs' = [k \in Keys |-> IF k \in refused THEN nvs[k] ELSE database[k]]
          /\ failed' = refused
      BY <2>1 DEF WriteDbEntries
    <3>2. nvs \in Database /\ database \in Database  BY DEF StorageTypeOK
    <3>3. nvs' \in Database  BY <3>1, <3>2, MixIsDatabase
    <3> QED  BY <3>1, <3>3 DEF Keys
  <2> USE <1>2 DEF SaveDatabase
  <2>4. StorageTypeOK'  BY <2>2, <2>3 DEF StorageTypeOK, Steps, SetSteps
  <2>5. Locked' /\ EntryLeft'  BY DEF Locked, Setter, EntryLeft, StorageTypeOK
  <2>6. NvsFollows' /\ NothingForgotten'
    BY <2>2, <2>3 DEF NvsFollows, NothingForgotten
  <2>7. CrcFollows'
    <3>1. step'[Daemon] = step[Daemon] \/ step[Daemon] \in {"factory_save", "shutdown"}
      BY DEF StorageTypeOK
    <3> QED  BY <2>2, <2>3, <3>1 DEF CrcFollows
  <2> QED  BY <2>4, <2>5, <2>6, <2>7
<1> QED  BY <1>1, <1>2 DEF Saving

LEMMA Boot_SInv == ASSUME SInv, NEW kept, Boot(kept)  PROVE SInv'
<1> USE StorageAssumption DEF SInv, Threads
<1>1. flash' \in Database /\ nvs' = flash'
  <2>1. flash' = [k \in Keys |-> IF k \in kept THEN nvs[k] ELSE flash[k]] /\ nvs' = flash'
    BY DEF Boot, Surviving
  <2>2. nvs \in Database /\ flash \in Database  BY DEF StorageTypeOK
  <2>3. flash' \in Database  BY <2>1, <2>2, MixIsDatabase
  <2> QED  BY <2>1, <2>3
<1>2. PICK unread \in SUBSET Fragile : ReadDbEntries(unread)  BY DEF Boot
<1>3. /\ database' \in Database /\ failed' = unread /\ failed' \subseteq Keys
      /\ \A k \in Fields \ failed' : database'[k] = nvs'[k]
      /\ database'.crc \in {None, nvs'.crc}
  <2>1. /\ database' = [k \in Keys |-> IF k \in unread THEN Factory[k] ELSE nvs'[k]]
        /\ failed' = unread
    BY <1>2 DEF ReadDbEntries
  <2>2. database' \in Database  BY <1>1, <2>1, FactoryIsDatabase, MixIsDatabase
  <2> QED  BY <2>1, <2>2 DEF Keys, Factory
<1> USE DEF Boot
<1>4. StorageTypeOK'
  <2>1. todo' \in [Tasks -> Seq(Writes)]  OBVIOUS
  <2>2. step' \in [Threads -> Steps] /\ \A t \in Tasks : step'[t] \in SetSteps
    BY DEF Steps, SetSteps
  <2>3. cmds' \in 0..QueueLength /\ sets' \in 0..MaxSets /\ left' \in 0..3
    BY DEF StorageTypeOK
  <2> QED  BY <1>1, <1>3, <2>1, <2>2, <2>3 DEF StorageTypeOK
<1>5. Locked' /\ EntryLeft'  BY DEF Locked, Setter, EntryLeft
<1>6. NvsFollows' /\ CrcFollows' /\ NothingForgotten'
  BY <1>1, <1>3 DEF NvsFollows, CrcFollows, NothingForgotten
<1> QED  BY <1>4, <1>5, <1>6

LEMMA Queue_SInv ==
  ASSUME SInv, Drain \/ SendCommand \/ OtherReturns \/ \E n \in 1..3 : OtherCall(n)
  PROVE  SInv'
<1> USE StorageAssumption DEF SInv, StorageTypeOK
<1>1. CASE Drain
  <2>1. cmds' \in 0..QueueLength  BY <1>1 DEF Drain
  <2> QED  BY <1>1, <2>1, SchedulerStep DEF Drain
<1>2. CASE SendCommand
  <2>1. cmds' \in 0..QueueLength /\ left' \in 0..3  BY <1>2 DEF SendCommand
  <2> QED  BY <1>2, <2>1, SchedulerStep DEF SendCommand
<1>3. CASE OtherReturns
  <2>1. cmds' \in 0..QueueLength /\ left' \in 0..3 /\ scheduler_mtx' = None
    BY <1>3 DEF OtherReturns, LastCommand
  <2> QED  BY <1>3, <2>1, SchedulerStep DEF OtherReturns
<1>4. ASSUME NEW n \in 1..3, OtherCall(n)  PROVE SInv'
  <2>1. cmds' = cmds /\ left' = n /\ scheduler_mtx' = Other
    BY <1>4 DEF OtherCall, TakeScheduler
  <2> QED  BY <1>4, <2>1, SchedulerStep DEF OtherCall
<1> QED  BY <1>1, <1>2, <1>3, <1>4

LEMMA Wrap_SInv == ASSUME SInv, Expire \/ ClearEntry \/ OtherCallback  PROVE SInv'
<1> USE StorageAssumption DEF SInv, StorageTypeOK, Threads, Calm
<1>1. CASE Expire  BY <1>1, CalmStep DEF Expire, scheduler
<1>2. CASE ClearEntry
  <2>1. cmds' = cmds /\ left' = 1 /\ scheduler_mtx' = Daemon
    BY <1>2 DEF ClearEntry, TakeScheduler
  <2> QED  BY <1>2, <2>1, CalmStep DEF ClearEntry
<1>3. CASE OtherCallback
  BY <1>3, Restart_SInv DEF OtherCallback, RunRestart
<1> QED  BY <1>1, <1>2, <1>3

LEMMA Stutter_SInv == ASSUME SInv, UNCHANGED svars  PROVE SInv'
BY DEF SInv, svars, stored, scheduler, StorageTypeOK, Locked, Setter, EntryLeft, NvsFollows,
       CrcFollows, NothingForgotten, Requested, Committing, BackAtChecksum

-----------------------------------------------------------------------------
(* The steps of a setting                                                  *)

LEMMA Setting_SInv == ASSUME SInv, Setting  PROVE SInv'
<1>1. ASSUME NEW t \in Tasks, NEW id \in UniqueIds, NEW s \in {"take", "call"},
             SetDeviceUniqueId(t, id, s)
      PROVE  SInv'
  <2> DEFINE ws == <<[key |-> "unique_id", val |-> id]>>
  <2>1. ws \in Seq(Writes) /\ ws # <<>>  BY DEF Writes
  <2>2. StartSet(t, ws, s)  BY <1>1 DEF SetDeviceUniqueId
  <2> QED  BY <2>1, <2>2, StartSet_SInv
<1>2. ASSUME NEW t \in Tasks, NEW lat \in Positions, NEW long \in Positions,
             SetCoordinates(t, lat, long)
      PROVE  SInv'
  <2> DEFINE ws == <<[key |-> "long", val |-> long], [key |-> "lat", val |-> lat]>>
  <2>1. ws \in Seq(Writes) /\ ws # <<>>  BY DEF Writes
  <2>2. StartSet(t, ws, "take")  BY <1>2 DEF SetCoordinates
  <2> QED  BY <2>1, <2>2, StartSet_SInv
<1>3. ASSUME NEW t \in Tasks, StartCall(t)  PROVE SInv'
  <2>1. 1 \in 1..3 /\ t \in Threads  BY DEF Threads
  <2> QED  BY <1>3, <2>1, Call_SInv
<1> QED  BY <1>1, <1>2, <1>3 DEF Setting

LEMMA SetStep_SInv == ASSUME SInv, NEW t \in Tasks, SetStep(t)  PROVE SInv'
<1>1. 1 \in 1..3 /\ t \in Threads /\ t # Main  BY StorageAssumption DEF Threads
<1> QED
  BY <1>1, Call_SInv, TakeStorage_SInv, SaveEntry_SInv, SectionDumpRequest_SInv,
     ScheduleDump_SInv, DumpScheduled_SInv
  DEF SetStep

LEMMA Running_SInv == ASSUME SInv, Running  PROVE SInv'
<1>1. CASE Setting  BY <1>1, Setting_SInv
<1>2. ASSUME NEW t \in Tasks, NEW n \in {2, 3}, CallScheduler(t, n)  PROVE SInv'
  <2>1. n \in 1..3 /\ t \in Threads /\ t # Main  BY StorageAssumption DEF Threads
  <2> QED  BY <1>2, <2>1, Call_SInv
<1>3. ASSUME NEW t \in Tasks, SetStep(t)  PROVE SInv'  BY <1>3, SetStep_SInv
<1>4. CASE Dump  BY <1>4, Dump_SInv
<1>5. CASE MainRestarts \/ \E s \in {"shutdown", "factory"} : RunRestart(s)
  BY <1>5, Restart_SInv
<1>6. CASE Saving  BY <1>6, Saving_SInv
<1>7. CASE Others \/ \E n \in {2, 3} : OtherCall(n)
  <2>1. OtherReturns \/ \E n \in 1..3 : OtherCall(n)
    BY <1>7, StorageAssumption DEF Others
  <2> QED  BY <2>1, Queue_SInv
<1>8. CASE Drain \/ SendCommand  BY <1>8, Queue_SInv
<1>9. CASE Expire \/ Wrap
  <2>1. CASE Expire \/ ClearEntry \/ OtherCallback  BY <2>1, Wrap_SInv
  <2>2. ASSUME NEW n \in OtherCounts, CallScheduler(Daemon, n) \/ CallReturns(Daemon)
        PROVE  SInv'
    <3>1. n \in 1..3 /\ Daemon \in Threads /\ Daemon # Main
      BY StorageAssumption DEF Threads
    <3> QED  BY <2>2, <3>1, Call_SInv
  <2>3. CASE CallReturns(Daemon)
    <3>1. 1 \in 1..3 /\ Daemon \in Threads /\ Daemon # Main
      BY StorageAssumption DEF Threads
    <3> QED  BY <2>3, <3>1, Call_SInv
  <2> QED  BY <1>9, <2>1, <2>2, <2>3 DEF Wrap
<1> QED  BY <1>1, <1>2, <1>3, <1>4, <1>5, <1>6, <1>7, <1>8, <1>9 DEF Running

LEMMA Next_SInv == SInv /\ [StorageNext]_svars => SInv'
<1> SUFFICES ASSUME SInv, [StorageNext]_svars  PROVE SInv'  OBVIOUS
<1>1. CASE Running  BY <1>1, Running_SInv
<1>2. ASSUME NEW kept \in SUBSET Keys, Boot(kept)  PROVE SInv'  BY <1>2, Boot_SInv
<1>3. CASE UNCHANGED svars  BY <1>3, Stutter_SInv
<1> QED  BY <1>1, <1>2, <1>3 DEF StorageNext

(***************************************************************************)
(* The inductive invariant of storage.c under any use of it.               *)
(***************************************************************************)
THEOREM StorageInvariance == StorageSpec => []SInv
<1> QED  BY Init_SInv, Next_SInv, PTL DEF StorageSpec

(***************************************************************************)
(* The types of the storage, and with them the bound of the timer command  *)
(* queue (scheduler.c:96-128).                                             *)
(***************************************************************************)
THEOREM StorageTypeCorrect == StorageSpec => []StorageTypeOK
<1>1. SInv => StorageTypeOK  BY DEF SInv
<1> QED  BY <1>1, StorageInvariance, PTL

(***************************************************************************)
(* Nothing that was set is forgotten (storage.c:341-412): whatever the     *)
(* setters do while dump_check works without the mutex, wherever the       *)
(* device restarts, and whichever entries NVS fails to take or give, but   *)
(* for these entries themselves.                                           *)
(***************************************************************************)
THEOREM NothingIsForgotten == StorageSpec => []NothingForgotten
<1>1. SInv => NothingForgotten  BY DEF SInv
<1> QED  BY <1>1, StorageInvariance, PTL

-----------------------------------------------------------------------------
(* The device                                                              *)

Announced ==
  main = "wait" /\ status_at # None /\ ~confirm
    => /\ auth_at # None
       /\ auth_at <= status_at + MaxAuth
       /\ now <= auth_at \/ Wedged

Ending == {"factory", "factory_save", "shutdown", "restart"}

Resetting ==
  since # None =>
    /\ step[Daemon] \in Ending \ {"factory"}
    /\ \A k \in Fields \ since :
         /\ database[k] = Factory[k]
         /\ step[Daemon] # "factory_save" /\ k \notin failed => flash[k] = Factory[k]

Counted ==
  /\ jobs # {} \/ asked \in Jobs \/ step[Daemon] \in Ending => boots < MaxBoots
  /\ main = "wait" \/ step[Main] # "idle" => boots = 0

DInv == SInv /\ DTypeOK /\ Announced /\ Resetting /\ Counted

-----------------------------------------------------------------------------
(* The device uses the storage as Storage says                             *)

LEMMA RxIsTask == Rx \in Tasks
BY DeviceAssumption

\* The steps that leave the storage alone or restart it
Apart == Online \/ Offline \/ ConfirmImage \/ ConfirmTimedOut \/ Tick \/ Restart \/ Panic

LEMMA StepRuns == Next => Running \/ Apart
<1> USE RxIsTask DEF Running
<1>1. ASSUME NEW id \in UniqueIds, ConnectionStatus(id)  PROVE Running
  BY <1>1 DEF ConnectionStatus, Setting
<1>2. ASSUME ClientInfoRejected  PROVE Running
  BY <1>2, StorageAssumption DEF ClientInfoRejected, Setting
<1>3. ASSUME NEW p \in Positions, SetPosition(p, p)  PROVE Running
  BY <1>3 DEF SetPosition, Setting
<1>4. ASSUME NEW job \in Jobs, RestartMessage(job)  PROVE Running
  BY <1>4 DEF RestartMessage, Setting
<1>5. ASSUME RxCall  PROVE Running
  <2>1. \E n \in {2, 3} : CallScheduler(Rx, n)
    BY <1>5 DEF RxCall, ScheduleAuth, ScheduleJob
  <2> QED  BY <2>1
<1>6. ASSUME ButtonReset  PROVE Running
  <2>1. \E n \in {2, 3} : OtherCall(n)  BY <1>6 DEF ButtonReset
  <2> QED  BY <2>1
<1>7. ASSUME RxStep  PROVE Running  BY <1>7 DEF RxStep
<1>9. ASSUME DumpStep \/ SaveStep \/ DrainStep \/ WrapStep \/ SendStep \/ QueueStep
      PROVE  Running
  BY <1>9 DEF DumpStep, SaveStep, DrainStep, WrapStep, SendStep, QueueStep, Others
<1>10. ASSUME Authenticated  PROVE Running
  BY <1>10 DEF Authenticated, Wrap, OtherCallback
<1>11. ASSUME RunJob  PROVE Running
  <2>1. PICK job \in jobs : RunRestart(IF job = "reboot" THEN "shutdown" ELSE "factory")
    BY <1>11 DEF RunJob
  <2> QED  BY <2>1
<1> HIDE DEF Running
<1> QED
  BY <1>1, <1>2, <1>3, <1>4, <1>5, <1>6, <1>7, <1>9, <1>10, <1>11 DEF Next, Apart

LEMMA StepIsStorageStep == Next => StorageNext \/ UNCHANGED svars
<1>1. CASE Running  BY <1>1 DEF StorageNext
<1>2. CASE Online \/ Offline \/ ConfirmImage \/ Tick
  BY <1>2 DEF Online, Offline, ConfirmImage, Tick
<1>3. CASE ConfirmTimedOut
  BY <1>3 DEF ConfirmTimedOut, StorageNext, Running
<1>4. CASE Restart \/ Panic
  <2>1. PICK kept \in SUBSET {k \in Keys : nvs[k] # flash[k]} : Boot(kept)
    BY <1>4 DEF Restart, Panic, Reboot
  <2>2. kept \in SUBSET Keys  OBVIOUS
  <2> QED  BY <2>1, <2>2 DEF StorageNext
<1> QED  BY <1>1, <1>2, <1>3, <1>4, StepRuns DEF Apart

LEMMA SInvStep == SInv /\ [Next]_vars => SInv'
<1>1. UNCHANGED vars => UNCHANGED svars  BY DEF vars
<1> QED  BY <1>1, StepIsStorageStep, Next_SInv

(***************************************************************************)
(* Main.c, dispatcher.c and sys_evt.c use the storage in no way that       *)
(* Storage leaves out.                                                     *)
(***************************************************************************)
THEOREM UsesStorage == Spec => StorageSpec
<1>1. Init => StorageInit  BY DEF Init
<1>2. [Next]_vars => [StorageNext]_svars
  <2>1. UNCHANGED vars => UNCHANGED svars  BY DEF vars
  <2> QED  BY <2>1, StepIsStorageStep
<1> QED  BY <1>1, <1>2, PTL DEF Spec, StorageSpec

-----------------------------------------------------------------------------
(* Out of the deadlock over the timer queue leads only a restart.          *)

\* Whoever needs room in the queue, the scheduler's mutex or an idle timer
\* task waits.
LEMMA WedgedWaits ==
  ASSUME SInv, Wedged
  PROVE  /\ \A t, n : ~TakeScheduler(t, n)
         /\ \A t : ~LastCommand(t)
         /\ ~SendCommand /\ ~Drain /\ ~Expire
         /\ ~DumpCheck /\ ~SaveCrc /\ ~ClearRequest /\ ~Commit /\ ~SetFactoryConfig
         /\ ~SaveDatabase(Daemon)
<1>1. cmds = QueueLength /\ scheduler_mtx # None /\ cmds \in Nat
  BY StorageAssumption DEF Wedged, SInv, StorageTypeOK
<1>2. \/ step[Daemon] \in {"expired", "stop", "call", "calling"}
      \/ step[Daemon] \in {"dump", "factory", "factory_save", "shutdown"} /\ storage_mtx # None
  BY StorageAssumption DEF Wedged, Threads
<1>3. (\A t, n : ~TakeScheduler(t, n)) /\ \A t : ~LastCommand(t)
  BY <1>1 DEF TakeScheduler, LastCommand
<1>4. ~SendCommand /\ ~Drain /\ ~Expire  BY <1>1, <1>2 DEF SendCommand, Drain, Expire
<1>5. ~DumpCheck /\ ~SaveCrc /\ ~ClearRequest /\ ~Commit /\ ~SetFactoryConfig
      /\ ~SaveDatabase(Daemon)
  BY <1>2 DEF DumpCheck, SaveCrc, ClearRequest, Commit, SetFactoryConfig, SaveDatabase
<1> QED  BY <1>3, <1>4, <1>5

\* The steps of other threads leave Daemon's waiting alone.
LEMMA WaitingStays ==
  ASSUME SInv, Wedged, NEW t \in Threads \ {Daemon}, NEW s, Goto(t, s),
         UNCHANGED scheduler,
         \A u \in Tasks : storage_mtx = u /\ step[u] \in {"schedule", "send"}
                            => t # u /\ storage_mtx' = u
  PROVE  Wedged'
<1> USE DEF Goto, SInv, StorageTypeOK, Threads, scheduler
<1>1. step'[Daemon] = step[Daemon] /\ cmds' = cmds /\ scheduler_mtx' = scheduler_mtx
  OBVIOUS
<1>2. CASE step[Daemon] \in {"expired", "stop", "call", "calling"}
  BY <1>1, <1>2 DEF Wedged
<1>3. CASE step[Daemon] \notin {"expired", "stop", "call", "calling"}
  <2>1. PICK u \in Tasks : storage_mtx = u /\ step[u] \in {"schedule", "send"}
    BY <1>3 DEF Wedged
  <2>2. step'[u] = step[u] /\ storage_mtx' = u  BY <2>1
  <2> QED  BY <1>1, <2>1, <2>2 DEF Wedged
<1> QED  BY <1>2, <1>3

LEMMA WedgedStays == ASSUME SInv, Wedged, Running \/ UNCHANGED svars  PROVE Wedged'
<1> USE StorageAssumption DEF Threads
<1>0. /\ \A t, n : ~TakeScheduler(t, n)
      /\ \A t : ~LastCommand(t)
      /\ ~SendCommand /\ ~Drain /\ ~Expire
      /\ ~DumpCheck /\ ~SaveCrc /\ ~ClearRequest /\ ~Commit /\ ~SetFactoryConfig
      /\ ~SaveDatabase(Daemon)
  BY WedgedWaits
<1>1. \A u \in Tasks : storage_mtx = u <=> Setter(u)  BY DEF SInv, Locked
<1>2. ASSUME NEW t \in Tasks, StartCall(t) \/ \E ws, s : StartSet(t, ws, s)  PROVE Wedged'
  <2>1. PICK s : Goto(t, s)  BY <1>2 DEF StartCall, StartSet
  <2>2. UNCHANGED <<scheduler, storage_mtx>> /\ step[t] = "idle"
    BY <1>2 DEF StartCall, StartSet
  <2>3. t \in Threads \ {Daemon}  OBVIOUS
  <2> QED  BY <2>1, <2>2, <2>3, WaitingStays
<1>3. CASE Setting
  <2>1. PICK t \in Tasks : StartCall(t) \/ \E ws, s : StartSet(t, ws, s)
    BY <1>3 DEF Setting, SetDeviceUniqueId, SetCoordinates
  <2> QED  BY <1>2, <2>1
<1>4. ASSUME NEW t \in Tasks, SetStep(t)  PROVE Wedged'
  <2>1. TakeStorage(t) \/ SaveEntry(t) \/ SectionDumpRequest(t)
    BY <1>0, <1>4 DEF SetStep, CallReturns, ScheduleDump, DumpScheduled
  <2>2. PICK s : Goto(t, s)
    BY <2>1 DEF TakeStorage, SaveEntry, SectionDumpRequest, NextEntry
  <2>3. UNCHANGED scheduler /\ step[t] \in {"take", "save", "request"}
    BY <2>1 DEF TakeStorage, SaveEntry, SectionDumpRequest
  <2>4. \A u \in Tasks : storage_mtx # u \/ step[u] \notin {"schedule", "send"}
    <3> SUFFICES ASSUME NEW u \in Tasks, storage_mtx = u, step[u] \in {"schedule", "send"}
                 PROVE  FALSE
      OBVIOUS
    <3>1. ~Setter(t)  BY <1>1, <2>3
    <3>2. TakeStorage(t)  BY <2>1, <3>1 DEF Setter, SaveEntry, SectionDumpRequest
    <3> QED  BY <3>2 DEF TakeStorage
  <2>5. t \in Threads \ {Daemon}  OBVIOUS
  <2> QED  BY <2>2, <2>3, <2>4, <2>5, WaitingStays
<1>5. CASE MainRestarts
  <2>1. Main \in Threads \ {Daemon} /\ Main \notin Tasks  OBVIOUS
  <2>2. Goto(Main, "shutdown") /\ UNCHANGED <<scheduler, storage_mtx>>
    BY <1>5 DEF MainRestarts
  <2> QED  BY <2>1, <2>2, WaitingStays
<1>6. CASE Saving
  <2>1. SaveDatabase(Main)  BY <1>0, <1>6 DEF Saving
  <2>2. Main \in Threads \ {Daemon} /\ Main \notin Tasks  OBVIOUS
  <2>3. PICK s : Goto(Main, s)  BY <2>1 DEF SaveDatabase
  <2>4. UNCHANGED <<scheduler, storage_mtx>>  BY <2>1 DEF SaveDatabase
  <2> QED  BY <2>2, <2>3, <2>4, WaitingStays
<1>7. ~Wrap /\ ~Others /\ ~Dump
  BY <1>0
  DEF Wrap, ClearEntry, OtherCallback, Callback, CallScheduler, CallReturns, Others, OtherCall,
      OtherReturns, Dump, StartDump
<1>8. (\A t, n : ~CallScheduler(t, n)) /\ (\A n : ~OtherCall(n)) /\ \A s : ~RunRestart(s)
  BY <1>0 DEF CallScheduler, OtherCall, RunRestart, Callback
<1>9. CASE UNCHANGED svars  BY <1>9 DEF Wedged, svars, scheduler
<1> QED  BY <1>0, <1>3, <1>4, <1>5, <1>6, <1>7, <1>8, <1>9 DEF Running

-----------------------------------------------------------------------------
(* One lemma for each group of steps                                       *)

Rest == DTypeOK /\ Announced /\ Resetting /\ Counted

\* Steps of a task other than Daemon and Main leave the restarts alone.
LEMMA TaskStepsKeep ==
  ASSUME SInv, NEW t \in Tasks, NEW s, Goto(t, s)
  PROVE  step'[Daemon] = step[Daemon] /\ step'[Main] = step[Main]
BY StorageAssumption DEF Goto, SInv, StorageTypeOK, Threads

LEMMA RestInit == Init => Rest
<1> SUFFICES ASSUME Init  PROVE Rest  OBVIOUS
<1> USE StorageAssumption, DeviceAssumption DEF Init
<1>1. DTypeOK
  <2>1. /\ now \in 0..ConfirmTimeout /\ boots \in 0..(MaxBoots + 1)
        /\ main \in {"wait", "done"}
    OBVIOUS
  <2> QED  BY <2>1 DEF DTypeOK
<1>2. status_at = None /\ since = None  OBVIOUS
<1>3. Announced /\ Resetting  BY <1>2 DEF Announced, Resetting
<1>4. Counted  BY DEF Counted, StorageInit, Ending, Threads
<1> QED  BY <1>1, <1>3, <1>4 DEF Rest

\* Steps that leave the confirmation and the factory reset as they are
LEMMA QuietKeeps ==
  ASSUME DInv, Running \/ UNCHANGED svars,
         UNCHANGED <<image, confirm, main, now, auth_at, status_at, since, boots>>,
         tx_handler' \in BOOLEAN, jobs' \subseteq Jobs, asked' \in Jobs \cup {"auth", None},
         step'[Main] = step[Main],
         jobs' # {} \/ asked' \in Jobs \/ step'[Daemon] \in Ending => boots < MaxBoots,
         since # None => UNCHANGED <<database, flash, failed>> /\ step'[Daemon] = step[Daemon]
  PROVE  Rest'
<1> USE DEF DInv
<1>1. DTypeOK'  BY DEF DTypeOK
<1>2. Wedged => Wedged'  BY WedgedStays
<1>3. Announced'  BY <1>2 DEF Announced
<1>4. Resetting'  BY DEF Resetting
<1>5. Counted'  BY DEF Counted
<1> QED  BY <1>1, <1>3, <1>4, <1>5 DEF Rest

\* The beginning of a handler
LEMMA HandlerKeeps ==
  ASSUME DInv, Running, NEW s, Goto(Rx, s), UNCHANGED stored,
         UNCHANGED <<image, confirm, main, now, auth_at, jobs, tx_handler, status_at,
                     since, boots>>,
         asked' \in Jobs \cup {"auth", None},
         asked' \in Jobs => asked \in Jobs \/ boots < MaxBoots
  PROVE  Rest'
<1>1. step'[Daemon] = step[Daemon] /\ step'[Main] = step[Main]
  BY RxIsTask, TaskStepsKeep DEF DInv
<1>2. jobs' \subseteq Jobs /\ tx_handler' \in BOOLEAN  BY DEF DInv, DTypeOK
<1>3. jobs' # {} \/ asked' \in Jobs \/ step'[Daemon] \in Ending => boots < MaxBoots
  BY <1>1 DEF DInv, Counted
<1> QED  BY <1>1, <1>2, <1>3, QuietKeeps DEF stored

LEMMA MessageKeeps ==
  ASSUME DInv, Running,
         \/ \E id \in UniqueIds : ConnectionStatus(id)
         \/ ClientInfoRejected
         \/ \E p \in Positions : SetPosition(p, p)
         \/ \E job \in Jobs : RestartMessage(job)
  PROVE  Rest'
<1> USE DeviceAssumption
<1>1. \/ \E ws, s : StartSet(Rx, ws, s)
      \/ StartCall(Rx)
  BY DEF ConnectionStatus, ClientInfoRejected, SetPosition, RestartMessage, SetDeviceUniqueId,
         SetCoordinates
<1>2. (\E s : Goto(Rx, s)) /\ UNCHANGED stored  BY <1>1 DEF StartSet, StartCall
<1>3. UNCHANGED <<image, confirm, main, now, auth_at, jobs, tx_handler, status_at, since, boots>>
  BY DEF ConnectionStatus, ClientInfoRejected, SetPosition, RestartMessage, dvars
<1>4. /\ asked' \in Jobs \cup {"auth", None}
      /\ asked' \in Jobs => asked \in Jobs \/ boots < MaxBoots
  <2>1. CASE \E job \in Jobs : RestartMessage(job)
    BY <2>1 DEF RestartMessage, MayRestart
  <2>2. CASE ~\E job \in Jobs : RestartMessage(job)
    <3>1. asked' \in {"auth", asked} /\ "auth" \notin Jobs
      BY <2>2 DEF ConnectionStatus, ClientInfoRejected, SetPosition, dvars
    <3> QED  BY <3>1 DEF DInv, DTypeOK
  <2> QED  BY <2>1, <2>2
<1> QED  BY <1>2, <1>3, <1>4, HandlerKeeps

LEMMA ScheduleAuthKeeps == ASSUME DInv, ScheduleAuth  PROVE Rest'
<1> USE StorageAssumption, DeviceAssumption DEF ScheduleAuth, DInv
<1>1. /\ Goto(Rx, "calling")
      /\ UNCHANGED <<database, nvs, flash, failed, dump_request, storage_mtx, dump_due>>
  BY DEF CallScheduler, stored
<1>2. step'[Daemon] = step[Daemon] /\ step'[Main] = step[Main]
  BY <1>1, RxIsTask, TaskStepsKeep
<1>3. PICK d \in AuthDelays : auth_at' = IF main = "wait" THEN now + d ELSE now
  OBVIOUS
<1>4. d \in Nat /\ d <= MaxAuth  BY <1>3 DEF AuthDelays
<1>5. now \in 0..ConfirmTimeout  BY DEF DTypeOK
<1>6. auth_at' \in 0..(ConfirmTimeout + MaxAuth)
  BY <1>3, <1>4, <1>5
<1>7. DTypeOK'
  <2>1. status_at' \in 0..ConfirmTimeout \cup {None}  BY <1>5
  <2> QED  BY <1>6, <2>1 DEF DTypeOK
<1>8. Announced'
  <2>1. SUFFICES ASSUME main = "wait"
                 PROVE  auth_at' # None /\ auth_at' <= status_at' + MaxAuth /\ now' <= auth_at'
    BY DEF Announced
  <2>2. auth_at' = now + d /\ status_at' = now /\ now' = now  BY <1>3, <2>1
  <2> QED  BY <1>4, <1>5, <2>2
<1>9. Resetting' /\ Counted'  BY <1>1, <1>2 DEF Resetting, Counted
<1> QED  BY <1>7, <1>8, <1>9 DEF Rest

LEMMA ScheduleJobKeeps == ASSUME DInv, Running, ScheduleJob  PROVE Rest'
<1> USE DeviceAssumption DEF ScheduleJob
<1>1. Goto(Rx, "calling") /\ UNCHANGED stored  BY DEF CallScheduler
<1>2. step'[Daemon] = step[Daemon] /\ step'[Main] = step[Main]
  BY <1>1, RxIsTask, TaskStepsKeep DEF DInv
<1>3. /\ jobs' \subseteq Jobs /\ asked' = None /\ None \notin Jobs /\ tx_handler' \in BOOLEAN
      /\ boots < MaxBoots
  BY DEF DInv, DTypeOK, Counted
<1> QED  BY <1>1, <1>2, <1>3, QuietKeeps DEF stored

LEMMA ButtonResetKeeps == ASSUME DInv, Running, ButtonReset  PROVE Rest'
<1> USE DEF ButtonReset
<1>1. UNCHANGED <<stored, step>> /\ boots < MaxBoots  BY DEF OtherCall, MayRestart
<1>2. jobs' \subseteq Jobs /\ asked' \in Jobs \cup {"auth", None} /\ tx_handler' \in BOOLEAN
  BY DEF DInv, DTypeOK
<1> QED  BY <1>1, <1>2, QuietKeeps DEF stored

LEMMA RxStepKeeps == ASSUME DInv, Running, RxStep  PROVE Rest'
<1> USE RxIsTask DEF RxStep, DInv
<1>1. \E s : Goto(Rx, s)
  BY DEF SetStep, CallReturns, TakeStorage, SaveEntry, SectionDumpRequest, ScheduleDump,
         DumpScheduled, NextEntry
<1>2. step'[Daemon] = step[Daemon] /\ step'[Main] = step[Main]
  BY <1>1, TaskStepsKeep
<1>3. Wedged => Wedged'  BY WedgedStays
<1>4. CASE step[Rx] = "save"
  <2> DEFINE w == Head(todo[Rx])
  <2>1. w \in Writes /\ database \in Database
    BY <1>4 DEF SInv, StorageTypeOK, EntryLeft, Setter
  <2>2. SaveEntry(Rx)
    BY <1>4 DEF SetStep, CallReturns, TakeStorage, SectionDumpRequest, ScheduleDump,
                DumpScheduled
  <2>3. /\ database' = [database EXCEPT ![w.key] = w.val] /\ flash' = flash
        /\ failed' = failed \ {w.key} \/ failed' = failed \cup {w.key}
    BY <2>2 DEF SaveEntry, NvsSet
  <2>5. since' = IF since # None THEN since \cup {w.key} ELSE since  BY <1>4
  <2> HIDE DEF w
  <2>4. w.key \in Fields /\ \A k \in Fields : k # w.key => database'[k] = database[k]
    BY <2>1, <2>3, WriteIsDatabase, WriteChanges
  <2>6. DTypeOK'  BY <2>4, <2>5 DEF DTypeOK
  <2>7. Announced'  BY <1>3 DEF Announced
  <2>8. Resetting'
    <3> SUFFICES ASSUME since # None  PROVE Resetting'  BY <2>5 DEF Resetting
    <3>1. since' = since \cup {w.key}  BY <2>5
    <3> QED  BY <1>2, <2>3, <2>4, <3>1 DEF Resetting
  <2>9. Counted'  BY <1>2 DEF Counted
  <2> QED  BY <2>6, <2>7, <2>8, <2>9 DEF Rest
<1>5. CASE step[Rx] # "save"
  <2>1. UNCHANGED stored /\ since' = since
    BY <1>5 DEF SetStep, CallReturns, TakeStorage, SaveEntry, SectionDumpRequest,
                ScheduleDump, DumpScheduled
  <2>2. asked' \in Jobs \cup {"auth", None}  BY DEF DTypeOK
  <2> QED  BY <1>1, <2>1, <2>2, HandlerKeeps
<1> QED  BY <1>4, <1>5

LEMMA DumpStepKeeps == ASSUME DInv, Running, DumpStep  PROVE Rest'
<1> USE StorageAssumption DEF DumpStep, DInv, Goto
<1>1. step \in [Threads -> Steps] /\ Daemon \in Threads /\ Main \in Threads /\ Main # Daemon
  BY DEF SInv, StorageTypeOK, Threads
<1>2. /\ step[Daemon] \notin Ending /\ step'[Daemon] \notin Ending
      /\ step'[Main] = step[Main]
  BY <1>1 DEF Dump, StartDump, Callback, DumpCheck, SaveCrc, ClearRequest, Commit, Ending
<1>3. since = None  BY <1>2 DEF Resetting
<1>4. UNCHANGED dvars /\ asked' \in Jobs \cup {"auth", None} /\ jobs' \subseteq Jobs
      /\ tx_handler' \in BOOLEAN
  BY DEF DTypeOK, dvars
<1>5. jobs' # {} \/ asked' \in Jobs \/ step'[Daemon] \in Ending => boots < MaxBoots
  BY <1>2, <1>4 DEF Counted, dvars
<1> QED  BY <1>2, <1>3, <1>4, <1>5, QuietKeeps DEF dvars

LEMMA QueueStepKeeps ==
  ASSUME DInv, Running, DrainStep \/ WrapStep \/ SendStep \/ QueueStep  PROVE Rest'
<1> USE StorageAssumption DEF DInv
<1>1. step \in [Threads -> Steps] /\ Daemon \in Threads /\ Main \in Threads /\ Main # Daemon
      /\ Daemon \notin Tasks
  BY DEF SInv, StorageTypeOK, Threads
<1>2. UNCHANGED <<stored, dvars>>
  BY DEF DrainStep, WrapStep, SendStep, QueueStep, Drain, Wrap, ClearEntry, OtherCallback,
         Callback, CallScheduler, CallReturns, SendCommand, OtherReturns, Expire, Others,
         OtherCall
<1>3. /\ step'[Main] = step[Main]
      /\ step' # step => step[Daemon] \notin Ending /\ step'[Daemon] \notin Ending
  <2>1. \/ step' = step
        \/ \E s \in {"expired", "stop", "call", "calling", "idle"} :
             Goto(Daemon, s) /\ step[Daemon] \in {"idle", "expired", "stop", "call", "calling"}
    BY <1>1
    DEF DrainStep, WrapStep, SendStep, QueueStep, Drain, Wrap, ClearEntry, OtherCallback,
        Callback, CallScheduler, CallReturns, SendCommand, OtherReturns, Expire, Others,
        OtherCall
  <2> QED  BY <1>1, <2>1 DEF Goto, Ending
<1>4. step'[Daemon] \in Ending => step[Daemon] \in Ending  BY <1>3
<1>5. since # None => UNCHANGED <<database, flash, failed>> /\ step'[Daemon] = step[Daemon]
  BY <1>2, <1>3 DEF Resetting, stored
<1>6. asked' \in Jobs \cup {"auth", None} /\ jobs' \subseteq Jobs /\ tx_handler' \in BOOLEAN
  BY <1>2 DEF DTypeOK, dvars
<1>7. jobs' # {} \/ asked' \in Jobs \/ step'[Daemon] \in Ending => boots < MaxBoots
  BY <1>2, <1>4 DEF Counted, dvars
<1> QED  BY <1>2, <1>3, <1>5, <1>6, <1>7, QuietKeeps DEF dvars

LEMMA OnlineKeeps == ASSUME DInv, Online \/ Offline  PROVE Rest'
<1> USE DEF Online, Offline, DInv
<1>1. UNCHANGED <<svars, image, confirm, main, now, auth_at, asked, jobs, status_at, since, boots>>
      /\ tx_handler' \in BOOLEAN
  OBVIOUS
<1>2. UNCHANGED <<database, flash, failed, step>>  BY <1>1 DEF svars, stored
<1>3. asked' \in Jobs \cup {"auth", None} /\ jobs' \subseteq Jobs  BY <1>1 DEF DTypeOK
<1>4. jobs' # {} \/ asked' \in Jobs \/ step'[Daemon] \in Ending => boots < MaxBoots
  BY <1>1, <1>2 DEF Counted
<1> QED  BY <1>1, <1>2, <1>3, <1>4, QuietKeeps

LEMMA AuthenticatedKeeps == ASSUME DInv, Running, Authenticated  PROVE Rest'
<1> USE StorageAssumption DEF Authenticated, DInv
<1>1. /\ step[Daemon] = "stop" /\ step'[Daemon] = "idle" /\ step'[Main] = step[Main]
      /\ UNCHANGED <<database, flash, failed>>
  BY DEF Callback, Goto, stored, SInv, StorageTypeOK, Threads
<1>2. DTypeOK'  BY DEF DTypeOK
<1>3. Announced'  BY DEF Announced
<1>4. since = None  BY <1>1 DEF Resetting, Ending
<1>5. Resetting' /\ Counted'  BY <1>1, <1>4 DEF Resetting, Counted, Ending
<1> QED  BY <1>2, <1>3, <1>5 DEF Rest

LEMMA RunJobKeeps == ASSUME DInv, Running, RunJob  PROVE Rest'
<1> USE StorageAssumption DEF DInv
<1>1. PICK job \in jobs :
        /\ RunRestart(IF job = "reboot" THEN "shutdown" ELSE "factory")
        /\ jobs' = jobs \ {job}
  BY DEF RunJob
<1>2. UNCHANGED <<image, confirm, main, now, auth_at, asked, tx_handler, status_at, since, boots>>
  BY DEF RunJob
<1>3. step[Daemon] = "stop" /\ step'[Main] = step[Main]
  BY <1>1 DEF RunRestart, Callback, Goto, SInv, StorageTypeOK, Threads
<1>4. since = None  BY <1>3 DEF Resetting, Ending
<1>5. boots < MaxBoots  BY <1>1 DEF Counted
<1>6. asked' \in Jobs \cup {"auth", None} /\ jobs' \subseteq Jobs /\ tx_handler' \in BOOLEAN
  BY <1>1, <1>2 DEF DTypeOK
<1> QED  BY <1>2, <1>3, <1>4, <1>5, <1>6, QuietKeeps

LEMMA SaveStepKeeps == ASSUME DInv, Running, SaveStep  PROVE Rest'
<1> USE StorageAssumption DEF SaveStep, DInv
<1>1. step \in [Threads -> Steps] /\ Daemon \in Threads /\ Main \in Threads /\ Main # Daemon
  BY DEF SInv, StorageTypeOK, Threads
<1>2. /\ step[Daemon] \in Ending <=> step'[Daemon] \in Ending
      /\ step'[Main] # "idle" => step[Main] # "idle"
  BY <1>1 DEF Saving, SetFactoryConfig, SaveDatabase, Goto, Ending
<1>3. UNCHANGED <<image, confirm, main, now, auth_at, asked, jobs, status_at, boots>>
  OBVIOUS
<1>4. DTypeOK'
  <2>1. tx_handler' \in BOOLEAN  BY DEF DTypeOK
  <2>2. since' \in (SUBSET Fields) \cup {None}  BY DEF DTypeOK
  <2> QED  BY <1>3, <2>1, <2>2 DEF DTypeOK
<1>5. Wedged => Wedged'  BY WedgedStays
<1>6. Announced'  BY <1>3, <1>5 DEF Announced
<1>7. Counted'  BY <1>2, <1>3 DEF Counted
<1>8. Resetting'
  <2>1. CASE step[Daemon] = "factory" /\ step'[Daemon] = "factory_save"
    <3>1. SetFactoryConfig
      BY <1>1, <2>1 DEF Saving, SaveDatabase, Goto
    <3>2. database' = Factory /\ since' = {}  BY <2>1, <3>1 DEF SetFactoryConfig
    <3> QED  BY <2>1, <3>2 DEF Resetting, Ending
  <2>2. CASE ~(step[Daemon] = "factory" /\ step'[Daemon] = "factory_save")
    <3>1. since' = since  BY <2>2
    <3>2. SUFFICES ASSUME since # None  PROVE Resetting'  BY <3>1 DEF Resetting
    <3>3. step[Daemon] \in Ending \ {"factory"}  BY <3>2 DEF Resetting
    <3>4. PICK t \in {Daemon, Main} : SaveDatabase(t)
      BY <3>3 DEF Saving, SetFactoryConfig
    <3>5. PICK refused \in SUBSET Fragile : WriteDbEntries(refused)
      BY <3>4 DEF SaveDatabase
    <3>6. /\ database' = database /\ failed' = refused
          /\ \A k \in Fields \ failed' : flash'[k] = database[k]
      BY <3>4, <3>5 DEF SaveDatabase, WriteDbEntries, Keys
    <3>7. step'[Daemon] \in Ending \ {"factory"}
      BY <1>1, <3>3, <3>4 DEF SaveDatabase, Goto, Ending
    <3> QED  BY <3>1, <3>2, <3>6, <3>7 DEF Resetting
  <2> QED  BY <2>1, <2>2
<1> QED  BY <1>4, <1>6, <1>7, <1>8 DEF Rest

LEMMA ConfirmKeeps == ASSUME DInv, ConfirmImage \/ ConfirmTimedOut  PROVE Rest'
<1> USE StorageAssumption, DeviceAssumption DEF ConfirmImage, ConfirmTimedOut, Done, DInv
<1>1. /\ main = "wait" /\ main' = "done" /\ now' = 0 /\ status_at' = None /\ confirm' = FALSE
      /\ auth_at' \in {None, 0}
      /\ UNCHANGED <<asked, jobs, tx_handler, since, boots>>
  OBVIOUS
<1>2. DTypeOK'
  <2>1. image' \in {"pending", "valid", "invalid"}  BY DEF DTypeOK
  <2>2. now' \in 0..ConfirmTimeout /\ auth_at' \in 0..(ConfirmTimeout + MaxAuth) \cup {None}
    BY <1>1
  <2> QED  BY <1>1, <2>1, <2>2 DEF DTypeOK
<1>3. Announced'  BY <1>1 DEF Announced
<1>4. UNCHANGED <<database, flash, failed>> /\ step'[Daemon] = step[Daemon]
  BY DEF svars, stored, MainRestarts, Goto, SInv, StorageTypeOK, Threads
<1>5. Resetting'  BY <1>1, <1>4 DEF Resetting
<1>6. Counted'  BY <1>1, <1>4 DEF Counted
<1> QED  BY <1>2, <1>3, <1>5, <1>6 DEF Rest

LEMMA RebootKeeps == ASSUME DInv, Restart \/ Panic  PROVE Rest'
<1> USE StorageAssumption, DeviceAssumption DEF DInv
<1>1. /\ confirm' = FALSE /\ now' = 0 /\ auth_at' = None /\ asked' = None /\ jobs' = {}
      /\ tx_handler' = FALSE /\ status_at' = None /\ since' = None
      /\ main' = "done" /\ boots' = boots + 1
      /\ image' = "valid"
      /\ step' = [t \in Threads |-> "idle"]
  BY DEF Restart, Panic, Reboot, Fresh, Boot
<1>2. boots < MaxBoots \/ boots = 0
  BY DEF Restart, Panic, Counted, Ending
<1>3. boots' \in 0..(MaxBoots + 1)  BY <1>1, <1>2 DEF DTypeOK
<1>4. DTypeOK'
  <2>1. now' \in 0..ConfirmTimeout  BY <1>1
  <2> QED  BY <1>1, <1>3, <2>1 DEF DTypeOK
<1>5. Announced' /\ Resetting'  BY <1>1 DEF Announced, Resetting
<1>6. step'[Daemon] = "idle" /\ step'[Main] = "idle"  BY <1>1 DEF Threads
<1>7. Counted'  BY <1>1, <1>6 DEF Counted, Ending
<1> QED  BY <1>4, <1>5, <1>7 DEF Rest

LEMMA TickKeeps == ASSUME DInv, Tick  PROVE Rest'
<1> USE StorageAssumption, DeviceAssumption DEF Tick, DInv
<1>1. /\ main = "wait" /\ now < ConfirmTimeout /\ now' = now + 1
      /\ UNCHANGED <<svars, image, confirm, main, auth_at, asked, jobs, tx_handler, status_at,
                     since, boots>>
  OBVIOUS
<1>2. DTypeOK'
  <2>1. now' \in 0..ConfirmTimeout  BY <1>1 DEF DTypeOK
  <2> QED  BY <1>1, <2>1 DEF DTypeOK
<1>3. Announced'
  <2>1. Wedged' <=> Wedged  BY <1>1 DEF Wedged, svars, scheduler
  <2>2. SUFFICES ASSUME status_at # None, ~confirm
                 PROVE  /\ auth_at # None /\ auth_at <= status_at + MaxAuth
                        /\ now + 1 <= auth_at \/ Wedged
    BY <1>1, <2>1 DEF Announced
  <2>3. auth_at # None /\ auth_at <= status_at + MaxAuth  BY <1>1, <2>2 DEF Announced
  <2>4. CASE Wedged  BY <2>3, <2>4
  <2>5. CASE Idle
    <3>1. ~(auth_at <= now)  BY <1>1, <2>3, <2>5 DEF Idle, AuthDue
    <3>2. auth_at \in Nat /\ now \in Nat  BY <2>3 DEF DTypeOK
    <3> QED  BY <2>3, <3>1, <3>2
  <2> QED  BY <2>4, <2>5
<1>4. Resetting' /\ Counted'  BY <1>1 DEF Resetting, Counted, svars, stored
<1> QED  BY <1>2, <1>3, <1>4 DEF Rest

LEMMA StutterKeeps == ASSUME DInv, UNCHANGED vars  PROVE Rest'
<1>1. UNCHANGED svars /\ UNCHANGED dvars  BY DEF vars
<1> QED
  BY <1>1
  DEF DInv, Rest, svars, stored, scheduler, dvars, DTypeOK, Announced, Wedged, Resetting, Counted

-----------------------------------------------------------------------------
(* The theorems                                                            *)

LEMMA DInvStep == DInv /\ [Next]_vars => DInv'
<1> SUFFICES ASSUME DInv, [Next]_vars  PROVE DInv'  OBVIOUS
<1>1. SInv'  BY SInvStep DEF DInv
<1> SUFFICES Rest'  BY <1>1 DEF DInv, Rest
<1>2. CASE Restart \/ Panic  BY <1>2, RebootKeeps
<1>3. CASE UNCHANGED vars  BY <1>3, StutterKeeps
<1>4. CASE Tick  BY <1>4, TickKeeps
<1>5. CASE Online \/ Offline  BY <1>5, OnlineKeeps
<1>6. CASE ConfirmImage \/ ConfirmTimedOut  BY <1>6, ConfirmKeeps
<1>7. ASSUME ScheduleAuth  PROVE Rest'  BY <1>7, ScheduleAuthKeeps
<1>8. CASE Apart  BY <1>2, <1>4, <1>5, <1>6, <1>8 DEF Apart
<1>9. ASSUME Next, Running  PROVE Rest'
  <2>1. CASE \/ \E id \in UniqueIds : ConnectionStatus(id)
             \/ ClientInfoRejected
             \/ \E p \in Positions : SetPosition(p, p)
             \/ \E job \in Jobs : RestartMessage(job)
    BY <1>9, <2>1, MessageKeeps
  <2>2. CASE RxCall  BY <1>7, <1>9, <2>2, ScheduleJobKeeps DEF RxCall
  <2>3. CASE ButtonReset  BY <1>9, <2>3, ButtonResetKeeps
  <2>4. CASE RxStep  BY <1>9, <2>4, RxStepKeeps
  <2>5. CASE DumpStep  BY <1>9, <2>5, DumpStepKeeps
  <2>6. CASE Authenticated  BY <1>9, <2>6, AuthenticatedKeeps
  <2>7. CASE RunJob  BY <1>9, <2>7, RunJobKeeps
  <2>8. CASE SaveStep  BY <1>9, <2>8, SaveStepKeeps
  <2>9. CASE DrainStep \/ WrapStep \/ SendStep \/ QueueStep
    BY <1>9, <2>9, QueueStepKeeps
  <2> QED
    BY <1>8, <1>9, <2>1, <2>2, <2>3, <2>4, <2>5, <2>6, <2>7, <2>8, <2>9 DEF Next, Apart
<1> QED  BY <1>3, <1>8, <1>9, StepRuns

(***************************************************************************)
(* The inductive invariant of the device.                                  *)
(***************************************************************************)
THEOREM DeviceInvariance == Spec => []DInv
<1>1. Init => DInv
  <2>1. Init => StorageInit  BY DEF Init
  <2> QED  BY <2>1, Init_SInv, RestInit DEF DInv, Rest
<1> QED  BY <1>1, DInvStep, PTL DEF Spec

(***************************************************************************)
(* The types of the storage and of the device.                             *)
(***************************************************************************)
THEOREM TypeCorrect == Spec => []TypeOK
<1>1. DInv => TypeOK  BY DEF DInv, SInv, TypeOK
<1> QED  BY <1>1, DeviceInvariance, PTL

(***************************************************************************)
(* Nothing that the server's messages set is forgotten (storage.c:341-412).*)
(***************************************************************************)
THEOREM NothingLost == Spec => []NothingForgotten
<1> QED  BY UsesStorage, NothingIsForgotten, PTL

(***************************************************************************)
(* A factory reset is complete before the restart (dispatcher.c:78-87,     *)
(* storage.c:730-737), but for the entries that NVS did not take.          *)
(***************************************************************************)
THEOREM ResetIsComplete == Spec => []FactoryResetComplete
<1>1. DInv => FactoryResetComplete  BY DEF DInv, Resetting, FactoryResetComplete
<1> QED  BY <1>1, DeviceInvariance, PTL

(***************************************************************************)
(* app_confirm_wait (main.c:75-106) gives up only on a late server, or     *)
(* when the timer task is stuck.                                           *)
(***************************************************************************)
THEOREM GivesUpWhenLate == Spec => GivesUpOnlyIfLate
<1>1. DInv /\ [Next]_vars
        => [image' = "invalid" /\ image # "invalid"
             => \/ status_at = None
                \/ status_at + MaxAuth >= ConfirmTimeout
                \/ Wedged]_vars
  <2> SUFFICES ASSUME DInv, Next, image' = "invalid", image # "invalid",
                      status_at # None, ~Wedged
               PROVE  status_at + MaxAuth >= ConfirmTimeout
    BY DEF vars, dvars
  <2>1. ConfirmTimedOut
    BY DEF Next, ConnectionStatus, ClientInfoRejected, SetPosition, RestartMessage, RxCall,
           ScheduleAuth, ScheduleJob, RxStep, ButtonReset, Online, Offline, DumpStep,
           Authenticated, RunJob, SaveStep, DrainStep, WrapStep, SendStep, QueueStep,
           ConfirmImage, Restart, Panic, Reboot, Tick, dvars
  <2>2. main = "wait" /\ ~confirm /\ now = ConfirmTimeout  BY <2>1 DEF ConfirmTimedOut
  <2>3. auth_at # None /\ auth_at <= status_at + MaxAuth /\ now <= auth_at
    BY <2>2 DEF DInv, Announced
  <2>4. auth_at \in Nat /\ status_at \in Nat /\ MaxAuth \in Nat /\ ConfirmTimeout \in Nat
    BY <2>3, DeviceAssumption DEF DInv, DTypeOK
  <2> QED  BY <2>2, <2>3, <2>4
<1> QED  BY <1>1, DeviceInvariance, PTL DEF Spec, GivesUpOnlyIfLate
=============================================================================
