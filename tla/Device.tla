------------------------------- MODULE Device -------------------------------
(***************************************************************************)
(* The device from boot to restart: app_main's confirmation of a freshly   *)
(* installed image (main/main.c), the handlers of the server's messages    *)
(* that touch settings or restart the device (dispatcher/dispatcher.c),    *)
(* and the events of the TCP client and the button (evt/sys_evt.c), on top *)
(* of Storage.                                                             *)
(*                                                                         *)
(* Rx, the TCP client's receiving task, runs the handlers; the event task  *)
(* runs the event handlers; Daemon, the timer task, runs the delayed       *)
(* calls; Main waits in app_confirm_wait until the server has              *)
(* authenticated the device or CONFIG_APP_IMAGE_CONFIRM_TIMEOUT_MS is over.*)
(*                                                                         *)
(* Time advances in ticks that are long for every delay but two: the       *)
(* confirmation timeout and the 10 to 43 s that the confirmation is put    *)
(* off after a connection status.  A tick passes only when nothing is due. *)
(*                                                                         *)
(* External: the boot loader (an image that restarts unconfirmed is rolled *)
(* back), the server's messages, the panic that may end a run anywhere.    *)
(* Messages for BLE, Wi-Fi and updates belong to other modules.            *)
(***************************************************************************)
EXTENDS Storage

CONSTANTS
  Rx,              \* the task that runs dispatcher_handler
  Jobs,            \* the delayed restarts: "reboot" and "factory_msg" of
                   \* dispatcher.c, "factory_button" of sys_evt.c
  ConfirmTimeout,  \* CONFIG_APP_IMAGE_CONFIRM_TIMEOUT_MS, in ticks
  MinAuth,         \* 10 s, in ticks
  MaxAuth,         \* 10 s + 0x7FFF ms, in ticks
  MaxJobs,         \* bound: the delayed restarts that are asked for at a time
  MaxBoots         \* bound: no panic or restart is asked for after so many

ASSUME DeviceAssumption ==
  /\ Tasks = {Rx}
  /\ Jobs \subseteq {"reboot", "factory_msg", "factory_button"}
  /\ ConfirmTimeout \in Nat /\ MinAuth \in Nat /\ MaxAuth \in Nat
  /\ MinAuth <= MaxAuth /\ MaxAuth < ConfirmTimeout
  /\ MaxJobs \in Nat /\ MaxBoots \in Nat
  /\ None \notin Nat \cup Jobs

VARIABLES
  image,       \* the OTA state of the running image
  confirm,     \* TCP_AUTH_EVT_BIT, while app_main waits for it
  main,        \* where app_main is
  now,         \* ticks since boot, counted while app_main waits
  auth_at,     \* when authentication_delayed_handler is due, or None
  asked,       \* what the handler under way has the scheduler call, or None
  jobs,        \* the delayed calls that are scheduled
  tx_handler,  \* protocol_register_tx_handler has em_tcp_client_send: online
  status_at,   \* history: when the last connection status came
  since,       \* history: the fields set since the factory reset, or None
  boots        \* bound: the restarts so far

dvars == <<image, confirm, main, now, auth_at, asked, jobs, tx_handler, status_at,
           since, boots>>
vars == <<svars, dvars>>

Fresh ==
  /\ confirm' = FALSE /\ now' = 0 /\ auth_at' = None /\ asked' = None /\ jobs' = {}
  /\ tx_handler' = FALSE
  /\ status_at' = None /\ since' = None

Init ==
  /\ StorageInit
  /\ image \in {"pending", "valid"}
  /\ confirm = FALSE /\ now = 0 /\ auth_at = None /\ asked = None /\ jobs = {}
  /\ main = IF image = "pending" THEN "wait" ELSE "done"
  /\ tx_handler = FALSE
  /\ status_at = None /\ since = None /\ boots = 0

-----------------------------------------------------------------------------
(* The server's messages, in Rx                                            *)

CanReceive == tx_handler /\ step[Rx] = "idle"

\* Fault: the delay is not masked to 15 bits.
UnmaskedAuthDelays == MinAuth..(2 * MaxAuth)

\* The delays of the confirmation: 10 s and a random part, in ticks.
AuthDelays == MinAuth..MaxAuth

\* connection_status_handler: it schedules the authentication, then sets.
ConnectionStatus(id) ==
  /\ CanReceive
  /\ asked' = "auth"
  /\ SetDeviceUniqueId(Rx, id, "call")
  /\ UNCHANGED <<image, confirm, main, now, auth_at, jobs, tx_handler, status_at, since, boots>>

\* Its scheduler_set_callback
ScheduleAuth ==
  /\ asked = "auth" /\ CallScheduler(Rx, IF auth_at = None THEN 2 ELSE 3)
  /\ \E d \in AuthDelays : auth_at' = IF main = "wait" THEN now + d ELSE now
  /\ status_at' = IF main = "wait" THEN now ELSE None
  /\ asked' = None
  /\ UNCHANGED <<image, confirm, main, now, jobs, tx_handler, since, boots>>

\* status_handler for a rejected client info with error 3
ClientInfoRejected ==
  /\ CanReceive
  /\ SetDeviceUniqueId(Rx, 0, "take")
  /\ UNCHANGED dvars

\* environment_set_position_handler
SetPosition(lat, long) ==
  /\ CanReceive
  /\ SetCoordinates(Rx, lat, long)
  /\ UNCHANGED dvars

MayRestart ==
  boots < MaxBoots /\ Cardinality(jobs \cup ({asked} \cap Jobs)) < MaxJobs

\* reboot_handler, factory_reset_handler
RestartMessage(job) ==
  /\ CanReceive /\ MayRestart /\ job # "factory_button"
  /\ asked' = job
  /\ StartCall(Rx)
  /\ UNCHANGED <<image, confirm, main, now, auth_at, jobs, tx_handler, status_at, since, boots>>

\* Their scheduler_set_callback
ScheduleJob ==
  /\ asked \in Jobs /\ CallScheduler(Rx, IF asked \in jobs THEN 3 ELSE 2)
  /\ jobs' = jobs \cup {asked} /\ asked' = None
  /\ UNCHANGED <<image, confirm, main, now, auth_at, tx_handler, status_at, since, boots>>

RxCall == ScheduleAuth \/ ScheduleJob

\* The button's factory reset, in the event task
ButtonReset ==
  /\ "factory_button" \in Jobs /\ MayRestart
  /\ OtherCall(IF "factory_button" \in jobs THEN 3 ELSE 2)
  /\ jobs' = jobs \cup {"factory_button"}
  /\ UNCHANGED <<image, confirm, main, now, auth_at, asked, tx_handler, status_at, since, boots>>

\* The other steps of a handler; a factory reset under way is told what is
\* set after it.
RxStep ==
  /\ SetStep(Rx)
  /\ since' = IF since # None /\ step[Rx] = "save"
              THEN since \cup {Head(todo[Rx]).key} ELSE since
  /\ UNCHANGED <<image, confirm, main, now, auth_at, asked, jobs, tx_handler, status_at, boots>>

-----------------------------------------------------------------------------
(* The TCP client's events, in the event task                              *)

\* tcp_client_event_handler, EM_TCP_CLIENT_EVENT_ONLINE: storage_device()
\* needs the mutex.
Online ==
  /\ ~tx_handler /\ storage_mtx = None
  /\ tx_handler' = TRUE
  /\ UNCHANGED <<svars, image, confirm, main, now, auth_at, asked, jobs, status_at, since, boots>>

Offline ==
  /\ tx_handler
  /\ tx_handler' = FALSE
  /\ UNCHANGED <<svars, image, confirm, main, now, auth_at, asked, jobs, status_at, since, boots>>

-----------------------------------------------------------------------------
(* The delayed calls, in the timer task                                    *)

DumpStep ==
  /\ Dump
  /\ UNCHANGED dvars

AuthDue == auth_at # None /\ (main = "wait" => auth_at <= now)

\* authentication_delayed_handler, which ends in app_confirm_handler
Authenticated ==
  /\ AuthDue
  /\ Callback("idle") /\ UNCHANGED dump_due
  /\ auth_at' = None
  /\ confirm' = (main = "wait")
  /\ UNCHANGED <<image, main, now, asked, jobs, tx_handler, status_at, since, boots>>

\* delayed_esp_reboot, delayed_esp_factory_reset
RunJob ==
  /\ \E job \in jobs :
     /\ RunRestart(IF job = "reboot" THEN "shutdown" ELSE "factory")
     /\ jobs' = jobs \ {job}
  /\ UNCHANGED <<image, confirm, main, now, auth_at, asked, tx_handler, status_at, since, boots>>

\* Either job's saving, and the shutdown handler's, in Daemon and in Main;
\* the shutdown handler also disconnects the TCP client.
SaveStep ==
  /\ Saving
  /\ since' = IF step[Daemon] = "factory" /\ step'[Daemon] = "factory_save"
              THEN {} ELSE since
  /\ IF \E t \in {Daemon, Main} : step'[t] = "restart" /\ step[t] # "restart"
     THEN tx_handler' = FALSE
     ELSE UNCHANGED tx_handler
  /\ UNCHANGED <<image, confirm, main, now, auth_at, asked, jobs, status_at, boots>>

\* The timer task and the others about the scheduler
DrainStep == Drain /\ UNCHANGED dvars
WrapStep == Wrap /\ UNCHANGED dvars
SendStep == (SendCommand \/ OtherReturns) /\ UNCHANGED dvars
QueueStep ==
  /\ Expire \/ Others
  /\ UNCHANGED dvars

-----------------------------------------------------------------------------
(* app_main                                                                *)

\* Nobody reads the bit, or asks when, any more.
Done ==
  /\ main' = "done" /\ now' = 0 /\ status_at' = None
  /\ confirm' = FALSE
  /\ auth_at' = IF auth_at = None THEN None ELSE 0

\* app_confirm_wait: the bit is set; marking the image may fail.
ConfirmImage ==
  /\ main = "wait" /\ confirm
  /\ \/ image' = "valid"
     \/ UNCHANGED image
  /\ Done
  /\ UNCHANGED <<svars, asked, jobs, tx_handler, since, boots>>

\* app_confirm_wait: the time is over.  There may be no image to go back to.
ConfirmTimedOut ==
  /\ main = "wait" /\ ~confirm /\ now = ConfirmTimeout
  /\ \/ image' = "invalid" /\ MainRestarts
     \/ UNCHANGED <<image, svars>>
  /\ Done
  /\ UNCHANGED <<asked, jobs, tx_handler, since, boots>>

\* The boot loader and app_main up to app_confirm_wait.  An image that is
\* not confirmed is rolled back, to one that was.
Reboot ==
  /\ \E kept \in SUBSET {k \in Keys : nvs[k] # flash[k]} : Boot(kept)
  /\ image' = "valid"
  /\ main' = "done"
  /\ boots' = boots + 1
  /\ Fresh

\* The end of esp_restart, in either task
Restart == (\E t \in {Daemon, Main} : step[t] = "restart") /\ Reboot

\* A panic or a loss of power, anywhere
Panic == boots < MaxBoots /\ Reboot

\* Nothing is due that the timer task or app_main could do.
Idle ==
  /\ step[Daemon] = "idle" /\ ~dump_due /\ jobs = {} /\ ~AuthDue
  /\ step[Rx] = "idle"
  /\ main = "wait" => ~confirm

Tick ==
  /\ now < ConfirmTimeout /\ main = "wait"
  /\ Idle \/ Wedged
  /\ now' = now + 1
  /\ UNCHANGED <<svars, image, confirm, main, auth_at, asked, jobs, tx_handler, status_at, since, boots>>

Next ==
  \/ \E id \in UniqueIds : ConnectionStatus(id)
  \/ ClientInfoRejected
  \/ \E p \in Positions : SetPosition(p, p)  \* p names both coordinates
  \/ \E job \in Jobs : RestartMessage(job)
  \/ RxCall \/ RxStep
  \/ ButtonReset
  \/ Online \/ Offline
  \/ DumpStep \/ Authenticated \/ RunJob \/ SaveStep
  \/ DrainStep \/ WrapStep \/ SendStep \/ QueueStep
  \/ ConfirmImage \/ ConfirmTimedOut
  \/ Restart \/ Panic
  \/ Tick

Spec == Init /\ [][Next]_vars

(***************************************************************************)
(* The tasks run.  A task that waits for a mutex or for room in the timer  *)
(* queue gets it in its turn (FreeRTOS wakes the waiting task of the       *)
(* highest priority), hence strong fairness for these; and the timer task  *)
(* empties the queue after each timer that has expired.                    *)
(***************************************************************************)
FairSpec ==
  /\ Spec
  /\ SF_vars(RxCall \/ RxStep)
  /\ SF_vars(WrapStep \/ SendStep \/ DrainStep)
  /\ WF_vars(DumpStep \/ SaveStep \/ Restart)

-----------------------------------------------------------------------------
(* Properties                                                              *)

DTypeOK ==
  /\ image \in {"pending", "valid", "invalid"}
  /\ confirm \in BOOLEAN /\ main \in {"wait", "done"}
  /\ now \in 0..ConfirmTimeout
  /\ auth_at \in 0..(ConfirmTimeout + MaxAuth) \cup {None}
  /\ asked \in Jobs \cup {"auth", None} /\ jobs \subseteq Jobs
  /\ tx_handler \in BOOLEAN
  /\ status_at \in 0..ConfirmTimeout \cup {None}
  /\ since \in (SUBSET Fields) \cup {None}
  /\ boots \in 0..(MaxBoots + 1)

TypeOK == StorageTypeOK /\ DTypeOK

(***************************************************************************)
(* "Image has to be confirmed before image rollout timeout"                *)
(* (dispatcher.c:62): app_confirm_wait gives up on an image only if the    *)
(* last connection status, each of which puts the confirmation off anew,   *)
(* came too late for its delay, or the timer task is wedged.               *)
(***************************************************************************)
GivesUpOnlyIfLate ==
  [][image' = "invalid" /\ image # "invalid"
       => \/ status_at = None
          \/ status_at + MaxAuth >= ConfirmTimeout
          \/ Wedged]_vars

(***************************************************************************)
(* A factory reset is complete before the device restarts                  *)
(* (storage.c:730-737, dispatcher.c:78-87): the restart finds the factory's *)
(* value in every field that no task has set meanwhile and that NVS took   *)
(* when the database was saved for the last time; the restart comes though *)
(* it did not (storage.c:312).                                             *)
(***************************************************************************)
FactoryResetComplete ==
  step[Daemon] = "restart" /\ since # None
    => \A k \in Fields \ (since \cup failed) : flash[k] = Factory[k]

(***************************************************************************)
(* A handler gets out of the scheduler and the storage, or the device      *)
(* restarts, unless the timer queue is full and its reader waits with it:  *)
(* for the scheduler's mutex, whose holder waits for room (scheduler.c:109, *)
(* 125), for room of its own (scheduler.c:36, 184), or for storage_mtx,    *)
(* whose holder is scheduling the dump (storage.c:414-422).                *)
(***************************************************************************)
HandlersReturn == step[Rx] # "idle" ~> step[Rx] = "idle" \/ Wedged
=============================================================================
