------------------------------- MODULE Update -------------------------------
(***************************************************************************)
(* Firmware updates: the download task (HttpOta), the state that update.c  *)
(* keeps of an update, the server's messages, which the TCP client's RX    *)
(* task hands to update_start and update_apply, and the event loop, which  *)
(* hands the download's events to the handlers of update.c.                *)
(*                                                                         *)
(* No lock protects update_state.  update_start writes it, waits up to 10  *)
(* ms for room in the download's queue and writes it again: three steps.   *)
(* The queue holds a pointer to new_fw_image_url, so that a download reads *)
(* the URL that is there when it begins.  A restart ends the behaviour.    *)
(***************************************************************************)
EXTENDS HttpOta

CONSTANTS
  Policies,    \* the policies a server asks for, of "immediate", "delayed"
  MaxStarts    \* bound: starts that the server asks for

ASSUME UpdateAssumption ==
  /\ Policies \subseteq {"immediate", "delayed"}
  /\ MaxStarts \in Nat

VARIABLES
  new_fw_ver, phase, progress, error, policy,   \* update_state
  url,         \* update_state.new_fw_image_url: the version it leads to
  starting,    \* where update_start is: "no", "submits" or "returns"
  apply_timer, \* update_apply_delayed is scheduled
  seen,        \* the last event that the event loop has handled
  starts       \* starts so far (bounded)

state == <<new_fw_ver, phase, progress, error, policy, url>>
vars == <<ota_q, action, polling, ms, https, decrypt, image, validated, got, events,
          aborted, new_fw_ver, phase, progress, error, policy, url, starting,
          apply_timer, seen, starts>>

Init ==
  /\ OtaInit
  /\ new_fw_ver = None /\ phase = "idle" /\ progress = 0 /\ error = "none"
  /\ policy = "immediate" /\ url = None
  /\ starting = "no" /\ apply_timer = FALSE
  /\ seen = Evt("none") /\ starts = 0

-----------------------------------------------------------------------------
(* The server's messages                                                   *)

\* update_start refuses another device's firmware, or the version that runs.
StartRefused ==
  /\ Running
  /\ starting = "no"
  /\ error' = "refused"
  /\ UNCHANGED <<task, ota_q, events, aborted, new_fw_ver, phase, progress, policy,
                 url, starting, apply_timer, seen, starts>>

Start(v, p) ==
  /\ Running
  /\ starting = "no" /\ starts < MaxStarts
  /\ v # Installed
  /\ url' = v /\ new_fw_ver' = v /\ policy' = p
  /\ starting' = "submits" /\ starts' = starts + 1
  /\ UNCHANGED <<task, ota_q, events, aborted, phase, progress, error, apply_timer, seen>>

\* Fault: the message is queued whether or not there is room.
SubmitAnyway ==
  /\ Running
  /\ starting = "submits"
  /\ ota_q' = Append(ota_q, "start") /\ starting' = "returns"
  /\ UNCHANGED <<task, events, aborted, state, apply_timer, seen, starts>>

\* http_ota_submit_start, which may find the queue full for 10 ms.
Submit ==
  /\ Running
  /\ starting = "submits"
  /\ IF Len(ota_q) < OtaQueueLength
     THEN ota_q' = Append(ota_q, "start") /\ starting' = "returns" /\ UNCHANGED error
     ELSE error' = "sw_fault" /\ starting' = "no" /\ UNCHANGED ota_q
  /\ UNCHANGED <<task, events, aborted, new_fw_ver, phase, progress, policy, url,
                 apply_timer, seen, starts>>

StartReturns ==
  /\ Running
  /\ starting = "returns"
  /\ error' = "none" /\ starting' = "no"
  /\ UNCHANGED <<task, ota_q, events, aborted, new_fw_ver, phase, progress, policy, url,
                 apply_timer, seen, starts>>

\* http_ota_submit_abort
SubmitAbort ==
  /\ Running
  /\ Len(ota_q) < OtaQueueLength
  /\ starts < MaxStarts /\ starts' = starts + 1
  /\ ota_q' = Append(ota_q, "abort")
  /\ UNCHANGED <<task, events, aborted, state, starting, apply_timer, seen>>

\* update_apply: only the immediate policy leads to a restart, at once or later.
Apply(delay) ==
  /\ phase' = "apply"
  /\ IF policy # "immediate" THEN UNCHANGED <<apply_timer, aborted>>
     ELSE IF delay THEN apply_timer' = TRUE /\ UNCHANGED aborted
          ELSE aborted' = "restart" /\ UNCHANGED apply_timer

Install(delay) ==
  /\ Running
  /\ starting = "no"
  /\ Apply(delay)
  /\ UNCHANGED <<task, ota_q, events, new_fw_ver, progress, error, policy, url, starting,
                 seen, starts>>

\* update_apply_delayed
ApplyTimer ==
  /\ Running
  /\ apply_timer
  /\ apply_timer' = FALSE
  /\ aborted' = "restart"
  /\ UNCHANGED <<task, ota_q, events, state, starting, seen, starts>>

-----------------------------------------------------------------------------
(* The event loop: http_ota_event_handler                                  *)

Handles(type) ==
  /\ Running
  /\ events # <<>>
  /\ Head(events).type = type
  /\ events' = Tail(events)
  /\ seen' = Head(events)

\* update_started_handler
Started ==
  /\ Handles("validated")
  /\ phase' = "started" /\ new_fw_ver' = Head(events).ver
  /\ progress' = 0 /\ error' = "none"
  /\ UNCHANGED <<policy, url, aborted, apply_timer>>

\* update_new_progress_handler
NewProgress ==
  /\ Handles("transfer")
  /\ progress' = Head(events).got
  /\ phase' = IF progress' # progress THEN "transfer" ELSE phase
  /\ UNCHANGED <<new_fw_ver, error, policy, url, aborted, apply_timer>>

\* update_downloaded_handler, update_ready_handler
OnDownloaded ==
  /\ Handles("downloaded")
  /\ phase' = "downloaded" /\ progress' = Chunks
  /\ UNCHANGED <<new_fw_ver, error, policy, url, aborted, apply_timer>>

OnVerified ==
  /\ Handles("verified")
  /\ phase' = "ready"
  /\ UNCHANGED <<new_fw_ver, progress, error, policy, url, aborted, apply_timer>>

OnFinished ==
  /\ Handles("finished")
  /\ Apply(FALSE)
  /\ UNCHANGED <<new_fw_ver, progress, error, policy, url>>

\* update_error_handler
OnAbort ==
  /\ Handles("abort")
  /\ error' = "ota"
  /\ UNCHANGED <<new_fw_ver, phase, progress, policy, url, aborted, apply_timer>>

OnBegin ==
  /\ Handles("begin")
  /\ UNCHANGED <<state, aborted, apply_timer>>

HandleEvent ==
  /\ \/ OnBegin \/ Started \/ NewProgress \/ OnDownloaded \/ OnVerified \/ OnFinished
     \/ OnAbort
  /\ UNCHANGED <<task, ota_q, starting, starts>>

-----------------------------------------------------------------------------
Download ==
  /\ OtaTask(url)
  /\ UNCHANGED <<state, starting, apply_timer, seen, starts>>

Next ==
  \/ StartRefused \/ \E v \in Versions, p \in Policies : Start(v, p)
  \/ Submit \/ StartReturns \/ SubmitAbort
  \/ \E delay \in BOOLEAN : Install(delay)
  \/ ApplyTimer
  \/ HandleEvent
  \/ Download

Spec == Init /\ [][Next]_vars

(***************************************************************************)
(* The download task and the event loop run whenever they can: the HTTP    *)
(* client gives up a silent server after                                   *)
(* CONFIG_EM_HTTP_OTA_SERVER_TIMEOUT_MS.  Nothing is assumed of the server.*)
(***************************************************************************)
FairSpec == Spec /\ WF_vars(Download) /\ WF_vars(HandleEvent)
-----------------------------------------------------------------------------
(* Properties                                                              *)

TypeOK ==
  /\ OtaTypeOK
  /\ {new_fw_ver, url} \subseteq Versions \cup {None}
  /\ phase \in {"idle", "started", "transfer", "downloaded", "ready", "apply"}
  /\ progress \in 0..Chunks
  /\ error \in {"none", "refused", "sw_fault", "ota"}
  /\ policy \in {"immediate", "delayed"}
  /\ starting \in {"no", "submits", "returns"}
  /\ apply_timer \in BOOLEAN
  /\ seen \in Event \cup {Evt("none")}
  /\ starts \in 0..MaxStarts

(***************************************************************************)
(* "Ensure that handles are freed", http_ota.c:214-216: whatever starts    *)
(* and aborts are queued, a download never begins on top of another one.   *)
(***************************************************************************)
BeginsClean == aborted # "handles_in_use"

(***************************************************************************)
(* http_ota.c:318-323, 355-360: a task that waits for the next message has *)
(* no download open, neither its connection nor its flash partition nor    *)
(* its decryption, however the last one has ended.                         *)
(***************************************************************************)
NothingLeftOpen == ~polling /\ Running => "live" \notin {https, decrypt}

(***************************************************************************)
(* The newest start wins (update.c:218-226, http_ota.c:188-198): once the  *)
(* queue is empty, the download that is open is of the URL that was set    *)
(* last, even if the queue was too full for the last start.                *)
(***************************************************************************)
NewestDownloaded ==
  Running /\ https = "live" /\ ota_q = <<>> /\ starting = "no"
    => image \in {url, Installed}

(***************************************************************************)
(* The events that the event loop hands on are those of downloads that     *)
(* come one after the other (http_ota.c:150-365).                          *)
(***************************************************************************)
Session == INSTANCE OtaSession WITH stage <- seen.type, got <- seen.got
KeepsOrder == Session!Spec

(***************************************************************************)
(* Every update ends (http_ota.c:318-331, 342-364): when no more messages  *)
(* come, the server has been told how the last download ended.             *)
(***************************************************************************)
UpdatesEnd ==
  <>[](Running => events = <<>> /\ seen.type \in {"none", "finished", "abort"})

(***************************************************************************)
(* "Something went wrong, free the resources and go to initial state",     *)
(* http_ota.c:319: the resources of a download are freed once.             *)
(***************************************************************************)
FreedOnce == aborted # "double_free"
=============================================================================
