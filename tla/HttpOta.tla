------------------------------ MODULE HttpOta ------------------------------
(***************************************************************************)
(* The download task of em_http_ota: it takes START and ABORT from a queue *)
(* and otherwise makes one step of its state machine per turn, posting its *)
(* events to the event loop.  A step waits for room in the event loop; it  *)
(* touches only what belongs to the task, so it is one action up to and    *)
(* with its event, and the two halves of FINISHED are two.                 *)
(*                                                                         *)
(* The download is abstract: the first chunk holds the application's       *)
(* description (CONFIG_EM_HTTP_OTA_REQ_SIZE is far above its size), the    *)
(* others raise the progress.  The HTTP client, the decryption and the     *)
(* flash may fail at any step.  esp_https_ota_begin reads the URL; ending  *)
(* the decryption and finishing the download free what their handles point *)
(* to, whether they succeed or not (esp_encrypted_img.c:958-1009).         *)
(***************************************************************************)
EXTENDS Naturals, Sequences

CONSTANTS
  Versions,           \* firmware versions
  Installed,          \* the version that runs
  Chunks,             \* progress steps of a download
  OtaQueueLength,     \* CONFIG_EM_HTTP_OTA_MAX_QUEUE_MSGS
  EventQueueLength,   \* CONFIG_ESP_SYSTEM_EVENT_QUEUE_SIZE
  None                \* no version

ASSUME HttpOtaAssumption ==
  /\ Installed \in Versions /\ None \notin Versions
  /\ Chunks \in Nat
  /\ {OtaQueueLength, EventQueueLength} \subseteq Nat \ {0}

VARIABLES
  ota_q,       \* START and ABORT messages
  action,      \* ota_msg.action, "none" before the first message
  polling,     \* ticks_to_wait is 0; otherwise the task waits for a message
  ms,          \* the machine state; "verified" between the halves of FINISHED
  https,       \* https_ota_handle: "null", "live" or "freed"
  decrypt,     \* decrypt_handle, likewise
  image,       \* the version that the server sends
  validated,   \* decrypt_ctx.img_validated
  got,         \* progress, from decrypt_ctx.decrypted_size
  events,      \* events that are posted
  aborted      \* what stopped the program, or "no"

handles == <<https, decrypt>>
download == <<image, validated, got>>
task == <<action, polling, ms, https, decrypt, image, validated, got>>

Running == aborted = "no"

OtaInit ==
  /\ ota_q = <<>> /\ action = "none" /\ polling = FALSE
  /\ ms = "begin" /\ https = "null" /\ decrypt = "null"
  /\ image = None /\ validated = FALSE /\ got = 0
  /\ events = <<>>
  /\ aborted = "no"

Event == [type : {"begin", "validated", "transfer", "downloaded", "verified",
                  "finished", "abort"},
          ver : Versions \cup {None}, got : 0..Chunks]

Evt(type) == [type |-> type, ver |-> None, got |-> 0]
ValidatedEvt(v) == [type |-> "validated", ver |-> v, got |-> 0]
TransferEvt(k) == [type |-> "transfer", ver |-> None, got |-> k]

Post(s) ==
  /\ Len(events) + Len(s) <= EventQueueLength
  /\ events' = events \o s

\* abort_ota_handle frees what the handles point to.
AbortHandles ==
  IF "freed" \in {https, decrypt}
  THEN aborted' = "double_free" /\ UNCHANGED <<handles, events>>
  ELSE /\ https' = "null" /\ decrypt' = "null"
       /\ Post(<<Evt("abort")>>)
       /\ UNCHANGED aborted

-----------------------------------------------------------------------------
Takes(msg) ==
  /\ Running
  /\ ms # "verified"
  /\ ota_q # <<>>
  /\ Head(ota_q) = msg
  /\ ota_q' = Tail(ota_q)
  /\ action' = msg

\* Fault: a download that is under way is left to itself.
TakeStartNoAbort ==
  /\ Takes("start")
  /\ ms' = "begin" /\ polling' = TRUE
  /\ UNCHANGED <<download, handles, events, aborted>>

\* Fault: a start is ignored while there is a download.
TakeStartIgnored ==
  /\ Takes("start")
  /\ ms' = IF {https, decrypt} = {"null"} THEN "begin" ELSE ms
  /\ polling' = TRUE
  /\ UNCHANGED <<download, handles, events, aborted>>

\* A start ends the download that is under way, and is dealt with next turn.
TakeStart ==
  /\ Takes("start")
  /\ IF {https, decrypt} = {"null"} THEN UNCHANGED <<handles, events, aborted>>
     ELSE AbortHandles
  /\ ms' = "begin" /\ polling' = TRUE
  /\ UNCHANGED download

\* Fault: the task waits, and the handles stay.
TakeAbortKeepHandles ==
  /\ Takes("abort")
  /\ Post(<<Evt("abort")>>)
  /\ polling' = FALSE
  /\ UNCHANGED <<ms, handles, download, aborted>>

TakeAbort ==
  /\ Takes("abort")
  /\ AbortHandles
  /\ polling' = FALSE
  /\ UNCHANGED <<ms, download>>

\* A turn without a message.
Turn(state) ==
  /\ Running
  /\ ota_q = <<>>
  /\ polling /\ action = "start"
  /\ ms = state
  /\ UNCHANGED <<ota_q, action>>

\* The end of a turn in which something went wrong.
Fails ==
  /\ AbortHandles
  /\ ms' = "begin" /\ polling' = FALSE

\* EM_HTTP_OTA_EVENT_BEGIN: nothing may be left of an earlier download.
BeginAsserts ==
  /\ Turn("begin")
  /\ {https, decrypt} # {"null"}
  /\ aborted' = "handles_in_use"
  /\ UNCHANGED <<polling, ms, handles, download, events>>

\* Fault: decrypt_ctx is not cleared.
BeginKeepContext(url) ==
  /\ Turn("begin")
  /\ {https, decrypt} = {"null"}
  /\ https' = "live" /\ decrypt' = "live"
  /\ image' \in {url, Installed}
  /\ Post(<<Evt("begin")>>)
  /\ ms' = "transfer"
  /\ UNCHANGED <<validated, got, polling, aborted>>

\* The server may send the version that runs instead of the one at url.
Begin(url) ==
  /\ Turn("begin")
  /\ {https, decrypt} = {"null"}
  /\ validated' = FALSE /\ got' = 0
  /\ \/ /\ https' = "live" /\ decrypt' = "live"
        /\ image' \in {url, Installed}
        /\ Post(<<Evt("begin")>>)
        /\ ms' = "transfer"
        /\ UNCHANGED <<polling, aborted>>
     \/ Fails /\ UNCHANGED image

\* Whether a progress value is one that is reported (a multiple of
\* CONFIG_EM_HTTP_OTA_PROGRESS_ACCURACY) is left open.
Progress(k) == {<<>>, <<TransferEvt(k)>>}

\* The first chunk: the version is checked, and announced.
FirstChunk ==
  /\ Turn("transfer")
  /\ ~validated
  /\ image # Installed
  /\ validated' = TRUE
  /\ \E p \in Progress(got) : Post(<<ValidatedEvt(image)>> \o p)
  /\ UNCHANGED <<polling, ms, handles, image, got, aborted>>

Chunk ==
  /\ Turn("transfer")
  /\ validated
  /\ got < Chunks
  /\ got' = got + 1
  /\ \E p \in Progress(got') : Post(p)
  /\ UNCHANGED <<polling, ms, handles, image, validated, aborted>>

\* The server has closed the connection.
AllReceived ==
  /\ Turn("transfer")
  /\ validated
  /\ ms' = "downloaded"
  /\ UNCHANGED <<polling, handles, download, events, aborted>>

\* A timeout, a chunk that does not decrypt, or the version that runs.
TransferFails ==
  /\ Turn("transfer")
  /\ Fails
  /\ UNCHANGED download

\* Fault: the rest is waited for.
DownloadedWaits ==
  /\ Turn("downloaded")
  /\ IF got = Chunks
     THEN Post(<<Evt("downloaded")>>) /\ ms' = "finished"
     ELSE ms' = "transfer" /\ UNCHANGED events
  /\ UNCHANGED <<polling, handles, download, aborted>>

\* EM_HTTP_OTA_EVENT_DOWNLOADED
Downloaded ==
  /\ Turn("downloaded")
  /\ IF got = Chunks
     THEN Post(<<Evt("downloaded")>>) /\ ms' = "finished" /\ UNCHANGED <<polling, handles, aborted>>
     ELSE Fails
  /\ UNCHANGED download

\* EM_HTPP_OTA_EVENT_FINISHED: the signature is checked ...
Verify ==
  /\ Turn("finished")
  /\ decrypt' = "freed"
  /\ Post(<<Evt("verified")>>)
  /\ ms' = "verified"
  /\ UNCHANGED <<polling, https, download, aborted>>

\* ... or turns out to be wrong, and abort_ota_handle frees it again ...
VerifyFails ==
  /\ Turn("finished")
  /\ aborted' = "double_free"
  /\ UNCHANGED <<polling, ms, handles, download, events>>

\* ... then the image is made the one to boot ...
Finish ==
  /\ Running /\ ms = "verified"
  /\ https' = "freed"
  /\ Post(<<Evt("finished")>>)
  /\ ms' = "begin" /\ polling' = FALSE
  /\ UNCHANGED <<ota_q, action, decrypt, download, aborted>>

\* ... or is not accepted, and both handles are freed again.
FinishFails ==
  /\ Running /\ ms = "verified"
  /\ aborted' = "double_free"
  /\ UNCHANGED <<ota_q, action, polling, ms, handles, download, events>>

OtaTask(url) ==
  \/ TakeStart \/ TakeAbort
  \/ BeginAsserts \/ Begin(url)
  \/ FirstChunk \/ Chunk \/ AllReceived \/ TransferFails
  \/ Downloaded
  \/ Verify \/ VerifyFails \/ Finish \/ FinishFails

-----------------------------------------------------------------------------
OtaTypeOK ==
  /\ ota_q \in Seq({"start", "abort"}) /\ Len(ota_q) <= OtaQueueLength
  /\ action \in {"none", "start", "abort"}
  /\ polling \in BOOLEAN
  /\ ms \in {"begin", "transfer", "downloaded", "finished", "verified"}
  /\ {https, decrypt} \subseteq {"null", "live", "freed"}
  /\ image \in Versions \cup {None}
  /\ validated \in BOOLEAN /\ got \in 0..Chunks
  /\ events \in Seq(Event) /\ Len(events) <= EventQueueLength
  /\ aborted \in {"no", "restart", "handles_in_use", "double_free"}
=============================================================================
