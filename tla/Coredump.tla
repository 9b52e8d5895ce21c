------------------------------ MODULE Coredump ------------------------------
(***************************************************************************)
(* The upload of a core dump, em_coredump/coredump.c: an authentication    *)
(* starts it in the timer task (dispatcher.c:41), and every confirmation   *)
(* that a message has been sent, whoever sent it, sends the next block in  *)
(* the event task (sys_evt.c:146).  Nothing guards the structure that the  *)
(* two share.  The timer task has the lowest priority and loses the        *)
(* processor between any two of its writes; the event task loses it when   *)
(* the queue that it sends to is full.                                     *)
(*                                                                         *)
(* The transport is in TcpClient; here a confirmation may come at any      *)
(* time, and a message counts once it is handed over.  Versions are told   *)
(* apart by the number of the start that drew them.                        *)
(***************************************************************************)
EXTENDS Integers, Sequences

CONSTANTS
  ImageSize,   \* the size of the dump
  DumpBlock,   \* CONFIG_EM_COREDUMP_BLOCK_MAX_SIZE
  MaxStarts    \* bound: authentications

ASSUME CoredumpAssumption == {ImageSize, DumpBlock} \subseteq Nat \ {0}

VARIABLES
  image,     \* the partition holds a dump
  upload,    \* the structure coredump
  starter,   \* the next thing that coredump_start does
  block,     \* where coredump_on_data_sent_callback is: what it does next,
             \* and its block_len and last_block
  uploaded,  \* history: what was sent since the last start
  starts,    \* history: how many times an upload was started,
  overlaps   \* ... and whether one was while the last one went on

coredumpVars == <<image, upload, starter, block, uploaded, starts, overlaps>>

NoBlock == [at |-> "idle", len |-> 0, last |-> FALSE]

CoredumpInit ==
  /\ image \in BOOLEAN
  /\ upload = [api |-> FALSE, ver |-> 0, addr |-> 0, size_left |-> 0, ready |-> FALSE]
  /\ starter = "idle" /\ block = NoBlock
  /\ uploaded = <<>> /\ starts = 0 /\ overlaps = FALSE

Send(kind, len) ==
  uploaded' = Append(uploaded, [kind |-> kind, ver |-> upload.ver, addr |-> upload.addr,
                                len |-> len])

-----------------------------------------------------------------------------
(* The timer task: coredump_start                                          *)

\* A damaged image is erased, and not uploaded either.
CheckImage ==
  /\ starter = "idle" /\ starts < MaxStarts
  /\ \/ image /\ starter' = "addr" /\ UNCHANGED image
     \/ starter' = "idle" /\ image' = FALSE
  /\ starts' = starts + 1
  /\ uploaded' = <<>>
  /\ overlaps' = (overlaps \/ upload.ready)
  /\ UNCHANGED <<upload, block>>

\* Fault: the upload is ready before it is described.
StartReadyFirst ==
  /\ \/ starter = "addr" /\ upload' = [upload EXCEPT !.ready = TRUE] /\ starter' = "size"
     \/ starter = "size" /\ upload' = [upload EXCEPT !.addr = 0, !.size_left = ImageSize]
        /\ starter' = "api"
     \/ starter = "api" /\ upload' = [upload EXCEPT !.ver = starts, !.api = TRUE]
        /\ starter' = "valid"
  /\ UNCHANGED <<image, block, uploaded, starts, overlaps>>

\* esp_core_dump_image_get stores twice.
Start ==
  /\ \/ starter = "addr" /\ image /\ upload' = [upload EXCEPT !.addr = 0] /\ starter' = "size"
     \/ starter = "size" /\ upload' = [upload EXCEPT !.size_left = ImageSize]
        /\ starter' = "ver"
     \/ starter = "ver" /\ upload' = [upload EXCEPT !.ver = starts] /\ starter' = "api"
     \/ starter = "api" /\ upload' = [upload EXCEPT !.api = TRUE] /\ starter' = "ready"
     \/ starter = "ready" /\ upload' = [upload EXCEPT !.ready = TRUE] /\ starter' = "valid"
  /\ UNCHANGED <<image, block, uploaded, starts, overlaps>>

\* The dump was erased since it was checked: ESP_ERROR_CHECK restarts the device.
CheckAborts ==
  /\ starter = "addr" /\ ~image
  /\ upload' = [api |-> FALSE, ver |-> 0, addr |-> 0, size_left |-> 0, ready |-> FALSE]
  /\ starter' = "idle" /\ block' = NoBlock
  /\ uploaded' = <<>> /\ overlaps' = FALSE
  /\ UNCHANGED <<image, starts>>

\* The handler may be gone by now.
SendValid ==
  /\ starter = "valid"
  /\ IF upload.api THEN Send("valid", 0) ELSE UNCHANGED uploaded
  /\ starter' = "idle"
  /\ UNCHANGED <<image, upload, block, starts, overlaps>>

-----------------------------------------------------------------------------
(* The event task: coredump_on_data_sent_callback                          *)

MinLen == IF upload.size_left < DumpBlock THEN upload.size_left ELSE DumpBlock

DataSent(success) ==
  /\ block.at = "idle"
  /\ upload.ready
  /\ IF ~success \/ upload.size_left = 0
     THEN /\ upload' = [upload EXCEPT !.api = FALSE, !.ready = FALSE]
          /\ UNCHANGED block
     ELSE /\ block' = [at |-> "body", len |-> MinLen, last |-> upload.size_left <= MinLen]
          /\ UNCHANGED upload
  /\ UNCHANGED <<image, starter, uploaded, starts, overlaps>>

SendBody ==
  /\ block.at = "body"
  /\ IF upload.api THEN Send("body", block.len) ELSE UNCHANGED uploaded
  /\ block' = [block EXCEPT !.at = IF @ = "body" /\ block.last THEN "end" ELSE "advance"]
  /\ UNCHANGED <<image, upload, starter, starts, overlaps>>

SendEnd ==
  /\ block.at = "end"
  /\ IF upload.api THEN Send("end", 0) ELSE UNCHANGED uploaded
  /\ block' = [block EXCEPT !.at = "advance"]
  /\ UNCHANGED <<image, upload, starter, starts, overlaps>>

\* A start may have come in between: size_left is unsigned, and stays so.
Advance ==
  /\ block.at = "advance"
  /\ upload' = [upload EXCEPT !.addr = @ + block.len, !.size_left = @ - block.len]
  /\ block' = NoBlock
  /\ UNCHANGED <<image, starter, uploaded, starts, overlaps>>

\* coredump_confirmed_handler, in the RX task
Erase ==
  /\ image' = FALSE
  /\ UNCHANGED <<upload, starter, block, uploaded, starts, overlaps>>

CoredumpNext ==
  \/ CheckImage \/ Start \/ CheckAborts \/ SendValid
  \/ \E success \in BOOLEAN : DataSent(success)
  \/ SendBody \/ SendEnd \/ Advance \/ Erase

-----------------------------------------------------------------------------
(* Properties                                                              *)

Bodies == {i \in DOMAIN uploaded : uploaded[i].kind = "body"}
Ends == {i \in DOMAIN uploaded : uploaded[i].kind = "end"}

\* Where the block that is sent i-th ends
EndOf(i) == uploaded[i].addr + uploaded[i].len

(***************************************************************************)
(* An upload that is not started anew before it ends hands over the dump   *)
(* from its first byte on, every block where the one before ended and      *)
(* under its own version, and says that it is at its end exactly once,     *)
(* after the last block, whoever's messages drive it (coredump.c:42-75):   *)
(* the server can put the dump together.  The announcement may come after  *)
(* blocks: ready is set before it is sent (coredump.c:86-90).              *)
(***************************************************************************)
UploadsInOrder ==
  ~overlaps =>
    /\ \A i \in Bodies :
         /\ uploaded[i].len \in 1..DumpBlock /\ EndOf(i) <= ImageSize
         /\ uploaded[i].addr = 0 \/ \E j \in Bodies : j < i /\ EndOf(j) = uploaded[i].addr
         /\ \A j \in Bodies : j < i => EndOf(j) <= uploaded[i].addr
    /\ \A i \in DOMAIN uploaded : uploaded[i].ver = starts
    /\ Ends # {} <=> (block.at # "end" /\ \E i \in Bodies : EndOf(i) = ImageSize)
    /\ \A i, j \in Ends : i = j
=============================================================================
