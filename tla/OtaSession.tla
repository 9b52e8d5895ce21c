----------------------------- MODULE OtaSession -----------------------------
(***************************************************************************)
(* What the listeners of EM_HTTP_OTA_EVENT may rely on, whatever starts    *)
(* and aborts are submitted: downloads come one after the other, and each  *)
(* is a begin, one validated image, growing progress, downloaded, verified *)
(* and finished, in this order, or ends early with an abort.               *)
(***************************************************************************)
EXTENDS Naturals

CONSTANT Chunks   \* the progress that means all of the image

VARIABLES
  stage,   \* the last event, "none" before the first
  got      \* the progress it has reported

vars == <<stage, got>>

AtRest == stage \in {"none", "finished", "abort"}

Init == stage = "none" /\ got = 0

Begin == AtRest /\ stage' = "begin" /\ got' = 0

Validated == stage = "begin" /\ stage' = "validated" /\ got' = 0

Transfer ==
  /\ got' \in 0..Chunks
  /\ stage = "validated" \/ (stage = "transfer" /\ got' > got)
  /\ stage' = "transfer"

Downloaded ==
  /\ stage \in {"validated", "transfer"}
  /\ stage' = "downloaded" /\ got' = 0

Verified == stage = "downloaded" /\ stage' = "verified" /\ got' = 0

Finished == stage = "verified" /\ stage' = "finished" /\ got' = 0

\* An abort may be asked for, and reported, at any time.
Abort == stage' = "abort" /\ got' = 0

Next ==
  Begin \/ Validated \/ Transfer \/ Downloaded \/ Verified \/ Finished \/ Abort

Spec == Init /\ [][Next]_vars
=============================================================================
