---------------------------- MODULE MailPromise ----------------------------
(***************************************************************************)
(* What graphmail.Client.Send promises the pipeline: success means that    *)
(* the message is on its way, "too large" that it never will be.  Any      *)
(* other error promises nothing: the message may have gone out, or go out  *)
(* later.                                                                  *)
(***************************************************************************)
VARIABLES outcome, mailed

PromiseInit == outcome = "trying" /\ mailed = FALSE

Mail ==
  /\ outcome # "too large"
  /\ mailed' = TRUE
  /\ UNCHANGED outcome

Return ==
  /\ outcome = "trying"
  /\ outcome' \in {"failed"} \cup (IF mailed THEN {"ok"} ELSE {"too large"})
  /\ UNCHANGED mailed

PromiseSpec == PromiseInit /\ [][Mail \/ Return]_<<outcome, mailed>>
=============================================================================
