------------------------------ MODULE Delivery ------------------------------
(***************************************************************************)
(* What a worker of internal/pipeline does with the documents of one job:  *)
(* each is replaced by its searchable version, one after the other, and    *)
(* the lot is mailed.  Both clients go through one context, which ends     *)
(* after jobTimeout, and through the retry loop of MsApi.                  *)
(***************************************************************************)
EXTENDS GraphMail, DocIntel

CONSTANTS
  Recognizable,    \* the messages whose text is to be recognized
  SearchableSizes  \* how large a searchable document may come out

ASSUME DeliveryAssumption ==
  /\ Recognizable \subseteq Messages \ {<< >>}
  /\ SearchableSizes \subseteq Nat \ {0}

VARIABLES
  wantsOcr,  \* job.Caps.OCR
  page,      \* the document runOCR is busy with
  document   \* what each document of the job is, by now

jobVars == <<wantsOcr, page, document>>
deliveryVars == <<mailVars, ocrVars, jobVars>>

DeliveryTypeOK ==
  /\ ApiTypeOK(Request \cup OcrRequest, OcrSays)
  /\ MailTypeOK
  /\ OcrTypeOK
  /\ wantsOcr \in BOOLEAN
  /\ page \in 1..Len(sizes) + 1
  /\ document \in [Attachments -> {"scan"} \cup Output]

DeliveryInit ==
  /\ MailInit
  /\ OcrInit
  /\ wantsOcr = (sizes \in Recognizable)
  /\ page = 1
  /\ document = [k \in Attachments |-> "scan"]

-----------------------------------------------------------------------------
Recognizing == wantsOcr /\ page \in Attachments /\ stage = "start"

\* SearchablePDF runs for one document.
RunOcr == Recognizing /\ OcrNext /\ UNCHANGED <<sizes, largeScans, sendVars, graphVars, jobVars>>

\* ReplaceDocument: the searchable version takes the place of the document.
\* Whatever of its operations is still under way concerns nobody any more.
ReplaceDocument ==
  /\ Recognizing /\ ocr = "done"
  /\ \E size \in SearchableSizes : sizes' = [sizes EXCEPT ![page] = size]
  /\ document' = [document EXCEPT ![page] = output]
  /\ page' = page + 1
  /\ ocr' = "start" /\ operation' = 0 /\ output' = "none" /\ operations' = << >>
  /\ inFlight' = {m \in inFlight : m.request.kind \notin OcrKind}
  /\ UNCHANGED <<call, answer, cancelled, largeScans, sendVars, graphVars, wantsOcr, pause>>

\* Recognition failed, or its result could not be put in place: the job has.
OcrFails ==
  /\ Recognizing /\ ocr \in {"done", "failed"}
  /\ stage' = "failed"
  /\ UNCHANGED <<apiVars, sizes, largeScans, draft, next, upload, off, pos, graphVars, ocrVars,
                 jobVars>>

Deliver == ~Recognizing /\ MailNext /\ UNCHANGED <<ocrVars, jobVars>>

DeliveryNext == RunOcr \/ ReplaceDocument \/ OcrFails \/ Deliver

\* What the worker itself does.
Work ==
  \/ Recognizing /\ OcrClient /\ UNCHANGED <<sizes, largeScans, sendVars, graphVars, jobVars>>
  \/ ReplaceDocument
  \/ OcrFails
  \/ ~Recognizing /\ Client /\ UNCHANGED <<ocrVars, jobVars>>

\* context.WithTimeout(parent, jobTimeout)
Deadline == Cancel /\ UNCHANGED <<sizes, largeScans, sendVars, graphVars, ocrVars, jobVars>>

DeliverySpec ==
  /\ DeliveryInit /\ [][DeliveryNext]_deliveryVars
  /\ WF_deliveryVars(Work) /\ WF_deliveryVars(Deadline)

-----------------------------------------------------------------------------
(***************************************************************************)
(* Properties.                                                             *)
(***************************************************************************)

\* Nothing half-composed ever reaches the recipients (upload.go:56): whatever
\* went missing, came late or was answered wrongly, a message that went out has
\* every document of the job, whole, and as a searchable PDF where the text was
\* to be recognized, never as it was scanned.
MailedIsWhole ==
  \A content \in delivered :
     /\ content = Attachments \X {TRUE}
     /\ wantsOcr => \A k \in Attachments : document[k] = "pdf"

\* No wedged call owns a worker forever (pipeline.go:28).
JobEnds == <>(Outcome # "trying")
=============================================================================
