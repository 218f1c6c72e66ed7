------------------------------ MODULE DocIntel ------------------------------
(***************************************************************************)
(* Recognizing the text of one document with Document Intelligence         *)
(* (internal/docintel): the document is submitted, the operation that the  *)
(* service made of it is polled, and its result fetched.                   *)
(***************************************************************************)
EXTENDS MsApi, Sequences

CONSTANT PollInterval   \* pollInterval

ASSUME DocIntelAssumption == PollInterval \in BaseBackoff..MaxWait

VARIABLES
  ocr,         \* where SearchablePDF is
  operation,   \* opLoc
  pause,       \* the wait between two polls
  output,      \* what was written to the file the result goes to
  operations   \* the service: what became of the operations it made

ocrVars == <<ocr, operation, pause, output, operations>>
ocrClientVars == <<operation, pause, output, operations>>

OcrKind == {"analyze", "status", "result"}
OcrRequest == [kind : OcrKind, id : Nat]
OcrSays == {"", "garbled", "elsewhere", "running", "succeeded", "failed", "pdf", "cut", "page"}

OcrStage == {"start", "analyze", "poll", "status", "pause", "fetch", "result", "done", "failed"}

\* The file is empty, holds a whole PDF, or the beginning of one.
Output == {"none", "pdf", "cut", "page"}

OcrTypeOK ==
  /\ ocr \in OcrStage
  /\ operation \in 0..Len(operations)
  /\ pause \in {0} \cup BaseBackoff..MaxWait
  /\ output \in Output
  /\ operations \in Seq({"running", "succeeded", "failed"})

OcrInit ==
  /\ ocr = "start" /\ operation = 0 /\ pause = 0 /\ output = "none"
  /\ operations = << >>

-----------------------------------------------------------------------------
(***************************************************************************)
(* The client.                                                             *)
(***************************************************************************)

\* The document, or the file for the result, cannot be opened.
CannotOpen ==
  /\ ocr = "start"
  /\ ocr' = "failed"
  /\ UNCHANGED <<apiVars, ocrClientVars>>

\* Every attempt submits the document from its start.
Analyze ==
  /\ ocr = "start"
  /\ Do([kind |-> "analyze", id |-> 0])
  /\ ocr' = "analyze"
  /\ UNCHANGED ocrClientVars

\* Do gave up.
OcrGivesUp ==
  /\ ocr \in {"analyze", "status", "result"} /\ call.state = "failed"
  /\ ocr' = "failed"
  /\ Settle
  /\ UNCHANGED ocrClientVars

\* Operation-Location is there, and at the configured endpoint.
Analyzed ==
  /\ ocr = "analyze" /\ call.state = "ok"
  /\ IF call.reply.id # 0 /\ call.reply.says # "elsewhere"
     THEN ocr' = "poll" /\ operation' = call.reply.id
     ELSE ocr' = "failed" /\ UNCHANGED operation
  /\ Settle
  /\ UNCHANGED <<pause, output, operations>>

Poll ==
  /\ ocr = "poll"
  /\ Do([kind |-> "status", id |-> operation])
  /\ ocr' = "status"
  /\ UNCHANGED ocrClientVars

\* One look at the operation: it is over, well or not, or there is a pause.
Polled ==
  /\ ocr = "status" /\ call.state = "ok"
  /\ \/ /\ call.reply.says = "succeeded"
        /\ ocr' = "fetch" /\ UNCHANGED pause
     \/ /\ call.reply.says \in {"failed", "garbled"}
        /\ ocr' = "failed" /\ UNCHANGED pause
     \/ /\ call.reply.says = "running"
        /\ ocr' = "pause" /\ pause' = RetryAfter(call.reply.header, PollInterval)
  /\ Settle
  /\ UNCHANGED <<operation, output, operations>>

\* Wrong: the polls go on whatever the context says.
PollRegardless ==
  /\ ocr = "pause"
  /\ pause' = 0
  /\ ocr' = "poll"
  /\ UNCHANGED <<apiVars, operation, output, operations>>

\* The pause is over, or cut short.
Paused ==
  /\ ocr = "pause"
  /\ pause' = 0
  /\ ocr' = IF cancelled THEN "failed" ELSE "poll"
  /\ UNCHANGED <<apiVars, operation, output, operations>>

Fetch ==
  /\ ocr = "fetch"
  /\ Do([kind |-> "result", id |-> operation])
  /\ ocr' = "result"
  /\ UNCHANGED ocrClientVars

\* What does not begin like a PDF is not even written; what breaks off is an
\* error, although its beginning is in the file.
Fetched ==
  /\ ocr = "result" /\ call.state = "ok"
  /\ output' = IF call.reply.says \in {"pdf", "cut"} THEN call.reply.says ELSE output
  /\ ocr' = IF call.reply.says = "pdf" THEN "done" ELSE "failed"
  /\ Settle
  /\ UNCHANGED <<operation, pause, operations>>

OcrStep ==
  \/ CannotOpen \/ Analyze \/ OcrGivesUp \/ Analyzed \/ Poll \/ Polled \/ Paused
  \/ Fetch \/ Fetched

-----------------------------------------------------------------------------
(***************************************************************************)
(* Document Intelligence.                                                  *)
(***************************************************************************)
ServeAnalyze(m) ==
  /\ m.request.kind = "analyze"
  /\ operations' = Append(operations, "running")
  /\ \/ \E id \in {0, Len(operations')} : AnswerTo(m, Reply("2xx", NoHeader, id, ""))
     \/ AnswerTo(m, Reply("2xx", NoHeader, Len(operations'), "elsewhere"))
     \/ AnswerTo(m, Denial("5xx", NoHeader))

ServeStatus(m) ==
  /\ m.request.kind = "status"
  /\ \/ \E header \in Headers :
          AnswerTo(m, Reply("2xx", header, 0, operations[m.request.id]))
     \/ AnswerTo(m, Reply("2xx", NoHeader, 0, "garbled"))
  /\ UNCHANGED operations

ServeResult(m) ==
  /\ m.request.kind = "result" /\ operations[m.request.id] = "succeeded"
  /\ \E says \in {"pdf", "cut", "page"} : AnswerTo(m, Reply("2xx", NoHeader, 0, says))
  /\ UNCHANGED operations

Rejects(m) ==
  /\ \/ \E status \in {"3xx", "4xx"} : AnswerTo(m, Denial(status, NoHeader))
     \/ \E status \in {"429", "5xx"}, header \in Headers : AnswerTo(m, Denial(status, header))
  /\ UNCHANGED operations

\* An operation comes to an end.
Operate ==
  /\ \E i \in DOMAIN operations, result \in {"succeeded", "failed"} :
        operations[i] = "running" /\ operations' = [operations EXCEPT ![i] = result]
  /\ UNCHANGED apiVars

OcrService ==
  /\ \/ \E m \in inFlight : 
          m.request.kind \in OcrKind
            /\ (ServeAnalyze(m) \/ ServeStatus(m) \/ ServeResult(m) \/ Rejects(m))
     \/ Operate
  /\ UNCHANGED <<ocr, operation, pause, output>>

OcrClient == OcrStep \/ (ApiStep /\ UNCHANGED ocrVars)

OcrNext == OcrClient \/ OcrService \/ (Cancel /\ UNCHANGED ocrVars)

OcrSpec == OcrInit /\ ApiInit /\ [][OcrNext]_<<apiVars, ocrVars>>
=============================================================================
