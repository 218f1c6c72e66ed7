------------------------------ MODULE MimeScan ------------------------------
(***************************************************************************)
(* From the bytes of a message to the answer of session.Data               *)
(* (internal/mimescan, internal/smtpin/session.go): the walk over the MIME *)
(* tree, the files it leaves, and what the printer is told.                *)
(*                                                                         *)
(* The message is not given beforehand: each step chooses what the walk    *)
(* finds next, so the runs cover every tree within the limits and the      *)
(* first step beyond each.  Parts are numbered in the order they come up,  *)
(* the message itself being 0.  What was just written to a file can be     *)
(* read back.  What happens to a reset transaction, and to the scan from   *)
(* Commit on, is the business of Appliance.                                *)
(***************************************************************************)
EXTENDS Naturals, Sequences, SequencesExt

CONSTANTS
  MaxParts,  \* maxParts
  MaxDepth,  \* maxDepth
  MaxPDFs    \* maxPDFs

ASSUME LimitsAssumption == {MaxParts, MaxDepth, MaxPDFs} \subseteq Nat \ {0}

VARIABLES
  at,         \* where Data is
  open,       \* the containers being walked, outermost first: the parts each has yielded
  parts,      \* e.parts
  plainText,  \* e.plainText
  pdfs,       \* e.pdfs: the parts taken for PDFs
  files,      \* the files on disk, each named by the part it came from
  readFailed, \* errReader.err # nil
  result,     \* what Extract returned
  reply,      \* what the printer is told
  sent,       \* history: the whole PDFs among the parts
  clues       \* history: what else the message gave away about itself

scanVars == <<at, open, parts, plainText, pdfs, files, readFailed, result, reply, sent, clues>>

\* About to look at an entity, in the loop of a container, back from Extract,
\* done.
Place == {"entity", "container", "extracted", "answered"}

Walking == at \in {"entity", "container"}

Result == {"none", "scan", "no_attachments", "no_pdf", "too_complex", "storage"}

\* 250 with a job or without one, or the refusals of extractError.
Reply == {"none", "scan", "dropped", "no_pdf", "too_complex", "internal", "read_error"}

Clue == {"declared", "document", "unreadable_header", "unreached_part", "unreadable_part"}

ScanTypeOK ==
  /\ at \in Place
  /\ open \in Seq(Nat) /\ Len(open) <= MaxDepth + 1
  /\ parts \in 0..MaxParts + 1
  /\ plainText \in BOOLEAN
  /\ pdfs \in Seq(Nat)
  /\ files \subseteq 0..MaxParts
  /\ readFailed \in BOOLEAN
  /\ result \in Result /\ reply \in Reply
  /\ sent \subseteq 0..MaxParts
  /\ clues \subseteq Clue

ScanInit ==
  /\ at = "entity" /\ open = << >> /\ parts = 0
  /\ plainText = TRUE
  /\ pdfs = << >> /\ files = {}
  /\ readFailed = FALSE
  /\ result = "none" /\ reply = "none"
  /\ sent = {} /\ clues = {}

-----------------------------------------------------------------------------
(***************************************************************************)
(* How a step of the walk ends.                                            *)
(***************************************************************************)

\* Extract returns an error, and takes back every file it kept.
ExtractFails(error) ==
  /\ at' = "extracted"
  /\ result' = error
  /\ files' = {}

\* Extract is through with the message.
ExtractEnds(taken, plain) ==
  /\ at' = "extracted"
  /\ result' = IF taken # << >> THEN "scan" ELSE IF plain THEN "no_attachments" ELSE "no_pdf"

\* walk returns nil, to the loop of the container around it if there is one.
WalkReturns(around, taken, plain) ==
  IF around = << >> THEN ExtractEnds(taken, plain)
  ELSE at' = "container" /\ UNCHANGED result

\* What of a part leaves the message plain text: nothing declared, a readable
\* type, and bytes that are no document's.
KeepsPlain(entity) == ~entity.declared /\ ~entity.garbled /\ ~entity.document

GivesAway(entity) ==
  {clue \in {"declared", "document", "unreadable_header", "unreadable_part"} :
     \/ clue = "declared" /\ entity.declared
     \/ clue = "document" /\ entity.document
     \/ clue = "unreadable_header" /\ entity.garbled
     \/ clue = "unreadable_part" /\ entity.reads = "breaks_early"}

-----------------------------------------------------------------------------
(***************************************************************************)
(* The walk.                                                               *)
(***************************************************************************)

\* declared: a file name, a disposition, or a type that is not text.  garbled:
\* a Content-Type that does not parse.  document: it starts with %PDF-.  reads:
\* to its end, with %%EOF there or without; or its decoding breaks, within
\* headBytes or after.
Entity == [declared : BOOLEAN, garbled : BOOLEAN, document : BOOLEAN,
           reads : {"whole", "cut", "breaks_early", "breaks_late"}]

TooDeep == Len(open) > MaxDepth

\* mail.ReadMessage cannot read the header of the message.
NoMessage ==
  /\ at = "entity" /\ open = << >>
  /\ ExtractFails("no_pdf")
  /\ UNCHANGED <<open, parts, plainText, pdfs, readFailed, reply, sent, clues>>

DeepEntity ==
  /\ at = "entity" /\ TooDeep
  /\ ExtractFails("too_complex")
  /\ UNCHANGED <<open, parts, plainText, pdfs, readFailed, reply, sent, clues>>

OpenContainer ==
  /\ at = "entity" /\ ~TooDeep
  /\ open' = Append(open, 0)
  /\ at' = "container"
  /\ UNCHANGED <<parts, plainText, pdfs, files, readFailed, result, reply, sent, clues>>

\* A container that names no boundary, or whose type does not parse that far.
UnopenedContainer ==
  /\ at = "entity" /\ ~TooDeep
  /\ plainText' = FALSE
  /\ clues' = clues \cup {"unreached_part"}
  /\ WalkReturns(open, pdfs, FALSE)
  /\ UNCHANGED <<open, parts, pdfs, files, readFailed, reply, sent>>

\* A leaf that yields no PDF: its head cannot be read, or is not one's.
SkipLeaf(entity) ==
  /\ entity.reads = "breaks_early" \/ ~entity.document
  /\ WalkReturns(open, pdfs, plainText')
  /\ UNCHANGED <<pdfs, files, sent>>

\* Wrong: the file stays.
LeaveFile == files' = files \cup {parts} /\ UNCHANGED pdfs

\* A document without an end, or whose decoding breaks on the way to it: the
\* file is removed again.
RejectFile == UNCHANGED <<files, pdfs>>

\* leaf from the limit on: the file is created and written, and kept if what it
\* holds is whole.
StoreLeaf(entity) ==
  /\ entity.reads # "breaks_early" /\ entity.document
  /\ sent' = IF entity.reads = "whole" THEN sent \cup {parts} ELSE sent
  /\ IF Len(pdfs) >= MaxPDFs
     THEN ExtractFails("too_complex") /\ UNCHANGED pdfs
     ELSE \/ ExtractFails("storage") /\ UNCHANGED pdfs
          \/ /\ IF entity.reads = "whole"
                THEN files' = files \cup {parts} /\ pdfs' = Append(pdfs, parts)
                ELSE RejectFile
             /\ WalkReturns(open, pdfs', plainText')

Leaf(entity) ==
  /\ at = "entity" /\ ~TooDeep
  /\ plainText' = (plainText /\ KeepsPlain(entity))
  /\ clues' = clues \cup GivesAway(entity)
  /\ SkipLeaf(entity) \/ StoreLeaf(entity)
  /\ UNCHANGED <<open, parts, readFailed, reply>>

\* NextPart yields one more.
NextPart ==
  /\ at = "container"
  /\ open' = [open EXCEPT ![Len(open)] = @ + 1]
  /\ parts' = parts + 1
  /\ IF parts' > MaxParts THEN ExtractFails("too_complex")
     ELSE at' = "entity" /\ UNCHANGED <<result, files>>
  /\ UNCHANGED <<plainText, pdfs, readFailed, reply, sent, clues>>

\* Wrong: a container without a part may be plain text.
SuspiciousIfCut(clean) == ~clean

\* A container that ends anywhere but at its closing boundary, or without
\* having yielded a part, was carrying something the walk never reached.
Suspicious(clean) == ~clean \/ Last(open) = 0

EndContainer(clean) ==
  /\ at = "container"
  /\ plainText' = (plainText /\ ~Suspicious(clean))
  /\ clues' = IF clean /\ Last(open) > 0 THEN clues ELSE clues \cup {"unreached_part"}
  /\ open' = Front(open)
  /\ WalkReturns(open', pdfs, plainText')
  /\ UNCHANGED <<parts, pdfs, files, readFailed, reply, sent>>

-----------------------------------------------------------------------------
(***************************************************************************)
(* Data around it.                                                         *)
(***************************************************************************)

\* Extract buffers what it reads, so an error of the connection, or the size
\* limit, may be recorded before the walk runs into it; and a message that is
\* about to be accepted is read to its end.
ReadFails ==
  /\ \/ Walking
     \/ at = "extracted" /\ result \in {"scan", "no_attachments"}
  /\ readFailed' = TRUE
  /\ UNCHANGED <<at, open, parts, plainText, pdfs, files, result, reply, sent, clues>>

\* What the error of Extract, or of the reader, earns (extractError).
Answer ==
  IF readFailed THEN "read_error"
  ELSE CASE result = "scan" -> "scan"
         [] result = "no_attachments" -> "dropped"
         [] result = "storage" -> "internal"
         [] OTHER -> result

\* The transaction is answered; whatever is not committed is aborted.
Respond ==
  /\ at = "extracted"
  /\ reply' = Answer
  /\ files' = IF reply' = "scan" THEN files ELSE {}
  /\ at' = "answered"
  /\ UNCHANGED <<open, parts, plainText, pdfs, readFailed, result, sent, clues>>

\* Up to the answer.
ScanWalk ==
  \/ NoMessage \/ DeepEntity \/ OpenContainer \/ UnopenedContainer
  \/ \E entity \in Entity : Leaf(entity)
  \/ NextPart
  \/ \E clean \in BOOLEAN : EndContainer(clean)
  \/ ReadFails

ScanNext == ScanWalk \/ Respond

ScanSpec == ScanInit /\ [][ScanNext]_scanVars

-----------------------------------------------------------------------------
(***************************************************************************)
(* Properties.                                                             *)
(***************************************************************************)

\* A message that is accepted and dropped as a connection test was read to its
\* end and hid nothing: no part was declared as a file or began like a
\* document, no header was unreadable, and no container ended early.
DroppedHadNothing ==
  reply = "dropped" => ~readFailed /\ clues \subseteq {"unreadable_part"}

\* The scan that is kept is what was sent: when Extract succeeds the files are
\* those of all whole PDFs the walk met, in their order and no others, and when
\* it fails none is left.  A message whose reading failed at any point is never
\* accepted.
KeptIsWhatWasSent ==
  /\ at = "extracted" =>
       IF result = "scan" THEN files = sent /\ ToSet(pdfs) = sent
       ELSE files = {}
  /\ \A k, n \in DOMAIN pdfs : k < n => pdfs[k] < pdfs[n]
  /\ reply = "scan" => files = sent /\ ~readFailed

\* mimescan.go:48-53: ErrNoAttachments is "a message that was plain text
\* throughout and understood completely"; "anything this package could not
\* fully read" gets ErrNoPDF.
UnreadableIsRefused ==
  reply = "dropped" => "unreadable_part" \notin clues
=============================================================================
