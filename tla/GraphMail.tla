------------------------------ MODULE GraphMail ------------------------------
(***************************************************************************)
(* Sending one message through Microsoft Graph (internal/graphmail): in    *)
(* one sendMail request if it fits, otherwise as a draft whose attachments *)
(* are posted or uploaded in chunks.  Graph keeps a mailbox; it handles    *)
(* any request that ever reached the network, at any time, and answers     *)
(* what it likes.                                                          *)
(*                                                                         *)
(* Sizes are in quarters of a MiB.  The headers of a message and the line  *)
(* breaks of its base64 stand for one of them.                             *)
(***************************************************************************)
EXTENDS MsApi, ByteSum, Sequences

CONSTANTS
  Messages,            \* the messages to send: the sizes of their attachments
  MaxGraphMessage,     \* maxGraphMessageBytes
  MaxAttachment,       \* MaxAttachmentBytes
  Floor,               \* graphAttachmentFloorBytes
  ChunkSize,           \* uploadChunkBytes
  Overhead             \* what the text and the headers of a message cost

ASSUME MailAssumption ==
  /\ Messages \subseteq Seq(Nat \ {0})
  /\ {MaxGraphMessage, MaxAttachment, Floor, ChunkSize} \subseteq Nat \ {0}
  /\ ChunkSize < MaxGraphMessage
  /\ Overhead \in Nat

VARIABLES
  sizes,       \* the attachments of the message
  largeScans,  \* LargeScans
  stage,       \* where Send is
  draft,       \* id in sendLarge
  next,        \* the attachment attach is busy with
  upload,      \* session.UploadURL
  off, pos,    \* the offset in attach, and how far its file has been read
  drafts,      \* Graph: the drafts made, each with what is attached to it
  sessions,    \* Graph: the upload sessions made
  delivered    \* Graph: what went out to the recipients

sendVars == <<stage, draft, next, upload, off, pos>>
graphVars == <<drafts, sessions, delivered>>
mailVars == <<apiVars, sizes, largeScans, sendVars, graphVars>>

Stage == {"start", "mail", "draft", "attach", "attaching", "session", "chunk", "uploading",
          "send", "ok", "too large", "failed"}

Attachments == DOMAIN sizes
AttachedBytes == Total(sizes)

\* What the recipients see of an attachment: which, and whether it is whole.
Attached == Nat \X BOOLEAN

\* One record for every request: from, to and read are the range a chunk
\* claims to be and where in the file its bytes come from.
MailKind == {"sendMail", "draft", "attach", "session", "chunk", "send"}
Request == [kind : MailKind, id : Nat, k : Nat, from : Nat, to : Nat,
            read : Nat]

Asks(kind, id, k) == [kind |-> kind, id |-> id, k |-> k, from |-> 0, to |-> 0, read |-> 0]

MailTypeOK ==
  /\ sizes \in Seq(Nat \ {0}) /\ largeScans \in BOOLEAN
  /\ stage \in Stage
  /\ {draft, next, upload, off, pos} \subseteq Nat
  /\ drafts \in Seq([attached : SUBSET Attached, sent : BOOLEAN])
  /\ sessions \in Seq([draft : DOMAIN drafts, k : Attachments, next : Nat, intact : BOOLEAN,
                       open : BOOLEAN])
  /\ delivered \subseteq SUBSET Attached

MailInit ==
  /\ ApiInit
  /\ sizes \in Messages
  /\ largeScans \in BOOLEAN
  /\ stage = "start"
  /\ draft = 0 /\ next = 0 /\ upload = 0 /\ off = 0 /\ pos = 0
  /\ drafts = << >> /\ sessions = << >> /\ delivered = {}

-----------------------------------------------------------------------------
(***************************************************************************)
(* The client.                                                             *)
(***************************************************************************)

\* base64 in base64: both rounds lengthen the message by a third.
Encoded(n) == (n * 16 + 8) \div 9

\* Wrong: the composed size is not looked at.
FitsByEstimate == AttachedBytes <= MaxAttachment

\* Send's two looks at the size: the files', and the composed message's.
Fits == AttachedBytes <= MaxAttachment /\ Encoded(AttachedBytes + Overhead) <= MaxGraphMessage

\* Send, up to its first request or its refusal.
Send ==
  /\ stage = "start"
  /\ \/ /\ Fits
        /\ Do(Asks("sendMail", 0, 0))
        /\ stage' = "mail"
     \/ /\ ~Fits /\ largeScans
        /\ Do(Asks("draft", 0, 0))
        /\ stage' = "draft"
     \/ /\ ~Fits /\ ~largeScans
        /\ stage' = "too large"
        /\ UNCHANGED apiVars
  /\ UNCHANGED <<sizes, largeScans, draft, next, upload, off, pos, graphVars>>

\* An attachment that cannot be opened or read, before anything was asked or
\* between two requests.
CannotRead ==
  /\ stage \in {"start", "attach", "chunk"}
  /\ stage = "attach" => next \in Attachments
  /\ stage = "chunk" => off < sizes[next]
  /\ stage = "start" => Attachments # {}
  /\ stage' = "failed"
  /\ UNCHANGED <<apiVars, sizes, largeScans, draft, next, upload, off, pos, graphVars>>

\* Waiting for the outcome of a request.
Asking == {"mail", "draft", "attaching", "session", "uploading", "send"}

\* postJSON can read what it needs of the response; an empty id of a draft goes
\* unnoticed, an empty upload URL does not.
Usable ==
  /\ stage \in {"draft", "session"} => call.reply.says # "garbled"
  /\ stage = "session" => call.reply.id # 0

\* Do gave up, or what it brought cannot be used.
Fails ==
  /\ stage \in Asking
  /\ call.state = "failed" \/ (call.state = "ok" /\ ~Usable)
  /\ stage' = "failed"
  /\ Settle
  /\ UNCHANGED <<sizes, largeScans, draft, next, upload, off, pos, graphVars>>

\* post and sendLarge return.
Succeeds ==
  /\ stage \in {"mail", "send"} /\ call.state = "ok"
  /\ stage' = "ok"
  /\ Settle
  /\ UNCHANGED <<sizes, largeScans, draft, next, upload, off, pos, graphVars>>

\* createDraft returns the id of the draft.
HasDraft ==
  /\ stage = "draft" /\ call.state = "ok" /\ Usable
  /\ draft' = call.reply.id
  /\ next' = 1
  /\ stage' = "attach"
  /\ Settle
  /\ UNCHANGED <<sizes, largeScans, upload, off, pos, graphVars>>

\* attach opens the next file: one request carries it whole, or a session is
\* opened for it.  After the last one, the draft is sent.
Attach ==
  /\ stage = "attach"
  /\ \/ /\ next \in Attachments /\ sizes[next] < Floor
        /\ Do(Asks("attach", draft, next))
        /\ stage' = "attaching"
     \/ /\ next \in Attachments /\ sizes[next] >= Floor
        /\ Do(Asks("session", draft, next))
        /\ stage' = "session"
     \/ /\ next \notin Attachments
        /\ Do(Asks("send", draft, 0))
        /\ stage' = "send"
  /\ UNCHANGED <<sizes, largeScans, draft, next, upload, off, pos, graphVars>>

NextAttachment == next' = next + 1 /\ stage' = "attach"

HasAttached ==
  /\ stage = "attaching" /\ call.state = "ok"
  /\ NextAttachment
  /\ Settle
  /\ UNCHANGED <<sizes, largeScans, draft, upload, off, pos, graphVars>>

\* The session is there; its file has not been read yet.
HasSession ==
  /\ stage = "session" /\ call.state = "ok" /\ Usable
  /\ upload' = call.reply.id
  /\ off' = 0 /\ pos' = 0
  /\ stage' = "chunk"
  /\ Settle
  /\ UNCHANGED <<sizes, largeScans, draft, next, graphVars>>

\* The next chunk is read from the file and put; or there is none left.
PutChunk ==
  /\ stage = "chunk"
  /\ \/ /\ off < sizes[next]
        /\ LET n == Min({ChunkSize, sizes[next] - off})
           IN  /\ pos' = pos + n
               /\ Do([kind |-> "chunk", id |-> upload, k |-> next,
                      from |-> off, to |-> off + n, read |-> pos])
        /\ stage' = "uploading"
        /\ UNCHANGED next
     \/ /\ off >= sizes[next]
        /\ NextAttachment
        /\ UNCHANGED <<apiVars, pos>>
  /\ UNCHANGED <<sizes, largeScans, draft, upload, off, graphVars>>

HasPutChunk ==
  /\ stage = "uploading" /\ call.state = "ok"
  /\ off' = call.request.to
  /\ stage' = "chunk"
  /\ Settle
  /\ UNCHANGED <<sizes, largeScans, draft, next, upload, pos, graphVars>>

MailStep ==
  \/ Send \/ CannotRead \/ Fails \/ Succeeds \/ HasDraft \/ Attach
  \/ HasAttached \/ HasSession \/ PutChunk \/ HasPutChunk

-----------------------------------------------------------------------------
(***************************************************************************)
(* Graph.                                                                  *)
(***************************************************************************)
Unsent(d) == d \in DOMAIN drafts /\ ~drafts[d].sent

AttachTo(d, k, whole) == drafts' = [drafts EXCEPT ![d].attached = @ \cup {<<k, whole>>}]

SendsMail(r) ==
  /\ r.kind = "sendMail"
  /\ delivered' = delivered \cup {Attachments \X {TRUE}}
  /\ UNCHANGED <<drafts, sessions>>

MakesDraft(r) ==
  /\ r.kind = "draft"
  /\ drafts' = Append(drafts, [attached |-> {}, sent |-> FALSE])
  /\ UNCHANGED <<sessions, delivered>>

TakesAttachment(r) ==
  /\ r.kind = "attach" /\ Unsent(r.id)
  /\ AttachTo(r.id, r.k, TRUE)
  /\ UNCHANGED <<sessions, delivered>>

OpensSession(r) ==
  /\ r.kind = "session" /\ Unsent(r.id)
  /\ sessions' = Append(sessions, [draft |-> r.id, k |-> r.k, next |-> 0, intact |-> TRUE,
                                   open |-> TRUE])
  /\ UNCHANGED <<drafts, delivered>>

\* A session takes the range it expects; the last one completes the attachment.
TakesChunk(r) ==
  /\ r.kind = "chunk"
  /\ LET s == sessions[r.id]
         intact == s.intact /\ r.read = r.from
         last == r.to = sizes[s.k]
     IN  /\ s.open /\ Unsent(s.draft) /\ r.from = s.next
         /\ sessions' = [sessions EXCEPT ![r.id] = [s EXCEPT !.next = r.to, !.intact = intact,
                                                            !.open = ~last]]
         /\ IF last THEN AttachTo(s.draft, s.k, intact) ELSE UNCHANGED drafts
  /\ UNCHANGED delivered

SendsDraft(r) ==
  /\ r.kind = "send" /\ Unsent(r.id)
  /\ drafts' = [drafts EXCEPT ![r.id].sent = TRUE]
  /\ delivered' = delivered \cup {drafts[r.id].attached}
  /\ UNCHANGED sessions

Grants(r) ==
  \/ SendsMail(r) \/ MakesDraft(r) \/ TakesAttachment(r)
  \/ OpensSession(r) \/ TakesChunk(r) \/ SendsDraft(r)

\* The id of what a request has just made.
Made(r) == IF r.kind = "draft" THEN Len(drafts') ELSE IF r.kind = "session" THEN Len(sessions') ELSE 0

\* Graph does what it is asked and says so, if need be without the name or not
\* readably; or an overloaded front end reports an error all the same.
Grant(m) ==
  /\ Grants(m.request)
  /\ \/ \E id \in {Made(m.request), 0} : AnswerTo(m, Reply("2xx", NoHeader, id, ""))
     \/ AnswerTo(m, Reply("2xx", NoHeader, 0, "garbled"))
     \/ AnswerTo(m, Denial("5xx", NoHeader))
  /\ UNCHANGED <<sizes, largeScans, sendVars>>

\* A chunk the session has already: done before, says Graph.
Acknowledge(m) ==
  /\ m.request.kind = "chunk" /\ sessions[m.request.id].next >= m.request.to
  /\ AnswerTo(m, Reply("2xx", NoHeader, 0, ""))
  /\ UNCHANGED <<sizes, largeScans, sendVars, graphVars>>

\* Graph does nothing, for whatever reason.
Deny(m) ==
  /\ \/ \E status \in {"3xx", "4xx"} : AnswerTo(m, Denial(status, NoHeader))
     \/ \E status \in {"429", "5xx"}, header \in Headers : AnswerTo(m, Denial(status, header))
  /\ UNCHANGED <<sizes, largeScans, sendVars, graphVars>>

Serve(m) == Grant(m) \/ Acknowledge(m) \/ Deny(m)

-----------------------------------------------------------------------------
Client == MailStep \/ (ApiStep /\ UNCHANGED <<sizes, largeScans, sendVars, graphVars>>)

MailNext ==
  \/ Client
  \/ Cancel /\ UNCHANGED <<sizes, largeScans, sendVars, graphVars>>
  \/ \E m \in inFlight : m.request.kind \in MailKind /\ Serve(m)

MailSpec == MailInit /\ [][MailNext]_mailVars /\ WF_mailVars(Client)

-----------------------------------------------------------------------------
(***************************************************************************)
(* Properties.                                                             *)
(***************************************************************************)

Outcome == IF stage \in {"ok", "too large", "failed"} THEN stage ELSE "trying"

Promise == INSTANCE MailPromise WITH outcome <- Outcome, mailed <- delivered # {}

\* Send keeps what it promises the pipeline (MailPromise).
KeepsPromise == Promise!PromiseSpec

\* The requests Graph turns down for their size, or the token for want of
\* Mail.ReadWrite, are never made.
AsksWhatGraphTakes ==
  \A r \in {m.request : m \in inFlight} :
     r.kind \in MailKind =>
         CASE r.kind = "sendMail" -> Encoded(AttachedBytes + Overhead) <= MaxGraphMessage
           [] r.kind = "attach" -> largeScans /\ sizes[r.k] < Floor
           [] r.kind = "session" -> largeScans /\ sizes[r.k] >= Floor
           [] r.kind = "chunk" -> largeScans /\ r.to - r.from < MaxGraphMessage /\ r.from < r.to
           [] OTHER -> largeScans
=============================================================================
