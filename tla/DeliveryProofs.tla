--------------------------- MODULE DeliveryProofs ---------------------------
(***************************************************************************)
(* Proofs about Delivery: what is asked, what may be concluded from an     *)
(* answer, and that what goes out is whole.                                *)
(***************************************************************************)
EXTENDS Delivery, TLAPS

-----------------------------------------------------------------------------
(***************************************************************************)
(* The inductive invariant.                                                *)
(***************************************************************************)

\* The draft holds attachment k, whole.
Held(k) == draft \in DOMAIN drafts /\ <<k, TRUE>> \in drafts[draft].attached

\* The recognition of the text is behind the job, or never was before it.
Recognized == wantsOcr => page \notin Attachments

\* What is true of a request from when it is made until the service is done
\* with it, however late that is.
AttachAsked(r) == r.id = draft /\ r.k \in Attachments /\ sizes[r.k] < Floor
SessionAsked(r) == r.id = draft /\ r.k \in Attachments /\ sizes[r.k] >= Floor
SendAsked(r) == r.id = draft /\ \A k \in Attachments : Held(k)
ChunkAsked(r) ==
  /\ r.id \in DOMAIN sessions /\ r.k = sessions[r.id].k
  /\ r.read = r.from /\ r.from < r.to /\ r.to <= sizes[r.k]
  /\ r.to - r.from < MaxGraphMessage

MailAsked(r) ==
  /\ Recognized /\ stage \notin {"start", "too large"}
  /\ r.kind = "sendMail" => Encoded(AttachedBytes + Overhead) <= MaxGraphMessage
  /\ r.kind # "sendMail" => largeScans
  /\ r.kind \notin {"sendMail", "draft"} => stage # "draft"
  /\ r.kind = "attach" => AttachAsked(r)
  /\ r.kind = "session" => SessionAsked(r)
  /\ r.kind = "chunk" => ChunkAsked(r)
  /\ r.kind = "send" => SendAsked(r)

Asked(r) ==
  /\ r \in Request \cup OcrRequest
  /\ r.kind \in MailKind => MailAsked(r)
  /\ r.kind \in {"status", "result"} => r.id \in DOMAIN operations

\* What a success says of the service, at any time after it was given.
Meant(r, reply) ==
  reply.status = "2xx" =>
    /\ r.kind \in {"sendMail", "send"} => delivered # {}
    /\ r.kind = "draft" /\ reply.id # 0 => reply.id \in DOMAIN drafts
    /\ r.kind = "attach" => Held(r.k)
    /\ r.kind = "session" /\ reply.id # 0 =>
          reply.id \in DOMAIN sessions /\ sessions[reply.id].k = r.k
    /\ r.kind = "chunk" => sessions[r.id].next >= r.to
    /\ r.kind = "analyze" /\ reply.id # 0 => reply.id \in DOMAIN operations

\* The requests somebody is still busy with, and the answers the client has yet
\* to act on, each with what it answers.
Outstanding == {m.request : m \in inFlight} \cup {r \in {call.request} : call.state # "idle"}

Answered ==
  {x \in {<<call.request, answer>>} : call.state = "sent" /\ answer # None}
    \cup {x \in {<<call.request, call.reply>>} : call.state = "ok"}

CallInv ==
  /\ \A r \in Outstanding : Asked(r)
  /\ \A x \in Answered : Meant(x[1], x[2])
  /\ call.state # "idle" => call.attempt >= 1
  /\ call.state = "waiting" => call.attempt < MaxAttempts
  /\ call.state = "ok" => call.reply \in Replies(OcrSays) /\ call.reply.status = "2xx"

\* What the mailbox holds of this job.
DraftsInv == \A d \in DOMAIN drafts : drafts[d].attached \subseteq Attachments \X {TRUE}

SessionsInv ==
  \A i \in DOMAIN sessions :
     /\ sessions[i].draft = draft /\ sessions[i].intact
     /\ stage \notin {"start", "draft"}
     /\ sessions[i].next >= sizes[sessions[i].k] => Held(sessions[i].k)

DeliveredInv == delivered # {} => Recognized /\ stage \notin {"start", "too large"}

\* Where Send is: which request it waits for, and what it has achieved.
Attaching == {"attaching", "session", "chunk", "uploading"}

StageInv ==
  /\ stage \in Asking => call.state # "idle"
  /\ stage \notin {"start", "failed"} => Recognized
  /\ stage = "mail" => call.request.kind = "sendMail"
  /\ stage = "draft" => call.request.kind = "draft" /\ largeScans
  /\ stage = "attaching" => call.request.kind = "attach" /\ call.request.k = next
  /\ stage = "session" => call.request.kind = "session" /\ call.request.k = next
  /\ stage = "uploading" => call.request.kind = "chunk" /\ call.request.id = upload
                              /\ call.request.k = next /\ call.request.to = pos
  /\ stage = "send" => call.request.kind = "send"
  /\ stage \in {"attach"} \cup Attaching =>
        /\ largeScans /\ next \in 1..Len(sizes) + 1
        /\ \A k \in 1..next - 1 : Held(k)
  /\ stage \in Attaching => next \in Attachments
  /\ stage \in {"chunk", "uploading"} => upload \in DOMAIN sessions /\ sessions[upload].k = next
  /\ stage = "chunk" => pos = off /\ sessions[upload].next >= off

\* Where SearchablePDF is.
OcrAsking == {"analyze", "status", "result"}

OcrInv ==
  /\ ocr \in OcrAsking => call.state # "idle" /\ call.request.kind = ocr
  /\ ocr # "start" => wantsOcr /\ page \in Attachments /\ stage \in {"start", "failed"}
  /\ ocr \in OcrAsking \cup {"poll", "pause", "fetch"} => stage = "start"
  /\ ocr \in {"poll", "pause", "fetch"} => operation \in DOMAIN operations
  /\ ocr \in {"status", "result"} => operation \in DOMAIN operations
  /\ ocr = "done" => output = "pdf"
  /\ wantsOcr => \A k \in Attachments : k < page => document[k] = "pdf"
  /\ stage \notin Asking /\ ocr \notin OcrAsking => call.state = "idle"

DeliveryInv ==
  /\ DeliveryTypeOK
  /\ CallInv
  /\ DraftsInv /\ SessionsInv /\ DeliveredInv
  /\ StageInv /\ OcrInv
  /\ MailedIsWhole

-----------------------------------------------------------------------------
(***************************************************************************)
(* The waits, and the types of the retry loop.                             *)
(***************************************************************************)
Waits == BaseBackoff..MaxWait

\* The smaller and the larger of two numbers.
LEMMA TwoNumbers ==
  ASSUME NEW a \in Int, NEW b \in Int
  PROVE  /\ Min({a, b}) = IF a <= b THEN a ELSE b
         /\ Max({a, b}) = IF a >= b THEN a ELSE b
<1>1. Min({a, b}) = IF a <= b THEN a ELSE b
  <2>1. \E x \in {a, b} : \A y \in {a, b} : x =< y
    OBVIOUS
  <2>2. Min({a, b}) \in {a, b} /\ \A y \in {a, b} : Min({a, b}) =< y
    BY <2>1 DEF Min
  <2> QED BY <2>2
<1>2. Max({a, b}) = IF a >= b THEN a ELSE b
  <2>1. \E x \in {a, b} : \A y \in {a, b} : x >= y
    OBVIOUS
  <2>2. Max({a, b}) \in {a, b} /\ \A y \in {a, b} : Max({a, b}) >= y
    BY <2>1 DEF Max
  <2> QED BY <2>2
<1> QED BY <1>1, <1>2

\* Whatever is clamped is a wait.
LEMMA ClampBounds ==
  ASSUME NEW d \in Int
  PROVE  Clamp(d) \in Waits
<1> DEFINE low == Max({d, BaseBackoff})
<1>1. BaseBackoff \in Int /\ MaxWait \in Int /\ BaseBackoff <= MaxWait
  BY ApiAssumption
<1>2. low \in Int /\ low >= BaseBackoff
  <2>1. low = IF d >= BaseBackoff THEN d ELSE BaseBackoff
    BY <1>1, TwoNumbers
  <2> QED BY <2>1, <1>1
<1> HIDE DEF low
<1>3. Min({low, MaxWait}) \in Waits
  BY <1>1, <1>2, TwoNumbers DEF Waits
<1> QED BY <1>3 DEF Clamp, low

\* The wait after an attempt doubles, up to the most.
LEMMA BackoffBounds ==
  ASSUME NEW n \in 1..MaxAttempts
  PROVE  Backoff(n) \in Waits
<1> DEFINE p == 2 ^ (n - 1)
<1>1. BaseBackoff \in Nat \ {0} /\ MaxWait \in Nat /\ BaseBackoff <= MaxWait
  BY ApiAssumption
<1>2. p \in Nat \ {0}
  <2>1. n - 1 \in 0..MaxAttempts
    BY ApiAssumption
  <2> QED BY <2>1, PowersAssumption
<1> HIDE DEF p
<1>3. BaseBackoff * p \in Int /\ BaseBackoff * p >= BaseBackoff
  BY <1>1, <1>2
<1>4. Min({BaseBackoff * p, MaxWait}) \in Waits
  BY <1>1, <1>3, TwoNumbers DEF Waits
<1> QED BY <1>4 DEF Backoff, p

\* However many seconds a service names, what is waited is bounded on both sides.
LEMMA RetryAfterBounds ==
  ASSUME NEW header \in Headers, NEW fallback \in Waits
  PROVE  RetryAfter(header, fallback) \in Waits
<1>1. header.value \in Int
  BY ApiAssumption
<1>2. Signed(header.value * Second) \in Int
  <2>1. 2 ^ (Width - 1) \in Int /\ 2 ^ Width \in Nat \ {0}
    <3>1. Width - 1 \in 0..MaxAttempts \cup {Width - 1, Width}
      OBVIOUS
    <3>2. Width \in 0..MaxAttempts \cup {Width - 1, Width}
      OBVIOUS
    <3>3. 2 ^ (Width - 1) \in Nat \ {0}
      BY <3>1, PowersAssumption
    <3>4. 2 ^ Width \in Nat \ {0}
      BY <3>2, PowersAssumption
    <3> QED BY <3>3, <3>4
  <2>2. header.value * Second \in Int
    BY <1>1, ApiAssumption
  <2> DEFINE h == header.value * Second  p == 2 ^ (Width - 1)  q == 2 ^ Width
  <2> HIDE DEF h, p, q
  <2>3. ((h + p) % q) - p \in Int
    BY <2>1, <2>2 DEF h, p, q
  <2> QED BY <2>3 DEF Signed, h, p, q
<1> QED BY <1>1, <1>2, ClampBounds DEF RetryAfter

-----------------------------------------------------------------------------
(***************************************************************************)
(* The types of the retry loop, whoever uses it.                           *)
(***************************************************************************)
Requests == Request \cup OcrRequest

CallType ==
  [state : CallState, request : Requests \cup {None}, attempt : 0..MaxAttempts,
   wait : {0} \cup BaseBackoff..MaxWait, reply : Replies(OcrSays) \cup {None}]

LEMMA AttemptTypes ==
  ASSUME ApiTypeOK(Requests, OcrSays), NEW r \in Requests, NEW n \in 1..MaxAttempts,
         Attempt(r, n)
  PROVE  ApiTypeOK(Requests, OcrSays)'
<1>1. MaxAttempts \in Nat
  BY ApiAssumption
<1> USE DEF ApiTypeOK, Attempt
<1>2. call' = [state |-> "sent", request |-> r, attempt |-> n, wait |-> 0, reply |-> None]
  BY DEF Idle
<1>4. call' \in CallType
  BY <1>1, <1>2 DEF CallType, CallState
<1>3. inFlight' \subseteq [request : Requests, attempt : 1..MaxAttempts]
  OBVIOUS
<1> QED BY <1>3, <1>4 DEF CallType

LEMMA SettleTypes ==
  ASSUME ApiTypeOK(Requests, OcrSays), Settle
  PROVE  ApiTypeOK(Requests, OcrSays)'
BY ApiAssumption DEF ApiTypeOK, Settle, Idle, CallState

LEMMA AnswerTypes ==
  ASSUME ApiTypeOK(Requests, OcrSays), NEW m, NEW reply \in Replies(OcrSays), AnswerTo(m, reply)
  PROVE  ApiTypeOK(Requests, OcrSays)'
BY DEF ApiTypeOK, AnswerTo

LEMMA RetryTypes ==
  ASSUME call \in CallType, NEW w \in Waits, Retry(w), call.state = "sent"
  PROVE  /\ call' \in CallType
         /\ call'.request = call.request /\ call'.attempt = call.attempt
         /\ call'.state \in {"waiting", "failed"}
         /\ call'.state = "waiting" => call.attempt < MaxAttempts
<1>1. MaxAttempts \in Nat
  BY ApiAssumption
<1>2. CASE call' = [call EXCEPT !.state = "failed"]
  BY <1>1, <1>2 DEF CallType, CallState
<1>3. CASE call.attempt # MaxAttempts /\ call' = [call EXCEPT !.state = "waiting", !.wait = w]
  <2>1. call.attempt < MaxAttempts
    BY <1>1, <1>3 DEF CallType
  <2>2. call' \in CallType
    BY <1>3 DEF CallType, CallState, Waits
  <2> QED BY <1>3, <2>1, <2>2 DEF CallType
<1> QED BY <1>2, <1>3 DEF Retry

\* What a step of the loop leaves as it was, and what it makes of the answer.
LEMMA ApiStepTypes ==
  ASSUME ApiTypeOK(Requests, OcrSays), ApiStep, call.attempt >= 1, 
         call.state = "waiting" => call.attempt < MaxAttempts /\ call.request \in Requests
  PROVE  /\ ApiTypeOK(Requests, OcrSays)'
         /\ call.state # "idle" /\ call'.state # "idle"
         /\ call'.request = call.request /\ call'.attempt >= 1
         /\ call'.state = "waiting" => call'.attempt < MaxAttempts
         /\ inFlight' \subseteq inFlight
              \cup {[request |-> call.request, attempt |-> call.attempt + 1]}
         /\ call'.state = "sent" => answer' = None
         /\ call'.state = "ok" => call.state = "sent" /\ answer # None /\ call'.reply = answer
                                    /\ answer.status = "2xx"
<1>0. MaxAttempts \in Nat
  BY ApiAssumption
<1>a. call.attempt \in 0..MaxAttempts
  BY DEF ApiTypeOK
<1>1. CASE Receive
  <2>1. answer \in Replies(OcrSays) /\ answer.header \in Headers
    BY <1>1 DEF Receive, ApiTypeOK, Replies
  <2>2. call.attempt \in 1..MaxAttempts
    BY <1>0, <1>a
  <2>3. RetryAfter(answer.header, Backoff(call.attempt)) \in Waits
    BY <2>1, <2>2, BackoffBounds, RetryAfterBounds
  <2> DEFINE w == RetryAfter(answer.header, Backoff(call.attempt))
  <2> HIDE DEF w
  <2>4. CASE Succeeded(answer.status) /\ call' = [call EXCEPT !.state = "ok", !.reply = answer]
    BY <1>1, <2>1, <2>4 DEF Receive, ApiTypeOK, CallState, Succeeded
  <2>5. CASE Retry(w)
    <3>1. call.state = "sent"
      BY <1>1 DEF Receive
    <3> QED BY <1>1, <2>3, <2>5, <3>1, RetryTypes DEF Receive, ApiTypeOK, CallType, w
  <2>6. CASE call' = [call EXCEPT !.state = "failed"]
    BY <1>1, <2>6 DEF Receive, ApiTypeOK, CallState
  <2> QED BY <1>1, <2>4, <2>5, <2>6 DEF Receive, w
<1>2. CASE GoesMissing
  <2>2. call.attempt \in 1..MaxAttempts
    BY <1>0, <1>a
  <2>3. Backoff(call.attempt) \in Waits
    BY <2>2, BackoffBounds
  <2>4. CASE cancelled
    BY <1>2, <2>4 DEF GoesMissing, ApiTypeOK, CallState
  <2>5. CASE ~cancelled
    BY <1>2, <2>3, <2>5, RetryTypes DEF GoesMissing, ApiTypeOK, CallType
  <2> QED BY <2>4, <2>5
<1>3. CASE Wake
  <2>1. CASE ~cancelled /\ Attempt(call.request, call.attempt + 1)
    <3>1. call.attempt + 1 \in 1..MaxAttempts /\ call.request \in Requests
      BY <1>0, <1>a, <1>3 DEF Wake
    <3>2. ApiTypeOK(Requests, OcrSays)'
      BY <2>1, <3>1, AttemptTypes
    <3> QED BY <1>3, <2>1, <3>1, <3>2 DEF Wake, Attempt, Idle
  <2>2. CASE call' = [call EXCEPT !.state = "failed"] /\ UNCHANGED <<answer, inFlight, cancelled>>
    BY <1>3, <2>2 DEF Wake, ApiTypeOK, CallState
  <2> QED BY <1>3, <2>1, <2>2 DEF Wake
<1> QED BY <1>1, <1>2, <1>3 DEF ApiStep

-----------------------------------------------------------------------------
(***************************************************************************)
(* What was asked, and what was answered, stays true.                      *)
(***************************************************************************)

\* What every step keeps, but the one that puts a searchable document in place.
Onward ==
  /\ UNCHANGED <<sizes, largeScans, wantsOcr, page>>
  /\ draft' = draft \/ stage \in {"start", "draft"}
  /\ stage \notin {"start", "too large"} => stage' \notin {"start", "too large"}
  /\ stage \notin {"start", "too large", "draft"} => stage' # "draft"
  /\ \A d \in DOMAIN drafts :
        d \in DOMAIN drafts' /\ drafts[d].attached \subseteq drafts'[d].attached
  /\ \A i \in DOMAIN sessions :
        /\ i \in DOMAIN sessions' /\ sessions'[i].k = sessions[i].k
        /\ sessions'[i].next >= sessions[i].next
  /\ delivered \subseteq delivered'
  /\ DOMAIN operations \subseteq DOMAIN operations'

\* How far the sessions are, before and after the step, is a number.
SessionsTyped ==
  /\ \A i \in DOMAIN sessions : sessions[i].next \in Nat
  /\ \A i \in DOMAIN sessions' : sessions'[i].next \in Nat

LEMMA HeldStays ==
  ASSUME Onward, draft' = draft, NEW k, Held(k)
  PROVE  Held(k)'
BY DEF Onward, Held

LEMMA AskedStays ==
  ASSUME Onward, NEW r, Asked(r)
  PROVE  Asked(r)'
<1>1. CASE r.kind \in MailKind
  <2> SUFFICES MailAsked(r)'
    BY <1>1 DEF Asked, Onward, Request, OcrRequest, MailKind, OcrKind
  <2>1. MailAsked(r)
    BY <1>1 DEF Asked
  <2>2. Recognized' /\ Attachments' = Attachments /\ AttachedBytes' = AttachedBytes
    BY <2>1 DEF MailAsked, Recognized, Attachments, AttachedBytes, Onward
  <2>3. stage' \notin {"start", "too large"}
    BY <2>1 DEF MailAsked, Onward
  <2>4. CASE r.kind = "sendMail"
    BY <2>1, <2>2, <2>3, <2>4 DEF MailAsked, Onward
  <2>5. CASE r.kind = "draft"
    BY <2>1, <2>2, <2>3, <2>5 DEF MailAsked, Onward
  <2>6. CASE r.kind \notin {"sendMail", "draft"}
    <3>1. stage' # "draft" /\ draft' = draft
      BY <2>1, <2>6 DEF MailAsked, Onward
    <3>2. r.kind = "attach" => AttachAsked(r)'
      BY <2>1, <2>2, <3>1 DEF MailAsked, AttachAsked, Onward
    <3>3. r.kind = "session" => SessionAsked(r)'
      BY <2>1, <2>2, <3>1 DEF MailAsked, SessionAsked, Onward
    <3>4. r.kind = "chunk" => ChunkAsked(r)'
      BY <2>1, <2>2, <3>1 DEF MailAsked, ChunkAsked, Onward
    <3>5. r.kind = "send" => SendAsked(r)'
      <4> SUFFICES ASSUME r.kind = "send"
                   PROVE  SendAsked(r)'
        OBVIOUS
      <4>1. SendAsked(r)
        BY <2>1 DEF MailAsked
      <4>2. \A k \in Attachments' : Held(k)'
        BY <4>1, <2>2, <3>1, HeldStays DEF SendAsked
      <4> QED BY <4>1, <4>2, <3>1 DEF SendAsked
    <3> QED BY <2>1, <2>2, <2>3, <2>6, <3>1, <3>2, <3>3, <3>4, <3>5 DEF MailAsked, Onward
  <2> QED BY <2>4, <2>5, <2>6
<1>2. CASE r.kind \notin MailKind
  BY <1>2 DEF Asked, Onward, Request, OcrRequest, MailKind, OcrKind
<1> QED BY <1>1, <1>2

LEMMA MeantStays ==
  ASSUME Onward, SessionsTyped, NEW r, NEW reply, Asked(r), Meant(r, reply)
  PROVE  Meant(r, reply)'
<1> SUFFICES ASSUME reply.status = "2xx"
             PROVE  Meant(r, reply)'
  BY DEF Meant
<1>1. r.kind \in {"sendMail", "send"} => delivered' # {}
  BY DEF Meant, Onward
<1>2. r.kind = "draft" /\ reply.id # 0 => reply.id \in DOMAIN drafts'
  BY DEF Meant, Onward
<1>3. r.kind = "attach" => Held(r.k)'
  <2> SUFFICES ASSUME r.kind = "attach"
               PROVE  Held(r.k)'
    OBVIOUS
  <2>1. draft' = draft
    BY DEF Asked, MailAsked, MailKind, Onward
  <2> QED BY <2>1, HeldStays DEF Meant
<1>4. r.kind = "session" /\ reply.id # 0 =>
         reply.id \in DOMAIN sessions' /\ sessions'[reply.id].k = r.k
  BY DEF Meant, Onward
<1>5. r.kind = "chunk" => sessions'[r.id].next >= r.to
  <2> SUFFICES ASSUME r.kind = "chunk"
               PROVE  sessions'[r.id].next >= r.to
    OBVIOUS
  <2>1. r.id \in DOMAIN sessions /\ r.to \in Nat
    BY DEF Asked, MailAsked, MailKind, ChunkAsked, Request, OcrRequest, OcrKind
  <2>2. sessions[r.id].next >= r.to
    BY DEF Meant
  <2>3. sessions'[r.id].next >= sessions[r.id].next /\ r.id \in DOMAIN sessions'
    BY <2>1 DEF Onward
  <2>4. sessions[r.id].next \in Nat /\ sessions'[r.id].next \in Nat
    BY <2>1, <2>3 DEF SessionsTyped
  <2> QED BY <2>1, <2>2, <2>3, <2>4
<1>6. r.kind = "analyze" /\ reply.id # 0 => reply.id \in DOMAIN operations'
  BY DEF Meant, Onward
<1> QED BY <1>1, <1>2, <1>3, <1>4, <1>5, <1>6 DEF Meant

-----------------------------------------------------------------------------
(***************************************************************************)
(* The client's side of a step, and the service's.                         *)
(***************************************************************************)
LEMMA OutstandingStays ==
  ASSUME CallInv, Onward
  PROVE  \A r \in Outstanding : Asked(r)'
BY AskedStays DEF CallInv

LEMMA AnsweredStays ==
  ASSUME CallInv, Onward, SessionsTyped
  PROVE  \A x \in Answered : Meant(x[1], x[2])'
<1> SUFFICES ASSUME NEW x \in Answered
             PROVE  Meant(x[1], x[2])'
  OBVIOUS
<1> DEFINE r == x[1]  reply == x[2]
<1>1. Meant(r, reply) /\ r \in Outstanding
  BY DEF CallInv, Answered, Outstanding
<1>2. Asked(r)
  BY <1>1 DEF CallInv
<1> HIDE DEF r, reply
<1>3. \A a, b : Asked(a) /\ Meant(a, b) => Meant(a, b)'
  BY MeantStays
<1>4. \A a, b : a = x[1] /\ b = x[2] => Meant(a, b)'
  BY <1>1, <1>2, <1>3 DEF r, reply
<1> QED BY <1>4

\* A request is made: nothing is known of it yet but that it may be.
LEMMA CallAsks ==
  ASSUME CallInv, Onward, NEW r, Do(r), Asked(r)'
  PROVE  CallInv'
<1>1. call' = [state |-> "sent", request |-> r, attempt |-> 1, wait |-> 0, reply |-> None]
  BY DEF Do, Attempt, Idle
<1>2. Outstanding' \subseteq Outstanding \cup {r}
  BY <1>1 DEF Outstanding, Do, Attempt
<1>3. Answered' = {}
  BY <1>1 DEF Answered, Do, Attempt
<1>4. \A q \in Outstanding' : Asked(q)'
  BY <1>2, OutstandingStays
<1> QED BY <1>1, <1>3, <1>4 DEF CallInv

\* A result is taken.
LEMMA CallSettles ==
  ASSUME CallInv, Onward, Settle
  PROVE  CallInv'
<1>1. call' = [state |-> "idle", request |-> None, attempt |-> 0, wait |-> 0, reply |-> None]
  BY DEF Settle, Idle
<1>2. Outstanding' \subseteq Outstanding
  BY <1>1 DEF Outstanding, Settle
<1>3. Answered' = {}
  BY <1>1 DEF Answered
<1>4. \A q \in Outstanding' : Asked(q)'
  BY <1>2, OutstandingStays
<1> QED BY <1>1, <1>3, <1>4 DEF CallInv

LEMMA CallUntouched ==
  ASSUME CallInv, Onward, SessionsTyped, call' = call, answer' = answer, inFlight' \subseteq inFlight
  PROVE  CallInv'
<1>1. Outstanding' \subseteq Outstanding /\ Answered' = Answered
  BY DEF Outstanding, Answered
<1>2. \A q \in Outstanding' : Asked(q)'
  BY <1>1, OutstandingStays
<1>3. \A x \in Answered' : Meant(x[1], x[2])'
  BY <1>1, AnsweredStays
<1>4. Replies(OcrSays)' = Replies(OcrSays)
  BY DEF Replies, OcrSays, Status
<1> QED BY <1>2, <1>3 DEF CallInv, Replies, OcrSays, Status

\* The service is done with a request, and what it says of it is true.
LEMMA CallAnswered ==
  ASSUME CallInv, Onward, SessionsTyped, NEW m \in inFlight, NEW reply, AnswerTo(m, reply),
         Meant(m.request, reply)'
  PROVE  CallInv'
<1>1. Outstanding' \subseteq Outstanding
  BY DEF Outstanding, AnswerTo
<1>2. \A q \in Outstanding' : Asked(q)'
  BY <1>1, OutstandingStays
<1>3. \A x \in Answered' : x \in Answered \/ x = <<m.request, reply>>
  BY DEF Answered, AnswerTo, Answers
<1>4. \A x \in Answered' : Meant(x[1], x[2])'
  BY <1>3, AnsweredStays
<1> QED BY <1>2, <1>4 DEF CallInv, AnswerTo, Replies, OcrSays, Status

\* The client waits, asks again, takes the answer or gives up.
LEMMA CallSteps ==
  ASSUME ApiTypeOK(Requests, OcrSays), CallInv, Onward, SessionsTyped, ApiStep
  PROVE  /\ CallInv'
         /\ ApiTypeOK(Requests, OcrSays)'
         /\ call.state # "idle" /\ call'.state # "idle" /\ call'.request = call.request
<1>1. call.state # "idle"
  BY DEF ApiStep, Receive, GoesMissing, Wake
<1>2. call.attempt >= 1 /\ call.request \in Requests /\ call.request \in Outstanding
  BY <1>1 DEF CallInv, Outstanding, Asked, Requests
<1>3. call.state = "waiting" => call.attempt < MaxAttempts
  BY DEF CallInv
<1>4. /\ ApiTypeOK(Requests, OcrSays)'
      /\ call'.state # "idle"
      /\ call'.request = call.request /\ call'.attempt >= 1
      /\ call'.state = "waiting" => call'.attempt < MaxAttempts
      /\ inFlight' \subseteq inFlight
           \cup {[request |-> call.request, attempt |-> call.attempt + 1]}
      /\ call'.state = "sent" => answer' = None
      /\ call'.state = "ok" => call.state = "sent" /\ answer # None /\ call'.reply = answer
                                 /\ answer.status = "2xx"
  BY <1>2, <1>3, ApiStepTypes
<1>5. Outstanding' \subseteq Outstanding
  BY <1>2, <1>4 DEF Outstanding
<1>6. \A q \in Outstanding' : Asked(q)'
  BY <1>5, OutstandingStays
<1>7. Answered' \subseteq Answered
  BY <1>4 DEF Answered
<1>8. \A x \in Answered' : Meant(x[1], x[2])'
  BY <1>7, AnsweredStays
<1>9. call'.state = "ok" => call'.reply \in Replies(OcrSays)' /\ call'.reply.status = "2xx"
  BY <1>4 DEF ApiTypeOK, Replies, OcrSays, Status
<1> QED BY <1>1, <1>4, <1>6, <1>8, <1>9 DEF CallInv

-----------------------------------------------------------------------------
(***************************************************************************)
(* Where the two clients are is disturbed by nobody else.                  *)
(***************************************************************************)
LEMMA PlacesStay ==
  ASSUME StageInv, OcrInv, Onward, SessionsTyped, sizes \in Seq(Nat \ {0}), off \in Nat,
         call'.request = call.request, (call'.state = "idle") = (call.state = "idle"),
         UNCHANGED <<sendVars, ocr, operation, output, document>>
  PROVE  StageInv' /\ OcrInv'
<1>1. Attachments' = Attachments /\ Recognized' = Recognized
  BY DEF Attachments, Recognized, Onward
<1>2. \A k : Held(k) => Held(k)'
  BY HeldStays DEF sendVars
<1>3. StageInv'
  <2> USE DEF sendVars
  <2>1. stage \in {"chunk", "uploading"} =>
           upload \in DOMAIN sessions' /\ sessions'[upload].k = next
    BY DEF StageInv, Onward
  <2>2. stage = "chunk" => sessions'[upload].next >= off
    <3> SUFFICES ASSUME stage = "chunk"
                 PROVE  sessions'[upload].next >= off
      OBVIOUS
    <3>1. upload \in DOMAIN sessions /\ sessions[upload].next >= off
      BY DEF StageInv
    <3>2. upload \in DOMAIN sessions' /\ sessions'[upload].next >= sessions[upload].next
      BY <3>1 DEF Onward
    <3>3. sessions[upload].next \in Nat /\ sessions'[upload].next \in Nat
      BY <3>1, <3>2 DEF SessionsTyped
    <3> QED BY <3>1, <3>2, <3>3
  <2>3. stage \in {"attach"} \cup Attaching => \A k \in 1..next - 1 : Held(k)'
    BY <1>2 DEF StageInv
  <2>4. sizes' = sizes /\ largeScans' = largeScans
    BY DEF Onward
  <2> QED BY <1>1, <2>1, <2>2, <2>3, <2>4 DEF StageInv, Asking, Attaching
<1>4. OcrInv'
  BY <1>1 DEF OcrInv, Onward, sendVars, Asking, OcrAsking
<1> QED BY <1>3, <1>4

\* The answer the client has taken, and what it means.
LEMMA TakenMeans ==
  ASSUME CallInv, call.state = "ok"
  PROVE  /\ Meant(call.request, call.reply) /\ Asked(call.request)
         /\ call.reply \in Replies(OcrSays) /\ call.reply.status = "2xx"
<1>1. <<call.request, call.reply>> \in Answered /\ call.request \in Outstanding
  BY DEF Answered, Outstanding
<1>2. \A x \in Answered : Meant(x[1], x[2])
  BY DEF CallInv
<1>3. PICK x \in Answered : x = <<call.request, call.reply>>
  BY <1>1
<1>4. x[1] = call.request /\ x[2] = call.reply
  BY <1>3
<1>5. Meant(x[1], x[2])
  BY <1>2, <1>3
<1> QED BY <1>1, <1>4, <1>5 DEF CallInv

LEMMA Typed ==
  ASSUME DeliveryTypeOK
  PROVE  /\ ApiTypeOK(Requests, OcrSays) /\ MailTypeOK /\ OcrTypeOK
         /\ \A i \in DOMAIN sessions : sessions[i].next \in Nat
<1>1. ApiTypeOK(Requests, OcrSays) /\ MailTypeOK /\ OcrTypeOK
  BY DEF DeliveryTypeOK, Requests
<1> DEFINE S == [draft : DOMAIN drafts, k : Attachments, next : Nat, intact : BOOLEAN,
                 open : BOOLEAN]
<1>2. \A s \in S : s.next \in Nat
  OBVIOUS
<1>3. sessions \in Seq(S)
  BY <1>1 DEF MailTypeOK
<1> HIDE DEF S
<1>4. \A i \in DOMAIN sessions : sessions[i] \in S
  BY <1>3
<1> QED BY <1>1, <1>2, <1>4

-----------------------------------------------------------------------------
(***************************************************************************)
(* Steps of the retry loop, and the end of the context.                    *)
(***************************************************************************)
otherVars == <<sizes, largeScans, sendVars, graphVars, ocrVars, jobVars>>

LEMMA NothingElse ==
  ASSUME DeliveryInv, UNCHANGED otherVars
  PROVE  Onward /\ SessionsTyped
<1> USE DEF otherVars, sendVars, graphVars, ocrVars, jobVars
<1>1. SessionsTyped
  BY Typed DEF DeliveryInv, SessionsTyped
<1>2. \A i \in DOMAIN sessions : sessions'[i].next >= sessions[i].next
  BY <1>1 DEF SessionsTyped
<1> QED BY <1>1, <1>2 DEF Onward

LEMMA OnlyTheCall ==
  ASSUME DeliveryInv, UNCHANGED otherVars, CallInv', ApiTypeOK(Requests, OcrSays)',
         call'.request = call.request, (call'.state = "idle") = (call.state = "idle")
  PROVE  DeliveryInv'
<1>1. Onward /\ SessionsTyped
  BY NothingElse
<1>2. StageInv' /\ OcrInv'
  <2>1. sizes \in Seq(Nat \ {0}) /\ off \in Nat
    BY DEF DeliveryInv, DeliveryTypeOK, MailTypeOK
  <2> QED BY <1>1, <2>1, PlacesStay DEF DeliveryInv, otherVars, ocrVars, jobVars
<1> USE DEF otherVars, sendVars, graphVars, ocrVars, jobVars
<1>3. DeliveryTypeOK'
  BY DEF DeliveryInv, DeliveryTypeOK, MailTypeOK, OcrTypeOK, Requests, Attachments
<1>4. DraftsInv' /\ SessionsInv' /\ DeliveredInv' /\ MailedIsWhole'
  BY DEF DeliveryInv, DraftsInv, SessionsInv, DeliveredInv, MailedIsWhole, Attachments,
         Recognized, Held
<1> QED BY <1>2, <1>3, <1>4 DEF DeliveryInv

LEMMA CallStep ==
  ASSUME DeliveryInv, ApiStep \/ Cancel, UNCHANGED otherVars
  PROVE  DeliveryInv'
<1>1. Onward /\ SessionsTyped
  BY NothingElse
<1>2. ApiTypeOK(Requests, OcrSays) /\ CallInv
  BY Typed DEF DeliveryInv
<1>3. CASE ApiStep
  BY <1>1, <1>2, <1>3, CallSteps, OnlyTheCall
<1>4. CASE Cancel
  <2>1. CallInv'
    BY <1>1, <1>2, <1>4, CallUntouched DEF Cancel
  <2>2. ApiTypeOK(Requests, OcrSays)'
    BY <1>2, <1>4 DEF Cancel, ApiTypeOK
  <2> QED BY <1>4, <2>1, <2>2, OnlyTheCall DEF Cancel
<1> QED BY <1>3, <1>4

-----------------------------------------------------------------------------
(***************************************************************************)
(* Text recognition.                                                       *)
(***************************************************************************)
mailSide == <<sizes, largeScans, sendVars, graphVars, jobVars>>

LEMMA OcrFrame ==
  ASSUME DeliveryInv, Recognizing, UNCHANGED mailSide, CallInv', ApiTypeOK(Requests, OcrSays)',
         OcrTypeOK', OcrInv'
  PROVE  DeliveryInv'
<1> USE DEF mailSide, sendVars, graphVars, jobVars
<1>1. DeliveryTypeOK'
  BY DEF DeliveryInv, DeliveryTypeOK, MailTypeOK, Requests, Attachments
<1>2. DraftsInv' /\ SessionsInv' /\ DeliveredInv' /\ MailedIsWhole'
  BY DEF DeliveryInv, DraftsInv, SessionsInv, DeliveredInv, MailedIsWhole, Attachments,
         Recognized, Held
<1>3. StageInv'
  BY DEF Recognizing, StageInv, Asking, Attaching
<1> QED BY <1>1, <1>2, <1>3 DEF DeliveryInv

LEMMA OcrOnward ==
  ASSUME DeliveryInv, UNCHANGED mailSide, DOMAIN operations \subseteq DOMAIN operations'
  PROVE  Onward /\ SessionsTyped
<1> USE DEF mailSide, sendVars, graphVars, jobVars
<1>1. SessionsTyped
  BY Typed DEF DeliveryInv, SessionsTyped
<1>2. \A i \in DOMAIN sessions : sessions'[i].next >= sessions[i].next
  BY <1>1 DEF SessionsTyped
<1> QED BY <1>1, <1>2 DEF Onward

\* What the client does for one document.
LEMMA OcrClientStep ==
  ASSUME DeliveryInv, Recognizing, OcrStep, UNCHANGED mailSide
  PROVE  DeliveryInv'
<1>a. ApiTypeOK(Requests, OcrSays) /\ OcrTypeOK /\ CallInv /\ OcrInv
  BY Typed DEF DeliveryInv
<1>b. operations' = operations
  BY DEF OcrStep, CannotOpen, Analyze, OcrGivesUp, Analyzed, Poll, Polled, Paused, Fetch, Fetched,
         ocrClientVars
<1>c. Onward /\ SessionsTyped
  BY <1>b, OcrOnward
<1>d. stage = "start" /\ wantsOcr /\ page \in Attachments
  BY DEF Recognizing
<1>e. UNCHANGED <<stage, wantsOcr, page, sizes, document>> /\ Attachments' = Attachments
  BY DEF mailSide, sendVars, jobVars, Attachments
<1> SUFFICES CallInv' /\ ApiTypeOK(Requests, OcrSays)' /\ OcrTypeOK' /\ OcrInv'
  BY OcrFrame
<1>1. CASE CannotOpen
  <2>1. CallInv'
    BY <1>1, <1>a, <1>c, CallUntouched DEF CannotOpen, apiVars
  <2>2. ApiTypeOK(Requests, OcrSays)' /\ OcrTypeOK'
    BY <1>1, <1>a DEF CannotOpen, apiVars, ApiTypeOK, OcrTypeOK, OcrStage, ocrClientVars
  <2>3. OcrInv'
    BY <1>1, <1>a, <1>b, <1>d, <1>e DEF CannotOpen, apiVars, ocrClientVars, OcrInv, OcrAsking
  <2> QED BY <2>1, <2>2, <2>3
<1>2. ASSUME NEW r \in OcrRequest, Do(r), ocr' = r.kind, UNCHANGED ocrClientVars,
             r.kind \in {"status", "result"} => operation \in DOMAIN operations /\ r.id = operation
      PROVE  CallInv' /\ ApiTypeOK(Requests, OcrSays)' /\ OcrTypeOK' /\ OcrInv'
  <2>1. Asked(r)'
    BY <1>2, <1>b DEF Asked, OcrRequest, OcrKind, MailKind
  <2>2. CallInv'
    BY <1>2, <1>a, <1>c, <2>1, CallAsks
  <2>3. ApiTypeOK(Requests, OcrSays)'
    <3>1. 1 \in 1..MaxAttempts /\ r \in Requests
      BY <1>2, ApiAssumption DEF Requests
    <3> QED BY <1>2, <1>a, <3>1, AttemptTypes DEF Do
  <2>4. OcrTypeOK'
    BY <1>2, <1>a DEF OcrTypeOK, OcrStage, ocrClientVars, OcrRequest, OcrKind
  <2>5. call'.state = "sent" /\ call'.request = r
    BY <1>2 DEF Do, Attempt, Idle
  <2>6. OcrInv'
    BY <1>2, <1>a, <1>b, <1>d, <1>e, <2>5
       DEF ocrClientVars, OcrInv, OcrAsking, Asking, OcrRequest, OcrKind
  <2> QED BY <2>2, <2>3, <2>4, <2>6
<1>3. CASE Analyze
  <2> DEFINE r == [kind |-> "analyze", id |-> 0]
  <2>1. r \in OcrRequest /\ r.kind = "analyze"
    BY DEF OcrRequest, OcrKind
  <2>2. Do(r) /\ ocr' = "analyze" /\ UNCHANGED ocrClientVars
    BY <1>3 DEF Analyze
  <2> HIDE DEF r
  <2> QED BY <1>2, <2>1, <2>2
<1>4. CASE Poll
  <2> DEFINE r == [kind |-> "status", id |-> operation]
  <2>1. r \in OcrRequest /\ r.kind = "status" /\ r.id = operation /\ operation \in DOMAIN operations
    BY <1>4, <1>a DEF OcrRequest, OcrKind, Poll, OcrInv, OcrTypeOK
  <2>2. Do(r) /\ ocr' = "status" /\ UNCHANGED ocrClientVars
    BY <1>4 DEF Poll
  <2> HIDE DEF r
  <2>3. PICK q : q = r
    OBVIOUS
  <2> QED BY <1>2, <2>1, <2>2, <2>3
<1>5. CASE Fetch
  <2> DEFINE r == [kind |-> "result", id |-> operation]
  <2>1. r \in OcrRequest /\ r.kind = "result" /\ r.id = operation /\ operation \in DOMAIN operations
    BY <1>5, <1>a DEF OcrRequest, OcrKind, Fetch, OcrInv, OcrTypeOK
  <2>2. Do(r) /\ ocr' = "result" /\ UNCHANGED ocrClientVars
    BY <1>5 DEF Fetch
  <2> HIDE DEF r
  <2>3. PICK q : q = r
    OBVIOUS
  <2> QED BY <1>2, <2>1, <2>2, <2>3
<1>6. ASSUME Settle, OcrTypeOK', ocr' \notin OcrAsking,
             ocr' \in {"poll", "pause", "fetch"} => operation' \in DOMAIN operations,
             ocr' = "done" => output' = "pdf"
      PROVE  CallInv' /\ ApiTypeOK(Requests, OcrSays)' /\ OcrTypeOK' /\ OcrInv'
  <2>1. CallInv' /\ ApiTypeOK(Requests, OcrSays)'
    BY <1>6, <1>a, <1>c, CallSettles, SettleTypes
  <2>2. call'.state = "idle"
    BY <1>6 DEF Settle, Idle
  <2>3. OcrInv'
    BY <1>6, <1>a, <1>b, <1>d, <1>e, <2>2 DEF OcrInv, OcrAsking
  <2> QED BY <1>6, <2>1, <2>3
<1>7. CASE OcrGivesUp
  <2>1. OcrTypeOK'
    BY <1>7, <1>a DEF OcrGivesUp, OcrTypeOK, OcrStage, ocrClientVars
  <2> QED BY <1>6, <1>7, <2>1 DEF OcrGivesUp, OcrAsking
<1>8. CASE Analyzed
  <2>1. call.reply.id # 0 => call.reply.id \in DOMAIN operations
    <3>1. call.request.kind = "analyze"
      BY <1>8, <1>a DEF Analyzed, OcrInv, OcrAsking
    <3> QED BY <1>8, <1>a, <3>1, TakenMeans DEF Analyzed, Meant
  <2>2. OcrTypeOK'
    BY <1>8, <1>a, <2>1 DEF Analyzed, OcrTypeOK, OcrStage
  <2> QED BY <1>6, <1>8, <2>1, <2>2 DEF Analyzed, OcrAsking
<1>9. CASE Polled
  <2>1. call.reply.header \in Headers
    BY <1>9, <1>a, TakenMeans DEF Polled, Replies
  <2>2. RetryAfter(call.reply.header, PollInterval) \in Waits
    BY <2>1, RetryAfterBounds, DocIntelAssumption DEF Waits
  <2>3. OcrTypeOK'
    BY <1>9, <1>a, <2>2 DEF Polled, OcrTypeOK, OcrStage, Waits
  <2>4. operation' \in DOMAIN operations
    BY <1>9, <1>a DEF Polled, OcrInv
  <2> QED BY <1>6, <1>9, <2>3, <2>4 DEF Polled, OcrAsking
<1>10. CASE Paused
  <2>1. CallInv'
    BY <1>10, <1>a, <1>c, CallUntouched DEF Paused, apiVars
  <2>2. ApiTypeOK(Requests, OcrSays)' /\ OcrTypeOK'
    BY <1>10, <1>a DEF Paused, apiVars, ApiTypeOK, OcrTypeOK, OcrStage
  <2>3. OcrInv'
    BY <1>10, <1>a, <1>b, <1>d, <1>e DEF Paused, apiVars, OcrInv, OcrAsking
  <2> QED BY <2>1, <2>2, <2>3
<1>11. CASE Fetched
  <2>1. OcrTypeOK'
    BY <1>11, <1>a DEF Fetched, OcrTypeOK, OcrStage, Output
  <2> QED BY <1>6, <1>11, <2>1 DEF Fetched, OcrAsking
<1> QED BY <1>1, <1>3, <1>4, <1>5, <1>7, <1>8, <1>9, <1>10, <1>11 DEF OcrStep

LEMMA ReplyTypes ==
  ASSUME NEW status \in Status, NEW header \in Headers \cup {NoHeader}, NEW id \in Nat,
         NEW says \in OcrSays
  PROVE  Reply(status, header, id, says) \in Replies(OcrSays)
<1>1. header \in Headers
  BY ApiAssumption
<1> QED BY <1>1 DEF Reply, Replies

LEMMA RequestOutstanding ==
  ASSUME CallInv, NEW m \in inFlight
  PROVE  Asked(m.request)
BY DEF CallInv, Outstanding

\* What Document Intelligence does with a request, or what becomes of an operation.
OpState == {"running", "succeeded", "failed"}

LEMMA OcrAnswered ==
  ASSUME DeliveryInv, Recognizing, UNCHANGED mailSide, UNCHANGED <<ocr, operation, pause, output>>,
         operations' \in Seq(OpState), DOMAIN operations \subseteq DOMAIN operations',
         NEW m \in inFlight, NEW reply \in Replies(OcrSays), AnswerTo(m, reply),
         Meant(m.request, reply)'
  PROVE  DeliveryInv'
<1>a. ApiTypeOK(Requests, OcrSays) /\ OcrTypeOK /\ CallInv /\ OcrInv /\ StageInv /\ MailTypeOK
  BY Typed DEF DeliveryInv
<1>1. Onward /\ SessionsTyped
  BY OcrOnward
<1>2. CallInv' /\ ApiTypeOK(Requests, OcrSays)'
  BY <1>a, <1>1, CallAnswered, AnswerTypes
<1>3. OcrTypeOK'
  <2>1. Len(operations) <= Len(operations')
    <3>1. operations \in Seq(OpState)
      BY <1>a DEF OcrTypeOK, OpState
    <3> QED BY <3>1
  <2>2. Len(operations) \in Nat /\ Len(operations') \in Nat
    BY <1>a DEF OcrTypeOK
  <2> QED BY <1>a, <2>1, <2>2 DEF OcrTypeOK, OpState
<1>4. OcrInv'
  <2>1. sizes \in Seq(Nat \ {0}) /\ off \in Nat
    BY <1>a DEF MailTypeOK
  <2> QED BY <1>a, <1>1, <2>1, PlacesStay DEF AnswerTo, mailSide, jobVars
<1> QED BY <1>2, <1>3, <1>4, OcrFrame

LEMMA OcrServiceStep ==
  ASSUME DeliveryInv, Recognizing, OcrService, UNCHANGED mailSide
  PROVE  DeliveryInv'
<1>a. OcrTypeOK /\ CallInv /\ ApiTypeOK(Requests, OcrSays) /\ OcrInv
  BY Typed DEF DeliveryInv
<1>b. UNCHANGED <<ocr, operation, pause, output>>
  BY DEF OcrService
<1>c. operations \in Seq(OpState)
  BY <1>a DEF OcrTypeOK, OpState
<1>s. Status = {"2xx", "3xx", "4xx", "429", "5xx"} /\ {"", "garbled", "elsewhere", "pdf", "cut", "page"} \subseteq OcrSays
  BY DEF Status, OcrSays
<1>n. NoHeader \in Headers
  BY ApiAssumption
<1>1. CASE \E m \in inFlight : m.request.kind \in OcrKind
             /\ (ServeAnalyze(m) \/ ServeStatus(m) \/ ServeResult(m) \/ Rejects(m))
  <2> PICK m \in inFlight : m.request.kind \in OcrKind
             /\ (ServeAnalyze(m) \/ ServeStatus(m) \/ ServeResult(m) \/ Rejects(m))
    BY <1>1
  <2>1. Asked(m.request)
    BY <1>a, RequestOutstanding
  <2>2. CASE ServeAnalyze(m)
    <3>1. operations' = Append(operations, "running")
      BY <2>2 DEF ServeAnalyze
    <3>2. /\ operations' \in Seq(OpState) /\ DOMAIN operations \subseteq DOMAIN operations'
          /\ Len(operations') \in DOMAIN operations' /\ Len(operations') \in Nat
      BY <1>c, <3>1 DEF OpState
    <3>3. PICK reply \in Replies(OcrSays) : AnswerTo(m, reply) 
             /\ (reply.status = "2xx" => reply.id \in {0, Len(operations')})
      <4>1. CASE \E id \in {0, Len(operations')} : AnswerTo(m, Reply("2xx", NoHeader, id, ""))
        <5> PICK id \in {0, Len(operations')} : AnswerTo(m, Reply("2xx", NoHeader, id, ""))
          BY <4>1
        <5>1. Reply("2xx", NoHeader, id, "") \in Replies(OcrSays)
          BY <1>s, <3>2, ReplyTypes
        <5> QED BY <5>1 DEF Reply
      <4>2. CASE AnswerTo(m, Reply("2xx", NoHeader, Len(operations'), "elsewhere"))
        <5>1. Reply("2xx", NoHeader, Len(operations'), "elsewhere") \in Replies(OcrSays)
          BY <1>s, <3>2, ReplyTypes
        <5> QED BY <4>2, <5>1 DEF Reply
      <4>3. CASE AnswerTo(m, Denial("5xx", NoHeader))
        <5>1. Denial("5xx", NoHeader) \in Replies(OcrSays)
          BY <1>s, ReplyTypes DEF Denial
        <5> QED BY <4>3, <5>1 DEF Reply, Denial
      <4> QED BY <2>2, <4>1, <4>2, <4>3 DEF ServeAnalyze
    <3>4. Meant(m.request, reply)'
      BY <2>2, <3>2, <3>3 DEF Meant, ServeAnalyze
    <3> QED BY <1>b, <3>2, <3>3, <3>4, OcrAnswered
  <2>3. ASSUME NEW reply \in Replies(OcrSays), AnswerTo(m, reply), operations' = operations,
               m.request.kind = "analyze" => reply.status # "2xx"
        PROVE  DeliveryInv'
    <3>1. Meant(m.request, reply)'
      BY <2>3 DEF Meant, OcrKind
    <3> QED BY <1>b, <1>c, <2>3, <3>1, OcrAnswered
  <2>4. CASE ServeStatus(m)
    <3>1. operations[m.request.id] \in OcrSays
      <4>1. m.request.id \in DOMAIN operations
        BY <2>1, <2>4 DEF ServeStatus, Asked
      <4>2. operations[m.request.id] \in OpState
        BY <1>c, <4>1
      <4> QED BY <4>2 DEF OpState, OcrSays
    <3>2. PICK reply \in Replies(OcrSays) : AnswerTo(m, reply)
      <4>1. CASE \E header \in Headers :
                   AnswerTo(m, Reply("2xx", header, 0, operations[m.request.id]))
        <5> PICK header \in Headers :
                   AnswerTo(m, Reply("2xx", header, 0, operations[m.request.id]))
          BY <4>1
        <5>1. Reply("2xx", header, 0, operations[m.request.id]) \in Replies(OcrSays)
          BY <1>s, <3>1, ReplyTypes
        <5> QED BY <5>1
      <4>2. CASE AnswerTo(m, Reply("2xx", NoHeader, 0, "garbled"))
        <5>1. Reply("2xx", NoHeader, 0, "garbled") \in Replies(OcrSays)
          BY <1>s, ReplyTypes
        <5> QED BY <4>2, <5>1
      <4> QED BY <2>4, <4>1, <4>2 DEF ServeStatus
    <3> QED BY <2>3, <2>4, <3>2 DEF ServeStatus
  <2>5. CASE ServeResult(m)
    <3>1. PICK says \in {"pdf", "cut", "page"} : AnswerTo(m, Reply("2xx", NoHeader, 0, says))
      BY <2>5 DEF ServeResult
    <3>2. Reply("2xx", NoHeader, 0, says) \in Replies(OcrSays)
      BY <1>s, ReplyTypes
    <3> QED BY <2>3, <2>5, <3>1, <3>2 DEF ServeResult
  <2>6. CASE Rejects(m)
    <3>1. PICK status \in {"3xx", "4xx", "429", "5xx"}, header \in Headers :
             AnswerTo(m, Denial(status, header))
      BY <2>6, <1>n DEF Rejects
    <3>2. Denial(status, header) \in Replies(OcrSays) /\ Denial(status, header).status # "2xx"
      BY <1>s, ReplyTypes DEF Denial, Reply
    <3> QED BY <2>3, <2>6, <3>1, <3>2 DEF Rejects
  <2> QED BY <2>2, <2>4, <2>5, <2>6
<1>2. CASE Operate
  <2>1. PICK i \in DOMAIN operations, result \in {"succeeded", "failed"} :
           operations' = [operations EXCEPT ![i] = result]
    BY <1>2 DEF Operate
  <2>2. operations' \in Seq(OpState) /\ DOMAIN operations' = DOMAIN operations
          /\ Len(operations') = Len(operations)
    BY <1>c, <2>1 DEF OpState
  <2>3. Onward /\ SessionsTyped
    BY <2>2, OcrOnward
  <2>4. CallInv' /\ ApiTypeOK(Requests, OcrSays)'
    BY <1>2, <1>a, <2>3, CallUntouched DEF Operate, apiVars, ApiTypeOK
  <2>5. OcrTypeOK'
    BY <1>a, <1>b, <2>2 DEF OcrTypeOK, OpState
  <2>6. OcrInv'
    BY <1>2, <1>a, <1>b, <2>2 DEF Operate, apiVars, OcrInv, mailSide, sendVars, jobVars, Attachments,
       Asking, OcrAsking
  <2> QED BY <2>4, <2>5, <2>6, OcrFrame
<1> QED BY <1>1, <1>2 DEF OcrService

\* A step of the recognition, whoever takes it.
LEMMA RunOcrStep ==
  ASSUME DeliveryInv, RunOcr
  PROVE  DeliveryInv'
<1>1. Recognizing /\ UNCHANGED mailSide
  BY DEF RunOcr, mailSide
<1>2. CASE OcrStep
  BY <1>1, <1>2, OcrClientStep
<1>3. CASE (ApiStep \/ Cancel) /\ UNCHANGED ocrVars
  BY <1>1, <1>3, CallStep DEF otherVars, mailSide
<1>4. CASE OcrService
  BY <1>1, <1>4, OcrServiceStep
<1> QED BY <1>2, <1>3, <1>4 DEF RunOcr, OcrNext, OcrClient

\* The searchable document takes the place of the scan; nothing was mailed yet,
\* and nobody asks for anything.
LEMMA ReplaceStep ==
  ASSUME DeliveryInv, ReplaceDocument
  PROVE  DeliveryInv'
<1>a. ApiTypeOK(Requests, OcrSays) /\ OcrTypeOK /\ CallInv /\ OcrInv /\ MailTypeOK /\ StageInv
  BY Typed DEF DeliveryInv
<1>b. /\ stage = "start" /\ wantsOcr /\ page \in Attachments /\ ocr = "done"
      /\ UNCHANGED <<call, answer, cancelled, largeScans, stage, draft, next, upload, off, pos>>
      /\ UNCHANGED <<drafts, sessions, delivered, wantsOcr, pause>>
  BY DEF ReplaceDocument, Recognizing, sendVars, graphVars
<1>c. PICK size \in SearchableSizes : sizes' = [sizes EXCEPT ![page] = size]
  BY DEF ReplaceDocument
<1>1. /\ sizes \in Seq(Nat \ {0}) /\ sizes' \in Seq(Nat \ {0})
      /\ Len(sizes') = Len(sizes) /\ DOMAIN sizes' = DOMAIN sizes
  BY <1>a, <1>b, <1>c, DeliveryAssumption DEF MailTypeOK, Attachments
<1>2. Attachments' = Attachments /\ Attachments = 1..Len(sizes)
  BY <1>1 DEF Attachments
<1>3. call.state = "idle"
  BY <1>a, <1>b DEF OcrInv, OcrAsking, Asking
<1>4. inFlight' = {}
  <2> SUFFICES ASSUME NEW m \in inFlight, m.request.kind \notin OcrKind
               PROVE  FALSE
    BY DEF ReplaceDocument
  <2>1. Asked(m.request)
    BY <1>a, RequestOutstanding
  <2> QED BY <1>b, <2>1 DEF Asked, MailAsked, Request, OcrRequest
<1>5. CallInv'
  <2>1. Outstanding' = {} /\ Answered' = {}
    BY <1>b, <1>3, <1>4 DEF Outstanding, Answered
  <2> QED BY <1>b, <1>3, <2>1 DEF CallInv
<1>6. DeliveryTypeOK'
  <2>1. ApiTypeOK(Request \cup OcrRequest, OcrSays)'
    BY <1>a, <1>b, <1>4 DEF ApiTypeOK, Requests
  <2>2. MailTypeOK'
    BY <1>a, <1>b, <1>1, <1>2 DEF MailTypeOK
  <2>3. OcrTypeOK'
    BY <1>a, <1>b DEF ReplaceDocument, OcrTypeOK, OcrStage, Output
  <2>4. page \in 1..Len(sizes) /\ page' = page + 1 /\ Len(sizes) \in Nat
    BY <1>1, <1>2, <1>b DEF ReplaceDocument
  <2>5. page' \in 1..Len(sizes') + 1
    BY <1>1, <2>4
  <2>6. document' \in [Attachments' -> {"scan"} \cup Output]
    BY <1>a, <1>2 DEF DeliveryInv, DeliveryTypeOK, ReplaceDocument, OcrTypeOK
  <2> QED BY <1>b, <2>1, <2>2, <2>3, <2>5, <2>6 DEF DeliveryTypeOK, DeliveryInv
<1>7. delivered' = {} /\ DOMAIN sessions' = {}
  BY <1>b DEF DeliveryInv, DeliveredInv, SessionsInv
<1>8. DraftsInv' /\ SessionsInv' /\ DeliveredInv' /\ MailedIsWhole'
  BY <1>b, <1>2, <1>7 DEF DeliveryInv, DraftsInv, SessionsInv, DeliveredInv, MailedIsWhole
<1>9. StageInv'
  BY <1>b DEF StageInv, Asking, Attaching
<1>10. OcrInv'
  <2>1. output = "pdf" /\ page \in Nat /\ page' = page + 1 /\ document' = [document EXCEPT ![page] = output]
    BY <1>a, <1>b, <1>1, <1>2 DEF OcrInv, ReplaceDocument
  <2>2. \A k \in Attachments' : k < page' => document'[k] = "pdf"
    <3> SUFFICES ASSUME NEW k \in Attachments, k < page + 1
                 PROVE  document'[k] = "pdf"
      BY <1>2, <2>1
    <3>1. document \in [Attachments -> {"scan"} \cup Output]
      BY DEF DeliveryInv, DeliveryTypeOK
    <3>2. CASE k = page
      BY <2>1, <3>1, <3>2, <1>b
    <3>3. CASE k < page
      <4>1. document[k] = "pdf"
        BY <1>a, <1>b, <3>3 DEF OcrInv
      <4> QED BY <2>1, <3>1, <3>3, <4>1
    <3> QED BY <1>2, <2>1, <3>2, <3>3
  <2>3. ocr' = "start"
    BY DEF ReplaceDocument
  <2> QED BY <1>b, <1>3, <2>2, <2>3 DEF OcrInv, OcrAsking, Asking
<1> QED BY <1>5, <1>6, <1>8, <1>9, <1>10 DEF DeliveryInv

\* The job fails; what was asked of Document Intelligence is left alone.
LEMMA OcrFailsStep ==
  ASSUME DeliveryInv, OcrFails
  PROVE  DeliveryInv'
<1>a. ApiTypeOK(Requests, OcrSays) /\ OcrTypeOK /\ CallInv /\ OcrInv /\ MailTypeOK /\ StageInv
  BY Typed DEF DeliveryInv
<1>b. /\ stage = "start" /\ stage' = "failed" /\ ocr \in {"done", "failed"}
      /\ UNCHANGED <<apiVars, sizes, largeScans, draft, next, upload, off, pos>>
      /\ UNCHANGED <<graphVars, ocrVars, jobVars>>
  BY DEF OcrFails, Recognizing
<1> USE DEF apiVars, graphVars, ocrVars, jobVars
<1>1. Onward /\ SessionsTyped
  <2>1. SessionsTyped
    BY <1>b, Typed DEF DeliveryInv, SessionsTyped
  <2>2. \A i \in DOMAIN sessions : sessions'[i].next >= sessions[i].next
    BY <1>b, <2>1 DEF SessionsTyped
  <2> QED BY <1>b, <2>1, <2>2 DEF Onward
<1>2. CallInv'
  BY <1>a, <1>b, <1>1, CallUntouched
<1>3. DeliveryTypeOK'
  BY <1>b DEF DeliveryInv, DeliveryTypeOK, ApiTypeOK, MailTypeOK, OcrTypeOK, Attachments, Stage
<1>4. delivered' = {} /\ DOMAIN sessions' = {}
  BY <1>b DEF DeliveryInv, DeliveredInv, SessionsInv
<1>5. DraftsInv' /\ SessionsInv' /\ DeliveredInv' /\ MailedIsWhole'
  BY <1>b, <1>4 DEF DeliveryInv, DraftsInv, SessionsInv, DeliveredInv, MailedIsWhole, Attachments
<1>6. StageInv'
  BY <1>b DEF StageInv, Asking, Attaching
<1>7. OcrInv'
  BY <1>a, <1>b DEF OcrInv, OcrAsking, Asking, Attachments
<1> QED BY <1>2, <1>3, <1>5, <1>6, <1>7 DEF DeliveryInv

-----------------------------------------------------------------------------
(***************************************************************************)
(* The mail: what the client does.                                         *)
(***************************************************************************)
aroundVars == <<sizes, largeScans, graphVars, ocrVars, jobVars>>

Busy == {"start", "attach", "chunk"} \cup Asking

\* What each step of Send does to where it is, and no more.
MovesOn ==
  /\ UNCHANGED aroundVars /\ ~Recognizing
  /\ stage \in Busy /\ stage' \in Stage \ {"start"}
  /\ stage' \in {"too large", "draft"} => stage = "start"
  /\ draft' = draft \/ stage = "draft"

LEMMA MovesOnward ==
  ASSUME DeliveryInv, MovesOn
  PROVE  Onward /\ SessionsTyped
<1>0. /\ UNCHANGED <<sizes, largeScans, drafts, sessions, delivered>>
      /\ UNCHANGED <<operations, wantsOcr, page>>
  BY DEF MovesOn, aroundVars, graphVars, ocrVars, jobVars
<1>1. SessionsTyped
  BY <1>0, Typed DEF DeliveryInv, SessionsTyped
<1>2. \A i \in DOMAIN sessions : sessions'[i].next >= sessions[i].next
  BY <1>0, <1>1 DEF SessionsTyped
<1> QED BY <1>0, <1>1, <1>2 DEF Onward, MovesOn, Busy, Asking

\* Send goes on only when there is nothing, or nothing any more, to recognize.
LEMMA RecognizedThen ==
  ASSUME DeliveryInv, ~Recognizing, stage \in Busy
  PROVE  Recognized /\ ocr = "start"
BY DEF DeliveryInv, StageInv, OcrInv, Recognized, Recognizing, Busy, Asking

LEMMA MailFrame ==
  ASSUME DeliveryInv, MovesOn, CallInv', ApiTypeOK(Requests, OcrSays)', StageInv',
         {draft', next', upload', off', pos'} \subseteq Nat,
         stage' \in Asking \/ call'.state = "idle"
  PROVE  DeliveryInv'
<1>a. Recognized /\ ocr = "start"
  BY RecognizedThen DEF MovesOn
<1> USE DEF aroundVars, graphVars, ocrVars, jobVars, MovesOn
<1>b. Attachments' = Attachments /\ Recognized'
  BY <1>a DEF Attachments, Recognized
<1>1. DeliveryTypeOK'
  BY DEF DeliveryInv, DeliveryTypeOK, MailTypeOK, OcrTypeOK, Requests, Attachments
<1>2. DraftsInv' /\ MailedIsWhole'
  BY <1>b DEF DeliveryInv, DraftsInv, MailedIsWhole
<1>3. SessionsInv'
  BY <1>b DEF DeliveryInv, SessionsInv, Held
<1>4. DeliveredInv'
  BY <1>b DEF DeliveryInv, DeliveredInv
<1>5. OcrInv'
  BY <1>a, <1>b DEF DeliveryInv, OcrInv, OcrAsking
<1> QED BY <1>1, <1>2, <1>3, <1>4, <1>5 DEF DeliveryInv

\* A request of Send's.
LEMMA MailAsks ==
  ASSUME DeliveryInv, MovesOn, NEW r \in Request, Do(r), Asked(r)'
  PROVE  /\ CallInv' /\ ApiTypeOK(Requests, OcrSays)'
         /\ call'.state = "sent" /\ call'.request = r
<1>1. Onward /\ SessionsTyped
  BY MovesOnward
<1>2. CallInv'
  BY <1>1, CallAsks DEF DeliveryInv
<1>3. ApiTypeOK(Requests, OcrSays)'
  <2>1. 1 \in 1..MaxAttempts /\ r \in Requests
    BY ApiAssumption DEF Requests
  <2> QED BY <2>1, AttemptTypes, Typed DEF DeliveryInv, Do
<1> QED BY <1>2, <1>3 DEF Do, Attempt, Idle

\* It takes a result, or acts without asking.
LEMMA MailTakes ==
  ASSUME DeliveryInv, MovesOn, Settle \/ UNCHANGED apiVars, stage' \notin Asking,
         stage \notin Asking \/ Settle
  PROVE  CallInv' /\ ApiTypeOK(Requests, OcrSays)' /\ call'.state = "idle"
<1>1. Onward /\ SessionsTyped
  BY MovesOnward
<1>2. CASE Settle
  <2>1. CallInv' /\ ApiTypeOK(Requests, OcrSays)'
    BY <1>1, <1>2, CallSettles, SettleTypes, Typed DEF DeliveryInv
  <2> QED BY <1>2, <2>1 DEF Settle, Idle
<1>3. CASE UNCHANGED apiVars /\ stage \notin Asking
  <2>1. CallInv'
    BY <1>1, <1>3, CallUntouched DEF DeliveryInv, apiVars
  <2>2. ApiTypeOK(Requests, OcrSays)'
    BY <1>3, Typed DEF DeliveryInv, apiVars, ApiTypeOK
  <2>3. call.state = "idle"
    <3>1. ocr = "start"
      BY RecognizedThen DEF MovesOn
    <3> QED BY <1>3, <3>1 DEF DeliveryInv, OcrInv, OcrAsking
  <2> QED BY <1>3, <2>1, <2>2, <2>3 DEF apiVars
<1> QED BY <1>2, <1>3

LEMMA HeldUntouched ==
  ASSUME UNCHANGED aroundVars, draft' = draft
  PROVE  /\ \A k : Held(k)' <=> Held(k)
         /\ Attachments' = Attachments /\ sizes' = sizes /\ sessions' = sessions
BY DEF aroundVars, graphVars, Held, Attachments

LEMMA SendStep ==
  ASSUME DeliveryInv, ~Recognizing, Send, UNCHANGED <<ocrVars, jobVars>>
  PROVE  DeliveryInv'
<1>a. /\ stage = "start" /\ UNCHANGED aroundVars
      /\ UNCHANGED <<sizes, largeScans, draft, next, upload, off, pos>>
  BY DEF Send, aroundVars
<1>b. Recognized /\ Recognized' /\ AttachedBytes' = AttachedBytes
  BY <1>a, RecognizedThen DEF Busy, Recognized, aroundVars, jobVars, Attachments, AttachedBytes
<1>c. {draft', next', upload', off', pos'} \subseteq Nat
  BY <1>a, Typed DEF DeliveryInv, MailTypeOK
<1>1. CASE Fits /\ Do(Asks("sendMail", 0, 0)) /\ stage' = "mail"
  <2>1. MovesOn
    BY <1>a, <1>1 DEF MovesOn, Busy, Stage
  <2> DEFINE r == Asks("sendMail", 0, 0)
  <2>2. r \in Request /\ r.kind = "sendMail"
    BY DEF Asks, Request, MailKind
  <2> HIDE DEF r
  <2>3. Asked(r)'
    BY <1>1, <1>b, <2>2 DEF Asked, MailAsked, MailKind, Fits, Request, OcrRequest
  <2>4. CallInv' /\ ApiTypeOK(Requests, OcrSays)' /\ call'.state = "sent" /\ call'.request = r
    BY <1>1, <2>1, <2>2, <2>3, MailAsks DEF r
  <2>5. StageInv'
    BY <1>1, <1>b, <2>2, <2>4 DEF StageInv, Asking, Attaching
  <2> QED BY <1>1, <1>c, <2>1, <2>4, <2>5, MailFrame DEF Asking
<1>2. CASE ~Fits /\ largeScans /\ Do(Asks("draft", 0, 0)) /\ stage' = "draft"
  <2>1. MovesOn
    BY <1>a, <1>2 DEF MovesOn, Busy, Stage
  <2> DEFINE r == Asks("draft", 0, 0)
  <2>2. r \in Request /\ r.kind = "draft"
    BY DEF Asks, Request, MailKind
  <2> HIDE DEF r
  <2>3. Asked(r)'
    BY <1>2, <1>a, <1>b, <2>2 DEF Asked, MailAsked, MailKind, Request, OcrRequest
  <2>4. CallInv' /\ ApiTypeOK(Requests, OcrSays)' /\ call'.state = "sent" /\ call'.request = r
    BY <1>2, <2>1, <2>2, <2>3, MailAsks DEF r
  <2>5. StageInv'
    BY <1>2, <1>a, <1>b, <2>2, <2>4 DEF StageInv, Asking, Attaching
  <2> QED BY <1>2, <1>c, <2>1, <2>4, <2>5, MailFrame DEF Asking
<1>3. CASE stage' = "too large" /\ UNCHANGED apiVars
  <2>1. MovesOn
    BY <1>a, <1>3 DEF MovesOn, Busy, Stage
  <2>2. CallInv' /\ ApiTypeOK(Requests, OcrSays)' /\ call'.state = "idle"
    BY <1>3, <1>a, <2>1, MailTakes DEF Asking
  <2>3. StageInv'
    BY <1>3, <1>b DEF StageInv, Asking, Attaching
  <2> QED BY <1>c, <2>1, <2>2, <2>3, MailFrame
<1> QED BY <1>1, <1>2, <1>3 DEF Send

LEMMA EndStep ==
  ASSUME DeliveryInv, ~Recognizing, CannotRead \/ Fails \/ Succeeds, UNCHANGED <<ocrVars, jobVars>>
  PROVE  DeliveryInv'
<1>1. /\ stage \in Busy /\ stage' \in {"ok", "failed"} /\ UNCHANGED aroundVars
      /\ UNCHANGED <<draft, next, upload, off, pos>>
      /\ Settle \/ UNCHANGED apiVars
      /\ stage \notin Asking \/ Settle
      /\ stage' = "ok" => stage \in {"mail", "send"}
  BY DEF CannotRead, Fails, Succeeds, Busy, Asking, aroundVars
<1>2. MovesOn
  BY <1>1 DEF MovesOn, Stage
<1>3. CallInv' /\ ApiTypeOK(Requests, OcrSays)' /\ call'.state = "idle"
  BY <1>1, <1>2, MailTakes DEF Asking
<1>4. {draft', next', upload', off', pos'} \subseteq Nat
  BY <1>1, Typed DEF DeliveryInv, MailTypeOK
<1>5. StageInv'
  <2>1. Recognized'
    BY <1>1, RecognizedThen DEF Recognized, aroundVars, jobVars, Attachments
  <2> QED BY <1>1, <2>1 DEF StageInv, Asking, Attaching
<1> QED BY <1>2, <1>3, <1>4, <1>5, MailFrame

LEMMA HasDraftStep ==
  ASSUME DeliveryInv, ~Recognizing, HasDraft, UNCHANGED <<ocrVars, jobVars>>
  PROVE  DeliveryInv'
<1>1. /\ stage = "draft" /\ stage' = "attach" /\ UNCHANGED aroundVars /\ Settle
      /\ draft' = call.reply.id /\ next' = 1 /\ UNCHANGED <<upload, off, pos>>
      /\ call.state = "ok"
  BY DEF HasDraft, aroundVars
<1>2. MovesOn
  BY <1>1 DEF MovesOn, Stage, Busy, Asking
<1>3. CallInv' /\ ApiTypeOK(Requests, OcrSays)' /\ call'.state = "idle"
  BY <1>1, <1>2, MailTakes DEF Asking
<1>4. {draft', next', upload', off', pos'} \subseteq Nat
  <2>1. call.reply.id \in Nat
    BY <1>1, TakenMeans DEF DeliveryInv, Replies
  <2> QED BY <1>1, <2>1, Typed DEF DeliveryInv, MailTypeOK
<1>5. StageInv'
  <2>1. Recognized'
    BY <1>1, RecognizedThen DEF Recognized, aroundVars, jobVars, Attachments, Busy, Asking
  <2>2. largeScans' /\ Len(sizes') \in Nat
    BY <1>1, Typed DEF DeliveryInv, StageInv, aroundVars, MailTypeOK
  <2>3. next' \in 1..Len(sizes') + 1 /\ 1..next' - 1 = {}
    BY <1>1, <2>2
  <2> QED BY <1>1, <2>1, <2>2, <2>3 DEF StageInv, Asking, Attaching
<1> QED BY <1>2, <1>3, <1>4, <1>5, MailFrame

LEMMA AttachStep ==
  ASSUME DeliveryInv, ~Recognizing, Attach, UNCHANGED <<ocrVars, jobVars>>
  PROVE  DeliveryInv'
<1>a. /\ stage = "attach" /\ stage' \in {"attaching", "session", "send"} /\ UNCHANGED aroundVars
      /\ UNCHANGED <<sizes, largeScans, draft, next, upload, off, pos>>
  BY DEF Attach, aroundVars
<1>b. MovesOn
  BY <1>a DEF MovesOn, Stage, Busy, Asking
<1>c. {draft', next', upload', off', pos'} \subseteq Nat
  BY <1>a, Typed DEF DeliveryInv, MailTypeOK
<1>d. Recognized'
  BY <1>a, RecognizedThen DEF Recognized, aroundVars, jobVars, Attachments, Busy, Asking
<1>e. /\ \A k : Held(k)' <=> Held(k)
      /\ Attachments' = Attachments /\ sizes' = sizes /\ sessions' = sessions
  BY <1>a, HeldUntouched
<1>f. largeScans /\ next \in 1..Len(sizes) + 1 /\ \A k \in 1..next - 1 : Held(k)
  BY <1>a DEF DeliveryInv, StageInv
<1>g. sizes \in Seq(Nat \ {0}) /\ draft \in Nat /\ next \in Nat /\ Attachments = 1..Len(sizes)
  BY Typed DEF DeliveryInv, MailTypeOK, Attachments
<1>1. ASSUME NEW kind \in {"attach", "session"}, next \in Attachments,
             Do(Asks(kind, draft, next)),
             kind = "attach" => sizes[next] < Floor /\ stage' = "attaching",
             kind = "session" => sizes[next] >= Floor /\ stage' = "session"
      PROVE  DeliveryInv'
  <2> PICK r : r = Asks(kind, draft, next)
    OBVIOUS
  <2>2. r \in Request /\ r.kind = kind /\ r.id = draft /\ r.k = next
    BY <1>g DEF Asks, Request, MailKind
  <2>3. Asked(r)'
    BY <1>1, <1>a, <1>d, <1>e, <1>f, <2>2
       DEF Asked, MailAsked, MailKind, AttachAsked, SessionAsked, Request, OcrRequest
  <2>4. CallInv' /\ ApiTypeOK(Requests, OcrSays)' /\ call'.state = "sent" /\ call'.request = r
    BY <1>1, <1>b, <2>2, <2>3, MailAsks
  <2>5. StageInv'
    BY <1>1, <1>a, <1>d, <1>e, <1>f, <2>2, <2>4 DEF StageInv, Asking, Attaching
  <2> QED BY <1>1, <1>b, <1>c, <2>4, <2>5, MailFrame DEF Asking
<1>2. CASE next \notin Attachments /\ Do(Asks("send", draft, 0)) /\ stage' = "send"
  <2> PICK r : r = Asks("send", draft, 0)
    OBVIOUS
  <2>2. r \in Request /\ r.kind = "send" /\ r.id = draft
    BY <1>g DEF Asks, Request, MailKind
  <2>3. \A k \in Attachments : Held(k)
    <3>1. next = Len(sizes) + 1
      BY <1>2, <1>f, <1>g
    <3> QED BY <1>f, <1>g, <3>1
  <2>4. Asked(r)'
    BY <1>2, <1>a, <1>d, <1>e, <1>f, <2>2, <2>3
       DEF Asked, MailAsked, MailKind, SendAsked, Request, OcrRequest
  <2>5. CallInv' /\ ApiTypeOK(Requests, OcrSays)' /\ call'.state = "sent" /\ call'.request = r
    BY <1>2, <1>b, <2>2, <2>4, MailAsks
  <2>6. StageInv'
    BY <1>2, <1>a, <1>d, <1>e, <1>f, <2>2, <2>5 DEF StageInv, Asking, Attaching
  <2> QED BY <1>2, <1>b, <1>c, <2>5, <2>6, MailFrame DEF Asking
<1> QED BY <1>1, <1>2 DEF Attach

\* The next attachment, once this one is held.
LEMMA NextAttachmentStep ==
  ASSUME DeliveryInv, ~Recognizing, UNCHANGED aroundVars, UNCHANGED <<draft, upload, off>>,
         pos' \in Nat, stage \in {"attaching", "chunk"}, NextAttachment, Held(next),
         Settle \/ UNCHANGED apiVars, stage \notin Asking \/ Settle
  PROVE  DeliveryInv'
<1>a. stage' = "attach" /\ next' = next + 1
  BY DEF NextAttachment
<1>1. MovesOn
  BY <1>a DEF MovesOn, Stage, Busy, Asking
<1>2. CallInv' /\ ApiTypeOK(Requests, OcrSays)' /\ call'.state = "idle"
  BY <1>a, <1>1, MailTakes DEF Asking
<1>3. {draft', next', upload', off', pos'} \subseteq Nat
  BY <1>a, Typed DEF DeliveryInv, MailTypeOK
<1>4. StageInv'
  <2>1. Recognized'
    BY RecognizedThen DEF Recognized, aroundVars, jobVars, Attachments, Busy, Asking
  <2>2. /\ largeScans /\ next \in Attachments /\ next \in 1..Len(sizes) + 1
        /\ \A k \in 1..next - 1 : Held(k)
    BY DEF DeliveryInv, StageInv, Attaching
  <2>3. sizes \in Seq(Nat \ {0}) /\ Attachments = 1..Len(sizes)
    BY Typed DEF DeliveryInv, MailTypeOK, Attachments
  <2>4. next' \in 1..Len(sizes) + 1
    BY <1>a, <2>2, <2>3
  <2>5. \A k \in 1..next' - 1 : Held(k)
    BY <1>a, <2>2, <2>3
  <2>6. (\A k : Held(k)' <=> Held(k)) /\ sizes' = sizes /\ largeScans' = largeScans
    BY HeldUntouched DEF aroundVars
  <2> QED BY <1>a, <2>1, <2>2, <2>4, <2>5, <2>6 DEF StageInv, Asking, Attaching
<1> QED BY <1>1, <1>2, <1>3, <1>4, MailFrame

LEMMA HasAttachedStep ==
  ASSUME DeliveryInv, ~Recognizing, HasAttached, UNCHANGED <<ocrVars, jobVars>>
  PROVE  DeliveryInv'
<1>1. /\ stage = "attaching" /\ call.state = "ok" /\ NextAttachment /\ Settle
      /\ UNCHANGED aroundVars /\ UNCHANGED <<draft, upload, off, pos>>
  BY DEF HasAttached, aroundVars
<1>2. Held(next)
  <2>1. call.request.kind = "attach" /\ call.request.k = next
    BY <1>1 DEF DeliveryInv, StageInv
  <2> QED BY <1>1, <2>1, TakenMeans DEF DeliveryInv, Meant
<1>3. pos' \in Nat
  BY <1>1, Typed DEF DeliveryInv, MailTypeOK
<1> QED BY <1>1, <1>2, <1>3, NextAttachmentStep

LEMMA HasSessionStep ==
  ASSUME DeliveryInv, ~Recognizing, HasSession, UNCHANGED <<ocrVars, jobVars>>
  PROVE  DeliveryInv'
<1>1. /\ stage = "session" /\ call.state = "ok" /\ stage' = "chunk" /\ Settle
      /\ upload' = call.reply.id /\ off' = 0 /\ pos' = 0 /\ call.reply.id # 0
      /\ UNCHANGED aroundVars /\ UNCHANGED <<draft, next>>
  BY DEF HasSession, Usable, aroundVars
<1>2. MovesOn
  BY <1>1 DEF MovesOn, Stage, Busy, Asking
<1>3. CallInv' /\ ApiTypeOK(Requests, OcrSays)' /\ call'.state = "idle"
  BY <1>1, <1>2, MailTakes DEF Asking
<1>4. upload' \in DOMAIN sessions /\ sessions[upload'].k = next /\ upload' \in Nat
  <2>1. call.request.kind = "session" /\ call.request.k = next
    BY <1>1 DEF DeliveryInv, StageInv
  <2>2. Meant(call.request, call.reply) /\ call.reply \in Replies(OcrSays) /\ call.reply.status = "2xx"
    BY <1>1, TakenMeans DEF DeliveryInv
  <2> QED BY <1>1, <2>1, <2>2 DEF Meant, Replies
<1>5. {draft', next', upload', off', pos'} \subseteq Nat
  BY <1>1, <1>4, Typed DEF DeliveryInv, MailTypeOK
<1>6. StageInv'
  <2>1. Recognized'
    BY <1>1, RecognizedThen DEF Recognized, aroundVars, jobVars, Attachments, Busy, Asking
  <2>2. /\ largeScans /\ next \in Attachments /\ next \in 1..Len(sizes) + 1
        /\ \A k \in 1..next - 1 : Held(k)
    BY <1>1 DEF DeliveryInv, StageInv, Attaching
  <2>3. /\ \A k : Held(k)' <=> Held(k)
        /\ Attachments' = Attachments /\ sizes' = sizes /\ sessions' = sessions
        /\ largeScans' = largeScans
    BY <1>1, HeldUntouched DEF aroundVars
  <2>4. sessions[upload'].next >= 0
    BY <1>4, Typed DEF DeliveryInv
  <2> QED BY <1>1, <1>4, <2>1, <2>2, <2>3, <2>4 DEF StageInv, Asking, Attaching
<1> QED BY <1>2, <1>3, <1>5, <1>6, MailFrame

LEMMA PutChunkStep ==
  ASSUME DeliveryInv, ~Recognizing, PutChunk, UNCHANGED <<ocrVars, jobVars>>
  PROVE  DeliveryInv'
<1>a. stage = "chunk" /\ UNCHANGED aroundVars /\ UNCHANGED <<draft, upload, off>>
  BY DEF PutChunk, aroundVars
<1>b. /\ sizes \in Seq(Nat \ {0}) /\ Attachments = 1..Len(sizes)
      /\ {draft, next, upload, off, pos} \subseteq Nat
  BY Typed DEF DeliveryInv, MailTypeOK, Attachments
<1>c. /\ largeScans /\ next \in Attachments /\ next \in 1..Len(sizes) + 1
      /\ \A k \in 1..next - 1 : Held(k)
      /\ upload \in DOMAIN sessions /\ sessions[upload].k = next
      /\ pos = off /\ sessions[upload].next >= off
  BY <1>a DEF DeliveryInv, StageInv, Attaching
<1>d. sizes[next] \in Nat \ {0} /\ sessions[upload].next \in Nat
  BY <1>b, <1>c, Typed DEF DeliveryInv
<1>1. CASE off >= sizes[next] /\ NextAttachment /\ UNCHANGED <<apiVars, pos>>
  <2>1. Held(next)
    <3>1. sessions[upload].next >= sizes[sessions[upload].k]
      BY <1>1, <1>b, <1>c, <1>d
    <3> QED BY <1>c, <3>1 DEF DeliveryInv, SessionsInv
  <2> QED BY <1>1, <1>a, <1>b, <2>1, NextAttachmentStep DEF Asking
<1>2. ASSUME NEW n, n = Min({ChunkSize, sizes[next] - off}), off < sizes[next],
             pos' = pos + n, stage' = "uploading", next' = next,
             Do([kind |-> "chunk", id |-> upload, k |-> next,
                 from |-> off, to |-> off + n, read |-> pos])
      PROVE  DeliveryInv'
  <2>1. n \in Nat \ {0} /\ n <= ChunkSize /\ off + n <= sizes[next]
    <3>0. off \in Nat /\ ChunkSize \in Nat \ {0}
      BY <1>b, MailAssumption
    <3>1. ChunkSize \in Nat \ {0} /\ sizes[next] - off \in Nat \ {0}
      BY <1>2, <1>d, <3>0
    <3>2. n = IF ChunkSize <= sizes[next] - off THEN ChunkSize ELSE sizes[next] - off
      BY <1>2, <3>1, TwoNumbers
    <3> QED BY <1>d, <3>0, <3>1, <3>2
  <2> PICK r : r = [kind |-> "chunk", id |-> upload, k |-> next,
                    from |-> off, to |-> off + n, read |-> pos]
    OBVIOUS
  <2>2. /\ r \in Request /\ r.kind = "chunk" /\ r.id = upload /\ r.k = next
        /\ r.from = off /\ r.to = off + n /\ r.read = pos
    BY <1>b, <2>1 DEF Request, MailKind
  <2>3. MovesOn
    BY <1>2, <1>a DEF MovesOn, Stage, Busy, Asking
  <2>4. Recognized'
    BY <1>a, RecognizedThen DEF Recognized, aroundVars, jobVars, Attachments, Busy, Asking
  <2>5. /\ \A k : Held(k)' <=> Held(k)
        /\ Attachments' = Attachments /\ sizes' = sizes /\ sessions' = sessions
        /\ largeScans' = largeScans
    BY <1>a, HeldUntouched DEF aroundVars
  <2>6. Asked(r)'
    <3>1. ChunkAsked(r)'
      <4>1. r.from < r.to /\ r.to <= sizes[r.k] /\ r.to - r.from < MaxGraphMessage
        BY <1>b, <1>d, <2>1, <2>2, MailAssumption
      <4> QED BY <1>c, <2>2, <2>5, <4>1 DEF ChunkAsked
    <3> QED BY <1>2, <1>c, <2>2, <2>4, <2>5, <3>1
            DEF Asked, MailAsked, MailKind, Request, OcrRequest
  <2>7. CallInv' /\ ApiTypeOK(Requests, OcrSays)' /\ call'.state = "sent" /\ call'.request = r
    BY <1>2, <2>2, <2>3, <2>6, MailAsks
  <2>8. StageInv'
    BY <1>2, <1>a, <1>c, <2>2, <2>4, <2>5, <2>7 DEF StageInv, Asking, Attaching
  <2>9. {draft', next', upload', off', pos'} \subseteq Nat
    BY <1>2, <1>a, <1>b, <2>1
  <2> QED BY <1>2, <2>3, <2>7, <2>8, <2>9, MailFrame DEF Asking
<1> QED BY <1>1, <1>2 DEF PutChunk

LEMMA HasPutChunkStep ==
  ASSUME DeliveryInv, ~Recognizing, HasPutChunk, UNCHANGED <<ocrVars, jobVars>>
  PROVE  DeliveryInv'
<1>1. /\ stage = "uploading" /\ call.state = "ok" /\ stage' = "chunk" /\ Settle
      /\ off' = call.request.to
      /\ UNCHANGED aroundVars /\ UNCHANGED <<draft, next, upload, pos>>
  BY DEF HasPutChunk, aroundVars
<1>2. MovesOn
  BY <1>1 DEF MovesOn, Stage, Busy, Asking
<1>3. CallInv' /\ ApiTypeOK(Requests, OcrSays)' /\ call'.state = "idle"
  BY <1>1, <1>2, MailTakes DEF Asking
<1>4. /\ call.request.kind = "chunk" /\ call.request.id = upload /\ call.request.to = pos
      /\ largeScans /\ next \in Attachments /\ next \in 1..Len(sizes) + 1
      /\ \A k \in 1..next - 1 : Held(k)
      /\ upload \in DOMAIN sessions /\ sessions[upload].k = next
  BY <1>1 DEF DeliveryInv, StageInv, Attaching
<1>5. sessions[upload].next >= pos
  BY <1>1, <1>4, TakenMeans DEF DeliveryInv, Meant
<1>6. {draft', next', upload', off', pos'} \subseteq Nat
  BY <1>1, <1>4, Typed DEF DeliveryInv, MailTypeOK
<1>7. StageInv'
  <2>1. Recognized'
    BY <1>1, RecognizedThen DEF Recognized, aroundVars, jobVars, Attachments, Busy, Asking
  <2>2. /\ \A k : Held(k)' <=> Held(k)
        /\ Attachments' = Attachments /\ sizes' = sizes /\ sessions' = sessions
        /\ largeScans' = largeScans
    BY <1>1, HeldUntouched DEF aroundVars
  <2> QED BY <1>1, <1>4, <1>5, <2>1, <2>2 DEF StageInv, Asking, Attaching
<1> QED BY <1>2, <1>3, <1>6, <1>7, MailFrame

\* Whatever Send does next.
LEMMA MailClientStep ==
  ASSUME DeliveryInv, ~Recognizing, MailStep, UNCHANGED <<ocrVars, jobVars>>
  PROVE  DeliveryInv'
BY SendStep, EndStep, HasDraftStep, AttachStep, HasAttachedStep, HasSessionStep, PutChunkStep,
   HasPutChunkStep DEF MailStep

-----------------------------------------------------------------------------
(***************************************************************************)
(* The mail: what Graph does, whenever it does it.                         *)
(***************************************************************************)
LEMMA SeqWider ==
  ASSUME NEW S, NEW T, S \subseteq T, NEW s \in Seq(S)
  PROVE  s \in Seq(T)
OBVIOUS

DraftType == [attached : SUBSET Attached, sent : BOOLEAN]
SessionType == [draft : DOMAIN drafts, k : Attachments, next : Nat, intact : BOOLEAN, open : BOOLEAN]

\* The mailbox after a step: nothing is lost, and it holds what it should.
GraphGoesOn ==
  /\ drafts' \in Seq(DraftType) /\ sessions' \in Seq(SessionType)' /\ delivered' \subseteq SUBSET Attached
  /\ \A d \in DOMAIN drafts :
        d \in DOMAIN drafts' /\ drafts[d].attached \subseteq drafts'[d].attached
  /\ \A i \in DOMAIN sessions :
        /\ i \in DOMAIN sessions' /\ sessions'[i].k = sessions[i].k
        /\ sessions'[i].next >= sessions[i].next
  /\ delivered \subseteq delivered'
  /\ DraftsInv' /\ SessionsInv' /\ DeliveredInv' /\ MailedIsWhole'

clientSide == <<sizes, largeScans, sendVars, ocrVars, jobVars>>

LEMMA GraphTyped ==
  ASSUME DeliveryInv
  PROVE  /\ drafts \in Seq(DraftType) /\ sessions \in Seq(SessionType)
         /\ delivered \subseteq SUBSET Attached
         /\ \A i \in DOMAIN sessions : sessions[i] \in SessionType
         /\ \A i \in DOMAIN sessions : sessions[i].next \in Nat
         /\ \A d \in DOMAIN drafts : drafts[d] \in DraftType
<1>1. /\ drafts \in Seq(DraftType) /\ sessions \in Seq(SessionType)
      /\ delivered \subseteq SUBSET Attached
  BY Typed DEF DeliveryInv, MailTypeOK, DraftType, SessionType
<1>2. \A i \in DOMAIN sessions : sessions[i] \in SessionType
  BY <1>1
<1>3. \A d \in DOMAIN drafts : drafts[d] \in DraftType
  BY <1>1
<1> QED BY <1>1, <1>2, <1>3, Typed DEF DeliveryInv

LEMMA GraphOnward ==
  ASSUME DeliveryInv, UNCHANGED clientSide, GraphGoesOn
  PROVE  Onward /\ SessionsTyped
<1>1. SessionsTyped
  <2> PICK S : S = SessionType'
    OBVIOUS
  <2>1. \A i \in DOMAIN sessions' : sessions'[i] \in S
    BY DEF GraphGoesOn
  <2>2. \A x \in S : x.next \in Nat
    BY DEF SessionType
  <2> QED BY <2>1, <2>2, GraphTyped DEF SessionsTyped
<1> QED BY <1>1 DEF Onward, clientSide, sendVars, ocrVars, jobVars, GraphGoesOn

\* The service is done with a request: what it did, and that what it says is so.
LEMMA GraphFrame ==
  ASSUME DeliveryInv, UNCHANGED clientSide, GraphGoesOn, NEW m \in inFlight,
         NEW reply \in Replies(OcrSays), AnswerTo(m, reply), Meant(m.request, reply)'
  PROVE  DeliveryInv'
<1>1. Onward /\ SessionsTyped
  BY GraphOnward
<1>2. CallInv' /\ ApiTypeOK(Requests, OcrSays)'
  BY <1>1, CallAnswered, AnswerTypes, Typed DEF DeliveryInv
<1>3. StageInv' /\ OcrInv'
  <2>1. sizes \in Seq(Nat \ {0}) /\ off \in Nat
    BY Typed DEF DeliveryInv, MailTypeOK
  <2> QED BY <1>1, <2>1, PlacesStay DEF DeliveryInv, AnswerTo, clientSide, ocrVars, jobVars
<1>4. DeliveryTypeOK'
  <2>1. MailTypeOK'
    BY Typed DEF DeliveryInv, MailTypeOK, GraphGoesOn, DraftType, SessionType, clientSide, sendVars,
       Attachments
  <2>2. OcrTypeOK' /\ wantsOcr' = wantsOcr /\ page' = page /\ document' = document
          /\ Attachments' = Attachments /\ sizes' = sizes
    BY Typed DEF DeliveryInv, OcrTypeOK, clientSide, ocrVars, jobVars, Attachments
  <2> QED BY <1>2, <2>1, <2>2 DEF DeliveryInv, DeliveryTypeOK, Requests
<1> QED BY <1>2, <1>3, <1>4 DEF DeliveryInv, GraphGoesOn

LEMMA ClientStays ==
  ASSUME UNCHANGED clientSide
  PROVE  /\ Attachments' = Attachments /\ (Recognized' <=> Recognized)
         /\ UNCHANGED <<sizes, stage, draft, wantsOcr, page, document>>
BY DEF clientSide, sendVars, jobVars, Attachments, Recognized

LEMMA NumberedAttachments ==
  ASSUME DeliveryInv
  PROVE  Attachments \subseteq Nat /\ Attachments = 1..Len(sizes) /\ Len(sizes) \in Nat
<1>1. sizes \in Seq(Nat \ {0})
  BY Typed DEF DeliveryInv, MailTypeOK
<1> QED BY <1>1 DEF Attachments

\* When the recognition is done, every document is searchable.
LEMMA AllSearchable ==
  ASSUME DeliveryInv, Recognized
  PROVE  wantsOcr => \A k \in Attachments : document[k] = "pdf"
<1>1. page \in 1..Len(sizes) + 1 /\ sizes \in Seq(Nat \ {0}) /\ Attachments = 1..Len(sizes)
  BY Typed DEF DeliveryInv, DeliveryTypeOK, MailTypeOK, Attachments
<1>2. wantsOcr => \A k \in Attachments : k < page
  BY <1>1 DEF Recognized
<1> QED BY <1>2 DEF DeliveryInv, OcrInv

LEMMA SendsMailGoesOn ==
  ASSUME DeliveryInv, UNCHANGED clientSide, NEW r, Asked(r), SendsMail(r)
  PROVE  GraphGoesOn /\ delivered' # {}
<1>1. /\ Attachments' = Attachments /\ (Recognized' <=> Recognized)
      /\ UNCHANGED <<sizes, stage, draft, wantsOcr, page, document>>
  BY ClientStays
<1>2. drafts' = drafts /\ sessions' = sessions /\ delivered' = delivered \cup {Attachments \X {TRUE}}
  BY DEF SendsMail
<1>3. Recognized /\ stage \notin {"start", "too large"}
  BY DEF Asked, MailAsked, SendsMail, MailKind
<1>4. Attachments \X {TRUE} \in SUBSET Attached
  BY NumberedAttachments DEF Attached
<1>5. SessionType' = SessionType
  BY <1>1, <1>2 DEF SessionType
<1>6. \A i \in DOMAIN sessions : sessions'[i].next >= sessions[i].next
  BY <1>2, GraphTyped
<1>7. DraftsInv' /\ SessionsInv'
  BY <1>1, <1>2 DEF DeliveryInv, DraftsInv, SessionsInv, Held
<1>8. DeliveredInv' /\ MailedIsWhole'
  BY <1>1, <1>2, <1>3, AllSearchable DEF DeliveryInv, DeliveredInv, MailedIsWhole
<1> QED BY <1>2, <1>4, <1>5, <1>6, <1>7, <1>8, GraphTyped DEF GraphGoesOn

LEMMA MakesDraftGoesOn ==
  ASSUME DeliveryInv, UNCHANGED clientSide, NEW r, MakesDraft(r)
  PROVE  GraphGoesOn /\ Len(drafts') \in DOMAIN drafts' /\ Len(drafts') \in Nat
<1> DEFINE new == [attached |-> {}, sent |-> FALSE]
<1>1. /\ Attachments' = Attachments /\ (Recognized' <=> Recognized)
      /\ UNCHANGED <<sizes, stage, draft, wantsOcr, page, document>>
  BY ClientStays
<1>2. drafts' = Append(drafts, new) /\ sessions' = sessions /\ delivered' = delivered
  BY DEF MakesDraft
<1>3. drafts \in Seq(DraftType) /\ new \in DraftType
  BY GraphTyped DEF DraftType
<1>a. new.attached = {}
  OBVIOUS
<1> HIDE DEF new
<1>4. /\ drafts' \in Seq(DraftType) /\ Len(drafts') = Len(drafts) + 1 /\ Len(drafts) \in Nat
      /\ \A d \in DOMAIN drafts : d \in DOMAIN drafts' /\ drafts'[d] = drafts[d]
      /\ \A d \in DOMAIN drafts' : d \in DOMAIN drafts \/ drafts'[d] = new
  BY <1>2, <1>3
<1>5. sessions' \in Seq(SessionType)'
  <2>1. SessionType \subseteq SessionType'
    BY <1>1, <1>4 DEF SessionType
  <2> PICK S, T : S = SessionType /\ T = SessionType'
    OBVIOUS
  <2>2. sessions \in Seq(S) /\ S \subseteq T
    BY <2>1, GraphTyped
  <2>3. sessions \in Seq(T)
    BY <2>2, SeqWider
  <2> QED BY <1>2, <2>3
<1>6. \A i \in DOMAIN sessions : sessions'[i].next >= sessions[i].next
  BY <1>2, GraphTyped
<1>7. DraftsInv'
  BY <1>1, <1>4, <1>a DEF DeliveryInv, DraftsInv
<1>8. SessionsInv'
  BY <1>1, <1>2, <1>4 DEF DeliveryInv, SessionsInv, Held
<1>9. DeliveredInv' /\ MailedIsWhole'
  BY <1>1, <1>2 DEF DeliveryInv, DeliveredInv, MailedIsWhole
<1>10. Len(drafts') \in DOMAIN drafts' /\ Len(drafts') \in Nat
  BY <1>4
<1> QED BY <1>2, <1>4, <1>5, <1>6, <1>7, <1>8, <1>9, <1>10, GraphTyped DEF GraphGoesOn

\* The draft with one more attachment, whole.
LEMMA AttachesTo ==
  ASSUME DeliveryInv, UNCHANGED clientSide, NEW d, NEW k \in Attachments, Unsent(d), d = draft,
         AttachTo(d, k, TRUE)
  PROVE  /\ drafts' \in Seq(DraftType) /\ DOMAIN drafts' = DOMAIN drafts
         /\ \A e \in DOMAIN drafts : drafts[e].attached \subseteq drafts'[e].attached
         /\ DraftsInv' /\ Held(k)' /\ (\A x : Held(x) => Held(x)')
<1>1. Attachments' = Attachments /\ draft' = draft
  BY ClientStays
<1>2. d \in DOMAIN drafts /\ drafts \in Seq(DraftType) /\ drafts[d] \in DraftType
  BY GraphTyped DEF Unsent
<1> DEFINE new == [drafts[d] EXCEPT !.attached = @ \cup {<<k, TRUE>>}]
<1>3. drafts' = [drafts EXCEPT ![d] = new]
  BY DEF AttachTo
<1>4. new.attached = drafts[d].attached \cup {<<k, TRUE>>} /\ new.sent = drafts[d].sent
  BY <1>2 DEF DraftType
<1>5. new \in DraftType
  <2>1. <<k, TRUE>> \in Attached
    BY NumberedAttachments DEF Attached
  <2> QED BY <1>2, <2>1 DEF DraftType
<1> HIDE DEF new
<1>6. /\ drafts' \in Seq(DraftType) /\ DOMAIN drafts' = DOMAIN drafts /\ drafts'[d] = new
      /\ \A e \in DOMAIN drafts : e # d => drafts'[e] = drafts[e]
  BY <1>2, <1>3, <1>5
<1>7. \A e \in DOMAIN drafts : drafts[e].attached \subseteq drafts'[e].attached
  BY <1>4, <1>6
<1>8. DraftsInv'
  <2>1. \A e \in DOMAIN drafts : drafts[e].attached \subseteq Attachments \X {TRUE}
    BY DEF DeliveryInv, DraftsInv
  <2>2. new.attached \subseteq Attachments \X {TRUE}
    <3>1. drafts[d].attached \subseteq Attachments \X {TRUE}
      BY <1>2, <2>1
    <3>2. <<k, TRUE>> \in Attachments \X {TRUE}
      OBVIOUS
    <3> QED BY <1>4, <3>1, <3>2
  <2> QED BY <1>1, <1>6, <2>1, <2>2 DEF DraftsInv
<1>9. Held(k)' /\ (\A x : Held(x) => Held(x)')
  BY <1>1, <1>2, <1>4, <1>6, <1>7 DEF Held
<1> QED BY <1>6, <1>7, <1>8, <1>9

LEMMA TakesAttachmentGoesOn ==
  ASSUME DeliveryInv, UNCHANGED clientSide, NEW r, Asked(r), TakesAttachment(r)
  PROVE  GraphGoesOn /\ Held(r.k)'
<1>1. /\ Attachments' = Attachments /\ (Recognized' <=> Recognized)
      /\ UNCHANGED <<sizes, stage, draft, wantsOcr, page, document>>
  BY ClientStays
<1>2. /\ Unsent(r.id) /\ AttachTo(r.id, r.k, TRUE) /\ r.id = draft /\ r.k \in Attachments
      /\ sessions' = sessions /\ delivered' = delivered
  BY DEF TakesAttachment, Asked, MailAsked, MailKind, AttachAsked
<1>3. /\ drafts' \in Seq(DraftType) /\ DOMAIN drafts' = DOMAIN drafts
      /\ \A e \in DOMAIN drafts : drafts[e].attached \subseteq drafts'[e].attached
      /\ DraftsInv' /\ Held(r.k)' /\ (\A x : Held(x) => Held(x)')
  BY <1>2, AttachesTo
<1>4. SessionType' = SessionType
  BY <1>1, <1>3 DEF SessionType
<1>5. \A i \in DOMAIN sessions : sessions'[i].next >= sessions[i].next
  BY <1>2, GraphTyped
<1>6. SessionsInv'
  BY <1>1, <1>2, <1>3 DEF DeliveryInv, SessionsInv
<1>7. DeliveredInv' /\ MailedIsWhole'
  BY <1>1, <1>2 DEF DeliveryInv, DeliveredInv, MailedIsWhole
<1> QED BY <1>2, <1>3, <1>4, <1>5, <1>6, <1>7, GraphTyped DEF GraphGoesOn

LEMMA OpensSessionGoesOn ==
  ASSUME DeliveryInv, UNCHANGED clientSide, NEW r, Asked(r), OpensSession(r)
  PROVE  /\ GraphGoesOn
         /\ Len(sessions') \in DOMAIN sessions' /\ Len(sessions') \in Nat
         /\ sessions'[Len(sessions')].k = r.k
<1>1. /\ Attachments' = Attachments /\ (Recognized' <=> Recognized)
      /\ UNCHANGED <<sizes, stage, draft, wantsOcr, page, document>>
  BY ClientStays
<1>2. /\ Unsent(r.id) /\ r.id = draft /\ r.k \in Attachments /\ stage \notin {"start", "draft"}
      /\ drafts' = drafts /\ delivered' = delivered
  BY DEF OpensSession, Asked, MailAsked, MailKind, SessionAsked
<1> DEFINE new == [draft |-> r.id, k |-> r.k, next |-> 0, intact |-> TRUE, open |-> TRUE]
<1>3. sessions' = Append(sessions, new)
  BY DEF OpensSession
<1>4. /\ new.draft = draft /\ new.k = r.k /\ new.next = 0 /\ new.intact
      /\ new \in SessionType
  BY <1>2 DEF SessionType, Unsent
<1>5. SessionType' = SessionType /\ sessions \in Seq(SessionType)
  BY <1>1, <1>2, GraphTyped DEF SessionType
<1>6. sizes[r.k] > 0
  BY <1>2, NumberedAttachments, Typed DEF DeliveryInv, MailTypeOK
<1> HIDE DEF new
<1>7. /\ sessions' \in Seq(SessionType) /\ Len(sessions') = Len(sessions) + 1
      /\ \A i \in DOMAIN sessions : i \in DOMAIN sessions' /\ sessions'[i] = sessions[i]
      /\ \A i \in DOMAIN sessions' : i \in DOMAIN sessions \/ sessions'[i] = new
      /\ Len(sessions') \in DOMAIN sessions' /\ Len(sessions') \in Nat
      /\ sessions'[Len(sessions')] = new
  BY <1>3, <1>4, <1>5
<1>8. \A i \in DOMAIN sessions : sessions'[i].next >= sessions[i].next
  BY <1>7, GraphTyped
<1>9. DraftsInv'
  BY <1>1, <1>2 DEF DeliveryInv, DraftsInv
<1>10. SessionsInv'
  <2> SUFFICES ASSUME NEW i \in DOMAIN sessions'
               PROVE  /\ sessions'[i].draft = draft' /\ sessions'[i].intact
                      /\ stage' \notin {"start", "draft"}
                      /\ sessions'[i].next >= sizes'[sessions'[i].k] =>
                            draft' \in DOMAIN drafts'
                              /\ <<sessions'[i].k, TRUE>> \in drafts'[draft'].attached
    BY DEF SessionsInv, Held
  <2>1. CASE i \in DOMAIN sessions
    BY <1>1, <1>2, <1>7, <2>1 DEF DeliveryInv, SessionsInv, Held
  <2>2. CASE sessions'[i] = new
    <3>1. ~(new.next >= sizes[new.k])
      <4>1. sizes[r.k] \in Nat
        BY <1>2, NumberedAttachments, Typed DEF DeliveryInv, MailTypeOK
      <4> QED BY <1>4, <1>6, <4>1
    <3> QED BY <1>1, <1>2, <1>4, <2>2, <3>1
  <2> QED BY <1>7, <2>1, <2>2
<1>11. DeliveredInv' /\ MailedIsWhole'
  BY <1>1, <1>2 DEF DeliveryInv, DeliveredInv, MailedIsWhole
<1> QED BY <1>2, <1>4, <1>5, <1>7, <1>8, <1>9, <1>10, <1>11, GraphTyped DEF GraphGoesOn

LEMMA TakesChunkGoesOn ==
  ASSUME DeliveryInv, UNCHANGED clientSide, NEW r, Asked(r), TakesChunk(r)
  PROVE  GraphGoesOn /\ sessions'[r.id].next >= r.to
<1>1. /\ Attachments' = Attachments /\ (Recognized' <=> Recognized)
      /\ UNCHANGED <<sizes, stage, draft, wantsOcr, page, document>>
  BY ClientStays
<1> DEFINE s == sessions[r.id]
<1> DEFINE last == r.to = sizes[s.k]
<1>2. /\ r.id \in DOMAIN sessions /\ r.k = s.k /\ r.read = r.from
      /\ r.from < r.to /\ r.to <= sizes[r.k] /\ r.from \in Nat /\ r.to \in Nat
  BY DEF TakesChunk, Asked, MailAsked, MailKind, ChunkAsked, Request, OcrRequest, OcrKind
<1>3. /\ s \in SessionType /\ s.draft = draft /\ s.intact /\ stage \notin {"start", "draft"}
  BY <1>2, GraphTyped DEF DeliveryInv, SessionsInv
<1> DEFINE new == [s EXCEPT !.next = r.to, !.intact = s.intact /\ r.read = r.from, !.open = ~last]
<1>4. /\ Unsent(s.draft) /\ r.from = s.next
      /\ sessions' = [sessions EXCEPT ![r.id] = new]
      /\ IF last THEN AttachTo(s.draft, s.k, TRUE) ELSE UNCHANGED drafts
      /\ delivered' = delivered
  <2>1. (s.intact /\ r.read = r.from) = TRUE
    BY <1>2, <1>3 DEF SessionType
  <2> QED BY <2>1 DEF TakesChunk
<1>5. /\ new.draft = draft /\ new.k = s.k /\ new.next = r.to /\ new.intact
      /\ new \in SessionType
  BY <1>2, <1>3 DEF SessionType
<1>6. s.k \in Attachments /\ sizes[s.k] \in Nat /\ s.next \in Nat
  <2>1. s.k \in Attachments /\ s.next \in Nat
    BY <1>3 DEF SessionType
  <2>2. sizes \in Seq(Nat \ {0})
    BY Typed DEF DeliveryInv, MailTypeOK
  <2>3. \A k \in Attachments : sizes[k] \in Nat
    BY <2>2 DEF Attachments
  <2> QED BY <2>1, <2>3
<1> PICK k : k = s.k
  OBVIOUS
<1> HIDE DEF new
<1>7. /\ drafts' \in Seq(DraftType) /\ DOMAIN drafts' = DOMAIN drafts
      /\ \A e \in DOMAIN drafts : drafts[e].attached \subseteq drafts'[e].attached
      /\ DraftsInv' /\ (last => Held(k)') /\ (\A x : Held(x) => Held(x)')
  <2>1. CASE last
    <3>1. AttachTo(draft, k, TRUE) /\ Unsent(draft) /\ k \in Attachments
      BY <1>3, <1>4, <1>6, <2>1
    <3> PICK d : d = draft
      OBVIOUS
    <3>2. AttachTo(d, k, TRUE) /\ Unsent(d)
      BY <3>1
    <3> HIDE DEF last
    <3> QED BY <2>1, <3>1, <3>2, AttachesTo
  <2>2. CASE ~last
    BY <1>1, <1>4, <2>2, GraphTyped DEF DeliveryInv, DraftsInv, Held
  <2> QED BY <2>1, <2>2
<1>8. SessionType' = SessionType /\ sessions \in Seq(SessionType)
  BY <1>1, <1>7, GraphTyped DEF SessionType
<1>9. /\ sessions' \in Seq(SessionType) /\ DOMAIN sessions' = DOMAIN sessions
      /\ sessions'[r.id] = new
      /\ \A i \in DOMAIN sessions : i # r.id => sessions'[i] = sessions[i]
  BY <1>2, <1>4, <1>5, <1>8
<1>10. \A i \in DOMAIN sessions : 
          sessions'[i].k = sessions[i].k /\ sessions'[i].next >= sessions[i].next
  <2> SUFFICES ASSUME NEW i \in DOMAIN sessions
               PROVE  sessions'[i].k = sessions[i].k /\ sessions'[i].next >= sessions[i].next
    OBVIOUS
  <2>1. CASE i = r.id
    BY <1>2, <1>4, <1>5, <1>6, <1>9, <2>1
  <2>2. CASE i # r.id
    BY <1>9, <2>2, GraphTyped
  <2> QED BY <2>1, <2>2
<1>11. SessionsInv'
  <2> SUFFICES ASSUME NEW i \in DOMAIN sessions
               PROVE  /\ sessions'[i].draft = draft' /\ sessions'[i].intact
                      /\ stage' \notin {"start", "draft"}
                      /\ sessions'[i].next >= sizes'[sessions'[i].k] =>
                            draft' \in DOMAIN drafts'
                              /\ <<sessions'[i].k, TRUE>> \in drafts'[draft'].attached
    BY <1>9 DEF SessionsInv, Held
  <2>1. CASE i = r.id
    <3>1. sessions'[i].k = k /\ sessions'[i].next = r.to /\ sessions'[i].draft = draft
            /\ sessions'[i].intact
      BY <1>5, <1>9, <2>1
    <3>2. sessions'[i].next >= sizes'[sessions'[i].k] => last
      BY <1>1, <1>2, <1>6, <3>1
    <3>3. last => Held(k)'
      BY <1>7
    <3> HIDE DEF last
    <3> QED BY <1>1, <1>3, <3>1, <3>2, <3>3 DEF Held
  <2>2. CASE i # r.id
    <3>1. sessions'[i] = sessions[i]
      BY <1>9, <2>2
    <3> PICK x : x = sessions[i].k
      OBVIOUS
    <3>2. /\ sessions[i].draft = draft /\ sessions[i].intact
          /\ sessions[i].next >= sizes[x] => Held(x)
      BY DEF DeliveryInv, SessionsInv
    <3>3. Held(x) => Held(x)'
      BY <1>7
    <3> QED BY <1>1, <1>3, <3>1, <3>2, <3>3 DEF Held
  <2> QED BY <2>1, <2>2
<1>12. DeliveredInv' /\ MailedIsWhole'
  BY <1>1, <1>4 DEF DeliveryInv, DeliveredInv, MailedIsWhole
<1>13. sessions'[r.id].next >= r.to
  BY <1>2, <1>5, <1>9
<1> QED BY <1>4, <1>7, <1>8, <1>9, <1>10, <1>11, <1>12, <1>13, GraphTyped DEF GraphGoesOn

LEMMA SendsDraftGoesOn ==
  ASSUME DeliveryInv, UNCHANGED clientSide, NEW r, Asked(r), SendsDraft(r)
  PROVE  GraphGoesOn /\ delivered' # {}
<1>1. /\ Attachments' = Attachments /\ (Recognized' <=> Recognized)
      /\ UNCHANGED <<sizes, stage, draft, wantsOcr, page, document>>
  BY ClientStays
<1>2. /\ Unsent(draft) /\ r.id = draft /\ Recognized /\ stage \notin {"start", "too large"}
      /\ \A k \in Attachments : Held(k)
      /\ drafts' = [drafts EXCEPT ![draft].sent = TRUE]
      /\ delivered' = delivered \cup {drafts[draft].attached}
      /\ sessions' = sessions
  BY DEF SendsDraft, Asked, MailAsked, MailKind, SendAsked
<1>3. draft \in DOMAIN drafts /\ drafts[draft] \in DraftType /\ drafts \in Seq(DraftType)
  BY <1>2, GraphTyped DEF Unsent
<1>4. drafts[draft].attached = Attachments \X {TRUE}
  <2>1. drafts[draft].attached \subseteq Attachments \X {TRUE}
    BY <1>3 DEF DeliveryInv, DraftsInv
  <2>2. \A k \in Attachments : <<k, TRUE>> \in drafts[draft].attached
    BY <1>2 DEF Held
  <2>3. \A x \in Attachments \X {TRUE} : \E k \in Attachments : x = <<k, TRUE>>
    <3>1. \A t : \A x \in Attachments \X {t} : \E k \in Attachments : x = <<k, t>>
      OBVIOUS
    <3> QED BY <3>1
  <2>4. \A x \in Attachments \X {TRUE} : x \in drafts[draft].attached
    BY <2>2, <2>3
  <2> QED BY <2>1, <2>4
<1> DEFINE new == [drafts[draft] EXCEPT !.sent = TRUE]
<1>5. new.attached = drafts[draft].attached /\ new \in DraftType
  BY <1>3 DEF DraftType
<1>6. drafts' = [drafts EXCEPT ![draft] = new]
  BY <1>2
<1> HIDE DEF new
<1>7. /\ drafts' \in Seq(DraftType) /\ DOMAIN drafts' = DOMAIN drafts
      /\ \A e \in DOMAIN drafts : drafts'[e].attached = drafts[e].attached
  BY <1>3, <1>5, <1>6
<1>8. SessionType' = SessionType
  BY <1>1, <1>7 DEF SessionType
<1>9. \A i \in DOMAIN sessions : sessions'[i].next >= sessions[i].next
  <2>1. sessions' = sessions
    BY <1>2
  <2>2. \A i \in DOMAIN sessions : sessions[i].next \in Nat
    BY GraphTyped
  <2> QED BY <2>1, <2>2
<1>10. DraftsInv'
  BY <1>1, <1>7 DEF DeliveryInv, DraftsInv
<1>11. SessionsInv'
  BY <1>1, <1>2, <1>7 DEF DeliveryInv, SessionsInv, Held
<1>12. DeliveredInv' /\ MailedIsWhole'
  BY <1>1, <1>2, <1>4, AllSearchable DEF DeliveryInv, DeliveredInv, MailedIsWhole
<1>13. delivered' \subseteq SUBSET Attached
  BY <1>2, <1>3, GraphTyped DEF DraftType
<1> QED BY <1>2, <1>7, <1>8, <1>9, <1>10, <1>11, <1>12, <1>13, GraphTyped DEF GraphGoesOn

\* Whatever Graph grants, a success says no more than what it has done.
LEMMA GrantsGoOn ==
  ASSUME DeliveryInv, UNCHANGED clientSide, NEW r, Asked(r), r.kind \in MailKind, Grants(r)
  PROVE  /\ GraphGoesOn /\ Made(r) \in Nat
         /\ \A reply : reply.id \in {Made(r), 0} => Meant(r, reply)'
<1>0. draft' = draft
  BY ClientStays
<1>1. CASE SendsMail(r)
  <2>1. r.kind = "sendMail"
    BY <1>1 DEF SendsMail
  <2> QED BY <1>1, <2>1, SendsMailGoesOn DEF Made, Meant
<1>2. CASE MakesDraft(r)
  <2>1. r.kind = "draft"
    BY <1>2 DEF MakesDraft
  <2> QED BY <1>2, <2>1, MakesDraftGoesOn DEF Made, Meant
<1>3. CASE TakesAttachment(r)
  <2>1. r.kind = "attach"
    BY <1>3 DEF TakesAttachment
  <2>2. GraphGoesOn /\ Held(r.k)'
    BY <1>3, TakesAttachmentGoesOn
  <2> QED BY <2>1, <2>2 DEF Made, Meant
<1>4. CASE OpensSession(r)
  <2>1. r.kind = "session"
    BY <1>4 DEF OpensSession
  <2> QED BY <1>4, <2>1, OpensSessionGoesOn DEF Made, Meant
<1>5. CASE TakesChunk(r)
  <2>1. r.kind = "chunk"
    BY <1>5 DEF TakesChunk
  <2> QED BY <1>5, <2>1, TakesChunkGoesOn DEF Made, Meant
<1>6. CASE SendsDraft(r)
  <2>1. r.kind = "send"
    BY <1>6 DEF SendsDraft
  <2> QED BY <1>6, <2>1, SendsDraftGoesOn DEF Made, Meant
<1> QED BY <1>1, <1>2, <1>3, <1>4, <1>5, <1>6 DEF Grants

LEMMA ServeStep ==
  ASSUME DeliveryInv, NEW m \in inFlight, m.request.kind \in MailKind, Serve(m),
         UNCHANGED <<ocrVars, jobVars>>
  PROVE  DeliveryInv'
<1>a. UNCHANGED clientSide
  BY DEF Serve, Grant, Acknowledge, Deny, clientSide
<1>b. Asked(m.request)
  BY RequestOutstanding DEF DeliveryInv
<1>s. Status = {"2xx", "3xx", "4xx", "429", "5xx"} /\ {"", "garbled"} \subseteq OcrSays /\ 0 \in Nat
  BY DEF Status, OcrSays
<1>1. CASE Grant(m)
  <2>1. /\ GraphGoesOn /\ Made(m.request) \in Nat
        /\ \A reply : reply.id \in {Made(m.request), 0} => Meant(m.request, reply)'
    <3>1. Grants(m.request)
      BY <1>1 DEF Grant
    <3>2. \A r : Asked(r) /\ r.kind \in MailKind /\ Grants(r) =>
             /\ GraphGoesOn /\ Made(r) \in Nat
             /\ \A reply : reply.id \in {Made(r), 0} => Meant(r, reply)'
      BY <1>a, GrantsGoOn
    <3>3. Asked(m.request) /\ m.request.kind \in MailKind
      BY <1>b
    <3> QED BY <3>1, <3>2, <3>3
  <2>2. PICK reply \in Replies(OcrSays) : AnswerTo(m, reply) /\ reply.id \in {Made(m.request), 0}
    <3> PICK made : made = Made(m.request)
      OBVIOUS
    <3>1. CASE \E id \in {made, 0} : AnswerTo(m, Reply("2xx", NoHeader, id, ""))
      <4> PICK id \in {made, 0} : AnswerTo(m, Reply("2xx", NoHeader, id, ""))
        BY <3>1
      <4>1. Reply("2xx", NoHeader, id, "") \in Replies(OcrSays)
        BY <1>s, <2>1, ReplyTypes
      <4> QED BY <4>1 DEF Reply
    <3>2. CASE AnswerTo(m, Reply("2xx", NoHeader, 0, "garbled"))
      <4>1. Reply("2xx", NoHeader, 0, "garbled") \in Replies(OcrSays)
        BY <1>s, ReplyTypes
      <4> QED BY <3>2, <4>1 DEF Reply
    <3>3. CASE AnswerTo(m, Denial("5xx", NoHeader))
      <4>1. Denial("5xx", NoHeader) \in Replies(OcrSays)
        BY <1>s, ReplyTypes DEF Denial
      <4> QED BY <3>3, <4>1 DEF Reply, Denial
    <3> QED BY <1>1, <3>1, <3>2, <3>3 DEF Grant
  <2>3. Meant(m.request, reply)'
    BY <2>1, <2>2
  <2> QED BY <1>a, <2>1, <2>2, <2>3, GraphFrame
<1>2. ASSUME NEW reply \in Replies(OcrSays), AnswerTo(m, reply), UNCHANGED graphVars,
             Meant(m.request, reply)
      PROVE  DeliveryInv'
  <2>1. GraphGoesOn
    <3>1. UNCHANGED <<drafts, sessions, delivered>>
      BY <1>2 DEF graphVars
    <3>2. /\ Attachments' = Attachments /\ (Recognized' <=> Recognized)
          /\ UNCHANGED <<sizes, stage, draft, wantsOcr, page, document>>
      BY <1>a, ClientStays
    <3>3. DraftsInv' /\ SessionsInv' /\ DeliveredInv' /\ MailedIsWhole'
      BY <3>1, <3>2 DEF DeliveryInv, DraftsInv, SessionsInv, DeliveredInv, MailedIsWhole, Held
    <3>4. SessionType' = SessionType
      BY <3>1, <3>2 DEF SessionType
    <3>5. \A i \in DOMAIN sessions : sessions'[i].next >= sessions[i].next
      BY <3>1, GraphTyped
    <3> QED BY <3>1, <3>3, <3>4, <3>5, GraphTyped DEF GraphGoesOn
  <2>2. Meant(m.request, reply)'
    <3>1. Onward /\ SessionsTyped
      BY <1>a, <2>1, GraphOnward
    <3> QED BY <1>2, <1>b, <3>1, MeantStays
  <2> QED BY <1>2, <1>a, <2>1, <2>2, GraphFrame
<1>3. CASE Acknowledge(m)
  <2> DEFINE reply == Reply("2xx", NoHeader, 0, "")
  <2>1. reply \in Replies(OcrSays)
    BY <1>s, ReplyTypes
  <2>2. Meant(m.request, reply)
    BY <1>3 DEF Acknowledge, Meant, Reply
  <2> HIDE DEF reply
  <2> QED BY <1>2, <1>3, <2>1, <2>2 DEF Acknowledge, reply
<1>4. CASE Deny(m)
  <2>1. PICK status \in {"3xx", "4xx", "429", "5xx"}, header \in Headers :
           AnswerTo(m, Denial(status, header))
    BY <1>4, ApiAssumption DEF Deny
  <2>2. Denial(status, header) \in Replies(OcrSays) /\ Denial(status, header).status # "2xx"
    BY <1>s, ReplyTypes DEF Denial, Reply
  <2>3. Meant(m.request, Denial(status, header))
    BY <2>2 DEF Meant
  <2> QED BY <1>2, <1>4, <2>1, <2>2, <2>3 DEF Deny
<1> QED BY <1>1, <1>3, <1>4 DEF Serve

LEMMA DeliverStep ==
  ASSUME DeliveryInv, Deliver
  PROVE  DeliveryInv'
<1>1. ~Recognizing /\ UNCHANGED <<ocrVars, jobVars>>
  BY DEF Deliver
<1>2. CASE MailStep
  BY <1>1, <1>2, MailClientStep
<1>3. CASE (ApiStep \/ Cancel) /\ UNCHANGED <<sizes, largeScans, sendVars, graphVars>>
  BY <1>1, <1>3, CallStep DEF otherVars
<1>4. CASE \E m \in inFlight : m.request.kind \in MailKind /\ Serve(m)
  BY <1>1, <1>4, ServeStep
<1> QED BY <1>2, <1>3, <1>4 DEF Deliver, MailNext, Client

-----------------------------------------------------------------------------
(***************************************************************************)
(* The theorems.                                                           *)
(***************************************************************************)
LEMMA InitDelivery ==
  ASSUME DeliveryInit
  PROVE  DeliveryInv
<1> USE DEF DeliveryInit, MailInit, ApiInit, OcrInit
<1>1. sizes \in Seq(Nat \ {0}) /\ Attachments = 1..Len(sizes) /\ Len(sizes) \in Nat
  BY MailAssumption DEF Attachments
<1>2. call = [state |-> "idle", request |-> None, attempt |-> 0, wait |-> 0, reply |-> None]
  BY DEF Idle
<1>3. ApiTypeOK(Request \cup OcrRequest, OcrSays)
  <2>1. 0 \in 0..MaxAttempts
    BY ApiAssumption
  <2>2. call \in CallType
    BY <1>2, <2>1 DEF CallType, CallState
  <2> QED BY <2>2 DEF ApiTypeOK, CallType, Requests
<1>4. DeliveryTypeOK
  <2>1. MailTypeOK
    BY <1>1 DEF MailTypeOK, Stage
  <2>2. OcrTypeOK
    BY DEF OcrTypeOK, OcrStage, Output
  <2>3. page \in 1..Len(sizes) + 1
    BY <1>1
  <2> QED BY <1>3, <2>1, <2>2, <2>3 DEF DeliveryTypeOK
<1>5. CallInv
  <2>1. Outstanding = {} /\ Answered = {}
    BY <1>2 DEF Outstanding, Answered
  <2> QED BY <1>2, <2>1 DEF CallInv
<1>6. DraftsInv /\ SessionsInv /\ DeliveredInv /\ MailedIsWhole
  BY DEF DraftsInv, SessionsInv, DeliveredInv, MailedIsWhole
<1>7. StageInv
  BY DEF StageInv, Asking, Attaching
<1>8. OcrInv
  <2>1. ~(\E k \in Attachments : k < page)
    BY <1>1
  <2> QED BY <1>2, <2>1 DEF OcrInv, OcrAsking
<1> QED BY <1>4, <1>5, <1>6, <1>7, <1>8 DEF DeliveryInv

LEMMA DeliveryNextKeeps ==
  ASSUME DeliveryInv, [DeliveryNext]_deliveryVars
  PROVE  DeliveryInv'
<1>1. CASE DeliveryNext
  BY <1>1, RunOcrStep, ReplaceStep, OcrFailsStep, DeliverStep DEF DeliveryNext
<1>2. CASE UNCHANGED deliveryVars
  <2>1. UNCHANGED otherVars /\ UNCHANGED apiVars
    BY <1>2 DEF deliveryVars, mailVars, otherVars
  <2>2. CallInv'
    BY <2>1, NothingElse, CallUntouched DEF DeliveryInv, apiVars
  <2>3. ApiTypeOK(Requests, OcrSays)'
    BY <2>1, Typed DEF DeliveryInv, apiVars, ApiTypeOK
  <2> QED BY <2>1, <2>2, <2>3, OnlyTheCall DEF apiVars
<1> QED BY <1>1, <1>2

\* Every request and every success stands for something that is so, in whatever
\* order the network delivers them, and the two clients are where they think
\* they are (internal/msapi, internal/graphmail, internal/docintel).
THEOREM DeliveryInvariant == DeliverySpec => []DeliveryInv
BY InitDelivery, DeliveryNextKeeps, PTL DEF DeliverySpec

\* The variables keep to their types; among them every wait is between the
\* least and the most, whatever number of seconds a service names (msapi.go:118).
THEOREM DeliveryTypesHold == DeliverySpec => []DeliveryTypeOK
<1>1. DeliveryInv => DeliveryTypeOK
  BY DEF DeliveryInv
<1> QED BY <1>1, DeliveryInvariant, PTL

\* What reached the recipients has every document, whole, and searchable where
\* that was asked for (upload.go:56).
THEOREM MailedDocumentsAreWhole == DeliverySpec => []MailedIsWhole
<1>1. DeliveryInv => MailedIsWhole
  BY DEF DeliveryInv
<1> QED BY <1>1, DeliveryInvariant, PTL

\* No request is made that Graph would turn down for its size, and none needs
\* Mail.ReadWrite unless large scans were enabled (graphmail.go:78).
THEOREM RequestsAreTaken == DeliverySpec => []AsksWhatGraphTakes
<1>1. DeliveryInv => AsksWhatGraphTakes
  <2> SUFFICES ASSUME DeliveryInv, NEW m \in inFlight, m.request.kind \in MailKind
               PROVE  LET r == m.request
                      IN  CASE r.kind = "sendMail" -> Encoded(AttachedBytes + Overhead) <= MaxGraphMessage
                            [] r.kind = "attach" -> largeScans /\ sizes[r.k] < Floor
                            [] r.kind = "session" -> largeScans /\ sizes[r.k] >= Floor
                            [] r.kind = "chunk" -> largeScans /\ r.to - r.from < MaxGraphMessage
                                                     /\ r.from < r.to
                            [] OTHER -> largeScans
    BY DEF AsksWhatGraphTakes
  <2>1. MailAsked(m.request)
    BY RequestOutstanding DEF DeliveryInv, Asked
  <2> QED BY <2>1 DEF MailAsked, AttachAsked, SessionAsked, ChunkAsked
<1> QED BY <1>1, DeliveryInvariant, PTL

\* One step of the delivery, as the pipeline sees it.
LEMMA StepKeepsPromise ==
  ASSUME DeliveryInv, [DeliveryNext]_deliveryVars
  PROVE  [Promise!Mail \/ Promise!Return]_<<Outcome, delivered # {}>>
<1> DEFINE Step == [Promise!Mail \/ Promise!Return]_<<Outcome, delivered # {}>>
<1>1. ASSUME delivered' = delivered, Outcome' = Outcome
      PROVE  Step
  BY <1>1
<1>2. ASSUME delivered' = delivered, Outcome = "trying", Outcome' = "failed"
      PROVE  Step
  BY <1>2 DEF Promise!Return
<1>3. ASSUME delivered' = delivered, Outcome = "trying", Outcome' = "ok", delivered # {}
      PROVE  Step
  BY <1>3 DEF Promise!Return
<1>4. ASSUME delivered' = delivered, Outcome = "trying", Outcome' = "too large", delivered = {}
      PROVE  Step
  BY <1>4 DEF Promise!Return
<1>5. ASSUME Outcome' = Outcome, Outcome # "too large", delivered' # {}
      PROVE  Step
  BY <1>5 DEF Promise!Mail
<1> HIDE DEF Step
<1>6. CASE RunOcr \/ ReplaceDocument \/ UNCHANGED deliveryVars
  <2>1. stage' = stage /\ delivered' = delivered
    BY <1>6 DEF RunOcr, ReplaceDocument, deliveryVars, mailVars, sendVars, graphVars
  <2> QED BY <1>1, <2>1 DEF Outcome, Step
<1>7. CASE OcrFails
  BY <1>2, <1>7 DEF OcrFails, Recognizing, graphVars, Outcome, Step
<1>8. CASE Deliver /\ MailStep
  <2>1. ~Recognizing /\ delivered' = delivered
    BY <1>8 DEF Deliver, MailStep, Send, CannotRead, Fails, Succeeds, HasDraft, Attach, HasAttached,
       HasSession, PutChunk, HasPutChunk, graphVars
  <2>2. CASE Send
    <3>1. CASE stage' = "too large"
      <4>1. delivered = {} /\ Outcome = "trying" /\ Outcome' = "too large"
        BY <2>2, <3>1 DEF Send, DeliveryInv, DeliveredInv, Outcome
      <4> QED BY <1>4, <2>1, <4>1 DEF Step
    <3>2. CASE stage' # "too large"
      <4>1. Outcome' = Outcome
        BY <2>2, <3>2 DEF Send, Outcome
      <4> QED BY <1>1, <2>1, <4>1 DEF Step
    <3> QED BY <3>1, <3>2
  <2>3. CASE CannotRead \/ Fails
    <3>1. Outcome = "trying" /\ Outcome' = "failed"
      BY <2>3 DEF CannotRead, Fails, Asking, Outcome
    <3> QED BY <1>2, <2>1, <3>1 DEF Step
  <2>4. CASE Succeeds
    <3>1. call.request.kind \in {"sendMail", "send"} /\ call.state = "ok"
      BY <2>4 DEF Succeeds, DeliveryInv, StageInv
    <3>2. delivered # {}
      BY <3>1, TakenMeans DEF DeliveryInv, Meant
    <3>3. Outcome = "trying" /\ Outcome' = "ok"
      BY <2>4 DEF Succeeds, Outcome
    <3> QED BY <1>3, <2>1, <3>2, <3>3 DEF Step
  <2>5. CASE HasDraft \/ Attach \/ HasAttached \/ HasSession \/ PutChunk \/ HasPutChunk
    <3>1. Outcome' = Outcome
      BY <2>5 DEF HasDraft, Attach, HasAttached, HasSession, PutChunk, HasPutChunk, NextAttachment, Outcome
    <3> QED BY <1>1, <2>1, <3>1 DEF Step
  <2> QED BY <1>8, <2>2, <2>3, <2>4, <2>5 DEF MailStep
<1>9. CASE (ApiStep \/ Cancel) /\ UNCHANGED <<sizes, largeScans, sendVars, graphVars>>
  <2>1. stage' = stage /\ delivered' = delivered
    BY <1>9 DEF sendVars, graphVars
  <2> QED BY <1>1, <2>1 DEF Outcome, Step
<1>10. CASE \E m \in inFlight : m.request.kind \in MailKind /\ Serve(m)
  <2> PICK m \in inFlight : m.request.kind \in MailKind /\ Serve(m)
    BY <1>10
  <2>1. stage' = stage
    BY DEF Serve, Grant, Acknowledge, Deny, sendVars
  <2>2. Outcome' = Outcome
    BY <2>1 DEF Outcome
  <2>3. stage # "too large"
    BY RequestOutstanding DEF DeliveryInv, Asked, MailAsked
  <2>4. Outcome # "too large"
    BY <2>3 DEF Outcome
  <2>5. CASE delivered' # {}
    BY <1>5, <2>2, <2>4, <2>5 DEF Step
  <2>6. CASE delivered' = {}
    <3>1. delivered \subseteq delivered'
      BY DEF Serve, Grant, Acknowledge, Deny, graphVars, Grants, SendsMail, MakesDraft,
             TakesAttachment, OpensSession, TakesChunk, SendsDraft
    <3> QED BY <1>1, <2>2, <2>6, <3>1 DEF Step
  <2> QED BY <2>5, <2>6
<1> QED BY <1>6, <1>7, <1>8, <1>9, <1>10 DEF DeliveryNext, Deliver, MailNext, Client, Step

\* Success means the message is on its way, "too large" that it never will be,
\* whatever was lost, repeated or answered late in between (graphmail.go:78).
THEOREM DeliveryKeepsPromise == DeliverySpec => KeepsPromise
<1>1. DeliveryInit => Promise!PromiseInit
  BY DEF DeliveryInit, MailInit, Promise!PromiseInit, Outcome
<1> QED BY <1>1, DeliveryInvariant, StepKeepsPromise, PTL
        DEF DeliverySpec, KeepsPromise, Promise!PromiseSpec
=============================================================================
