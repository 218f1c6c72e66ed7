------------------------------- MODULE MsApi -------------------------------
(***************************************************************************)
(* The retry loop of internal/msapi/msapi.go, and the network it talks     *)
(* over.  One logical request is made of up to MaxAttempts attempts; each  *)
(* puts a request on its way, and the service handles it late, or never.   *)
(* An attempt the client has given up on can still take effect.            *)
(*                                                                         *)
(* What a service does with a request, and what it answers, is the         *)
(* business of the modules that extend this one.                           *)
(***************************************************************************)
EXTENDS Integers, FiniteSets, FiniteSetsExt

CONSTANTS
  MaxAttempts,  \* maxAttempts
  BaseBackoff,  \* baseBackoff
  MaxWait,      \* maxWait
  Second,       \* time.Second
  Width,        \* the bits of a time.Duration
  Headers,      \* the Retry-After headers a service may send
  None

HeaderKind == {"absent", "seconds", "date"}
NoHeader == [kind |-> "absent", value |-> 0]

ASSUME ApiAssumption ==
  /\ MaxAttempts \in Nat \ {0}
  /\ Width \in Nat \ {0}
  /\ {BaseBackoff, MaxWait, Second} \subseteq Nat \ {0}
  /\ BaseBackoff <= MaxWait
  /\ Headers \subseteq [kind : HeaderKind, value : Int] /\ NoHeader \in Headers

\* The provers do not know what a power is; these are the ones used below.
ASSUME PowersAssumption ==
  \A n \in 0..MaxAttempts \cup {Width - 1, Width} : 2 ^ n \in Nat \ {0}

VARIABLES
  call,      \* the logical request Do is busy with
  answer,    \* what the service answered the current attempt, or None
  inFlight,  \* the requests that may still reach the service
  cancelled  \* ctx.Err() # nil

apiVars == <<call, answer, inFlight, cancelled>>

Status == {"2xx", "3xx", "4xx", "429", "5xx"}

\* Nothing asked; an attempt is out; between two; answered; given up.
CallState == {"idle", "sent", "waiting", "ok", "failed"}

Idle == [state |-> "idle", request |-> None, attempt |-> 0, wait |-> 0, reply |-> None]

\* What a response names, if anything (0 is an empty name), and what it says.
Reply(status, header, id, says) ==
  [status |-> status, header |-> header, id |-> id, says |-> says]

Replies(Says) == [status : Status, header : Headers, id : Nat, says : Says]

Denial(status, header) == Reply(status, header, 0, "")

ApiTypeOK(Requests, Says) ==
  /\ call \in [state : CallState, request : Requests \cup {None}, attempt : 0..MaxAttempts,
               wait : {0} \cup BaseBackoff..MaxWait, reply : Replies(Says) \cup {None}]
  /\ answer \in Replies(Says) \cup {None}
  /\ inFlight \subseteq [request : Requests, attempt : 1..MaxAttempts]
  /\ cancelled \in BOOLEAN

ApiInit ==
  /\ call = Idle
  /\ answer = None
  /\ inFlight = {}
  /\ cancelled = FALSE

-----------------------------------------------------------------------------
\* A time.Duration that overflows wraps around.
Signed(n) == ((n + 2 ^ (Width - 1)) % 2 ^ Width) - 2 ^ (Width - 1)

\* Wrong: no lower bound.
ClampAbove(d) == Min({d, MaxWait})

Clamp(d) == Min({Max({d, BaseBackoff}), MaxWait})

\* A date is the time until then.
RetryAfter(header, fallback) ==
  IF header.kind = "absent" \/ (header.kind = "seconds" /\ header.value < 0) THEN fallback
  ELSE IF header.kind = "seconds" THEN Clamp(Signed(header.value * Second))
  ELSE Clamp(header.value)

Backoff(attempt) == Min({BaseBackoff * 2 ^ (attempt - 1), MaxWait})

\* Wrong: a redirect passes for an answer.
SucceededUnlessRefused(status) == status \in {"2xx", "3xx"}

Succeeded(status) == status = "2xx"

Retryable(status) == status \in {"429", "5xx"}

-----------------------------------------------------------------------------
\* One attempt: the request is built anew and sent.
Attempt(request, n) ==
  /\ call' = [Idle EXCEPT !.state = "sent", !.request = request, !.attempt = n]
  /\ inFlight' = inFlight \cup {[request |-> request, attempt |-> n]}
  /\ answer' = None
  /\ UNCHANGED cancelled

\* Do is called; the caller goes on once the call is "ok" or "failed".
Do(request) == call.state = "idle" /\ Attempt(request, 1)

\* Wrong: the last attempt's error is lost.
RetryForgettingError(wait) ==
  call' = IF call.attempt = MaxAttempts 
          THEN [call EXCEPT !.state = "ok", !.reply = Denial("5xx", NoHeader)]
          ELSE [call EXCEPT !.state = "waiting", !.wait = wait]

\* The attempt brought no response, or one worth another attempt.
Retry(wait) ==
  call' = IF call.attempt = MaxAttempts THEN [call EXCEPT !.state = "failed"]
          ELSE [call EXCEPT !.state = "waiting", !.wait = wait]

\* The response to the current attempt arrives.
Receive ==
  /\ call.state = "sent" /\ answer # None
  /\ \/ /\ Succeeded(answer.status)
        /\ call' = [call EXCEPT !.state = "ok", !.reply = answer]
     \/ /\ Retryable(answer.status)
        /\ Retry(RetryAfter(answer.header, Backoff(call.attempt)))
     \/ /\ ~Succeeded(answer.status) /\ ~Retryable(answer.status)
        /\ call' = [call EXCEPT !.state = "failed"]
  /\ answer' = None
  /\ UNCHANGED <<inFlight, cancelled>>

\* Nothing arrives: a broken connection, the timeout of the HTTP client, or
\* the context, which is never retried.
GoesMissing ==
  /\ call.state = "sent"
  /\ IF cancelled THEN call' = [call EXCEPT !.state = "failed"]
     ELSE Retry(Backoff(call.attempt))
  /\ answer' = None
  /\ UNCHANGED <<inFlight, cancelled>>

\* Wait is over, or cut short.
Wake ==
  /\ call.state = "waiting"
  /\ \/ /\ ~cancelled
        /\ Attempt(call.request, call.attempt + 1)
     \/ /\ cancelled
        /\ call' = [call EXCEPT !.state = "failed"]
        /\ UNCHANGED <<answer, inFlight, cancelled>>

ApiStep == Receive \/ GoesMissing \/ Wake

\* The deadline of the context passes, or its parent is cancelled.
Cancel ==
  /\ ~cancelled
  /\ cancelled' = TRUE
  /\ UNCHANGED <<call, answer, inFlight>>

\* The caller has its result.
Settle == call' = Idle /\ UNCHANGED <<answer, inFlight, cancelled>>

Answers(m) == call.state = "sent" /\ call.request = m.request /\ call.attempt = m.attempt

\* The service is done with m; nobody reads what it answers a lost attempt.
AnswerTo(m, reply) ==
  /\ inFlight' = inFlight \ {m}
  /\ answer' = IF Answers(m) THEN reply ELSE answer
  /\ UNCHANGED <<call, cancelled>>
=============================================================================
