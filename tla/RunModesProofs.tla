--------------------------- MODULE RunModesProofs ---------------------------
(***************************************************************************)
(* Proofs about the setup wizard during one life of the process            *)
(* (SetupWizard), and about the lives around it (RunModes), for any        *)
(* requests, browsers, settings, files, starts and tokens.                 *)
(***************************************************************************)
EXTENDS RunModes, SequenceTheorems, TLAPS

-----------------------------------------------------------------------------
(***************************************************************************)
(* What holds of the wizard in every state.                                *)
(***************************************************************************)
Saving == {"writing", "synced", "renamed"}
Folded == {"folded", "saved", "failed"} \cup Saving

\* The one save that is at it holds mu, and memory lags behind the file only
\* between its rename and its last critical section.
SaveInv ==
  /\ \A r \in Requests : request[r].state \in Saving <=> lock = r
  /\ fileValues = ReadConfigFile(conf) \/ \E r \in Requests : request[r].state = "renamed"
  /\ \A r \in Requests :
       request[r].state = "renamed" => conf.parses /\ conf.values = request[r].values

\* The forms in pending are the last ones rendered, oldest first, as their
\* requests left them; where there is room for more, an older one folded into
\* a file that was replaced since.
PendingInv ==
  /\ \A k \in DOMAIN rendered :
       request[rendered[k]].state = "form" /\ request[rendered[k]].kind # "view"
  /\ Len(pending) <= Len(rendered)
  /\ \A k \in DOMAIN pending :
       LET r == rendered[Len(rendered) - Len(pending) + k]
       IN  pending[k] = [id |-> r, values |-> request[r].values, file |-> request[r].file]
  /\ Len(pending) < FormsKept =>
       \A k \in 1..Len(rendered) - Len(pending) : request[rendered[k]].file < generation

\* What a request carries: its page and those before it are forms, a viewed
\* form shows the file, and every secret is typed here or earlier on the page,
\* or is the file's.
RequestInv(r) ==
  LET q == request[r] IN
  /\ q.file <= generation
  /\ q.state \in Folded => q.kind \notin {"view", "start"}
  /\ q.page # None => request[q.page].state = "form" /\ q.page \in q.line
                        /\ request[q.page].line \subseteq q.line
  /\ \A v \in q.line : request[v].state = "form"
  /\ \A s \in Secrets : q.post[s] \in {Unset, r}
  /\ q.state = "form" /\ q.kind = "view" /\ q.file = generation => q.values = fileValues
  /\ q.state \in {"form"} \cup Folded /\ q.file = generation =>
       \A s \in Secrets : Legitimate(r, s, q.values[s])

WizardInv ==
  /\ WizardTypeOK
  /\ FormsAreTheHolders
  /\ SaveInv
  /\ PendingInv
  /\ \A r \in Requests : RequestInv(r)

-----------------------------------------------------------------------------
(***************************************************************************)
(* Types, in one life and in all of them.                                  *)
(***************************************************************************)
LEMMA BaseTyped ==
  ASSUME WizardTypeOK, NEW p
  PROVE  Base(p) \in Configuration
<1>1. CASE \E k \in DOMAIN pending : pending[k].id = p /\ pending[k].file = generation
  <2>1. PICK k \in DOMAIN pending : pending[k].id = p
    BY <1>1
  <2> DEFINE c == CHOOSE n \in DOMAIN pending : pending[n].id = p
  <2>2. c \in DOMAIN pending
    BY <2>1
  <2>3. Base(p) = pending[c].values
    BY <1>1 DEF Base
  <2> HIDE DEF c
  <2>4. pending[c] \in Form
    BY <2>2 DEF WizardTypeOK
  <2> QED BY <2>3, <2>4 DEF Form
<1>2. CASE ~(\E k \in DOMAIN pending : pending[k].id = p /\ pending[k].file = generation)
  BY <1>2 DEF Base, WizardTypeOK
<1> QED BY <1>1, <1>2

LEMMA FoldTyped ==
  ASSUME NEW base \in Configuration, NEW post \in Configuration
  PROVE  Fold(base, post) \in Configuration
BY DEF Fold, Configuration, Value

LEMMA PostsTyped ==
  ASSUME WizardTypeOK, NEW r \in Requests, NEW p \in Requests \cup {None}, NEW post \in Posts(r, p)
  PROVE  post \in Configuration
<1>1. ASSUME NEW s \in Settings
      PROVE  Shown(p, s) \in Value
  <2>1. p # None => request[p].values \in Configuration
    BY DEF WizardTypeOK, Request
  <2> QED BY <2>1 DEF Shown, Configuration, Value
<1> QED BY <1>1 DEF Posts, Configuration, Value

LEMMA BlankTyped == Blank \in Configuration
BY DEF Blank, Configuration, Value

\* What arrives is one admitted request, which carries values and only secrets
\* of its own.
LEMMA ArrivalIs ==
  ASSUME WizardTypeOK, NEW r \in Requests, Arrive(r)
  PROVE  \E b \in Browsers, kind \in Kind, p \in Requests \cup {None}, post \in Configuration :
           /\ Admit(r, b, kind, p, post)
           /\ \A s \in Secrets : post[s] \in {Unset, r}
<1>1. PICK b \in Browsers, kind \in Kind, p \in Requests \cup {None} :
        IF kind \in {"view", "start"}
        THEN p = None /\ Admit(r, b, kind, None, Blank)
        ELSE \E post \in Posts(r, p) : Admit(r, b, kind, p, post)
  BY DEF Arrive
<1>2. \A s \in Secrets : Blank[s] = Unset
  BY SetupAssumption DEF Blank
<1>3. ASSUME NEW post \in Posts(r, p)
      PROVE  post \in Configuration /\ \A s \in Secrets : post[s] \in {Unset, r}
  <2>1. \A s \in Secrets : post[s] \in {Unset, r}
    BY SetupAssumption DEF Posts, Shown
  <2> QED BY <2>1, PostsTyped
<1> QED BY <1>1, <1>2, <1>3, BlankTyped

LEMMA ReadTyped ==
  ASSUME conf \in File
  PROVE  ReadConfigFile(conf) \in Configuration
BY BlankTyped DEF ReadConfigFile, File

\* What remember leaves of the forms: the last FormsKept.
LEMMA RememberKeeps ==
  ASSUME WizardTypeOK, NEW r \in Requests, NEW values \in Configuration, Remember(r, values)
  PROVE  LET L == Len(pending)
             form == [id |-> r, values |-> values, file |-> request[r].file]
         IN  /\ pending' \in Seq(Form)
             /\ L < FormsKept => /\ Len(pending') = L + 1 /\ pending'[L + 1] = form
                                 /\ \A k \in 1..L : pending'[k] = pending[k]
             /\ L = FormsKept => /\ Len(pending') = L /\ pending'[L] = form
                                 /\ \A k \in 1..L - 1 : pending'[k] = pending[k + 1]
<1> DEFINE L == Len(pending)
           form == [id |-> r, values |-> values, file |-> request[r].file]
           forms == Append(pending, form)
<1>1. form \in Form
  BY DEF WizardTypeOK, Request, Form
<1>2. pending \in Seq(Form) /\ L \in Nat /\ L <= FormsKept /\ FormsKept \in Nat \ {0}
  BY SetupAssumption DEF WizardTypeOK
<1> HIDE DEF form
<1>3. /\ forms \in Seq(Form) /\ Len(forms) = L + 1 /\ forms[L + 1] = form
      /\ \A k \in 1..L : forms[k] = pending[k]
  BY <1>1, <1>2
<1>4. pending' = IF Len(forms) > FormsKept THEN Tail(forms) ELSE forms
  BY DEF Remember, form
<1> HIDE DEF forms
<1>5. /\ Tail(forms) \in Seq(Form) /\ Len(Tail(forms)) = L
      /\ \A k \in 1..L : Tail(forms)[k] = forms[k + 1]
  BY <1>2, <1>3
<1> HIDE DEF L
<1>6. CASE L < FormsKept
  BY <1>2, <1>3, <1>4, <1>6 DEF form, L
<1>7. CASE L = FormsKept
  <2>1. pending' = Tail(forms)
    BY <1>2, <1>3, <1>4, <1>7
  <2>2. \A k \in 1..L - 1 : Tail(forms)[k] = pending[k + 1]
    <3> SUFFICES ASSUME NEW k \in 1..L - 1
                 PROVE  Tail(forms)[k] = pending[k + 1]
      OBVIOUS
    <3>1. k \in 1..L /\ k + 1 \in 1..L
      BY <1>2
    <3> QED BY <1>3, <1>5, <3>1
  <2>3. Tail(forms)[L] = form
    BY <1>2, <1>3, <1>5, <1>7
  <2> QED BY <1>2, <1>5, <1>7, <2>1, <2>2, <2>3 DEF form, L
<1> QED BY <1>2, <1>6, <1>7 DEF L

\* An action of one request's handler, and what it makes of the request.
LEMMA MovedTyped ==
  ASSUME request \in [Requests -> Request], NEW r \in Requests, NEW new \in Request,
         request' = [request EXCEPT ![r] = new]
  PROVE  request' \in [Requests -> Request]
OBVIOUS

LEMMA BecomesTyped ==
  ASSUME request \in [Requests -> Request], NEW r \in Requests, NEW state \in RequestState,
         Becomes(r, state)
  PROVE  request' \in [Requests -> Request]
<1> DEFINE new == [request[r] EXCEPT !.state = state]
<1>1. request[r] \in Request
  OBVIOUS
<1>2. new \in Request
  BY <1>1 DEF Request
<1>3. request' = [request EXCEPT ![r] = new]
  BY DEF Becomes
<1> QED BY <1>2, <1>3

LEMMA HandBackTyped ==
  ASSUME WizardTypeOK, NEW r \in Requests, NEW values \in Configuration, HandBack(r, values)
  PROVE  WizardTypeOK'
<1> DEFINE new == [request[r] EXCEPT !.state = "form", !.values = values]
<1>1. request[r] \in Request
  BY DEF WizardTypeOK
<1>2. new \in Request
  BY <1>1 DEF Request, RequestState
<1>3. request' = [request EXCEPT ![r] = new]
  BY DEF HandBack
<1>4. request' \in [Requests -> Request]
  BY <1>2, <1>3 DEF WizardTypeOK
<1>5. Remember(r, values) /\ rendered' \in Seq(Requests)
  BY DEF HandBack, WizardTypeOK
<1>6. pending' \in Seq(Form) /\ Len(pending') <= FormsKept
  <2>1. Len(pending) \in Nat /\ Len(pending) <= FormsKept /\ FormsKept \in Nat
    BY SetupAssumption DEF WizardTypeOK
  <2>2. /\ pending' \in Seq(Form)
        /\ Len(pending) < FormsKept => Len(pending') = Len(pending) + 1
        /\ Len(pending) = FormsKept => Len(pending') = Len(pending)
    BY <1>5, RememberKeeps
  <2> QED BY <2>1, <2>2
<1> QED BY <1>4, <1>5, <1>6 DEF HandBack, keyVars, WizardTypeOK

LEMMA WizardTypesStep ==
  ASSUME WizardTypeOK, WizardNext
  PROVE  WizardTypeOK'
<1>1. CASE OpenUrl
  BY <1>1, SetupAssumption DEF OpenUrl, WizardTypeOK, fileVars
<1>2. ASSUME NEW r \in Requests, Arrive(r)
      PROVE  WizardTypeOK'
  <2>1. PICK b \in Browsers, kind \in Kind, p \in Requests \cup {None}, post \in Configuration :
          Admit(r, b, kind, p, post)
    BY <1>2, ArrivalIs
  <2> DEFINE line == IF p = None THEN {} ELSE request[p].line \cup {p}
             state == IF token = 0 \/ Holder(b) THEN "admitted" ELSE "refused"
             new == [NoRequest EXCEPT !.state = state, !.browser = b, !.kind = kind,
                                      !.page = p, !.post = post, !.line = line]
  <2>2. line \subseteq Requests
    BY DEF WizardTypeOK, Request
  <2>3. state \in RequestState
    BY DEF RequestState
  <2> HIDE DEF line, state
  <2>4. NoRequest \in Request
    BY BlankTyped DEF NoRequest, Request, RequestState, Kind
  <2>5. new \in Request
    BY <2>2, <2>3, <2>4 DEF Request
  <2>6. request' = [request EXCEPT ![r] = new]
    BY <2>1 DEF Admit, line, state
  <2> HIDE DEF new
  <2>7. request' \in [Requests -> Request]
    BY <2>5, <2>6 DEF WizardTypeOK
  <2> QED BY <2>1, <2>7 DEF Admit, keyVars, fileVars, WizardTypeOK
<1>3. ASSUME NEW r \in Requests, Start(r)
      PROVE  WizardTypeOK'
  <2>1. request' \in [Requests -> Request]
    BY <1>3, BecomesTyped DEF Start, WizardTypeOK, RequestState
  <2> QED BY <1>3, <2>1 DEF Start, fileVars, WizardTypeOK
<1>4. ASSUME NEW r \in Requests, View(r)
      PROVE  WizardTypeOK'
  <2> DEFINE shown == [request[r] EXCEPT !.state = "form", !.values = fileValues, !.file = generation]
             other == [request[r] EXCEPT !.state = "answered"]
  <2>1. request[r] \in Request /\ fileValues \in Configuration /\ generation \in Nat
    BY DEF WizardTypeOK
  <2>2. shown \in Request /\ other \in Request
    BY <2>1 DEF Request, RequestState
  <2>3. request' = [request EXCEPT ![r] = IF Holder(request[r].browser) THEN shown ELSE other]
    BY <1>4 DEF View
  <2>4. request' \in [Requests -> Request]
    BY <2>2, <2>3 DEF WizardTypeOK
  <2> QED BY <1>4, <2>4 DEF View, keyVars, fileVars, WizardTypeOK
<1>5. ASSUME NEW r \in Requests, Submit(r)
      PROVE  WizardTypeOK'
  <2> DEFINE values == Fold(Base(request[r].page), request[r].post)
             folded == [request[r] EXCEPT !.state = "folded", !.file = generation, !.values = values]
             other == [request[r] EXCEPT !.state = "refused"]
  <2>1. request[r] \in Request /\ generation \in Nat
    BY DEF WizardTypeOK
  <2>2. values \in Configuration
    BY <2>1, BaseTyped, FoldTyped DEF Request
  <2>3. request' = [request EXCEPT ![r] = IF Holder(request[r].browser) THEN folded ELSE other]
    BY <1>5 DEF Submit
  <2> HIDE DEF values
  <2>4. folded \in Request /\ other \in Request
    BY <2>1, <2>2 DEF Request, RequestState
  <2>5. request' \in [Requests -> Request]
    BY <2>3, <2>4 DEF WizardTypeOK
  <2> QED BY <1>5, <2>5 DEF Submit, keyVars, fileVars, WizardTypeOK
<1>6. ASSUME NEW r \in Requests, Malformed(r) \/ Download(r) \/ SyncFile(r) \/ Respond(r)
      PROVE  WizardTypeOK'
  <2>1. request' \in [Requests -> Request]
    BY <1>6, BecomesTyped DEF Malformed, Download, SyncFile, Respond, WizardTypeOK, RequestState
  <2> QED BY <1>6, <2>1 DEF Malformed, Download, SyncFile, Respond, keyVars, fileVars, WizardTypeOK
<1>7. ASSUME NEW r \in Requests, RenderBack(r) \/ Generate(r)
      PROVE  WizardTypeOK'
  <2>1. request[r].values \in Configuration
    BY DEF WizardTypeOK, Request
  <2>2. [request[r].values EXCEPT ![Generated] = r] \in Configuration
    BY <2>1 DEF Configuration, Value
  <2> QED BY <1>7, <2>1, <2>2, HandBackTyped DEF RenderBack, Generate
<1>8. ASSUME NEW r \in Requests, BeginSave(r) \/ WriteFails(r)
      PROVE  WizardTypeOK'
  <2>1. request' \in [Requests -> Request]
    BY <1>8, BecomesTyped DEF BeginSave, WriteFails, WizardTypeOK, RequestState
  <2> QED BY <1>8, <2>1 DEF BeginSave, WriteFails, keyVars, WizardTypeOK
<1>9. ASSUME NEW r \in Requests, RenameFile(r) \/ Publish(r)
      PROVE  WizardTypeOK'
  <2>1. request' \in [Requests -> Request]
    BY <1>9, BecomesTyped DEF RenameFile, Publish, WizardTypeOK, RequestState
  <2>2. request[r].values \in Configuration
    BY DEF WizardTypeOK, Request
  <2>3. << >> \in Seq(Form) /\ Len(<< >>) <= FormsKept
    BY SetupAssumption
  <2>4. [values |-> request[r].values, parses |-> TRUE, durable |-> TRUE] \in File
    BY <2>2 DEF File
  <2>5. CASE RenameFile(r)
    BY <2>1, <2>4, <2>5 DEF RenameFile, keyVars, WizardTypeOK
  <2>6. CASE Publish(r)
    <3>1. generation' \in Nat /\ lock' \in Requests \cup {None}
      BY <2>6 DEF Publish, WizardTypeOK
    <3> QED BY <2>1, <2>2, <2>3, <2>6, <3>1 DEF Publish, keyVars, WizardTypeOK
  <2> QED BY <1>9, <2>5, <2>6
<1>10. ASSUME NEW r \in Requests, Handle(r)
       PROVE  WizardTypeOK'
  BY <1>3, <1>4, <1>5, <1>6, <1>7, <1>8, <1>9, <1>10 DEF Handle
<1> QED BY <1>1, <1>2, <1>6, <1>10 DEF WizardNext

-----------------------------------------------------------------------------
(***************************************************************************)
(* What a step leaves alone.                                               *)
(***************************************************************************)

\* A handler at work; a form and whatever else was answered has none.
Working == {"admitted"} \cup Folded

LEMMA HandlerMoves ==
  ASSUME WizardTypeOK, NEW r \in Requests, Handle(r) \/ Respond(r)
  PROVE  /\ request[r].state \in Working
         /\ \A q \in Requests \ {r} : request'[q] = request[q]
         /\ request'[r].browser = request[r].browser
         /\ request'[r].kind = request[r].kind
<1>1. request[r] \in Request /\ request \in [Requests -> Request]
  BY DEF WizardTypeOK
<1>2. CASE Start(r) \/ Malformed(r) \/ Download(r) \/ BeginSave(r) \/ SyncFile(r) \/ RenameFile(r)
             \/ WriteFails(r) \/ Publish(r) \/ Respond(r)
  BY <1>1, <1>2 DEF Start, Malformed, Download, BeginSave, SyncFile, RenameFile, WriteFails, Publish,
                    Respond, Becomes, Working, Folded, Saving, Request
<1>3. CASE View(r)
  BY <1>1, <1>3 DEF View, Working, Request
<1>4. CASE Submit(r)
  BY <1>1, <1>4 DEF Submit, Working, Request
<1>5. CASE RenderBack(r) \/ Generate(r)
  BY <1>1, <1>5 DEF RenderBack, Generate, HandBack, Working, Folded, Request
<1> QED BY <1>2, <1>3, <1>4, <1>5 DEF Handle

LEMMA BecomesIs ==
  ASSUME WizardTypeOK, NEW r \in Requests, NEW state, Becomes(r, state)
  PROVE  request'[r] = [request[r] EXCEPT !.state = state] /\ request'[r].state = state
<1>1. request \in [Requests -> Request] /\ request[r] \in Request
  BY DEF WizardTypeOK
<1> QED BY <1>1 DEF Becomes, Request

\* Where each of the handler's steps leads.
LEMMA NewState ==
  ASSUME WizardTypeOK, NEW r \in Requests
  PROVE  /\ Start(r) => request'[r].state \in {"answered", "refused"}
         /\ View(r) => request'[r].state = IF Holder(request[r].browser) THEN "form" ELSE "answered"
         /\ Malformed(r) \/ Download(r) \/ Respond(r) => request'[r].state = "answered"
         /\ Submit(r) => request'[r].state = IF Holder(request[r].browser) THEN "folded" ELSE "refused"
         /\ RenderBack(r) \/ Generate(r) => request'[r].state = "form"
         /\ BeginSave(r) => request'[r].state = "writing"
         /\ SyncFile(r) => request'[r].state = "synced"
         /\ RenameFile(r) => request'[r].state = "renamed"
         /\ WriteFails(r) => request'[r].state = "failed"
         /\ Publish(r) => request'[r].state = "saved"
<1>1. request \in [Requests -> Request] /\ request[r] \in Request
  BY DEF WizardTypeOK
<1>2. Start(r) => request'[r].state \in {"answered", "refused"}
  BY BecomesIs DEF Start
<1>3. View(r) => request'[r].state = IF Holder(request[r].browser) THEN "form" ELSE "answered"
  BY <1>1 DEF View, Request
<1>4. Submit(r) => request'[r].state = IF Holder(request[r].browser) THEN "folded" ELSE "refused"
  BY <1>1 DEF Submit, Request
<1>5. RenderBack(r) \/ Generate(r) => request'[r].state = "form"
  BY <1>1 DEF RenderBack, Generate, HandBack, Request
<1>6. Malformed(r) \/ Download(r) \/ Respond(r) => request'[r].state = "answered"
  BY BecomesIs DEF Malformed, Download, Respond
<1>7. /\ BeginSave(r) => request'[r].state = "writing"
      /\ SyncFile(r) => request'[r].state = "synced"
      /\ RenameFile(r) => request'[r].state = "renamed"
      /\ WriteFails(r) => request'[r].state = "failed"
      /\ Publish(r) => request'[r].state = "saved"
  BY BecomesIs DEF BeginSave, SyncFile, RenameFile, WriteFails, Publish
<1> QED BY <1>2, <1>3, <1>4, <1>5, <1>6, <1>7

LEMMA FormsStay ==
  ASSUME WizardTypeOK, WizardNext
  PROVE  \A q \in Requests : request[q].state = "form" => request'[q] = request[q]
<1> SUFFICES ASSUME NEW q \in Requests, request[q].state = "form"
             PROVE  request'[q] = request[q]
  OBVIOUS
<1>1. CASE OpenUrl
  BY <1>1 DEF OpenUrl
<1>2. ASSUME NEW r \in Requests, Arrive(r)
      PROVE  request'[q] = request[q]
  <2>1. request[r].state = "none" /\ \E new : request' = [request EXCEPT ![r] = new]
    BY <1>2 DEF Arrive, Admit
  <2> QED BY <2>1 DEF WizardTypeOK
<1>3. ASSUME NEW r \in Requests, Handle(r) \/ Respond(r)
      PROVE  request'[q] = request[q]
  BY <1>3, HandlerMoves DEF Working, Folded, Saving
<1> QED BY <1>1, <1>2, <1>3 DEF WizardNext

\* The values of the file and their generation change together.
LEMMA FileMoves ==
  ASSUME WizardNext
  PROVE  \/ generation' = generation /\ fileValues' = fileValues
         \/ generation' = generation + 1
<1>1. CASE OpenUrl
  BY <1>1 DEF OpenUrl, fileVars
<1>2. ASSUME NEW r \in Requests, Arrive(r)
      PROVE  generation' = generation /\ fileValues' = fileValues
  BY <1>2 DEF Arrive, Admit, fileVars
<1>3. ASSUME NEW r \in Requests, Handle(r) \/ Respond(r)
      PROVE  \/ generation' = generation /\ fileValues' = fileValues
             \/ generation' = generation + 1
  BY <1>3 DEF Handle, Start, View, Malformed, Submit, RenderBack, Generate, HandBack, Download, BeginSave,
              SyncFile, RenameFile, WriteFails, Publish, Respond, fileVars
<1> QED BY <1>1, <1>2, <1>3 DEF WizardNext

-----------------------------------------------------------------------------
(***************************************************************************)
(* Who holds the key, and what the file and memory are.                    *)
(***************************************************************************)
LEMMA HoldersStep ==
  ASSUME WizardInv, WizardNext
  PROVE  FormsAreTheHolders'
<1>1. WizardTypeOK /\ FormsAreTheHolders
  BY DEF WizardInv
<1> SUFFICES ASSUME NEW q \in Requests,
                    request'[q].state \notin {"none", "admitted", "answered", "refused"}
             PROVE  Holder(request[q].browser)'
  BY DEF FormsAreTheHolders
<1>2. request \in [Requests -> Request] /\ request[q] \in Request /\ cookie \in [Browsers -> Nat]
  BY <1>1 DEF WizardTypeOK
<1>3. CASE OpenUrl
  BY <1>1, <1>2, <1>3 DEF OpenUrl, FormsAreTheHolders, Holder
<1>4. ASSUME NEW r \in Requests, Arrive(r)
      PROVE  Holder(request[q].browser)'
  <2>1. PICK b \in Browsers, kind \in Kind, p \in Requests \cup {None}, post \in Configuration :
          Admit(r, b, kind, p, post)
    BY <1>1, <1>4, ArrivalIs
  <2>2. UNCHANGED keyVars /\ q # r /\ request'[q] = request[q]
    BY <1>2, <2>1 DEF Admit, NoRequest
  <2> QED BY <1>1, <2>2 DEF FormsAreTheHolders, Holder, keyVars
<1>5. ASSUME NEW r \in Requests, Start(r)
      PROVE  Holder(request[q].browser)'
  <2>1. q # r /\ request'[q] = request[q]
    BY <1>1, <1>5, NewState, HandlerMoves DEF Handle
  <2>2. token # 0 /\ UNCHANGED <<token, cookie>>
    BY <1>1, <1>5, <2>1 DEF Start, FormsAreTheHolders, Holder
  <2> QED BY <1>1, <2>1, <2>2 DEF FormsAreTheHolders, Holder
<1>6. ASSUME NEW r \in Requests, Handle(r) \/ Respond(r), ~Start(r)
      PROVE  Holder(request[q].browser)'
  <2>1. UNCHANGED <<token, cookie>>
    BY <1>6 DEF Handle, View, Malformed, Submit, RenderBack, Generate, HandBack, Download, BeginSave,
                SyncFile, RenameFile, WriteFails, Publish, Respond, keyVars
  <2>2. request'[q].browser = request[q].browser
    BY <1>1, <1>6, HandlerMoves
  <2>3. q = r => Holder(request[q].browser)
    <3>1. CASE View(r) \/ Submit(r) \/ Malformed(r)
      <4> SUFFICES ASSUME q = r
                   PROVE  Holder(request[q].browser)
        OBVIOUS
      <4>1. request'[r].state # "answered" /\ request'[r].state # "refused"
        OBVIOUS
      <4>2. CASE Malformed(r)
        BY <1>1, <4>1, <4>2, NewState
      <4>3. CASE View(r)
        BY <1>1, <4>1, <4>3, NewState
      <4>4. CASE Submit(r)
        BY <1>1, <4>1, <4>4, NewState
      <4> QED BY <3>1, <4>2, <4>3, <4>4
    <3>2. CASE ~(View(r) \/ Submit(r) \/ Malformed(r))
      <4>1. request[r].state \in Folded
        BY <1>6, <3>2 DEF Handle, RenderBack, Generate, Download, BeginSave, SyncFile, RenameFile,
                          WriteFails, Publish, Respond, Folded, Saving
      <4> QED BY <1>1, <4>1 DEF FormsAreTheHolders, Folded, Saving
    <3> QED BY <3>1, <3>2
  <2>4. q # r => Holder(request[q].browser)
    <3>1. q # r => request'[q] = request[q]
      BY <1>1, <1>6, HandlerMoves
    <3> QED BY <1>1, <3>1 DEF FormsAreTheHolders
  <2> QED BY <2>1, <2>2, <2>3, <2>4 DEF Holder
<1> QED BY <1>3, <1>4, <1>5, <1>6 DEF WizardNext, Handle

LEMMA SaveStep ==
  ASSUME WizardInv, WizardNext
  PROVE  SaveInv'
<1>1. WizardTypeOK /\ SaveInv
  BY DEF WizardInv
<1>2. request \in [Requests -> Request] /\ None \notin Requests
  BY <1>1, SetupAssumption DEF WizardTypeOK
<1>3. ASSUME NEW r \in Requests, \A q \in Requests \ {r} : request'[q] = request[q],
             request[r].state \notin Saving, request'[r].state \notin Saving,
             UNCHANGED <<fileValues, lock, conf>>
      PROVE  SaveInv'
  BY <1>1, <1>3 DEF SaveInv, Saving, ReadConfigFile
<1>4. CASE OpenUrl
  BY <1>1, <1>4 DEF OpenUrl, SaveInv, ReadConfigFile, fileVars
<1>5. ASSUME NEW r \in Requests, Arrive(r)
      PROVE  SaveInv'
  <2>1. PICK b \in Browsers, kind \in Kind, p \in Requests \cup {None}, post \in Configuration :
          Admit(r, b, kind, p, post)
    BY <1>1, <1>5, ArrivalIs
  <2>2. \A q \in Requests \ {r} : request'[q] = request[q]
    BY <1>2, <2>1 DEF Admit
  <2>3. request[r].state \notin Saving /\ request'[r].state \notin Saving
    BY <1>2, <2>1 DEF Admit, NoRequest, Saving
  <2> QED BY <1>3, <2>1, <2>2, <2>3 DEF Admit, fileVars
<1>6. ASSUME NEW r \in Requests, Start(r) \/ View(r) \/ Malformed(r) \/ Submit(r) \/ RenderBack(r)
                                 \/ Generate(r) \/ Download(r) \/ Respond(r)
      PROVE  SaveInv'
  <2>1. \A q \in Requests \ {r} : request'[q] = request[q]
    BY <1>1, <1>6, HandlerMoves DEF Handle
  <2>2. request[r].state \notin Saving
    BY <1>6 DEF Start, View, Malformed, Submit, RenderBack, Generate, Download, Respond, Saving
  <2>3. request'[r].state \notin Saving
    BY <1>1, <1>6, NewState DEF Saving
  <2>4. UNCHANGED <<fileValues, lock, conf>>
    BY <1>6 DEF Start, View, Malformed, Submit, RenderBack, Generate, HandBack, Download, Respond, fileVars
  <2> QED BY <1>3, <2>1, <2>2, <2>3, <2>4
<1>7. ASSUME NEW r \in Requests, BeginSave(r)
      PROVE  SaveInv'
  BY <1>1, <1>2, <1>7 DEF BeginSave, Unlocked, Becomes, SaveInv, Saving, ReadConfigFile
<1>8. ASSUME NEW r \in Requests, SyncFile(r)
      PROVE  SaveInv'
  BY <1>1, <1>2, <1>8 DEF SyncFile, Becomes, SaveInv, Saving, ReadConfigFile, fileVars
<1>9. ASSUME NEW r \in Requests, RenameFile(r)
      PROVE  SaveInv'
  <2>1. request[r].state = "synced" /\ lock' = lock /\ lock = r
    BY <1>1, <1>9 DEF RenameFile, SaveInv, Saving
  <2>2. request'[r].state = "renamed" /\ request'[r].values = request[r].values
        /\ \A q \in Requests \ {r} : request'[q] = request[q]
    BY <1>2, <1>9 DEF RenameFile, Becomes
  <2>3. \A q \in Requests \ {r} : request[q].state \notin Saving
    BY <1>1, <2>1 DEF SaveInv
  <2>4. conf'.parses /\ conf'.values = request[r].values
    BY <1>9 DEF RenameFile
  <2> QED BY <2>1, <2>2, <2>3, <2>4 DEF SaveInv, Saving
<1>10. ASSUME NEW r \in Requests, WriteFails(r) \/ Publish(r)
       PROVE  SaveInv'
  <2>1. request[r].state \in Saving /\ lock = r /\ lock' = None /\ conf' = conf
    BY <1>1, <1>10 DEF WriteFails, Publish, SaveInv, Saving
  <2>2. request'[r].state \notin Saving /\ \A q \in Requests \ {r} : request'[q] = request[q]
    BY <1>1, <1>10, NewState, HandlerMoves DEF Handle, Saving
  <2>3. \A q \in Requests \ {r} : request[q].state \notin Saving
    BY <1>1, <2>1 DEF SaveInv
  <2>4. fileValues' = ReadConfigFile(conf)'
    <3>1. CASE WriteFails(r)
      BY <1>1, <2>1, <2>3, <3>1 DEF WriteFails, SaveInv, Saving, ReadConfigFile
    <3>2. CASE Publish(r)
      BY <1>1, <2>1, <3>2 DEF Publish, SaveInv, ReadConfigFile
    <3> QED BY <1>10, <3>1, <3>2
  <2> QED BY <1>2, <2>1, <2>2, <2>3, <2>4 DEF SaveInv, Saving
<1> QED BY <1>4, <1>5, <1>6, <1>7, <1>8, <1>9, <1>10 DEF WizardNext, Handle

-----------------------------------------------------------------------------
(***************************************************************************)
(* What is remembered.                                                     *)
(***************************************************************************)

\* Nothing is rendered and nothing forgotten.
LEMMA PendingUntouched ==
  ASSUME WizardInv, WizardNext, UNCHANGED <<pending, rendered, generation>>
  PROVE  PendingInv'
<1>1. PendingInv /\ WizardTypeOK
  BY DEF WizardInv
<1>2. \A k \in DOMAIN rendered : rendered[k] \in Requests /\ request[rendered[k]].state = "form"
  BY <1>1 DEF PendingInv, WizardTypeOK
<1>3. \A k \in DOMAIN rendered : request'[rendered[k]] = request[rendered[k]]
  BY <1>1, <1>2, FormsStay
<1>4. Len(pending) \in Nat /\ Len(rendered) \in Nat /\ DOMAIN rendered = 1..Len(rendered)
      /\ DOMAIN pending = 1..Len(pending) /\ Len(pending) <= Len(rendered)
  BY <1>1 DEF WizardTypeOK, PendingInv
<1>5. \A k \in DOMAIN pending : Len(rendered) - Len(pending) + k \in DOMAIN rendered
  BY <1>4
<1>6. \A k \in 1..Len(rendered) - Len(pending) : k \in DOMAIN rendered
  BY <1>4
<1> QED BY <1>1, <1>3, <1>5, <1>6 DEF PendingInv

LEMMA PendingStep ==
  ASSUME WizardInv, WizardNext
  PROVE  PendingInv'
<1>1. PendingInv /\ WizardTypeOK
  BY DEF WizardInv
<1>2. Len(pending) \in Nat /\ Len(rendered) \in Nat /\ DOMAIN rendered = 1..Len(rendered)
      /\ DOMAIN pending = 1..Len(pending) /\ Len(pending) <= Len(rendered)
      /\ Len(pending) <= FormsKept /\ FormsKept \in Nat \ {0}
  BY <1>1, SetupAssumption DEF WizardTypeOK, PendingInv
<1>3. CASE OpenUrl
  BY <1>3, PendingUntouched DEF OpenUrl, fileVars
<1>4. ASSUME NEW r \in Requests, Arrive(r)
      PROVE  PendingInv'
  BY <1>4, PendingUntouched DEF Arrive, Admit, fileVars
<1>5. ASSUME NEW r \in Requests, Handle(r) \/ Respond(r), ~RenderBack(r), ~Generate(r), ~Publish(r)
      PROVE  PendingInv'
  BY <1>5, PendingUntouched
     DEF Handle, Start, View, Malformed, Submit, Download, BeginSave, SyncFile, RenameFile, WriteFails,
         Respond, fileVars
<1>6. ASSUME NEW r \in Requests, Publish(r)
      PROVE  PendingInv'
  <2>1. pending' = << >> /\ rendered' = rendered /\ generation' = generation + 1
    BY <1>6 DEF Publish
  <2>2. \A k \in DOMAIN rendered : rendered[k] \in Requests /\ request[rendered[k]].state = "form"
    BY <1>1 DEF PendingInv, WizardTypeOK
  <2>3. \A k \in DOMAIN rendered : request'[rendered[k]] = request[rendered[k]]
    BY <1>1, <2>2, FormsStay
  <2>4. \A k \in DOMAIN rendered : request[rendered[k]].file < generation + 1
    <3>1. \A q \in Requests : request[q].file <= generation /\ request[q].file \in Nat /\ generation \in Nat
      BY <1>1 DEF WizardInv, RequestInv, WizardTypeOK, Request
    <3> QED BY <2>2, <3>1
  <2>5. Len(pending') = 0 /\ DOMAIN pending' = {}
    BY <2>1
  <2>6. \A k \in 1..Len(rendered) - 0 : k \in DOMAIN rendered
    BY <1>2
  <2> QED BY <1>1, <1>2, <2>1, <2>3, <2>4, <2>5, <2>6 DEF PendingInv
<1>7. ASSUME NEW r \in Requests, NEW values \in Configuration, HandBack(r, values),
             request[r].state \in Folded
      PROVE  PendingInv'
  <2> DEFINE L == Len(pending)
             N == Len(rendered)
             form == [id |-> r, values |-> values, file |-> request[r].file]
  <2>1. /\ L < FormsKept => /\ Len(pending') = L + 1 /\ pending'[L + 1] = form
                            /\ \A k \in 1..L : pending'[k] = pending[k]
        /\ L = FormsKept => /\ Len(pending') = L /\ pending'[L] = form
                            /\ \A k \in 1..L - 1 : pending'[k] = pending[k + 1]
        /\ pending' \in Seq(Form)
    BY <1>1, <1>7, RememberKeeps DEF HandBack
  <2>2. rendered' = Append(rendered, r) /\ generation' = generation
    BY <1>7 DEF HandBack
  <2>3. Len(rendered') = N + 1 /\ DOMAIN rendered' = 1..N + 1 /\ rendered'[N + 1] = r
        /\ \A k \in 1..N : rendered'[k] = rendered[k]
    BY <1>1, <2>2 DEF WizardTypeOK
  <2>4. \A k \in 1..N : rendered[k] \in Requests /\ request[rendered[k]].state = "form"
                          /\ request[rendered[k]].kind # "view"
    BY <1>1, <1>2 DEF PendingInv, WizardTypeOK
  <2>5. request'[r] = [request[r] EXCEPT !.state = "form", !.values = values]
    BY <1>1, <1>7 DEF HandBack, WizardTypeOK
  <2>6. request'[r].state = "form" /\ request'[r].values = values /\ request'[r].file = request[r].file
        /\ request'[r].kind = request[r].kind /\ request[r].kind # "view"
    <3>1. request[r] \in Request /\ request[r].kind # "view"
      BY <1>1, <1>7 DEF WizardTypeOK, WizardInv, RequestInv
    <3> QED BY <2>5, <3>1 DEF Request
  <2>7. \A k \in 1..N : request'[rendered[k]] = request[rendered[k]]
    BY <1>1, <2>4, FormsStay
  <2>8. DOMAIN pending' = 1..Len(pending')
    BY <2>1
  <2>9. \A k \in 1..L : /\ N - L + k \in 1..N
                        /\ pending[k] = [id |-> rendered[N - L + k],
                                         values |-> request'[rendered[N - L + k]].values,
                                         file |-> request'[rendered[N - L + k]].file]
    <3> SUFFICES ASSUME NEW k \in 1..L
                 PROVE  /\ N - L + k \in 1..N
                        /\ pending[k] = [id |-> rendered[N - L + k],
                                         values |-> request'[rendered[N - L + k]].values,
                                         file |-> request'[rendered[N - L + k]].file]
      OBVIOUS
    <3>1. N - L + k \in 1..N /\ k \in DOMAIN pending
      BY <1>2
    <3> QED BY <1>1, <2>7, <3>1 DEF PendingInv
  <2>10. form = [id |-> r, values |-> request'[r].values, file |-> request'[r].file]
    BY <2>6
  <2>11. \A k \in DOMAIN rendered' :
           request'[rendered'[k]].state = "form" /\ request'[rendered'[k]].kind # "view"
    <3> SUFFICES ASSUME NEW k \in 1..N + 1
                 PROVE  request'[rendered'[k]].state = "form" /\ request'[rendered'[k]].kind # "view"
      BY <2>3
    <3>1. k = N + 1 \/ k \in 1..N
      BY <1>2
    <3> QED BY <2>3, <2>4, <2>6, <2>7, <3>1
  <2> HIDE DEF form
  <2> DEFINE P == Len(pending')
  <2>12. /\ L \in Nat /\ N \in Nat /\ L <= N /\ L <= FormsKept /\ FormsKept \in Nat
         /\ P = IF L < FormsKept THEN L + 1 ELSE L
    <3>1. (L < FormsKept => P = L + 1) /\ (L = FormsKept => P = L)
      BY <2>1
    <3>2. L \in Nat /\ N \in Nat /\ L <= N /\ L <= FormsKept /\ FormsKept \in Nat
      BY <1>2
    <3> HIDE DEF L, N, P
    <3> QED BY <3>1, <3>2
  <2>13. /\ L < FormsKept => pending'[L + 1] = form /\ \A k \in 1..L : pending'[k] = pending[k]
         /\ L = FormsKept => pending'[L] = form /\ \A k \in 1..L - 1 : pending'[k] = pending[k + 1]
    BY <2>1
  <2>14. DOMAIN pending' = 1..P /\ Len(rendered') = N + 1
    BY <2>3, <2>8
  <2> HIDE DEF L, N, P
  <2>15. ASSUME NEW k \in 1..P
         PROVE  LET q == rendered'[N + 1 - P + k]
                IN  pending'[k] = [id |-> q, values |-> request'[q].values, file |-> request'[q].file]
    <3>1. CASE L < FormsKept /\ k = L + 1
      <4>1. N + 1 - P + k = N + 1
        BY <2>12, <3>1
      <4> QED BY <2>3, <2>10, <2>13, <3>1, <4>1 DEF N
    <3>2. CASE L < FormsKept /\ k # L + 1
      <4>1. k \in 1..L /\ N + 1 - P + k = N - L + k
        BY <2>12, <3>2
      <4>2. pending'[k] = pending[k] /\ N - L + k \in 1..N
        BY <2>9, <2>13, <3>2, <4>1 DEF L, N
      <4>3. rendered'[N - L + k] = rendered[N - L + k]
        BY <2>3, <4>2 DEF N
      <4> QED BY <2>9, <4>1, <4>2, <4>3 DEF L, N
    <3>3. CASE L = FormsKept /\ k = L
      <4>1. N + 1 - P + k = N + 1
        BY <2>12, <3>3
      <4> QED BY <2>3, <2>10, <2>13, <3>3, <4>1 DEF N
    <3>4. CASE L = FormsKept /\ k # L
      <4>1. k \in 1..L - 1 /\ k + 1 \in 1..L /\ N + 1 - P + k = N - L + (k + 1)
        BY <2>12, <3>4
      <4>2. pending'[k] = pending[k + 1] /\ N - L + (k + 1) \in 1..N
        BY <2>9, <2>13, <3>4, <4>1 DEF L, N
      <4>3. rendered'[N - L + (k + 1)] = rendered[N - L + (k + 1)]
        BY <2>3, <4>2 DEF N
      <4> QED BY <2>9, <4>1, <4>2, <4>3 DEF L, N
    <3>5. L < FormsKept \/ L = FormsKept
      BY <2>12
    <3> QED BY <3>1, <3>2, <3>3, <3>4, <3>5
  <2>16. P <= N + 1
    BY <2>12
  <2>17. P < FormsKept =>
           \A k \in 1..N + 1 - P : request'[rendered'[k]].file < generation'
    <3> SUFFICES ASSUME P < FormsKept, NEW k \in 1..N + 1 - P
                 PROVE  request'[rendered'[k]].file < generation'
      OBVIOUS
    <3>1. L < FormsKept /\ k \in 1..N - L /\ k \in 1..N
      BY <2>12
    <3>2. request[rendered[k]].file < generation
      BY <1>1, <3>1 DEF PendingInv, L, N
    <3>3. rendered'[k] = rendered[k] /\ request'[rendered[k]] = request[rendered[k]]
      BY <2>3, <2>7, <3>1 DEF N
    <3> QED BY <2>2, <3>2, <3>3
  <2>18. Len(pending') = P
    BY DEF P
  <2>19. \A k \in DOMAIN pending' :
           LET q == rendered'[Len(rendered') - Len(pending') + k]
           IN  pending'[k] = [id |-> q, values |-> request'[q].values, file |-> request'[q].file]
    <3> SUFFICES ASSUME NEW k \in 1..P
                 PROVE  LET q == rendered'[Len(rendered') - Len(pending') + k]
                        IN  pending'[k] = [id |-> q, values |-> request'[q].values,
                                           file |-> request'[q].file]
      BY <2>14
    <3>1. Len(rendered') - Len(pending') + k = N + 1 - P + k
      BY <2>12, <2>14, <2>18
    <3> QED BY <2>15, <3>1
  <2>20. Len(pending') <= Len(rendered')
    BY <2>14, <2>16, <2>18
  <2>21. Len(pending') < FormsKept =>
           \A k \in 1..Len(rendered') - Len(pending') : request'[rendered'[k]].file < generation'
    <3>1. Len(rendered') - Len(pending') = N + 1 - P
      BY <2>12, <2>14, <2>18
    <3> QED BY <2>17, <2>18, <3>1
  <2> QED BY <2>11, <2>19, <2>20, <2>21 DEF PendingInv
<1>8. ASSUME NEW r \in Requests, RenderBack(r) \/ Generate(r)
      PROVE  PendingInv'
  <2>1. request[r].values \in Configuration
    BY <1>1 DEF WizardTypeOK, Request
  <2>2. [request[r].values EXCEPT ![Generated] = r] \in Configuration
    BY <2>1 DEF Configuration, Value
  <2> QED BY <1>7, <1>8, <2>1, <2>2 DEF RenderBack, Generate, Folded
<1>9. ASSUME NEW r \in Requests, Handle(r) \/ Respond(r)
      PROVE  PendingInv'
  <2>1. CASE RenderBack(r) \/ Generate(r)
    BY <1>8, <2>1
  <2>2. CASE Publish(r)
    BY <1>6, <2>2
  <2>3. CASE ~(RenderBack(r) \/ Generate(r) \/ Publish(r))
    BY <1>5, <1>9, <2>3
  <2> QED BY <2>1, <2>2, <2>3
<1> QED BY <1>3, <1>4, <1>9 DEF WizardNext

-----------------------------------------------------------------------------
(***************************************************************************)
(* What a request carries.                                                 *)
(***************************************************************************)

\* What the page stands for, as long as the file it folded into is the file.
LEMMA BaseIs ==
  ASSUME WizardInv, NEW p \in Requests \cup {None}
  PROVE  \/ Base(p) = fileValues
         \/ /\ p \in Requests
            /\ request[p].state = "form" /\ request[p].file = generation
            /\ Base(p) = request[p].values
<1>1. WizardTypeOK /\ PendingInv
  BY DEF WizardInv
<1>2. CASE \E k \in DOMAIN pending : pending[k].id = p /\ pending[k].file = generation
  <2>1. PICK k \in DOMAIN pending : pending[k].id = p /\ pending[k].file = generation
    BY <1>2
  <2> DEFINE c == CHOOSE n \in DOMAIN pending : pending[n].id = p
  <2>2. c \in DOMAIN pending /\ pending[c].id = p
    BY <2>1
  <2>3. Base(p) = pending[c].values
    BY <1>2 DEF Base
  <2> HIDE DEF c
  <2>4. \A n \in DOMAIN pending : Len(rendered) - Len(pending) + n \in DOMAIN rendered
    BY <1>1 DEF WizardTypeOK, PendingInv
  <2>5. ASSUME NEW n \in DOMAIN pending, pending[n].id = p
        PROVE  /\ p \in Requests /\ request[p].state = "form"
               /\ pending[n].values = request[p].values /\ pending[n].file = request[p].file
    <3> DEFINE q == rendered[Len(rendered) - Len(pending) + n]
    <3>1. pending[n] = [id |-> q, values |-> request[q].values, file |-> request[q].file]
      BY <1>1 DEF PendingInv
    <3>2. request[q].state = "form" /\ q \in Requests
      BY <1>1, <2>4 DEF PendingInv, WizardTypeOK
    <3> HIDE DEF q
    <3> QED BY <2>5, <3>1, <3>2
  <2> QED BY <2>1, <2>2, <2>3, <2>5
<1>3. CASE ~(\E k \in DOMAIN pending : pending[k].id = p /\ pending[k].file = generation)
  BY <1>3 DEF Base
<1> QED BY <1>2, <1>3

\* Another request moved, or nothing of this one that is spoken of.
LEMMA RequestUntouched ==
  ASSUME WizardInv, WizardNext, NEW r \in Requests,
         request[r].state \in {"form"} \cup Folded \/ request'[r].state \notin {"form"} \cup Folded,
         request'[r].state = "form" => request[r].state = "form",
         request'[r] = [request[r] EXCEPT !.state = request'[r].state]
  PROVE  RequestInv(r)'
<1>1. WizardTypeOK /\ RequestInv(r) /\ request[r] \in Request
  BY DEF WizardInv, WizardTypeOK
<1>2. /\ request'[r].kind = request[r].kind /\ request'[r].page = request[r].page
      /\ request'[r].post = request[r].post /\ request'[r].values = request[r].values
      /\ request'[r].file = request[r].file /\ request'[r].line = request[r].line
  BY <1>1 DEF Request
<1>3. \A q \in Requests : request[q].state = "form" => request'[q] = request[q]
  BY <1>1, FormsStay
<1>4. /\ generation \in Nat /\ request[r].file \in Nat
      /\ request[r].page \in Requests \cup {None} /\ request[r].line \subseteq Requests
  BY <1>1 DEF WizardTypeOK, Request
<1>5. request'[r].file <= generation'
  BY <1>1, <1>2, <1>4, FileMoves DEF RequestInv
<1>6. request'[r].state \in Folded => request'[r].kind \notin {"view", "start"}
  <2>1. CASE request[r].state = "form"
    BY <1>3, <2>1 DEF Folded, Saving
  <2>2. CASE request[r].state # "form"
    BY <1>1, <1>2, <2>2 DEF RequestInv
  <2> QED BY <2>1, <2>2
<1>7. request'[r].page # None =>
        /\ request'[request'[r].page].state = "form" /\ request'[r].page \in request'[r].line
        /\ request'[request'[r].page].line \subseteq request'[r].line
  BY <1>1, <1>2, <1>3, <1>4 DEF RequestInv
<1>8. \A v \in request'[r].line : request'[v].state = "form"
  BY <1>1, <1>2, <1>3, <1>4 DEF RequestInv
<1>9. \A s \in Secrets : request'[r].post[s] \in {Unset, r}
  BY <1>1, <1>2 DEF RequestInv
<1>10. CASE generation' = generation /\ fileValues' = fileValues
  <2>1. request'[r].state = "form" /\ request'[r].kind = "view" /\ request'[r].file = generation'
          => request'[r].values = fileValues'
    BY <1>1, <1>2, <1>10 DEF RequestInv
  <2>2. ASSUME request'[r].state \in {"form"} \cup Folded, request'[r].file = generation',
               NEW s \in Secrets
        PROVE  Legitimate(r, s, request[r].values[s])'
    <3>1. Legitimate(r, s, request[r].values[s])
      BY <1>1, <1>2, <1>10, <2>2 DEF RequestInv
    <3>2. \A v \in request[r].line : request'[v].file = request[v].file
      BY <1>1, <1>3, <1>4 DEF RequestInv
    <3> QED BY <1>2, <1>10, <3>1, <3>2 DEF Legitimate
  <2> QED BY <1>5, <1>6, <1>7, <1>8, <1>9, <2>1, <2>2 DEF RequestInv
<1>11. CASE generation' = generation + 1
  <2>1. request'[r].file # generation'
    BY <1>1, <1>2, <1>4, <1>11 DEF RequestInv
  <2> QED BY <1>5, <1>6, <1>7, <1>8, <1>9, <2>1 DEF RequestInv
<1> QED BY <1>10, <1>11, FileMoves

LEMMA OtherUntouched ==
  ASSUME WizardInv, WizardNext, NEW r \in Requests, request'[r] = request[r]
  PROVE  RequestInv(r)'
<1>1. request[r] \in Request
  BY DEF WizardInv, WizardTypeOK
<1>2. request[r] = [request[r] EXCEPT !.state = request[r].state]
  BY <1>1 DEF Request
<1> QED BY <1>2, RequestUntouched

\* A page handed back: its values are in order when those it folded were.
LEMMA HandedBack ==
  ASSUME WizardInv, WizardNext, NEW r \in Requests, NEW values \in Configuration,
         HandBack(r, values), request[r].state \in Folded,
         \A s \in Secrets : values[s] \in {r, request[r].values[s]}
  PROVE  RequestInv(r)'
<1>1. WizardTypeOK /\ RequestInv(r) /\ request[r] \in Request
  BY DEF WizardInv, WizardTypeOK
<1>2. request'[r] = [request[r] EXCEPT !.state = "form", !.values = values]
  BY <1>1 DEF HandBack, WizardTypeOK
<1>3. /\ request'[r].kind = request[r].kind /\ request'[r].page = request[r].page
      /\ request'[r].post = request[r].post /\ request'[r].values = values
      /\ request'[r].file = request[r].file /\ request'[r].line = request[r].line
      /\ request'[r].state = "form"
  BY <1>1, <1>2 DEF Request
<1>4. \A q \in Requests : request[q].state = "form" => request'[q] = request[q]
  BY <1>1, FormsStay
<1>5. request[r].page \in Requests \cup {None} /\ request[r].line \subseteq Requests
  BY <1>1 DEF Request
<1>6. generation' = generation /\ fileValues' = fileValues
  BY DEF HandBack
<1>7. request'[r].kind # "view"
  BY <1>1, <1>3 DEF RequestInv
<1>8. /\ request'[r].page # None =>
           /\ request'[request'[r].page].state = "form" /\ request'[r].page \in request'[r].line
           /\ request'[request'[r].page].line \subseteq request'[r].line
      /\ \A v \in request'[r].line : request'[v].state = "form"
  BY <1>1, <1>3, <1>4, <1>5 DEF RequestInv
<1>9. ASSUME request'[r].file = generation', NEW s \in Secrets
      PROVE  Legitimate(r, s, values[s])'
  <2>1. Legitimate(r, s, request[r].values[s])
    BY <1>1, <1>3, <1>6, <1>9 DEF RequestInv
  <2>2. \A v \in request[r].line : request'[v].file = request[v].file
    BY <1>1, <1>4, <1>5 DEF RequestInv
  <2> QED BY <1>3, <1>6, <2>1, <2>2 DEF Legitimate
<1>10. request'[r].file <= generation' /\ \A s \in Secrets : request'[r].post[s] \in {Unset, r}
  BY <1>1, <1>3, <1>6 DEF RequestInv
<1> QED BY <1>3, <1>7, <1>8, <1>9, <1>10 DEF RequestInv, Folded, Saving

\* A submission: what it folds into the page or the file.
LEMMA Submitted ==
  ASSUME WizardInv, WizardNext, NEW r \in Requests, Submit(r), Holder(request[r].browser)
  PROVE  RequestInv(r)'
<1> PICK p, base, values :
      /\ p = request[r].page
      /\ base = Base(p)
      /\ values = Fold(base, request[r].post)
  OBVIOUS
<1>1. WizardTypeOK /\ RequestInv(r) /\ request[r] \in Request
  BY DEF WizardInv, WizardTypeOK
<1>2. request'[r] = [request[r] EXCEPT !.state = "folded", !.file = generation, !.values = values]
  BY <1>1 DEF Submit, WizardTypeOK
<1>3. p \in Requests \cup {None} /\ request[r].line \subseteq Requests
  BY <1>1 DEF Request
<1>4. \A s \in Secrets : values[s] \in {r, base[s]}
  BY <1>1, SetupAssumption DEF RequestInv, Fold
<1>5. base = fileValues \/ /\ p \in Requests /\ request[p].state = "form"
                           /\ request[p].file = generation /\ base = request[p].values
  BY <1>3, BaseIs
<1>6. /\ request'[r].kind = request[r].kind /\ request'[r].page = request[r].page
      /\ request'[r].post = request[r].post /\ request'[r].values = values
      /\ request'[r].file = generation /\ request'[r].line = request[r].line
      /\ request'[r].state = "folded"
  BY <1>1, <1>2 DEF Request
<1>7. \A q \in Requests : request[q].state = "form" => request'[q] = request[q]
  BY <1>1, FormsStay
<1>8. generation' = generation /\ fileValues' = fileValues
  BY DEF Submit, fileVars
<1>9. request[r].kind \notin {"view", "start"}
  BY DEF Submit
<1>10. /\ request'[r].page # None =>
           /\ request'[request'[r].page].state = "form" /\ request'[r].page \in request'[r].line
           /\ request'[request'[r].page].line \subseteq request'[r].line
       /\ \A v \in request'[r].line : request'[v].state = "form"
  BY <1>1, <1>3, <1>6, <1>7 DEF RequestInv
<1>11. ASSUME NEW s \in Secrets
       PROVE  Legitimate(r, s, values[s])'
  <2>1. CASE values[s] = r
    BY <2>1 DEF Legitimate
  <2>2. CASE values[s] = base[s] /\ base = fileValues
    BY <1>8, <2>2 DEF Legitimate
  <2>3. CASE values[s] = base[s] /\ base # fileValues
    <3>1. p \in Requests /\ request[p].state = "form" /\ request[p].file = generation
          /\ base = request[p].values /\ p # None
      BY <1>5, <2>3, SetupAssumption
    <3>2. Legitimate(p, s, values[s])
      BY <2>3, <3>1 DEF WizardInv, RequestInv
    <3>3. p \in request[r].line /\ request[p].line \subseteq request[r].line
      BY <1>1, <3>1 DEF RequestInv
    <3>4. \A v \in request[r].line : request'[v].file = request[v].file
      BY <1>1, <1>3, <1>7 DEF RequestInv
    <3> QED BY <1>6, <1>8, <3>1, <3>2, <3>3, <3>4 DEF Legitimate
  <2> QED BY <1>4, <2>1, <2>2, <2>3
<1>12. generation \in Nat /\ \A s \in Secrets : request[r].post[s] \in {Unset, r}
  BY <1>1 DEF WizardTypeOK, RequestInv
<1> QED BY <1>6, <1>8, <1>9, <1>10, <1>11, <1>12 DEF RequestInv

LEMMA Arrived ==
  ASSUME WizardInv, WizardNext, NEW r \in Requests, Arrive(r)
  PROVE  RequestInv(r)'
<1>1. WizardTypeOK /\ generation \in Nat /\ FormsAreTheHolders
  BY DEF WizardInv, WizardTypeOK
<1>2. PICK b \in Browsers, kind \in Kind, p \in Requests \cup {None}, post \in Configuration :
        /\ Admit(r, b, kind, p, post)
        /\ \A s \in Secrets : post[s] \in {Unset, r}
  BY <1>1, ArrivalIs
<1> DEFINE line == IF p = None THEN {} ELSE request[p].line \cup {p}
           state == IF token = 0 \/ Holder(b) THEN "admitted" ELSE "refused"
           new == [NoRequest EXCEPT !.state = state, !.browser = b, !.kind = kind,
                                    !.page = p, !.post = post, !.line = line]
<1>3. request' = [request EXCEPT ![r] = new]
  BY <1>2 DEF Admit
<1>4. request'[r] = new
  BY <1>1, <1>3 DEF WizardTypeOK
<1>5. state \notin {"form"} \cup Folded
  BY DEF Folded, Saving
<1> HIDE DEF line, state
<1>6. /\ request'[r].page = p /\ request'[r].post = post /\ request'[r].file = 0
      /\ request'[r].line = line /\ request'[r].state = state
  BY <1>4 DEF NoRequest
<1> HIDE DEF new
<1>7. \A q \in Requests : request[q].state = "form" => request'[q] = request[q]
  BY <1>1, FormsStay
<1>8. p # None => /\ p \in Requests /\ request[p].state = "form" /\ request[p].line \subseteq Requests
                  /\ \A v \in request[p].line : request[v].state = "form"
  <2>1. p # None => p \in Requests /\ request[p].state = "form"
    BY <1>2 DEF Admit
  <2>2. \A q \in Requests : request[q].line \subseteq Requests
                            /\ \A v \in request[q].line : request[v].state = "form"
    BY <1>1 DEF WizardInv, WizardTypeOK, Request, RequestInv
  <2> QED BY <2>1, <2>2
<1>9. /\ p # None => request'[p].state = "form" /\ p \in line /\ request'[p].line \subseteq line
      /\ \A v \in line : request'[v].state = "form"
  BY <1>7, <1>8 DEF line
<1>10. generation' = generation
  BY <1>2 DEF Admit, fileVars
<1>11. request'[r].file <= generation'
  BY <1>1, <1>6, <1>10
<1>12. /\ request'[r].page # None =>
            /\ request'[request'[r].page].state = "form" /\ request'[r].page \in request'[r].line
            /\ request'[request'[r].page].line \subseteq request'[r].line
       /\ \A v \in request'[r].line : request'[v].state = "form"
       /\ \A s \in Secrets : request'[r].post[s] \in {Unset, r}
  BY <1>2, <1>6, <1>9
<1> QED BY <1>5, <1>6, <1>11, <1>12 DEF RequestInv

LEMMA RequestStep ==
  ASSUME WizardInv, WizardNext, NEW q \in Requests
  PROVE  RequestInv(q)'
<1>1. WizardTypeOK /\ RequestInv(q) /\ request[q] \in Request
  BY DEF WizardInv, WizardTypeOK
<1>2. CASE OpenUrl
  BY <1>2, OtherUntouched DEF OpenUrl
<1>3. ASSUME NEW r \in Requests, Arrive(r)
      PROVE  RequestInv(q)'
  <2>1. CASE r = q
    BY <1>3, <2>1, Arrived
  <2>2. CASE r # q
    <3>1. request'[q] = request[q]
      BY <1>1, <1>3, <2>2 DEF Arrive, Admit, WizardTypeOK
    <3> QED BY <3>1, OtherUntouched
  <2> QED BY <2>1, <2>2
<1>4. ASSUME NEW r \in Requests, Handle(r) \/ Respond(r), r # q
      PROVE  RequestInv(q)'
  BY <1>1, <1>4, HandlerMoves, OtherUntouched
<1>5. ASSUME NEW state, Becomes(q, state), state \notin {"form"} \cup Folded
      PROVE  RequestInv(q)'
  <2>1. request'[q] = [request[q] EXCEPT !.state = state] /\ request'[q].state = state
    BY <1>1, <1>5, BecomesIs
  <2> QED BY <1>5, <2>1, RequestUntouched
<1>6. ASSUME NEW state, Becomes(q, state), state # "form", request[q].state \in Folded
      PROVE  RequestInv(q)'
  <2>1. request'[q] = [request[q] EXCEPT !.state = state] /\ request'[q].state = state
    BY <1>1, <1>6, BecomesIs
  <2> QED BY <1>6, <2>1, RequestUntouched
<1>7. CASE Start(q)
  BY <1>5, <1>7 DEF Start, Folded, Saving
<1>8. CASE Malformed(q) \/ Download(q) \/ Respond(q)
  BY <1>5, <1>8 DEF Malformed, Download, Respond, Folded, Saving
<1>9. CASE BeginSave(q) \/ SyncFile(q) \/ RenameFile(q) \/ WriteFails(q) \/ Publish(q)
  BY <1>6, <1>9 DEF BeginSave, SyncFile, RenameFile, WriteFails, Publish, Folded, Saving
<1>10. CASE View(q)
  <2>1. CASE Holder(request[q].browser)
    <3>1. request'[q] = [request[q] EXCEPT !.state = "form", !.values = fileValues, !.file = generation]
      BY <1>1, <1>10, <2>1 DEF View, WizardTypeOK
    <3>2. /\ request'[q].kind = request[q].kind /\ request'[q].page = request[q].page
          /\ request'[q].post = request[q].post /\ request'[q].values = fileValues
          /\ request'[q].file = generation /\ request'[q].line = request[q].line
          /\ request'[q].state = "form"
      BY <1>1, <3>1 DEF Request
    <3>3. generation' = generation /\ fileValues' = fileValues /\ generation \in Nat
      BY <1>1, <1>10 DEF View, fileVars, WizardTypeOK
    <3>4. \A v \in Requests : request[v].state = "form" => request'[v] = request[v]
      BY <1>1, FormsStay
    <3>5. request[q].page \in Requests \cup {None} /\ request[q].line \subseteq Requests
      BY <1>1 DEF Request
    <3>6. /\ request'[q].page # None =>
               /\ request'[request'[q].page].state = "form" /\ request'[q].page \in request'[q].line
               /\ request'[request'[q].page].line \subseteq request'[q].line
          /\ \A v \in request'[q].line : request'[v].state = "form"
      BY <1>1, <3>2, <3>4, <3>5 DEF RequestInv
    <3>7. \A s \in Secrets : Legitimate(q, s, fileValues[s])'
      BY <3>3 DEF Legitimate
    <3>8. \A s \in Secrets : request[q].post[s] \in {Unset, q}
      BY <1>1 DEF RequestInv
    <3> QED BY <3>2, <3>3, <3>6, <3>7, <3>8 DEF RequestInv, Folded, Saving
  <2>2. CASE ~Holder(request[q].browser)
    <3>1. Becomes(q, "answered")
      BY <1>10, <2>2 DEF View, Becomes
    <3> QED BY <1>5, <3>1 DEF Folded, Saving
  <2> QED BY <2>1, <2>2
<1>11. CASE Submit(q)
  <2>1. CASE ~Holder(request[q].browser)
    <3>1. Becomes(q, "refused")
      BY <1>11, <2>1 DEF Submit, Becomes
    <3> QED BY <1>5, <3>1 DEF Folded, Saving
  <2> QED BY <1>11, <2>1, Submitted
<1>12. CASE RenderBack(q) \/ Generate(q)
  <2>1. request[q].values \in Configuration /\ request[q].state \in Folded
    BY <1>1, <1>12 DEF Request, RenderBack, Generate, Folded
  <2>2. [request[q].values EXCEPT ![Generated] = q] \in Configuration
    BY <2>1 DEF Configuration, Value
  <2>3. \A s \in Secrets : [request[q].values EXCEPT ![Generated] = q][s] \in {q, request[q].values[s]}
    BY <2>1, SetupAssumption DEF Configuration
  <2>4. CASE RenderBack(q)
    BY <2>1, <2>4, HandedBack DEF RenderBack
  <2>5. CASE Generate(q)
    BY <2>1, <2>2, <2>3, <2>5, HandedBack DEF Generate
  <2> QED BY <1>12, <2>4, <2>5
<1>13. ASSUME NEW r \in Requests, Handle(r) \/ Respond(r)
       PROVE  RequestInv(q)'
  <2>1. CASE r # q
    BY <1>4, <1>13, <2>1
  <2>2. CASE r = q
    BY <1>7, <1>8, <1>9, <1>10, <1>11, <1>12, <1>13, <2>2 DEF Handle
  <2> QED BY <2>1, <2>2
<1> QED BY <1>2, <1>3, <1>13 DEF WizardNext

-----------------------------------------------------------------------------
(***************************************************************************)
(* The wizard.                                                             *)
(***************************************************************************)
LEMMA InitWizard == WizardInit => WizardInv
<1> SUFFICES ASSUME WizardInit
             PROVE  WizardInv
  OBVIOUS
<1>1. conf \in File
  <2>1. conf.values \in Configuration /\ conf.parses \in BOOLEAN /\ conf.durable = TRUE
        /\ conf = [values |-> conf.values, parses |-> conf.parses, durable |-> conf.durable]
    BY SetupAssumption DEF WizardInit, Configuration, Value
  <2> QED BY <2>1 DEF File
<1>2. NoRequest \in Request /\ NoRequest.state = "none" /\ NoRequest.page = None /\ NoRequest.file = 0
      /\ NoRequest.line = {} /\ NoRequest.post = Blank
  BY BlankTyped DEF NoRequest, Request, RequestState, Kind
<1>3. \A r \in Requests : request[r] = NoRequest
  BY DEF WizardInit
<1>4. WizardTypeOK
  <2>1. token \in Nat /\ minted \in Nat /\ handed \subseteq Nat
    BY DEF WizardInit
  <2>2. pending \in Seq(Form) /\ Len(pending) <= FormsKept /\ rendered \in Seq(Requests)
    BY SetupAssumption DEF WizardInit
  <2>3. fileValues \in Configuration
    BY <1>1, ReadTyped DEF WizardInit
  <2>4. request \in [Requests -> Request]
    BY <1>2 DEF WizardInit
  <2> QED BY <1>1, <2>1, <2>2, <2>3, <2>4 DEF WizardInit, WizardTypeOK
<1>5. FormsAreTheHolders
  BY <1>2, <1>3 DEF FormsAreTheHolders
<1>6. SaveInv
  BY <1>2, <1>3, SetupAssumption DEF SaveInv, WizardInit, Saving
<1>7. PendingInv
  <2>1. pending = << >> /\ rendered = << >>
    BY DEF WizardInit
  <2> QED BY <2>1 DEF PendingInv
<1>8. \A s \in Secrets : Blank[s] = Unset
  BY SetupAssumption DEF Blank
<1>9. \A r \in Requests : RequestInv(r)
  BY <1>2, <1>3, <1>8 DEF RequestInv, WizardInit, Folded, Saving
<1> QED BY <1>4, <1>5, <1>6, <1>7, <1>9 DEF WizardInv

LEMMA WizardStep ==
  ASSUME WizardInv, [WizardNext]_wizardVars
  PROVE  WizardInv'
<1>1. CASE WizardNext
  <2>1. WizardTypeOK'
    BY <1>1, WizardTypesStep DEF WizardInv
  <2>2. \A r \in Requests : RequestInv(r)'
    BY <1>1, RequestStep
  <2> QED BY <1>1, <2>1, <2>2, HoldersStep, SaveStep, PendingStep DEF WizardInv
<1>2. CASE UNCHANGED wizardVars
  BY <1>2 DEF wizardVars, keyVars, fileVars, WizardInv, WizardTypeOK, FormsAreTheHolders, Holder, SaveInv,
              ReadConfigFile, PendingInv, RequestInv, Legitimate
<1> QED BY <1>1, <1>2

\* Whoever uses the wizard, in whatever order its handlers, its saves and a
\* claim take their steps, what was said above holds (setup.go).
THEOREM WizardInvariant == WizardSpec => []WizardInv
BY InitWizard, WizardStep, PTL DEF WizardSpec

\* Pages with the form and changes under way are the key holder's, also those
\* admitted before somebody claimed the wizard (setup.go, authenticate, holder).
THEOREM HoldersOnly == WizardSpec => []FormsAreTheHolders
<1>1. WizardInv => FormsAreTheHolders
  BY DEF WizardInv
<1> QED BY <1>1, WizardInvariant, PTL

\* The values in memory are those of the file whenever no save is at it, after
\* any overlap of saves and any failure of one (setup.go, save).
THEOREM MemoryIsTheFile == WizardSpec => []FileAndMemoryAgree
<1>1. WizardInv => FileAndMemoryAgree
  BY SetupAssumption DEF WizardInv, SaveInv, FileAndMemoryAgree, Saving
<1> QED BY <1>1, WizardInvariant, PTL

\* A request publishes only as it is, and only its own save does.
LEMMA SavingRequest ==
  ASSUME WizardTypeOK, WizardNext, NEW r \in Requests, JustSaved(r)
  PROVE  Publish(r)
<1>1. CASE OpenUrl
  BY <1>1 DEF OpenUrl, JustSaved
<1>2. ASSUME NEW q \in Requests, Arrive(q)
      PROVE  FALSE
  <2>1. PICK b \in Browsers, kind \in Kind, p \in Requests \cup {None}, post \in Configuration :
          Admit(q, b, kind, p, post)
    BY <1>2, ArrivalIs
  <2>2. request'[q].state # "saved" /\ \A v \in Requests \ {q} : request'[v] = request[v]
    BY <2>1 DEF Admit, NoRequest, WizardTypeOK
  <2> QED BY <2>2 DEF JustSaved
<1>3. ASSUME NEW q \in Requests, Handle(q) \/ Respond(q)
      PROVE  Publish(r)
  <2>1. q = r
    BY <1>3, HandlerMoves DEF JustSaved
  <2>2. request'[r].state = "saved"
    BY DEF JustSaved
  <2> QED BY <1>3, <2>1, <2>2, NewState DEF Handle
<1> QED BY <1>1, <1>2, <1>3 DEF WizardNext

\* A secret that reaches the file was typed with the submission, or earlier on
\* its page since the last save, or was the file's already (setup.go, base,
\* values and save).
THEOREM SecretsAreOwnOrCurrent == WizardSpec => SavedSecretIsOwnOrCurrent
<1> DEFINE Step == [\A r \in Requests :
       JustSaved(r) /\ ~Overlapped(r)
         => \A s \in Secrets : Legitimate(r, s, request[r].values[s])]_wizardVars
<1>1. ASSUME WizardInv, [WizardNext]_wizardVars
      PROVE  Step
  <2>1. CASE WizardNext
    <3> SUFFICES ASSUME NEW r \in Requests, JustSaved(r), ~Overlapped(r), NEW s \in Secrets
                 PROVE  Legitimate(r, s, request[r].values[s])
      OBVIOUS
    <3>1. Publish(r)
      BY <1>1, <2>1, SavingRequest DEF WizardInv
    <3>2. request[r].state = "renamed" /\ request[r].file = generation
      BY <3>1 DEF Publish, Overlapped
    <3> QED BY <1>1, <3>2 DEF WizardInv, RequestInv, Folded, Saving
  <2> QED BY <1>1, <2>1
<1> QED BY <1>1, WizardInvariant, PTL DEF WizardSpec, SavedSecretIsOwnOrCurrent

\* Only its own submission folds a request.
LEMMA FoldingRequest ==
  ASSUME WizardTypeOK, WizardNext, NEW r \in Requests,
         request[r].state = "admitted", request'[r].state = "folded"
  PROVE  Submit(r)
<1>1. CASE OpenUrl
  BY <1>1 DEF OpenUrl
<1>2. ASSUME NEW q \in Requests, Arrive(q)
      PROVE  FALSE
  <2>1. request[q].state = "none" /\ \E new : request' = [request EXCEPT ![q] = new]
    BY <1>2 DEF Arrive, Admit
  <2> QED BY <2>1 DEF WizardTypeOK
<1>3. ASSUME NEW q \in Requests, Handle(q) \/ Respond(q)
      PROVE  Submit(r)
  <2>1. q = r
    BY <1>3, HandlerMoves
  <2> QED BY <1>3, <2>1, NewState DEF Handle
<1> QED BY <1>1, <1>2, <1>3 DEF WizardNext

\* The page a submission was posted from stands for what it was rendered with,
\* if it is among the newest and no save came since.
LEMMA PageStandsFor ==
  ASSUME WizardInv, NEW p \in Requests, request[p].state = "form", request[p].file = generation,
         request[p].kind = "view" \/ p \in ToSet(Newest)
  PROVE  Base(p) = request[p].values
<1>1. WizardTypeOK /\ PendingInv /\ RequestInv(p)
  BY DEF WizardInv
<1>2. /\ Len(pending) \in Nat /\ Len(rendered) \in Nat /\ Len(pending) <= Len(rendered)
      /\ Len(pending) <= FormsKept /\ FormsKept \in Nat \ {0} /\ generation \in Nat
      /\ DOMAIN pending = 1..Len(pending) /\ DOMAIN rendered = 1..Len(rendered)
  BY <1>1, SetupAssumption DEF WizardTypeOK, PendingInv
<1>3. CASE request[p].kind = "view"
  <2>1. request[p].values = fileValues
    BY <1>1, <1>3 DEF RequestInv
  <2> QED BY <2>1, SetupAssumption, BaseIs
<1>4. CASE p \in ToSet(Newest)
  <2> DEFINE N == Len(rendered)
             first == IF N > FormsKept THEN N - FormsKept + 1 ELSE 1
  <2>1. Newest \in Seq(Requests) /\ Len(Newest) = N - first + 1
        /\ \A k \in 1..N - first + 1 : Newest[k] = rendered[first + k - 1]
    <3>1. rendered \in Seq(Requests) /\ first \in 1..N + 1 /\ N \in first - 1..N
      BY <1>1, <1>2 DEF WizardTypeOK
    <3>2. Newest = SubSeq(rendered, first, N)
      BY DEF Newest
    <3> HIDE DEF first
    <3>3. /\ SubSeq(rendered, first, N) \in Seq(Requests)
          /\ Len(SubSeq(rendered, first, N)) = IF first <= N THEN N - first + 1 ELSE 0
          /\ \A k \in 1..N - first + 1 : SubSeq(rendered, first, N)[k] = rendered[first + k - 1]
      <4>1. first \in Int /\ N \in Int /\ \A i \in first..N : rendered[i] \in Requests
        BY <1>2, <3>1
      <4> HIDE DEF N
      <4> QED BY <4>1, SubSeqProperties
    <3>4. first \in Nat /\ N \in Nat
      BY <1>2, <3>1
    <3> HIDE DEF N
    <3> QED BY <3>1, <3>2, <3>3, <3>4
  <2>2. PICK k \in 1..N - first + 1 : p = rendered[first + k - 1]
    BY <1>4, <2>1 DEF ToSet
  <2>3. first + k - 1 \in 1..N /\ first + k - 1 > N - FormsKept
    BY <1>2
  <2> PICK j \in 1..N : p = rendered[j] /\ j > N - FormsKept
    BY <2>2, <2>3
  <2>4. CASE j <= N - Len(pending)
    <3>1. j \in 1..N - Len(pending) /\ Len(pending) < FormsKept
      BY <1>2, <2>4
    <3>2. request[p].file < generation
      BY <1>1, <3>1 DEF PendingInv
    <3> QED BY <1>2, <3>2
  <2>5. CASE j > N - Len(pending)
    <3> DEFINE m == j - (N - Len(pending))
    <3>1. m \in 1..Len(pending) /\ N - Len(pending) + m = j
      BY <1>2, <2>5
    <3>2. pending[m] = [id |-> p, values |-> request[p].values, file |-> request[p].file]
      BY <1>1, <1>2, <3>1 DEF PendingInv
    <3> HIDE DEF m
    <3>3. \E n \in DOMAIN pending : pending[n].id = p /\ pending[n].file = generation
      BY <1>2, <3>1, <3>2
    <3> DEFINE c == CHOOSE n \in DOMAIN pending : pending[n].id = p
    <3>4. c \in DOMAIN pending /\ pending[c].id = p
      BY <3>3
    <3>5. Base(p) = pending[c].values
      BY <3>3 DEF Base
    <3> HIDE DEF c
    <3>6. pending[c].values = request[pending[c].id].values
      <4> DEFINE q == rendered[N - Len(pending) + c]
      <4>1. pending[c] = [id |-> q, values |-> request[q].values, file |-> request[q].file]
        BY <1>1, <3>4 DEF PendingInv
      <4> HIDE DEF q
      <4> QED BY <4>1
    <3> QED BY <3>4, <3>5, <3>6
  <2> QED BY <1>2, <2>4, <2>5
<1> QED BY <1>3, <1>4

\* A box left as its page shows it keeps what the page stood for, a hidden
\* secret or a setting in a file of its own as well (setup.go, values, base and
\* remember).
THEOREM UntouchedBoxesStay == WizardSpec => UntouchedBoxesAreKept
<1> DEFINE Step == [\A r \in Requests :
       LET p == request[r].page
       IN  /\ request[r].state = "admitted" /\ request'[r].state = "folded"
           /\ p # None
           /\ request[p].kind = "view" \/ p \in ToSet(Newest)
           /\ request[p].file = generation
           => \A s \in Settings :
                request[r].post[s] = Shown(p, s)
                  => request'[r].values[s] = request[p].values[s]]_wizardVars
<1>1. ASSUME WizardInv, [WizardNext]_wizardVars
      PROVE  Step
  <2>1. CASE WizardNext
    <3> SUFFICES ASSUME NEW r \in Requests, NEW p, p = request[r].page,
                        request[r].state = "admitted", request'[r].state = "folded", p # None,
                        request[p].kind = "view" \/ p \in ToSet(Newest),
                        request[p].file = generation,
                        NEW s \in Settings, request[r].post[s] = Shown(p, s)
                 PROVE  request'[r].values[s] = request[p].values[s]
      OBVIOUS
    <3>1. WizardTypeOK /\ RequestInv(r) /\ request[r] \in Request
      BY <1>1 DEF WizardInv, WizardTypeOK
    <3>2. Submit(r)
      BY <2>1, <3>1, FoldingRequest
    <3>3. p \in Requests /\ request[p].state = "form"
      BY <3>1 DEF Request, RequestInv
    <3>4. Base(p) = request[p].values
      BY <1>1, <3>3, PageStandsFor
    <3>5. request'[r].values = Fold(Base(p), request[r].post)
      <4>1. Holder(request[r].browser)
        BY <3>1, <3>2, NewState
      <4>2. request'[r] = [request[r] EXCEPT !.state = "folded", !.file = generation,
                                             !.values = Fold(Base(p), request[r].post)]
        BY <3>1, <3>2, <4>1 DEF Submit, WizardTypeOK
      <4> QED BY <3>1, <4>2 DEF Request
    <3> QED BY <3>4, <3>5 DEF Fold, Shown
  <2> QED BY <1>1, <2>1
<1> QED BY <1>1, WizardInvariant, PTL DEF WizardSpec, UntouchedBoxesAreKept

-----------------------------------------------------------------------------
(***************************************************************************)
(* What holds over all the lives of the process.                           *)
(***************************************************************************)
WizardOpen == mode \in {"wizard", "draining"}

\* The tokens a marker may still bring: none has opened a wizard, and the one
\* being written is a third one.
MarkerInv ==
  /\ MarkerOpensOnce
  /\ \A k \in DOMAIN openings : openings[k] <= minted
  /\ \A n \in {creating, armed, marker} \ {0, Torn} :
       n <= minted /\ \A k \in DOMAIN openings : openings[k] # n
  /\ creating # 0 => creating \notin {armed, marker}
  /\ mode = "marked" => armed # 0

\* The file is never left unsynced, what it protects it goes on protecting,
\* and no wizard without a token gets as far as to write it.
DoorInv ==
  /\ conf.durable
  /\ configured = WorthProtecting(conf)
  /\ DoorStaysShut
  /\ \A r \in Requests :
       /\ request[r].state \in Folded => WizardOpen /\ token # 0
       /\ request[r].state \in {"writing", "synced"} => Loads(request[r].values)

RunInv == RunTypeOK /\ MarkerInv /\ DoorInv

LEMMA StaysTyped ==
  ASSUME WizardTypeOK, [WizardNext]_wizardVars
  PROVE  WizardTypeOK'
<1>1. CASE WizardNext
  BY <1>1, WizardTypesStep
<1>2. CASE UNCHANGED wizardVars
  BY <1>2 DEF wizardVars, keyVars, fileVars, WizardTypeOK
<1> QED BY <1>1, <1>2

\* What opening a wizard does to the token.
LEMMA WizardOpens ==
  ASSUME RunTypeOK, NEW hash \in Nat, NEW after \in BOOLEAN, OpenWizard(hash, after)
  PROVE  /\ WizardTypeOK'
         /\ mode' = "wizard" /\ afterSave' \in BOOLEAN /\ signalled' \in BOOLEAN
         /\ minted' \in Nat /\ minted <= minted'
         /\ token' = 0 => hash = 0 /\ ~WorthProtecting(conf)
         /\ UNCHANGED <<conf, request>>
<1>1. WizardTypeOK /\ token \in Nat /\ minted \in Nat /\ handed \subseteq Nat
  BY DEF RunTypeOK, WizardTypeOK
<1>2. fileValues' \in Configuration
  BY <1>1, ReadTyped DEF OpenWizard, WizardTypeOK
<1>3. token' \in Nat /\ minted' \in Nat /\ handed' \subseteq Nat
  BY <1>1 DEF OpenWizard
<1>4. WizardTypeOK'
  BY <1>1, <1>2, <1>3 DEF OpenWizard, WizardTypeOK
<1>5. token' = 0 => hash = 0 /\ ~WorthProtecting(conf)
  BY <1>1 DEF OpenWizard
<1>6. minted <= minted'
  BY <1>1 DEF OpenWizard
<1> QED BY <1>3, <1>4, <1>5, <1>6 DEF OpenWizard

\* What the end of a process leaves.
LEMMA Forgotten ==
  ASSUME RunTypeOK, Forget, conf' \in File
  PROVE  /\ WizardTypeOK'
         /\ token' = 0 /\ armed' = 0 /\ minted' = minted
         /\ afterSave' \in BOOLEAN /\ signalled' \in BOOLEAN /\ starts' \in 0..MaxStarts
         /\ UNCHANGED runHistory
         /\ \A r \in Requests : request'[r].state \notin Folded
<1>1. WizardTypeOK
  BY DEF RunTypeOK
<1>2. ASSUME NEW r \in Requests
      PROVE  request'[r] \in Request /\ request'[r].state \notin Folded
  <2>1. request[r] \in Request
    BY <1>1 DEF WizardTypeOK
  <2>2. request'[r] = IF InProgress(r) THEN [request[r] EXCEPT !.state = "lost"] ELSE request[r]
    BY DEF Forget
  <2>3. CASE InProgress(r)
    BY <2>1, <2>2, <2>3 DEF Request, RequestState, Folded, Saving
  <2>4. CASE ~InProgress(r)
    BY <2>1, <2>2, <2>4 DEF InProgress, Folded, Saving
  <2> QED BY <2>3, <2>4
<1>3. request' \in [Requests -> Request]
  BY <1>2 DEF Forget
<1>4. << >> \in Seq(Form) /\ Len(<< >>) <= FormsKept
  BY SetupAssumption
<1>5. WizardTypeOK'
  BY <1>1, <1>3, <1>4, BlankTyped DEF Forget, WizardTypeOK
<1> QED BY <1>2, <1>5 DEF Forget, RunTypeOK

\* Whether a marker opens another wizard: nothing of the tokens changed but
\* that more were minted, or a marker was forgotten.
LEMMA MarkersLeft ==
  ASSUME RunTypeOK, MarkerInv, openings' = openings,
         minted' \in Nat, minted <= minted',
         creating' \in {0, creating}, armed' \in {0, armed}, marker' \in {0, Torn, marker},
         mode' = "marked" => mode = "marked" /\ armed' = armed
  PROVE  MarkerInv'
<1>1. creating \in Nat /\ armed \in Nat /\ marker \in Nat \cup {Torn} /\ minted \in Nat
      /\ openings \in Seq(Nat)
  BY DEF RunTypeOK, WizardTypeOK
<1>2. Torn \notin Nat
  BY RunAssumption
<1>3. {creating', armed', marker'} \ {0, Torn} \subseteq {creating, armed, marker} \ {0, Torn}
  OBVIOUS
<1>4. \A n \in {creating', armed', marker'} \ {0, Torn} :
        n <= minted' /\ \A k \in DOMAIN openings' : openings'[k] # n
  BY <1>1, <1>3 DEF MarkerInv
<1>5. \A k \in DOMAIN openings' : openings'[k] <= minted'
  BY <1>1 DEF MarkerInv
<1>6. creating' # 0 => creating' \notin {armed', marker'}
  BY <1>1, <1>2 DEF MarkerInv
<1>7. mode' = "marked" => armed' # 0
  BY DEF MarkerInv
<1>8. MarkerOpensOnce'
  BY DEF MarkerInv, MarkerOpensOnce
<1> QED BY <1>4, <1>5, <1>6, <1>7, <1>8 DEF MarkerInv

\* No request is folded, and no door opened without need.
LEMMA DoorLeft ==
  ASSUME RunTypeOK, DoorInv, conf' = conf, configured' = configured,
         WizardOpen' /\ token' = 0 => ~WorthProtecting(conf),
         \A r \in Requests : request'[r].state \notin Folded
  PROVE  DoorInv'
<1>1. DoorStaysShut'
  BY DEF DoorInv, DoorStaysShut, WizardOpen
<1>2. (configured = WorthProtecting(conf))'
  BY DEF DoorInv, WorthProtecting
<1> QED BY <1>1, <1>2 DEF DoorInv, Folded, Saving

\* None of the wizard's variables changed, and it is open if it was.
LEMMA DoorUntouched ==
  ASSUME RunTypeOK, DoorInv, UNCHANGED <<conf, configured, request, token>>,
         WizardOpen => WizardOpen',
         WizardOpen' => WizardOpen
  PROVE  DoorInv'
<1>1. DoorStaysShut'
  BY DEF DoorInv, DoorStaysShut, WizardOpen
<1>2. (configured = WorthProtecting(conf))'
  BY DEF DoorInv, WorthProtecting
<1> QED BY <1>1, <1>2 DEF DoorInv, Loads

LEMMA NobodyFolded ==
  ASSUME DoorInv, ~WizardOpen
  PROVE  \A r \in Requests : request[r].state \notin Folded
BY DEF DoorInv

-----------------------------------------------------------------------------
(***************************************************************************)
(* setup-next-start and the starts.                                        *)
(***************************************************************************)
LEMMA MarkerStep ==
  ASSUME RunInv, CreateMarker \/ WriteMarker \/ WriteMarkerFails
  PROVE  RunInv'
<1>1. RunTypeOK /\ MarkerInv /\ DoorInv /\ WizardTypeOK
  BY DEF RunInv, RunTypeOK
<1>2. creating \in Nat /\ armed \in Nat /\ marker \in Nat \cup {Torn} /\ minted \in Nat
      /\ openings \in Seq(Nat) /\ Torn \notin Nat /\ handed \subseteq Nat
  BY <1>1, RunAssumption DEF RunTypeOK, WizardTypeOK
<1>3. UNCHANGED <<mode, armed, afterSave, signalled, exit, starts, openings, configured>>
      /\ UNCHANGED <<token, cookie, fileVars, request, rendered>>
  BY DEF CreateMarker, WriteMarker, WriteMarkerFails, processVars, runHistory, wizardVars, keyVars
<1>4. DoorInv'
  BY <1>1, <1>3, DoorUntouched DEF WizardOpen, fileVars
<1>5. /\ minted' \in Nat /\ handed' \subseteq Nat
      /\ marker' \in Nat \cup {Torn} /\ creating' \in Nat
  <2>1. CASE CreateMarker
    BY <1>2, <2>1 DEF CreateMarker
  <2>2. CASE WriteMarker
    BY <1>2, <2>2 DEF WriteMarker
  <2>3. CASE WriteMarkerFails
    BY <1>2, <2>3 DEF WriteMarkerFails, wizardVars, keyVars
  <2> QED BY <2>1, <2>2, <2>3
<1>6. RunTypeOK'
  <2>1. WizardTypeOK'
    BY <1>1, <1>3, <1>5 DEF WizardTypeOK, fileVars
  <2> QED BY <1>1, <1>3, <1>5, <2>1 DEF RunTypeOK
<1>7. CASE CreateMarker
  <2>1. minted' = minted + 1 /\ creating' = minted + 1 /\ marker' = Torn
    BY <1>7 DEF CreateMarker
  <2>2. armed # 0 => armed <= minted /\ \A k \in DOMAIN openings : openings[k] # armed
    BY <1>1, <1>2 DEF MarkerInv
  <2>3. \A k \in DOMAIN openings : openings[k] <= minted /\ openings[k] \in Nat
    BY <1>1, <1>2 DEF MarkerInv
  <2>4. \A n \in {creating', armed', marker'} \ {0, Torn} :
          n <= minted' /\ \A k \in DOMAIN openings' : openings'[k] # n
    <3> SUFFICES ASSUME NEW n \in {minted + 1, armed} \ {0, Torn}
                 PROVE  n <= minted + 1 /\ \A k \in DOMAIN openings : openings[k] # n
      BY <1>3, <2>1
    <3>1. CASE n = minted + 1
      BY <1>2, <2>3, <3>1
    <3>2. CASE n = armed
      BY <1>2, <2>2, <3>2
    <3> QED BY <3>1, <3>2
  <2>5. \A k \in DOMAIN openings' : openings'[k] <= minted'
    BY <1>2, <1>3, <2>1, <2>3
  <2>6. creating' \notin {armed', marker'}
    BY <1>2, <1>3, <2>1, <2>2
  <2>7. MarkerOpensOnce' /\ (mode' = "marked" => armed' # 0)
    BY <1>1, <1>3 DEF MarkerInv, MarkerOpensOnce
  <2>8. MarkerInv'
    BY <2>4, <2>5, <2>6, <2>7 DEF MarkerInv
  <2> QED BY <1>4, <1>6, <2>8 DEF RunInv
<1>8. CASE WriteMarker
  <2>1. creating # 0 /\ marker' = creating /\ creating' = 0 /\ minted' = minted
    BY <1>8 DEF WriteMarker
  <2>2. \A n \in {creating', armed', marker'} \ {0, Torn} :
          n <= minted' /\ \A k \in DOMAIN openings' : openings'[k] # n
    BY <1>1, <1>3, <2>1 DEF MarkerInv
  <2>3. MarkerOpensOnce' /\ (mode' = "marked" => armed' # 0)
        /\ \A k \in DOMAIN openings' : openings'[k] <= minted'
    BY <1>1, <1>3, <2>1 DEF MarkerInv, MarkerOpensOnce
  <2>4. MarkerInv'
    BY <2>1, <2>2, <2>3 DEF MarkerInv
  <2> QED BY <1>4, <1>6, <2>4 DEF RunInv
<1>9. CASE WriteMarkerFails
  <2>1. creating' = 0 /\ marker' = 0 /\ minted' = minted /\ minted <= minted
    BY <1>2, <1>9 DEF WriteMarkerFails, wizardVars, keyVars
  <2>2. MarkerInv'
    BY <1>1, <1>2, <1>3, <2>1, MarkersLeft
  <2> QED BY <1>4, <1>6, <2>2 DEF RunInv
<1> QED BY <1>7, <1>8, <1>9

\* A process that starts, or that stops reading its marker, without a wizard.
LEMMA NoWizardOpens ==
  ASSUME RunInv, ~WizardOpen, ~WizardOpen', UNCHANGED <<wizardVars, markerVars, runHistory>>,
         UNCHANGED <<afterSave, signalled>>,
         mode' \in Mode, exit' \in Exit, starts' \in 0..MaxStarts,
         IF mode' = "marked" THEN armed' = marker /\ marker \notin {0, Torn} ELSE armed' \in {0, armed}
  PROVE  RunInv'
<1>1. RunTypeOK /\ MarkerInv /\ DoorInv /\ WizardTypeOK
  BY DEF RunInv, RunTypeOK
<1>2. creating \in Nat /\ armed \in Nat /\ marker \in Nat \cup {Torn} /\ minted \in Nat
      /\ openings \in Seq(Nat) /\ Torn \notin Nat
  BY <1>1, RunAssumption DEF RunTypeOK, WizardTypeOK
<1>3. UNCHANGED <<conf, request, token, minted, creating, marker, openings, configured>>
  BY DEF wizardVars, keyVars, fileVars, markerVars, runHistory
<1>4. DoorInv'
  BY <1>1, <1>3, DoorUntouched
<1>5. RunTypeOK'
  <2>1. WizardTypeOK'
    BY <1>1, StaysTyped
  <2>2. armed' \in Nat
    BY <1>2
  <2> QED BY <1>1, <1>3, <2>1, <2>2 DEF RunTypeOK
<1>6. MarkerInv'
  <2>1. CASE mode' = "marked"
    <3>1. \A n \in {creating', armed', marker'} \ {0, Torn} :
            n <= minted' /\ \A k \in DOMAIN openings' : openings'[k] # n
      BY <1>1, <1>3, <2>1 DEF MarkerInv
    <3>2. creating' # 0 => creating' \notin {armed', marker'}
      BY <1>1, <1>3, <2>1 DEF MarkerInv
    <3>3. MarkerOpensOnce' /\ armed' # 0 /\ \A k \in DOMAIN openings' : openings'[k] <= minted'
      BY <1>1, <1>3, <2>1 DEF MarkerInv, MarkerOpensOnce
    <3> QED BY <3>1, <3>2, <3>3 DEF MarkerInv
  <2>2. CASE mode' # "marked"
    BY <1>1, <1>2, <1>3, <2>2, MarkersLeft
  <2> QED BY <2>1, <2>2
<1> QED BY <1>4, <1>5, <1>6 DEF RunInv

LEMMA QuietStarts ==
  ASSUME RunInv, StartServe \/ ReadMarker \/ RemoveMarkerFails
  PROVE  RunInv'
<1>1. RunTypeOK /\ marker \in Nat \cup {Torn}
  BY DEF RunInv, RunTypeOK
<1>2. CASE StartServe
  <2>1. mode' \in {"down", "serving"} /\ exit' \in Exit
    BY <1>1, <1>2 DEF StartServe, Serve, Fail, Exit, RunTypeOK
  <2>2. starts' \in 0..MaxStarts
    BY <1>1, <1>2, RunAssumption DEF StartServe, Starting, RunTypeOK
  <2>3. ~WizardOpen /\ ~WizardOpen' /\ mode' # "marked" /\ mode' \in Mode
    BY <1>2, <2>1 DEF StartServe, Starting, WizardOpen, Mode
  <2> QED BY <1>2, <2>1, <2>2, <2>3, NoWizardOpens DEF StartServe
<1>3. CASE ReadMarker
  <2>1. mode' \in {"down", "marked"} /\ exit' \in Exit
    BY <1>1, <1>3 DEF ReadMarker, Fail, Exit, RunTypeOK
  <2>2. starts' \in 0..MaxStarts
    BY <1>1, <1>3, RunAssumption DEF ReadMarker, Starting, RunTypeOK
  <2>3. ~WizardOpen /\ ~WizardOpen' /\ mode' \in Mode
    BY <1>3, <2>1 DEF ReadMarker, Starting, WizardOpen, Mode
  <2>4. IF mode' = "marked" THEN armed' = marker /\ marker \notin {0, Torn} ELSE armed' \in {0, armed}
    BY <1>3 DEF ReadMarker, Fail
  <2> QED BY <1>3, <2>1, <2>2, <2>3, <2>4, NoWizardOpens DEF ReadMarker
<1>4. CASE RemoveMarkerFails
  <2>1. mode' = "down" /\ exit' \in Exit /\ armed' = 0
    BY <1>4 DEF RemoveMarkerFails, Fail, Exit
  <2>2. ~WizardOpen /\ ~WizardOpen' /\ mode' \in Mode /\ starts' \in 0..MaxStarts
    BY <1>1, <1>4, <2>1 DEF RemoveMarkerFails, RunTypeOK, WizardOpen, Mode
  <2> QED BY <1>4, <2>1, <2>2, NoWizardOpens DEF RemoveMarkerFails
<1> QED BY <1>2, <1>3, <1>4

\* A wizard opens: without a token only where there is nothing to protect.
LEMMA DoorOpens ==
  ASSUME RunInv, ~WizardOpen, NEW hash \in Nat, NEW after \in BOOLEAN, OpenWizard(hash, after),
         starts' \in 0..MaxStarts, configured' = configured
  PROVE  /\ DoorInv' /\ WizardTypeOK' /\ mode' \in Mode /\ exit' \in Exit
         /\ afterSave' \in BOOLEAN /\ signalled' \in BOOLEAN /\ configured' \in BOOLEAN
         /\ mode' = "wizard" /\ minted' \in Nat /\ minted <= minted'
<1>1. RunTypeOK /\ DoorInv
  BY DEF RunInv
<1>2. /\ WizardTypeOK'
      /\ mode' = "wizard" /\ afterSave' \in BOOLEAN /\ signalled' \in BOOLEAN
      /\ minted' \in Nat /\ minted <= minted'
      /\ token' = 0 => hash = 0 /\ ~WorthProtecting(conf)
      /\ conf' = conf /\ request' = request
  BY <1>1, WizardOpens
<1>3. \A r \in Requests : request'[r].state \notin Folded
  BY <1>1, <1>2, NobodyFolded
<1>4. DoorInv'
  BY <1>1, <1>2, <1>3, DoorLeft
<1>5. exit' \in Exit
  BY DEF OpenWizard, Exit
<1> QED BY <1>1, <1>2, <1>4, <1>5 DEF RunTypeOK, Mode

LEMMA WizardStarts ==
  ASSUME RunInv, StartSetup \/ StartDefault
  PROVE  RunInv'
<1>1. RunTypeOK /\ MarkerInv /\ marker \in Nat \cup {Torn} /\ creating \in Nat /\ armed \in Nat
      /\ openings \in Seq(Nat) /\ configured \in BOOLEAN /\ mode = "down"
  BY DEF RunInv, RunTypeOK, StartSetup, StartDefault, Starting
<1>2. starts' \in 0..MaxStarts /\ ~WizardOpen
  <2>1. starts \in 0..MaxStarts /\ starts < MaxStarts /\ starts' = starts + 1
    BY <1>1 DEF RunTypeOK, StartSetup, StartDefault, Starting
  <2> QED BY <1>1, <2>1, RunAssumption DEF WizardOpen
<1>3. UNCHANGED <<marker, creating, openings, configured>>
  BY DEF StartSetup, StartDefault, markerVars, runHistory
<1>4. ASSUME NEW after \in BOOLEAN, OpenWizard(0, after), UNCHANGED armed
      PROVE  RunInv'
  <2>1. /\ DoorInv' /\ WizardTypeOK' /\ mode' \in Mode /\ exit' \in Exit
        /\ afterSave' \in BOOLEAN /\ signalled' \in BOOLEAN /\ configured' \in BOOLEAN
        /\ mode' = "wizard" /\ minted' \in Nat /\ minted <= minted'
    BY <1>2, <1>3, <1>4, DoorOpens
  <2>2. MarkerInv'
    BY <1>1, <1>3, <1>4, <2>1, MarkersLeft
  <2>3. RunTypeOK'
    BY <1>1, <1>2, <1>3, <1>4, <2>1 DEF RunTypeOK
  <2> QED BY <2>1, <2>2, <2>3 DEF RunInv
<1>5. CASE StartSetup
  BY <1>4, <1>5 DEF StartSetup
<1>6. CASE StartDefault
  <2>1. CASE ~Usable(conf) /\ ~WorthProtecting(conf)
    BY <1>4, <1>6, <2>1 DEF StartDefault
  <2>2. CASE ~(~Usable(conf) /\ ~WorthProtecting(conf))
    <3>1. Serve /\ UNCHANGED <<wizardVars, armed, afterSave, signalled, markerVars, runHistory>>
      BY <1>6, <2>2 DEF StartDefault
    <3>2. mode' \in {"down", "serving"} /\ exit' \in Exit
      BY <1>1, <3>1 DEF Serve, Fail, Exit, RunTypeOK
    <3>3. ~WizardOpen' /\ mode' # "marked" /\ mode' \in Mode
      BY <3>2 DEF WizardOpen, Mode
    <3> QED BY <1>2, <3>1, <3>2, <3>3, NoWizardOpens
  <2> QED BY <2>1, <2>2
<1> QED BY <1>5, <1>6

LEMMA RemoveMarkerStep ==
  ASSUME RunInv, RemoveMarker
  PROVE  RunInv'
<1>1. RunTypeOK /\ MarkerInv /\ minted \in Nat /\ creating \in Nat /\ armed \in Nat
      /\ openings \in Seq(Nat) /\ configured \in BOOLEAN /\ mode = "marked"
  BY DEF RunInv, RunTypeOK, WizardTypeOK, RemoveMarker
<1>2. /\ marker' = 0 /\ armed' = 0 /\ openings' = Append(openings, armed)
      /\ UNCHANGED <<starts, creating, configured>> /\ OpenWizard(armed, TRUE)
  BY DEF RemoveMarker
<1>3. ~WizardOpen /\ starts' \in 0..MaxStarts
  BY <1>1, <1>2 DEF WizardOpen, RunTypeOK
<1>4. /\ DoorInv' /\ WizardTypeOK' /\ mode' \in Mode /\ exit' \in Exit
      /\ afterSave' \in BOOLEAN /\ signalled' \in BOOLEAN /\ configured' \in BOOLEAN
      /\ mode' = "wizard" /\ minted' \in Nat /\ minted <= minted'
  BY <1>1, <1>2, <1>3, DoorOpens
<1>5. /\ Len(openings) \in Nat /\ DOMAIN openings = 1..Len(openings)
      /\ DOMAIN openings' = 1..Len(openings) + 1 /\ openings' \in Seq(Nat)
      /\ openings'[Len(openings) + 1] = armed
      /\ \A k \in 1..Len(openings) : openings'[k] = openings[k]
  BY <1>1, <1>2
<1>6. armed # 0 /\ armed <= minted /\ (\A k \in DOMAIN openings : openings[k] # armed)
      /\ (creating # 0 => creating # armed)
  BY <1>1, RunAssumption DEF MarkerInv
<1>7. MarkerOpensOnce'
  <2> SUFFICES ASSUME NEW k \in 1..Len(openings) + 1, NEW n \in 1..Len(openings) + 1,
                      openings'[k] = openings'[n]
               PROVE  k = n
    BY <1>5 DEF MarkerOpensOnce
  <2>1. (k \in 1..Len(openings) \/ k = Len(openings) + 1) /\ (n \in 1..Len(openings) \/ n = Len(openings) + 1)
    BY <1>5
  <2> QED BY <1>1, <1>5, <1>6, <2>1 DEF MarkerInv, MarkerOpensOnce
<1>8. \A k \in DOMAIN openings' : openings'[k] <= minted'
  <2> SUFFICES ASSUME NEW k \in 1..Len(openings) + 1
               PROVE  openings'[k] <= minted'
    BY <1>5
  <2>1. k \in 1..Len(openings) \/ k = Len(openings) + 1
    BY <1>5
  <2>2. openings'[k] \in Nat
    BY <1>5
  <2>3. openings'[k] <= minted
    <3>1. CASE k \in 1..Len(openings)
      BY <1>1, <1>5, <3>1 DEF MarkerInv
    <3>2. CASE k = Len(openings) + 1
      BY <1>5, <1>6, <3>2
    <3> QED BY <2>1, <3>1, <3>2
  <2> QED BY <1>1, <1>4, <2>2, <2>3
<1>9. \A n \in {creating', armed', marker'} \ {0, Torn} :
        n <= minted' /\ \A k \in DOMAIN openings' : openings'[k] # n
  <2> SUFFICES ASSUME creating \notin {0, Torn}
               PROVE  creating <= minted' /\ \A k \in 1..Len(openings) + 1 : openings'[k] # creating
    BY <1>2, <1>5
  <2>1. creating <= minted /\ \A k \in DOMAIN openings : openings[k] # creating
    BY <1>1 DEF MarkerInv
  <2>2. \A k \in 1..Len(openings) + 1 : openings'[k] # creating
    <3> SUFFICES ASSUME NEW k \in 1..Len(openings) + 1
                 PROVE  openings'[k] # creating
      OBVIOUS
    <3>1. k \in 1..Len(openings) \/ k = Len(openings) + 1
      BY <1>5
    <3> QED BY <1>5, <1>6, <2>1, <3>1
  <2> QED BY <1>1, <1>4, <2>1, <2>2
<1>10. MarkerInv'
  BY <1>2, <1>4, <1>7, <1>8, <1>9 DEF MarkerInv
<1>11. RunTypeOK'
  BY <1>1, <1>2, <1>3, <1>4, <1>5 DEF RunTypeOK
<1> QED BY <1>4, <1>10, <1>11 DEF RunInv

-----------------------------------------------------------------------------
(***************************************************************************)
(* The wizard at work, and the end of a process.                           *)
(***************************************************************************)

\* Tokens are only ever added.
LEMMA TokensGrow ==
  ASSUME WizardTypeOK, WizardNext
  PROVE  minted <= minted' /\ (token # 0 => token' # 0)
<1>1. token \in Nat /\ minted \in Nat
  BY DEF WizardTypeOK
<1>2. CASE OpenUrl
  BY <1>1, <1>2 DEF OpenUrl
<1>3. ASSUME NEW r \in Requests, Arrive(r)
      PROVE  minted' = minted /\ token' = token
  BY <1>3 DEF Arrive, Admit, keyVars
<1>4. ASSUME NEW r \in Requests, Start(r)
      PROVE  minted <= minted' /\ (token # 0 => token' # 0)
  BY <1>1, <1>4 DEF Start
<1>5. ASSUME NEW r \in Requests, Handle(r) \/ Respond(r), ~Start(r)
      PROVE  minted' = minted /\ token' = token
  BY <1>5 DEF Handle, View, Malformed, Submit, RenderBack, Generate, HandBack, Download, BeginSave,
              SyncFile, RenameFile, WriteFails, Publish, Respond, keyVars
<1>6. ASSUME NEW r \in Requests, Handle(r) \/ Respond(r)
      PROVE  minted <= minted' /\ (token # 0 => token' # 0)
  <2>1. CASE Start(r)
    BY <1>4, <2>1
  <2>2. CASE ~Start(r)
    BY <1>1, <1>5, <1>6, <2>2
  <2> QED BY <2>1, <2>2
<1>7. ASSUME NEW r \in Requests, Arrive(r)
      PROVE  minted <= minted' /\ (token # 0 => token' # 0)
  BY <1>1, <1>3, <1>7
<1> QED BY <1>1, <1>2, <1>6, <1>7 DEF WizardNext

\* The file changes only by a save that got as far as its rename.
LEMMA FileIsSaved ==
  ASSUME WizardNext
  PROVE  conf' = conf \/ \E r \in Requests : RenameFile(r)
<1>1. CASE OpenUrl
  BY <1>1 DEF OpenUrl, fileVars
<1>2. ASSUME NEW r \in Requests, Arrive(r)
      PROVE  conf' = conf
  BY <1>2 DEF Arrive, Admit, fileVars
<1>3. ASSUME NEW r \in Requests, Handle(r) \/ Respond(r)
      PROVE  conf' = conf \/ RenameFile(r)
  BY <1>3 DEF Handle, Start, View, Malformed, Submit, RenderBack, Generate, HandBack, Download, BeginSave,
              SyncFile, WriteFails, Publish, Respond, fileVars
<1> QED BY <1>1, <1>2, <1>3 DEF WizardNext

\* A request gets to its fold as the holder's, and to its save with what loads.
LEMMA RequestGoesOn ==
  ASSUME WizardTypeOK, WizardNext, NEW q \in Requests
  PROVE  /\ request'[q].state \in Folded => request[q].state \in Folded \/ token # 0
         /\ request'[q].state \in {"writing", "synced"} =>
              \/ request[q].state \in {"writing", "synced"} /\ request'[q].values = request[q].values
              \/ Loads(request'[q].values)
<1>1. CASE request'[q] = request[q]
  BY <1>1
<1>2. CASE request'[q] # request[q]
  <2>1. CASE OpenUrl
    BY <1>2, <2>1 DEF OpenUrl
  <2>2. ASSUME NEW r \in Requests, Arrive(r)
        PROVE  request'[q].state \notin Folded
    <3>1. PICK b \in Browsers, kind \in Kind, p \in Requests \cup {None}, post \in Configuration :
            Admit(r, b, kind, p, post)
      BY <2>2, ArrivalIs
    <3>2. r = q
      BY <1>2, <3>1 DEF Admit, WizardTypeOK
    <3>3. request'[r].state \in {"admitted", "refused"}
      BY <3>1 DEF Admit, NoRequest, WizardTypeOK
    <3> QED BY <3>2, <3>3 DEF Folded, Saving
  <2>3. ASSUME NEW r \in Requests, Handle(r) \/ Respond(r)
        PROVE  /\ request'[q].state \in Folded => request[q].state \in Folded \/ token # 0
               /\ request'[q].state \in {"writing", "synced"} =>
                    \/ request[q].state \in {"writing", "synced"} /\ request'[q].values = request[q].values
                    \/ Loads(request'[q].values)
    <3>1. r = q
      BY <1>2, <2>3, HandlerMoves
    <3>2. request[q] \in Request
      BY DEF WizardTypeOK
    <3>3. CASE BeginSave(q)
      <4>1. request'[q].values = request[q].values
        <5>1. request'[q] = [request[q] EXCEPT !.state = "writing"]
          BY <3>3, BecomesIs DEF BeginSave
        <5> QED BY <3>2, <5>1 DEF Request
      <4> QED BY <3>3, <4>1 DEF BeginSave, Folded
    <3>4. CASE SyncFile(q)
      <4>1. request'[q].values = request[q].values
        <5>1. request'[q] = [request[q] EXCEPT !.state = "synced"]
          BY <3>4, BecomesIs DEF SyncFile
        <5> QED BY <3>2, <5>1 DEF Request
      <4> QED BY <3>4, <4>1 DEF SyncFile, Folded, Saving
    <3>5. CASE Submit(q)
      BY <3>5, NewState DEF Holder, Folded, Saving
    <3>6. CASE RenameFile(q) \/ WriteFails(q) \/ Publish(q)
      <4>1. request[q].state \in Folded
        BY <3>6 DEF RenameFile, WriteFails, Publish, Folded, Saving
      <4>2. request'[q].state \notin {"writing", "synced"}
        BY <3>6, NewState
      <4> QED BY <4>1, <4>2
    <3>7. CASE Start(q) \/ View(q) \/ Malformed(q) \/ RenderBack(q) \/ Generate(q) \/ Download(q)
               \/ Respond(q)
      <4>1. request'[q].state \notin Folded
        BY <3>7, NewState DEF Folded, Saving
      <4> QED BY <4>1 DEF Folded, Saving
    <3> QED BY <2>3, <3>1, <3>3, <3>4, <3>5, <3>6, <3>7 DEF Handle
  <2> QED BY <2>1, <2>2, <2>3 DEF WizardNext, Folded, Saving
<1> QED BY <1>1, <1>2

\* The wizard takes a step, while it is open and stays so.
LEMMA WizardWorks ==
  ASSUME RunInv, WizardOpen, WizardNext, mode' = mode, UNCHANGED <<armed, exit, starts>>,
         UNCHANGED <<afterSave, markerVars, openings>>,
         signalled' \in BOOLEAN, configured' = (configured \/ WorthProtecting(conf'))
  PROVE  RunInv'
<1>1. RunTypeOK /\ MarkerInv /\ DoorInv /\ WizardTypeOK
  BY DEF RunInv, RunTypeOK
<1>2. WizardTypeOK'
  BY <1>1, WizardTypesStep
<1>3. minted <= minted' /\ (token # 0 => token' # 0) /\ minted' \in Nat
  BY <1>1, <1>2, TokensGrow DEF WizardTypeOK
<1>4. UNCHANGED <<marker, creating>>
  BY DEF markerVars
<1>5. configured' \in BOOLEAN
  BY DEF WorthProtecting
<1>6. RunTypeOK'
  BY <1>1, <1>2, <1>4, <1>5 DEF RunTypeOK
<1>7. MarkerInv'
  BY <1>1, <1>3, <1>4, MarkersLeft DEF WizardOpen
<1>8. ASSUME NEW q \in Requests
      PROVE  /\ request'[q].state \in Folded => token # 0
             /\ request'[q].state \in {"writing", "synced"} => Loads(request'[q].values)
  BY <1>1, RequestGoesOn DEF DoorInv, Loads
<1>9. ASSUME NEW r \in Requests, RenameFile(r)
      PROVE  conf'.durable /\ WorthProtecting(conf') /\ token # 0
  <2>1. Loads(request[r].values) /\ token # 0
    BY <1>1, <1>9 DEF RenameFile, DoorInv, Folded, Saving
  <2>2. conf' = [values |-> request[r].values, parses |-> TRUE, durable |-> TRUE]
    BY <1>9 DEF RenameFile
  <2>3. AnyConfigured(request[r].values)
    BY <2>1, RunAssumption DEF Loads, AnyConfigured
  <2> QED BY <2>1, <2>2, <2>3 DEF WorthProtecting
<1>10. conf' = conf \/ (conf'.durable /\ WorthProtecting(conf') /\ token # 0)
  BY <1>9, FileIsSaved
<1>11. conf'.durable /\ (configured' = WorthProtecting(conf'))
  BY <1>1, <1>10 DEF DoorInv, WorthProtecting
<1>12. configured' => token' # 0
  BY <1>1, <1>3, <1>10, <1>11 DEF DoorInv, DoorStaysShut, WizardOpen
<1>13. (configured = WorthProtecting(conf))'
  BY <1>11 DEF WorthProtecting, AnyConfigured
<1>14. WizardOpen'
  BY DEF WizardOpen
<1>15. \A r \in Requests :
         /\ request'[r].state \in Folded => WizardOpen' /\ token' # 0
         /\ request'[r].state \in {"writing", "synced"} => Loads(request'[r].values)
  BY <1>3, <1>8, <1>14
<1>16. DoorInv'
  BY <1>11, <1>12, <1>13, <1>15 DEF DoorInv, DoorStaysShut, Loads
<1> QED BY <1>6, <1>7, <1>16 DEF RunInv

LEMMA WorkStep ==
  ASSUME RunInv, ClientStep \/ \E r \in Requests : HandlerStep(r) \/ RespondSaved(r)
  PROVE  RunInv'
<1>1. RunTypeOK /\ DoorInv
  BY DEF RunInv
<1>2. CASE ClientStep \/ \E r \in Requests : HandlerStep(r)
  <2>1. WizardNext
    BY <1>2 DEF ClientStep, HandlerStep, WizardNext
  <2>2. WizardOpen /\ Wizarding
    BY <1>2 DEF ClientStep, HandlerStep, WizardOpen
  <2>3. /\ mode' = mode /\ UNCHANGED <<armed, exit, starts>>
        /\ UNCHANGED <<afterSave, markerVars, openings>> /\ signalled' = signalled
        /\ configured' = (configured \/ WorthProtecting(conf'))
    BY <2>2 DEF Wizarding, processVars
  <2>4. signalled' \in BOOLEAN
    BY <1>1, <2>3 DEF RunTypeOK
  <2> QED BY <2>1, <2>2, <2>3, <2>4, WizardWorks
<1>3. ASSUME NEW r \in Requests, RespondSaved(r)
      PROVE  RunInv'
  <2>1. WizardNext /\ conf' = conf
    BY <1>3 DEF RespondSaved, Respond, WizardNext, fileVars
  <2>2. /\ WizardOpen /\ mode' = mode /\ UNCHANGED <<armed, exit, starts>>
        /\ UNCHANGED <<afterSave, markerVars, openings>> /\ configured' = configured
    BY <1>3 DEF RespondSaved, WizardOpen, runHistory
  <2>3. signalled' \in BOOLEAN
    BY <1>1, <1>3 DEF RespondSaved, RunTypeOK
  <2>4. configured' = (configured \/ WorthProtecting(conf'))
    BY <1>1, <2>1, <2>2 DEF DoorInv, RunTypeOK
  <2> QED BY <2>1, <2>2, <2>3, <2>4, WizardWorks
<1> QED BY <1>2, <1>3

LEMMA DrainStep ==
  ASSUME RunInv, Drain
  PROVE  RunInv'
<1>1. RunTypeOK /\ MarkerInv /\ DoorInv /\ WizardTypeOK /\ minted \in Nat
  BY DEF RunInv, RunTypeOK, WizardTypeOK
<1>2. mode = "wizard" /\ mode' = "draining"
      /\ UNCHANGED <<wizardVars, armed, afterSave, signalled, exit, starts, markerVars, runHistory>>
  BY DEF Drain
<1>3. UNCHANGED <<conf, request, token, minted, creating, marker, openings, configured>>
  BY <1>2 DEF wizardVars, keyVars, fileVars, markerVars, runHistory
<1>4. DoorInv'
  BY <1>1, <1>2, <1>3, DoorUntouched DEF WizardOpen
<1>5. WizardTypeOK'
  BY <1>1, <1>2, StaysTyped
<1>6. RunTypeOK'
  BY <1>1, <1>2, <1>3, <1>5 DEF RunTypeOK, Mode
<1>7. MarkerInv'
  BY <1>1, <1>2, <1>3, MarkersLeft
<1> QED BY <1>4, <1>6, <1>7 DEF RunInv

\* A process ends: in whatever way, it forgets what it held, and the file is
\* there as it was.
LEMMA EndStep ==
  ASSUME RunInv, Drained \/ DrainTimesOut \/ Crash \/ PowerCut
  PROVE  RunInv'
<1>1. RunTypeOK /\ MarkerInv /\ DoorInv /\ WizardTypeOK /\ minted \in Nat
      /\ marker \in Nat \cup {Torn} /\ creating \in Nat /\ openings \in Seq(Nat)
      /\ configured \in BOOLEAN /\ conf \in File
  BY DEF RunInv, RunTypeOK, WizardTypeOK
<1>2. conf' = conf
  BY <1>1 DEF Drained, DrainTimesOut, Crash, PowerCut, DoorInv
<1>3. Forget
  BY DEF Drained, DrainTimesOut, Crash, PowerCut
<1>4. /\ WizardTypeOK'
      /\ token' = 0 /\ armed' = 0 /\ minted' = minted
      /\ afterSave' \in BOOLEAN /\ signalled' \in BOOLEAN /\ starts' \in 0..MaxStarts
      /\ UNCHANGED runHistory
      /\ \A r \in Requests : request'[r].state \notin Folded
  BY <1>1, <1>2, <1>3, Forgotten
<1>5. mode' \in {"down", "serving"} /\ exit' \in Exit
  BY <1>1 DEF Drained, DrainTimesOut, Crash, PowerCut, Serve, Fail, Exit, RunTypeOK
<1>6. creating' \in {0, creating} /\ marker' \in {0, Torn, marker}
  BY DEF Drained, DrainTimesOut, Crash, PowerCut, markerVars
<1>7. UNCHANGED <<openings, configured>>
  BY <1>4 DEF runHistory
<1>8. ~WizardOpen' /\ mode' # "marked" /\ mode' \in Mode
  BY <1>5 DEF WizardOpen, Mode
<1>9. DoorInv'
  BY <1>1, <1>2, <1>4, <1>7, <1>8, DoorLeft
<1>10. MarkerInv'
  <2>1. minted' \in Nat /\ minted <= minted'
    BY <1>1, <1>4
  <2> QED BY <1>1, <1>4, <1>6, <1>7, <1>8, <2>1, MarkersLeft
<1>11. RunTypeOK'
  <2>1. creating' \in Nat /\ marker' \in Nat \cup {Torn}
    BY <1>1, <1>6
  <2> QED BY <1>1, <1>4, <1>5, <1>7, <1>8, <2>1 DEF RunTypeOK
<1> QED BY <1>9, <1>10, <1>11 DEF RunInv

LEMMA InitRun == RunInit => RunInv
<1> SUFFICES ASSUME RunInit
             PROVE  RunInv
  OBVIOUS
<1>1. conf \in File /\ conf.durable
  <2>1. conf.values \in Configuration /\ conf.parses \in BOOLEAN /\ conf.durable = TRUE
        /\ conf = [values |-> conf.values, parses |-> conf.parses, durable |-> conf.durable]
    BY SetupAssumption DEF RunInit, Configuration, Value
  <2> QED BY <2>1 DEF File
<1>2. NoRequest \in Request /\ NoRequest.state = "none"
  BY BlankTyped DEF NoRequest, Request, RequestState, Kind
<1>3. WizardTypeOK
  <2>1. token \in Nat /\ minted \in Nat /\ handed \subseteq Nat /\ generation \in Nat
    BY DEF RunInit
  <2>2. pending \in Seq(Form) /\ Len(pending) <= FormsKept /\ rendered \in Seq(Requests)
    BY SetupAssumption DEF RunInit
  <2>3. request \in [Requests -> Request]
    BY <1>2 DEF RunInit
  <2> QED BY <1>1, <2>1, <2>2, <2>3, BlankTyped DEF RunInit, WizardTypeOK
<1>4. RunTypeOK
  <2>1. configured \in BOOLEAN
    BY DEF RunInit, WorthProtecting
  <2>2. starts \in 0..MaxStarts /\ openings \in Seq(Nat) /\ marker \in Nat \cup {Torn}
    BY RunAssumption DEF RunInit
  <2> QED BY <1>3, <2>1, <2>2 DEF RunInit, RunTypeOK, Mode, Exit
<1>5. MarkerInv
  <2>1. openings = << >> /\ creating = 0 /\ armed = 0 /\ marker = 0 /\ mode = "down"
    BY DEF RunInit
  <2> QED BY <2>1 DEF MarkerInv, MarkerOpensOnce
<1>6. DoorInv
  BY <1>1, <1>2 DEF RunInit, DoorInv, DoorStaysShut, Folded, Saving
<1> QED BY <1>4, <1>5, <1>6 DEF RunInv

LEMMA RunStep ==
  ASSUME RunInv, [RunNext]_vars
  PROVE  RunInv'
<1>1. CASE RunNext
  <2>1. CASE CreateMarker \/ WriteMarker \/ WriteMarkerFails
    BY <2>1, MarkerStep
  <2>2. CASE StartServe \/ ReadMarker \/ RemoveMarkerFails
    BY <2>2, QuietStarts
  <2>3. CASE StartSetup \/ StartDefault
    BY <2>3, WizardStarts
  <2>4. CASE ClientStep \/ \E r \in Requests : HandlerStep(r) \/ RespondSaved(r)
    BY <2>4, WorkStep
  <2>5. CASE Drained \/ DrainTimesOut \/ Crash \/ PowerCut
    BY <2>5, EndStep
  <2> QED BY <1>1, <2>1, <2>2, <2>3, <2>4, <2>5, RemoveMarkerStep, DrainStep DEF RunNext
<1>2. CASE UNCHANGED vars
  <2>1. /\ UNCHANGED <<mode, armed, afterSave, signalled, exit, starts, marker, creating, openings>>
        /\ UNCHANGED <<configured, conf, request, token, minted>> /\ UNCHANGED wizardVars
    BY <1>2 DEF vars, processVars, markerVars, runHistory, wizardVars, keyVars, fileVars
  <2>2. RunTypeOK /\ MarkerInv /\ DoorInv /\ WizardTypeOK /\ minted \in Nat
    BY DEF RunInv, RunTypeOK, WizardTypeOK
  <2>3. WizardTypeOK'
    BY <2>1, <2>2, StaysTyped
  <2>4. RunTypeOK'
    BY <2>1, <2>2, <2>3 DEF RunTypeOK
  <2>5. MarkerInv'
    BY <2>1, <2>2, MarkersLeft
  <2>6. DoorInv'
    BY <2>1, <2>2, DoorUntouched DEF WizardOpen
  <2> QED BY <2>4, <2>5, <2>6 DEF RunInv
<1> QED BY <1>1, <1>2

\* Whatever order processes start, crash and lose power in, tokens and doors
\* are as said above (main.go, marker.go).
THEOREM RunInvariant == RunSpec => []RunInv
BY InitRun, RunStep, PTL DEF RunSpec

\* Once the file held something to protect, every wizard asks for a token, over
\* any restarts, crashes and power cuts (main.go, wizard; setup.go, writeFile).
THEOREM DoorIsKeptShut == RunSpec => []DoorStaysShut
<1>1. RunInv => DoorStaysShut
  BY DEF RunInv, DoorInv
<1> QED BY <1>1, RunInvariant, PTL

\* A marker is removed before the wizard it stands for opens, so that it opens
\* no second one (marker.go, consumeMarker).
THEOREM MarkersOpenOnce == RunSpec => []MarkerOpensOnce
<1>1. RunInv => MarkerOpensOnce
  BY DEF RunInv, MarkerInv
<1> QED BY <1>1, RunInvariant, PTL
=============================================================================
