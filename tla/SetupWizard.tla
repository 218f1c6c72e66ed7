----------------------------- MODULE SetupWizard -----------------------------
(***************************************************************************)
(* The setup wizard of internal/web/setup.go during one life of the        *)
(* process: who may use it, what a submission folds into, what a rendered  *)
(* page remembers, and how a save replaces the configuration file.         *)
(*                                                                         *)
(* Each HTTP request is a goroutine of its own; setupServer.mu is taken    *)
(* for one step at a time, except by a save, which holds it while it       *)
(* writes the file.  A request's id doubles as the id of the form it       *)
(* renders and as the value its operator types into a box, so that a value *)
(* tells which submission it came from.                                    *)
(*                                                                         *)
(* A setting has no value, a value, or its S2G_..._FILE spelling; a file   *)
(* with both spellings of one setting is not modelled, nor is the          *)
(* environment above the file, which no request changes.  The profile      *)
(* editor's rows are one text box.                                         *)
(***************************************************************************)
EXTENDS Naturals, Sequences, FiniteSets, SequencesExt

CONSTANTS
  Requests,      \* requests made to the wizard
  Browsers,
  Operator,      \* the browser of whoever was handed a token
  Settings,      \* the boxes of the form
  Secrets,       \* those never rendered back (fieldSecret)
  Required,      \* those config.Load insists on
  Protected,     \* those worth protecting
  Typed,         \* the boxes somebody types into
  Generated,     \* the one "Generate SMTP password" fills
  FormsKept,     \* setupFormsKept
  InitialFiles,  \* what the configuration file may hold before
  Unset, FromFile, Old, None

ASSUME SetupAssumption ==
  /\ Operator \in Browsers
  /\ Secrets \subseteq Settings /\ Required \subseteq Settings /\ Typed \subseteq Settings
  /\ Generated \in Secrets
  /\ FormsKept \in Nat \ {0}
  /\ InitialFiles \subseteq [Settings -> {Unset, FromFile, Old}]
  /\ None \notin Requests /\ {Unset, FromFile, Old} \cap Requests = {}

VARIABLES
  token,      \* TokenHash: the token it is of, or 0
  minted,     \* how many tokens were ever minted
  handed,     \* the tokens in the addresses the operator was handed
  cookie,     \* per browser: the token it presents, or 0
  fileValues, \* FileValues
  generation, \* file: how many times a save replaced FileValues
  pending,    \* pending: what the rendered forms handed back
  lock,       \* the save holding mu, or None
  conf,       \* the configuration file on disk
  request,    \* per request: where its handler is
  rendered    \* history: the forms remembered, in order

keyVars == <<token, minted, handed, cookie>>
fileVars == <<fileValues, generation, pending, lock, conf>>
wizardVars == <<keyVars, fileVars, request, rendered>>

Value == {Unset, FromFile, Old} \cup Requests
Configuration == [Settings -> Value]
Blank == [s \in Settings |-> Unset]

\* parses: ParseFile can read it; durable: its content was synced.
File == [values : Configuration, parses : BOOLEAN, durable : BOOLEAN]

Kind == {"view", "start", "test", "generate", "download", "save"}

\* The last four are a page with the form, any other answer, a 404, and a
\* request cut off when the process ended.
RequestState == {"none", "admitted", "folded", "writing", "synced", "renamed", "saved",
                 "failed", "form", "answered", "refused", "lost"}

\* page is the form a submission was posted from, post what its boxes hold;
\* values and file are what values() returned; line is history: the
\* submissions the page descends from.
Request == [state : RequestState, browser : Browsers \cup {None}, kind : Kind,
            page : Requests \cup {None}, post : Configuration,
            values : Configuration, file : Nat, line : SUBSET Requests]

NoRequest == [state |-> "none", browser |-> None, kind |-> "view", page |-> None,
              post |-> Blank, values |-> Blank, file |-> 0, line |-> {}]

Form == [id : Requests, values : Configuration, file : Nat]

WizardTypeOK ==
  /\ {token, minted, generation} \subseteq Nat
  /\ handed \subseteq Nat
  /\ cookie \in [Browsers -> Nat]
  /\ fileValues \in Configuration
  /\ pending \in Seq(Form) /\ Len(pending) <= FormsKept
  /\ lock \in Requests \cup {None}
  /\ conf \in File
  /\ request \in [Requests -> Request]
  /\ rendered \in Seq(Requests)

\* config.Load accepts the values as far as the required settings go.
Loads(values) == \A s \in Required : values[s] # Unset

AnyConfigured(values) == \E s \in Protected : values[s] # Unset

\* worthProtecting: there is something to take, or a file that cannot be read.
WorthProtecting(file) == ~file.parses \/ AnyConfigured(file.values)

\* readConfigFile: an unreadable file starts the wizard with an empty form.
ReadConfigFile(file) == IF file.parses THEN file.values ELSE Blank

\* wizard and NewSetup: a token gates the form if there is something to protect.
WizardInit ==
  /\ conf \in [values : InitialFiles, parses : BOOLEAN, durable : {TRUE}]
  /\ conf.parses \/ conf.values = Blank
  /\ token = IF WorthProtecting(conf) THEN 1 ELSE 0
  /\ minted = token /\ handed = {token} \ {0}
  /\ cookie = [b \in Browsers |-> 0]
  /\ fileValues = ReadConfigFile(conf)
  /\ generation = 0
  /\ pending = << >>
  /\ lock = None
  /\ request = [r \in Requests |-> NoRequest]
  /\ rendered = << >>

-----------------------------------------------------------------------------
(***************************************************************************)
(* Who may use the wizard.                                                 *)
(***************************************************************************)
Unlocked == lock = None

\* holder
Holder(b) == token # 0 /\ cookie[b] = token

Becomes(r, state) == request' = [request EXCEPT ![r].state = state]

\* The address with the token is opened.
OpenUrl ==
  /\ Unlocked
  /\ token \in handed
  /\ cookie' = [cookie EXCEPT ![Operator] = token]
  /\ UNCHANGED <<token, minted, handed, fileVars, request, rendered>>

\* What a text box of page p shows; an unknown page shows nothing.
Shown(p, s) ==
  IF p = None \/ s \in Secrets \/ request[p].values[s] = FromFile
  THEN Unset ELSE request[p].values[s]

\* What request r can post from page p: every box as shown or emptied, and
\* some of them retyped.
Posts(r, p) ==
  {post \in [Settings -> {Unset, r} \cup {Shown(p, s) : s \in Settings}] :
     \A s \in Settings : post[s] \in {Unset, Shown(p, s)} \cup (IF s \in Typed THEN {r} ELSE {})}

\* authenticate: an unclaimed wizard is open, a claimed one its holder's.
Admit(r, b, kind, p, post) ==
  /\ Unlocked
  /\ request[r].state = "none"
  /\ p # None => request[p].state = "form" /\ request[p].browser = b
  /\ request' = [request EXCEPT ![r] =
       [NoRequest EXCEPT !.state = IF token = 0 \/ Holder(b) THEN "admitted" ELSE "refused",
                         !.browser = b, !.kind = kind, !.page = p, !.post = post,
                         !.line = IF p = None THEN {} ELSE request[p].line \cup {p}]]
  /\ UNCHANGED <<keyVars, fileVars, rendered>>

\* Wrong: the look and the mint are not one.
StartUnchecked(r) ==
  LET b == request[r].browser
  IN  /\ Unlocked
      /\ request[r].state = "admitted" /\ request[r].kind = "start"
      /\ token' = minted + 1
      /\ minted' = minted + 1
      /\ cookie' = [cookie EXCEPT ![b] = token']
      /\ Becomes(r, "answered")
      /\ UNCHANGED <<handed, fileVars, rendered>>

\* start: the first press claims the wizard.
Start(r) ==
  LET b == request[r].browser
  IN  /\ Unlocked
      /\ request[r].state = "admitted" /\ request[r].kind = "start"
      /\ IF token = 0
         THEN /\ token' = minted + 1
              /\ minted' = minted + 1
              /\ cookie' = [cookie EXCEPT ![b] = token']
              /\ Becomes(r, "answered")
         ELSE /\ UNCHANGED <<token, minted, cookie>>
              /\ Becomes(r, "refused")
      /\ UNCHANGED <<handed, fileVars, rendered>>

\* GET /setup: the form, or the page that offers to claim the wizard.
View(r) ==
  /\ Unlocked
  /\ request[r].state = "admitted" /\ request[r].kind = "view"
  /\ request' = [request EXCEPT ![r] =
       IF Holder(@.browser)
       THEN [@ EXCEPT !.state = "form", !.values = fileValues, !.file = generation]
       ELSE [@ EXCEPT !.state = "answered"]]
  /\ UNCHANGED <<keyVars, fileVars, rendered>>

-----------------------------------------------------------------------------
(***************************************************************************)
(* A submission.                                                           *)
(***************************************************************************)

\* The form is malformed or too large.
Malformed(r) ==
  /\ Unlocked
  /\ request[r].state = "admitted" /\ request[r].kind \notin {"view", "start"}
  /\ Holder(request[r].browser)
  /\ Becomes(r, "answered")
  /\ UNCHANGED <<keyVars, fileVars, rendered>>

\* Wrong: a fold stays good whatever happened to the file.
BaseWhateverFile(p) ==
  IF \E k \in DOMAIN pending : pending[k].id = p
  THEN pending[CHOOSE k \in DOMAIN pending : pending[k].id = p].values
  ELSE fileValues

\* base: what page p handed back while the file is the one it folded into,
\* otherwise the file.
Base(p) ==
  IF \E k \in DOMAIN pending : pending[k].id = p /\ pending[k].file = generation
  THEN pending[CHOOSE k \in DOMAIN pending : pending[k].id = p].values
  ELSE fileValues

\* values: an empty box removes the setting, unless the page cannot show it.
Fold(base, post) ==
  [s \in Settings |->
     IF post[s] # Unset THEN post[s]
     ELSE IF s \in Secrets \/ base[s] = FromFile THEN base[s]
     ELSE Unset]

\* submit up to values; only the holder gets that far, and stays the holder.
Submit(r) ==
  /\ Unlocked
  /\ request[r].state = "admitted" /\ request[r].kind \notin {"view", "start"}
  /\ request' = [request EXCEPT ![r] =
       IF Holder(@.browser)
       THEN [@ EXCEPT !.state = "folded", !.file = generation,
                      !.values = Fold(Base(request[r].page), request[r].post)]
       ELSE [@ EXCEPT !.state = "refused"]]
  /\ UNCHANGED <<keyVars, fileVars, rendered>>

\* Wrong: the forms that were there first stay.
RememberFirst(r, values) ==
  LET forms == Append(pending, [id |-> r, values |-> values, file |-> request[r].file])
  IN  pending' = SubSeq(forms, 1, IF Len(forms) < FormsKept THEN Len(forms) ELSE FormsKept)

\* remember: the newest FormsKept forms, oldest falling off first.
Remember(r, values) ==
  LET forms == Append(pending, [id |-> r, values |-> values, file |-> request[r].file])
  IN  pending' = IF Len(forms) > FormsKept THEN Tail(forms) ELSE forms

\* The form is rendered back with values.
HandBack(r, values) ==
  /\ Unlocked
  /\ Remember(r, values)
  /\ rendered' = Append(rendered, r)
  /\ request' = [request EXCEPT ![r] = [@ EXCEPT !.state = "form", !.values = values]]
  /\ UNCHANGED <<keyVars, fileValues, generation, lock, conf>>

\* The connection was tested, the loader objected, nothing could be generated,
\* or writing the file failed.
RenderBack(r) ==
  /\ request[r].state \in {"folded", "failed"}
  /\ HandBack(r, request[r].values)

Generate(r) ==
  /\ request[r].state = "folded" /\ request[r].kind = "generate"
  /\ HandBack(r, [request[r].values EXCEPT ![Generated] = r])

Download(r) ==
  /\ request[r].state = "folded" /\ request[r].kind = "download"
  /\ Loads(request[r].values)
  /\ Becomes(r, "answered")
  /\ UNCHANGED <<keyVars, fileVars, rendered>>

-----------------------------------------------------------------------------
(***************************************************************************)
(* save: the file is written and republished under one lock.               *)
(***************************************************************************)
BeginSave(r) ==
  /\ Unlocked
  /\ request[r].state = "folded" /\ request[r].kind = "save"
  /\ Loads(request[r].values)
  /\ lock' = r
  /\ Becomes(r, "writing")
  /\ UNCHANGED <<keyVars, fileValues, generation, pending, conf, rendered>>

\* The temporary file is complete and on disk.
SyncFile(r) ==
  /\ request[r].state = "writing"
  /\ Becomes(r, "synced")
  /\ UNCHANGED <<keyVars, fileVars, rendered>>

\* Wrong: the rename comes before the content is on disk.
RenameUnsynced(r) ==
  /\ request[r].state = "writing"
  /\ conf' = [values |-> request[r].values, parses |-> TRUE, durable |-> FALSE]
  /\ Becomes(r, "renamed")
  /\ UNCHANGED <<keyVars, fileValues, generation, pending, lock, rendered>>

\* Wrong: the lock covers the write alone.
RenameUnlocking(r) ==
  /\ request[r].state = "synced"
  /\ conf' = [values |-> request[r].values, parses |-> TRUE, durable |-> TRUE]
  /\ Becomes(r, "renamed")
  /\ lock' = None
  /\ UNCHANGED <<keyVars, fileValues, generation, pending, rendered>>

RenameFile(r) ==
  /\ request[r].state = "synced"
  /\ conf' = [values |-> request[r].values, parses |-> TRUE, durable |-> TRUE]
  /\ Becomes(r, "renamed")
  /\ UNCHANGED <<keyVars, fileValues, generation, pending, lock, rendered>>

\* Any step of writeFile fails; the file is the old one.
WriteFails(r) ==
  /\ request[r].state \in {"writing", "synced"}
  /\ lock' = None
  /\ Becomes(r, "failed")
  /\ UNCHANGED <<keyVars, fileValues, generation, pending, conf, rendered>>

\* The rest of save: the file is the answer again, for every page.
Publish(r) ==
  /\ request[r].state = "renamed"
  /\ fileValues' = request[r].values
  /\ pending' = << >>
  /\ generation' = generation + 1
  /\ lock' = None
  /\ Becomes(r, "saved")
  /\ UNCHANGED <<keyVars, conf, rendered>>

\* The page that says "Saved".
Respond(r) ==
  /\ request[r].state = "saved"
  /\ Becomes(r, "answered")
  /\ UNCHANGED <<keyVars, fileVars, rendered>>

-----------------------------------------------------------------------------
Arrive(r) ==
  \E b \in Browsers, kind \in Kind, p \in Requests \cup {None} :
     IF kind \in {"view", "start"}
     THEN p = None /\ Admit(r, b, kind, None, Blank)
     ELSE \E post \in Posts(r, p) : Admit(r, b, kind, p, post)

Handle(r) ==
  \/ Start(r) \/ View(r) \/ Malformed(r) \/ Submit(r)
  \/ RenderBack(r) \/ Generate(r) \/ Download(r)
  \/ BeginSave(r) \/ SyncFile(r) \/ RenameFile(r) \/ WriteFails(r) \/ Publish(r)

WizardNext == OpenUrl \/ \E r \in Requests : Arrive(r) \/ Handle(r) \/ Respond(r)

WizardSpec == WizardInit /\ [][WizardNext]_wizardVars

-----------------------------------------------------------------------------
(***************************************************************************)
(* Properties.                                                             *)
(***************************************************************************)

\* What the wizard reads back is what the file holds, whatever order
\* overlapping saves come in, except while one of them is at it.
FileAndMemoryAgree ==
  lock = None => fileValues = ReadConfigFile(conf)

\* A page with the form, and whatever may become a change of the file, is in
\* the hands of the browser that holds the key: a claim that came in between
\* stops the requests that were admitted before it, and is never lost again.
FormsAreTheHolders ==
  \A r \in Requests :
     request[r].state \notin {"none", "admitted", "answered", "refused"}
       => Holder(request[r].browser)

JustSaved(r) == request[r].state # "saved" /\ request'[r].state = "saved"
Overlapped(r) == request[r].file # generation

\* Where the value v that request r saves may come from: typed now, kept from
\* the file it replaces, or typed earlier on the very page the submission
\* descends from, since the last save.
Legitimate(r, s, v) ==
  \/ v \in {r, fileValues[s]}
  \/ v \in request[r].line /\ request[v].file = generation

\* An empty secret box never brings back a secret of another page or of a file
\* replaced meanwhile, as long as no other save came between the fold and the
\* write.
SavedSecretIsOwnOrCurrent ==
  [][\A r \in Requests :
       JustSaved(r) /\ ~Overlapped(r)
         => \A s \in Secrets : Legitimate(r, s, request[r].values[s])]_wizardVars

\* The newest forms handed back.
Newest == SubSeq(rendered, IF Len(rendered) > FormsKept THEN Len(rendered) - FormsKept + 1 ELSE 1,
                 Len(rendered))

\* What the operator left as the page shows it stays what the page stood for,
\* above all where the box cannot show it: a secret that was tested, generated
\* or refused with the page, a setting in a file of its own.  Unless there was
\* a save, or there are too many newer pages.
UntouchedBoxesAreKept ==
  [][\A r \in Requests :
       LET p == request[r].page
       IN  /\ request[r].state = "admitted" /\ request'[r].state = "folded"
           /\ p # None
           /\ request[p].kind = "view" \/ p \in ToSet(Newest)
           /\ request[p].file = generation
           => \A s \in Settings :
                request[r].post[s] = Shown(p, s)
                  => request'[r].values[s] = request[p].values[s]]_wizardVars

\* setup.go:576-578: base asks whether a page still talks about the current
\* file "at the moment something folds into the values, because that is the
\* only moment when the answer cannot go stale afterwards".
FoldNeverStale ==
  [][\A r \in Requests :
       JustSaved(r)
         => \A s \in Secrets : Legitimate(r, s, request[r].values[s])]_wizardVars
=============================================================================
