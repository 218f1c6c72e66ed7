------------------------------ MODULE RunModes ------------------------------
(***************************************************************************)
(* The lives of the process around the setup wizard: which mode a start    *)
(* takes (cmd/scan2graph/main.go), the one-shot marker that                *)
(* "setup-next-start" leaves for the next start (marker.go), what a save   *)
(* in the wizard leads to, and what a crash or a power cut leaves behind.  *)
(*                                                                         *)
(* There is a configuration file path, the listener opens, and whoever     *)
(* starts the process again after it ended may choose any mode.  A marker  *)
(* is named by the token whose hash it holds.  A power cut loses file      *)
(* content that was not synced, but no directory entry.                    *)
(***************************************************************************)
EXTENDS SetupWizard

CONSTANTS
  MaxStarts,  \* bound on the starts of the process
  MaxTokens,  \* setup-next-start mints no token beyond these
  Torn        \* a marker of the wrong length

\* What config.Load insists on includes something worth protecting: the Entra
\* app registration (config.go:164-166, setupfields.go:172-175).
ASSUME RunAssumption ==
  /\ MaxStarts \in Nat /\ MaxTokens \in Nat
  /\ Torn \notin Nat
  /\ Required \cap Protected # {}

VARIABLES
  mode,       \* what the process is doing
  marker,     \* the marker file: its token, Torn, or 0 if there is none
  creating,   \* setup-next-start between creating and writing the marker: its token, or 0
  armed,      \* what consumeMarker read
  afterSave,  \* wizard's startAfterSave
  signalled,  \* the saved channel holds a signal
  exit,       \* how the process ended; "never" while it runs and before
  starts,     \* how often it was started
  openings,   \* history: the markers that opened a wizard
  configured  \* history: the file once held something to protect

processVars == <<mode, armed, afterSave, signalled, exit, starts>>
markerVars == <<marker, creating>>
runHistory == <<openings, configured>>
vars == <<wizardVars, processVars, markerVars, runHistory>>

\* "marked" is consumeMarker between reading and removing the marker.
Mode == {"down", "marked", "wizard", "draining", "serving"}
Exit == {"never", "config", "marker", "timeout", "crash"}

RunTypeOK ==
  /\ WizardTypeOK
  /\ mode \in Mode
  /\ marker \in Nat \cup {Torn}
  /\ creating \in Nat
  /\ armed \in Nat
  /\ afterSave \in BOOLEAN /\ signalled \in BOOLEAN
  /\ exit \in Exit
  /\ starts \in 0..MaxStarts
  /\ openings \in Seq(Nat)
  /\ configured \in BOOLEAN

Usable(file) == file.parses /\ Loads(file.values)

RunInit ==
  /\ conf \in [values : InitialFiles, parses : BOOLEAN, durable : {TRUE}]
  /\ conf.parses \/ conf.values = Blank
  /\ token = 0 /\ minted = 0 /\ handed = {}
  /\ cookie = [b \in Browsers |-> 0]
  /\ fileValues = Blank /\ generation = 0 /\ pending = << >> /\ lock = None
  /\ request = [r \in Requests |-> NoRequest]
  /\ rendered = << >>
  /\ mode = "down" /\ armed = 0 /\ afterSave = FALSE /\ signalled = FALSE
  /\ exit = "never" /\ starts = 0
  /\ marker = 0 /\ creating = 0
  /\ openings = << >>
  /\ configured = WorthProtecting(conf)

-----------------------------------------------------------------------------
(***************************************************************************)
(* setup-next-start, a process of its own.                                 *)
(***************************************************************************)

\* os.WriteFile has created or truncated the file ...
CreateMarker ==
  /\ creating = 0
  /\ minted < MaxTokens
  /\ minted' = minted + 1
  /\ creating' = minted + 1
  /\ marker' = Torn
  /\ UNCHANGED <<token, handed, cookie, fileVars, request, rendered, processVars, runHistory>>

\* ... and written it; the address is printed.
WriteMarker ==
  /\ creating # 0
  /\ marker' = creating
  /\ handed' = handed \cup {creating}
  /\ creating' = 0
  /\ UNCHANGED <<token, minted, cookie, fileVars, request, rendered, processVars, runHistory>>

\* A failed write takes the marker with it.
WriteMarkerFails ==
  /\ creating # 0
  /\ marker' = 0
  /\ creating' = 0
  /\ UNCHANGED <<wizardVars, processVars, runHistory>>

-----------------------------------------------------------------------------
(***************************************************************************)
(* A start.                                                                *)
(***************************************************************************)

\* wizard(path, hash, after): without a hash, a token is minted if there is
\* something to protect.
OpenWizard(hash, after) ==
  LET mints == hash = 0 /\ WorthProtecting(conf)
  IN  /\ mode' = "wizard"
      /\ afterSave' = after
      /\ signalled' = FALSE
      /\ exit' = "never"
      /\ token' = IF mints THEN minted + 1 ELSE hash
      /\ minted' = IF mints THEN minted + 1 ELSE minted
      /\ handed' = IF mints THEN handed \cup {minted + 1} ELSE handed
      /\ fileValues' = ReadConfigFile(conf)
      /\ UNCHANGED <<cookie, generation, pending, lock, conf, request, rendered>>

\* fatal
Fail(why) ==
  /\ mode' = "down"
  /\ exit' = why

Starting == mode = "down" /\ starts < MaxStarts /\ starts' = starts + 1

Serve ==
  IF Usable(conf) THEN mode' = "serving" /\ exit' = "never" ELSE Fail("config")

\* runServeMode
StartServe ==
  /\ Starting
  /\ Serve
  /\ UNCHANGED <<wizardVars, armed, afterSave, signalled, markerVars, runHistory>>

\* runSetupMode
StartSetup ==
  /\ Starting
  /\ OpenWizard(0, FALSE)
  /\ UNCHANGED <<armed, markerVars, runHistory>>

\* runDefaultMode with no marker.
StartDefault ==
  /\ Starting
  /\ marker = 0
  /\ IF ~Usable(conf) /\ ~WorthProtecting(conf)
     THEN /\ OpenWizard(0, TRUE)
          /\ UNCHANGED armed
     ELSE /\ Serve
          /\ UNCHANGED <<wizardVars, armed, afterSave, signalled>>
  /\ UNCHANGED <<markerVars, runHistory>>

\* runDefaultMode finds a marker, and stops at once if it is corrupt.
ReadMarker ==
  /\ Starting
  /\ marker # 0
  /\ IF marker = Torn
     THEN Fail("marker") /\ UNCHANGED armed
     ELSE mode' = "marked" /\ armed' = marker /\ exit' = "never"
  /\ UNCHANGED <<wizardVars, afterSave, signalled, markerVars, runHistory>>

\* Wrong: the marker is left for later.
OpenMarked ==
  /\ mode = "marked"
  /\ OpenWizard(armed, TRUE)
  /\ openings' = Append(openings, armed)
  /\ armed' = 0
  /\ UNCHANGED <<starts, marker, creating, configured>>

\* The marker is removed before the wizard opens.
RemoveMarker ==
  /\ mode = "marked"
  /\ marker' = 0
  /\ OpenWizard(armed, TRUE)
  /\ openings' = Append(openings, armed)
  /\ armed' = 0
  /\ UNCHANGED <<starts, creating, configured>>

RemoveMarkerFails ==
  /\ mode = "marked"
  /\ Fail("marker")
  /\ armed' = 0
  /\ UNCHANGED <<wizardVars, afterSave, signalled, starts, markerVars, runHistory>>

-----------------------------------------------------------------------------
(***************************************************************************)
(* The wizard at work, and its end.                                        *)
(***************************************************************************)
Wizarding ==
  /\ configured' = (configured \/ WorthProtecting(conf'))
  /\ UNCHANGED <<processVars, markerVars, openings>>

ClientStep ==
  /\ mode = "wizard"
  /\ OpenUrl \/ \E r \in Requests : Arrive(r)
  /\ Wizarding

HandlerStep(r) ==
  /\ mode \in {"wizard", "draining"}
  /\ Handle(r)
  /\ Wizarding

\* Wrong: the save does not tell that it is done.
RespondQuietly(r) ==
  /\ mode \in {"wizard", "draining"}
  /\ Respond(r)
  /\ UNCHANGED <<processVars, markerVars, runHistory>>

\* The page that says "Saved", and then OnSaved, which never blocks.
RespondSaved(r) ==
  /\ mode \in {"wizard", "draining"}
  /\ Respond(r)
  /\ signalled' = (signalled \/ afterSave)
  /\ UNCHANGED <<mode, armed, afterSave, exit, starts, markerVars, runHistory>>

InProgress(r) ==
  request[r].state \notin {"none", "form", "answered", "refused", "lost"}

\* Shutdown closes the listener ...
Drain ==
  /\ mode = "wizard"
  /\ signalled
  /\ mode' = "draining"
  /\ UNCHANGED <<wizardVars, armed, afterSave, signalled, exit, starts, markerVars, runHistory>>

\* What a process leaves behind of the wizard when it ends.
Forget ==
  /\ token' = 0
  /\ fileValues' = Blank /\ generation' = 0 /\ pending' = << >> /\ lock' = None
  /\ request' = [r \in Requests |->
       IF InProgress(r) THEN [request[r] EXCEPT !.state = "lost"] ELSE request[r]]
  /\ signalled' = FALSE /\ armed' = 0
  /\ UNCHANGED <<minted, handed, cookie, rendered, afterSave, starts, runHistory>>

\* ... waits for every admitted handler, and then runServeMode starts.
Drained ==
  /\ mode = "draining"
  /\ \A r \in Requests : ~InProgress(r)
  /\ Serve
  /\ Forget
  /\ UNCHANGED <<conf, markerVars>>

DrainTimesOut ==
  /\ mode = "draining"
  /\ Fail("timeout")
  /\ Forget
  /\ UNCHANGED <<conf, markerVars>>

\* The process is killed, or ends serving.
Crash ==
  /\ mode # "down"
  /\ Fail("crash")
  /\ Forget
  /\ UNCHANGED <<conf, markerVars>>

\* Nothing syncs the marker, so it may come back torn.
PowerCut ==
  /\ Fail("crash")
  /\ Forget
  /\ conf' = IF conf.durable THEN conf ELSE [values |-> Blank, parses |-> TRUE, durable |-> TRUE]
  /\ marker' \in IF marker = 0 THEN {0} ELSE {marker, Torn}
  /\ creating' = 0

-----------------------------------------------------------------------------
RunNext ==
  \/ CreateMarker \/ WriteMarker \/ WriteMarkerFails
  \/ StartServe \/ StartSetup \/ StartDefault
  \/ ReadMarker \/ RemoveMarker \/ RemoveMarkerFails
  \/ ClientStep
  \/ \E r \in Requests : HandlerStep(r) \/ RespondSaved(r)
  \/ Drain \/ Drained \/ DrainTimesOut
  \/ Crash \/ PowerCut

\* A handler that can run does, and so does main, waiting for the channel and
\* then for Shutdown; nothing is assumed of browsers, operators and restarts.
RunFairness ==
  /\ \A r \in Requests : WF_vars(HandlerStep(r)) /\ WF_vars(RespondSaved(r))
  /\ WF_vars(Drain)
  /\ WF_vars(Drained)

RunSpec == RunInit /\ [][RunNext]_vars /\ RunFairness

-----------------------------------------------------------------------------
(***************************************************************************)
(* Properties.                                                             *)
(***************************************************************************)

\* Once there was something to protect the wizard never again stands open to
\* whoever comes first, whatever crash or power cut hits a save.
DoorStaysShut ==
  configured /\ mode \in {"wizard", "draining"} => token # 0

\* A marker opens one wizard, however the process crashes and restarts, so a
\* crash loop cannot keep opening it.
MarkerOpensOnce ==
  \A k, n \in DOMAIN openings : openings[k] = openings[n] => k = n

\* In every life of the process, a save under a wizard that is to start the
\* appliance does start it, with a file that loads, unless that life is ended by
\* a kill or by a handler that outlives the shutdown's time.
SavedIsServed ==
  \A r \in Requests :
     (request[r].state = "saved" /\ afterSave)
       ~> (mode = "serving" \/ exit \in {"crash", "timeout"})
=============================================================================
