# scan2graph in TLA+

scan2graph is an SMTP appliance: a printer mails it a scan, it optionally makes
the PDF searchable, mails it on through Microsoft Graph and/or offers it for
download in a small web UI for a limited time. Everything it holds lives in one
process; a restart starts empty. This directory holds TLA+ models of it, the TLC
configurations that check them on small instances, and TLAPS proofs of what
matters most for every size of instance.

Paths such as `internal/jobs/store.go` are relative to the repository's root.

## 1. The system's parts

| Component | State it keeps | Operations | Talks to |
|---|---|---|---|
| Job store, bookkeeping (`internal/jobs/store.go`, `job.go`) | `jobs`, `reservations`, `used`, `closed`, all under `Store.mu` | `Reserve`, `Staging.Commit`, `Staging.Abort`, `SetStatus`, `ReplaceDocument`, `Delete`, `Get`, `ListForUser`, `CleanExpired`, `Close` | called by sessions, workers, the sweep, the web UI |
| Job store, files (same files) | one directory per staging/job, the files in it; `Staging.files`, `jobRecord.files` | the file I/O of the operations above, all of it outside the mutex | the file system |
| SMTP session (`internal/smtpin/session.go`, `smtpin.go`) | `mu`, `generation`, `authenticated`, `profile`, `caps`, `staging`, `recipients`, one set per connection | `Mail`, `Rcpt`, `Data`, `Reset`, `Logout`, `AuthMechanisms`/`Auth` | go-smtp calls it; calls the store and `Pipeline.Enqueue` |
| Pipeline (`internal/pipeline/pipeline.go`) | a bounded queue, a fixed pool of workers | `Enqueue`, `Run`, `process`, `runOCR`, `deliver`, `finish`, `fail`, `notice` | store, Document Intelligence, Graph |
| Service run (`cmd/scan2graph/main.go`) | the listeners' error channel, the contexts of the workers and the sweep | `main`, `run`, the shutdown sequence, the choice of run mode | everything |
| Setup wizard (`internal/web/setup.go`, `setupcheck.go`, `setupfields.go`) | the claim token, the remembered values, the saved-once latch, the configuration file | `start`, `submit`, `save`, `base`, `remember`, `values`, `writeFile` | the configuration, `msapi` for its checks |
| Web sign-in (`internal/web/auth.go`, `session.go`, `web.go`) | the session table, the sign-in cookie | `create`, `get`, `drop`, login, callback, logout, the pages | Entra ID, the store |
| Microsoft API client (`internal/msapi`) | the token source | `Do` with retries, `RetryAfter`, role lookup | Graph, Document Intelligence |
| Graph mail (`internal/graphmail`) | an upload session per large attachment | `Send`, `sendLarge`, `attach`, `upload` | `msapi` |
| Document Intelligence (`internal/docintel`) | none beyond a call | `SearchablePDF`: submit, poll, fetch | `msapi` |
| MIME extraction (`internal/mimescan`) | the limits left in one walk | `Extract`, `walk`, `leaf` | the staging's `CreateFile` |
| Configuration (`internal/config`) | none | `Load`, `limits`, `Profile`, `profiles` | environment, file |
| Setup-next-start marker (`cmd/scan2graph/marker.go`) | one file | `createMarker`, `consumeMarker` | the run mode |
| Version, e2e fakes | none | | |

### How they interact

A scan's life crosses three threads and one lock after the other:

1. go-smtp's command loop calls `Mail`, `Rcpt` and `Reset`; `Data` runs on that
   loop for a DATA command, and on a goroutine of its own for BDAT. A RSET, a
   QUIT or a broken connection calls `Reset`/`Logout` while that goroutine still
   runs. `session.mu` and the transaction's `generation` keep the two apart.
2. `Data` takes budget (`Reserve`), extracts the PDFs into the staging, and then,
   holding `session.mu`, compares the generation, commits the staging and calls
   `Enqueue`, which refuses rather than blocks; a refused scan is deleted again.
   What a transaction may do was decided before that: `Load` made a configuration
   of a file and the environment, AUTH let the printer in, `Mail` looked up what
   its sender may do, and `Rcpt` whom it may send to.
3. A worker takes the job from the queue, replaces its documents through OCR,
   mails it, marks it ready or failed, or deletes it when no web user could see
   it.
4. Meanwhile the sweep expires what is over its deadline, a commit or a
   settlement evicts finished scans to make room, the web UI serves downloads,
   and the shutdown closes the listener, stops the workers and wipes the store.

### What is hard about it

- Two threads per connection, with a transaction that may be gone, and replaced
  by the next, before its own thread has started.
- File I/O outside the store's mutex: each file operation happens some time
  before or after the bookkeeping it belongs to.
- A byte budget kept as a running total, adjusted by differences in eight places,
  admitted against space that is not free yet but could be freed.
- OCR results larger than the message that was admitted.
- Partial failure: OCR after one of two documents, a mail that was sent but
  reported as failed, a job that vanished under its worker.
- Ordering on shutdown, and what an early return does to that order.
- Requests to Microsoft's services that are late, lost, repeated, or done and
  answered with an error all the same.
- A wizard whose forms remember what their pages cannot show, with saves that
  overlap and a file that a crash or a power cut may hit at any point.
- A message the walk cannot fully understand, which must not pass for the empty
  one of a connection test.
- Settings that only together say whether mail may go anywhere at all, each with two
  spellings in two places.
- One address, written by an operator, by a printer and by an identity provider, and
  compared three times.
- Cookies that overlapping requests of several tabs and browsers carry around, while the
  session they name expires or is signed out.

`PROJECT.json` lists these as `hazards`, each at its line, with the property that
would catch it or the reason why none does yet.

### What makes each component correct

| Component | Correctness |
|---|---|
| Store, bookkeeping | the total is exact; a promise can always be kept at commit; what is held never exceeds the budget; eviction takes finished scans only, is oldest first and minimal; tombstones stay until their deadline and hold nothing |
| Store, files | every offered document is on disk; no directory and no unaccounted file is left behind; expired scans leave the disk |
| SMTP session | a transaction is either committed or aborted; a scan never leaves in another transaction's name; no promise is left without an owner; a refused scan leaves nothing; an accepted one comes from a trusted printer, is for whom it announced, and is mailed to allowed domains only |
| Pipeline | a job has exactly one owner until it is settled; an accepted scan is reported to its recipients; nothing unsearchable goes out where OCR was asked for |
| Service run | nothing is accepted once the workers are stopping; the shutdown ends |
| Setup wizard | forms and changes are in the hands of whoever holds the key; file and memory agree after any order of saves; a saved secret is the submission's own or the current one; what was left as shown stays |
| Web sessions | nobody is let in by a session that expired, was signed out, or is of another browser's sign-in; a scan is shown to exactly those it was sent to |
| Microsoft API | bounded retries and waits, at the width of a duration; a call ends |
| Graph mail | what goes out is whole; success means that it went out; nothing Graph must turn down is asked for |
| Document Intelligence | only a whole PDF replaces a document; polling ends with the job |
| MIME extraction | a scan is kept with all its whole PDFs or not at all; a message accepted without a scan hid nothing; limits hold over the whole tree |
| Configuration | the environment overrides a setting, not one spelling of it; what a profile can ask for is there; two messages fit the budget |
| Run modes, marker | a configured appliance is never open to whoever comes first; a marker opens one wizard; a save leads to serving |

## 2. The modules

    ByteSum  <--  JobStore  <--  JobStoreFiles       (one staging's files, step by step)
       ^              ^
       |              +-------  Appliance            (sessions, pipeline, shutdown)
       +------  GraphMail

    SetupWizard  <--  RunModes                       (restarts around the wizard)

    MsApi  <--  GraphMail  <--  Delivery             (one job through OCR and mail)
       ^                           |
       +------  DocIntel  <--------+
    MailPromise  <-- (INSTANCE) --  GraphMail

    Config  <----+
                 +--  Intake  <--  WebUi             (one connection; its scan's readers)
    MimeScan  <--+                                   (one message, up to its answer)

    JobStoreProofs <--+-- JobStoreFilesProofs         DeliveryProofs
                      +-- ApplianceProofs             RunModesProofs
    MimeScanProofs <-- IntakeProofs <-- WebUiProofs

Arrows point to what a module EXTENDS. The `MC...` modules give the constants
values; `MCJobStore` also compares `Total` with a fold over small functions. A
`...Proofs` module also EXTENDS the module it is about; `RunModesProofs` is about
`SetupWizard` and `RunModes`.

Three specifications are implemented by more detailed ones, which TLC checks on the runs
and TLAPS in general:

- `JobStore` is the abstract specification of the store: one action per critical
  section of `Store.mu`. `JobStoreFiles` and `Appliance` both EXTEND it, use its
  actions inside their own, and both implement it (`StoreSpec`; `FilesImplementStore`,
  `ApplianceImplementsStore`): `JobStoreFiles` adds the file system, `Appliance` adds
  the callers. The mapping
  is the identity on the store's variables; what has to be shown is that each step
  of the detailed module is a legal step of the store or leaves it alone (for
  instance that no worker ever takes a job back from a final state, and that nothing
  outlives `Close`).
- `MailPromise` says what the pipeline may conclude from how `graphmail.Send`
  ends: after success the message is on its way, after "too large" it never will
  be, after any other error nothing is known. `Delivery`, with the retry loop, the
  draft, the chunks and an unreliable network, implements it
  (`KeepsPromise`; `DeliveryKeepsPromise`);
  the mapping is `outcome <- Outcome, mailed <- delivered # {}`.
- `IntakeSpec`, one connection, is implemented by `DoorSpec`, the same with browsers:
  the mapping is the identity (`DoorImplementsIntake`), so that what is proved of a
  connection holds whatever the browsers do.

`TypeOK` of `JobStore` and `DeliveryTypeOK`, which bounds the waits, are run. The type
invariants of the other modules say what their variables range over; they are parts of the
inductive invariants, and proved with them.

### ByteSum

`Total(f)` is the sum of a function's values, written as the cardinality of the
set of all single bytes `<<x, k>>` with `k \in 1..f[x]`. It needs no recursion, so its laws
(adding, dropping and changing an entry; zero) follow from the library's theorems
about finite sets. They are the first lemmas of `JobStoreProofs`, which the
accounting proof rests on.

### JobStore

| Code | Model |
|---|---|
| `Store.jobs`, `reservations`, `used`, `closed` | variables of the same names; a record keeps `status`, `received`, `expires`, `bytes`, `caps`, `docs` |
| `Store.now` | `now`; a reading taken before the mutex was acquired is any `at \in Recent`, at most `Lag` old |
| `admitsLocked` | `Admits` |
| `makeRoomLocked` | `MakeRoom`, `Evicts`: the sort by arrival and the loop are given as the set they evict, with ties in any order |
| `live` | `Live` |
| `Reserve` up to its first unlock | `Reserve` |
| `commitReservation`, `releaseReservation` | `Commit`, `ReleaseReservation` |
| `charge` followed by `makeRoomLocked` | `Recharge` |
| `SetStatus`, `ReplaceDocument`, `Delete`, `CleanExpired`, `Close` | the actions of those names |

A job is named by the staging it came from (the code draws a new random id at
commit; two ids never meet). Subject, recipients, profile name and the failure
reason are data that no decision here reads.

### JobStoreFiles

Every public operation of the store that touches files becomes the steps between
its unlocks: `BeginReserve`, `MakeStagingDir` (or its failure), `EndReserve`
with the second look at `closed`; `BeginCommit`/`EndCommit`;
`BeginAbort`/`EndAbort`; `BeginCreateFile`, `MakeTempFile`, `EndCreateFile`;
`SwapDocument`, `UpdateStatus`, `DeleteJob`, `Sweep`, `CloseStore`. What an
operation removes after its unlock is put in `doomedDirs` or `doomedFiles` and
removed by `RemoveDir`, `RemoveFile` or `Wipe` at any later moment.
`BeginDownload`/`EndDownload` are the web UI's handler between `Get` and
`os.Open`. A document has at most two files, the scanned one and OCR's.
`os.RemoveAll` of one directory is taken to be one step.

### Appliance

| Code | Model |
|---|---|
| `session.mu` | `session[c].holder`; only `Data` holds it across steps (commit, enqueue, delete) |
| `session.generation`, `profile`, `staging` | fields of `session[c]`; a profile is its set of capabilities |
| `Reset`, `Logout`, `Mail` | `Reset`, `Logout`, `BeginMail` then `EndMail`; the staging a reset took out is aborted after the unlock (`AbortStaging`) |
| `Data` | `StartData` (go-smtp), `BeginData`, then `RefuseMessage`, `AcceptEmpty` or `CommitScan`, then `EnqueueScan` and perhaps `DeleteScan` |
| `Pipeline.queue`, `Enqueue` | `queue` with `QueueCap`, `EnqueueScan` |
| `Run`, `process`, `runOCR`, `deliver`, `finish`, `fail`, `notice` | `LookForStop`, `Take`, `Stop`, `Begin`, `OcrDocument`/`OcrFails`, `Deliver`/`DeliverFails`, `Finish`, `Fail`, `Notice`, `DeleteJob` |
| `run`'s shutdown | `Signal`, `SmtpClosed`, `StopWorkers`, `CloseStore`; `ServerFails` is the early return |

go-smtp is external and modelled from how `session.go` describes and uses it: a
goroutine per BDAT message that it does not wait for before it serves the next
command, a reader that fails once the transaction is reset, one `Data` per
transaction. `Abort`'s two locked parts and the failing `MkdirAll` are in
`JobStoreFiles` and merged here. `outcome` and `evictedFor` are history
variables: what a scan's recipients were given, and for whose commit a scan was
evicted.

### SetupWizard

| Code | Model |
|---|---|
| `setupServer.mu` | every step is one critical section; `lock` is the save that holds it while it writes the file |
| `TokenHash`, the cookie, the printed address | `token`, `cookie`, `handed`; a hash is the number of the token it is of, a fresh token is `minted + 1` |
| `FileValues`, `file`, `pending` | `fileValues`, `generation`, `pending` |
| the configuration file | `conf`: what it holds, whether it parses, whether its content was synced |
| `authenticate`, `holder`, `start`, `GET /setup` | `Admit`, `Holder`, `Start`, `View` |
| `submit` with its buttons, `base`, `values`, `remember` | `Submit`, `Base`, `Fold`, `Remember`, `RenderBack`, `Generate`, `Download`, `Malformed` |
| `save`, `writeFile`, the rest of `save`, the page | `BeginSave`; `SyncFile`, `RenameFile`, `WriteFails`; `Publish`; `Respond` |

A request's id is also the id of the form it renders and the value its operator
types, so a value tells which submission it came from. Between any two steps of
one request every other request may do anything; that is what the handlers'
goroutines do. `line` (the pages a submission descends from) and `rendered` are
history.

### RunModes

Everything of `SetupWizard`, inside one life of the process, and the lives
around it: `StartServe`, `StartSetup`, `StartDefault` are `runServeMode`,
`runSetupMode`, `runDefaultMode`; `CreateMarker` and `WriteMarker` are the two
steps of `setup-next-start`; `ReadMarker`, `RemoveMarker` (which opens the
wizard) are `consumeMarker`; `RespondSaved` is `OnSaved`; `Drain`, `Drained`,
`DrainTimesOut` are the shutdown of the wizard's server and what follows it. `Crash`
ends the process at any step and loses what it held in memory; `PowerCut` also
loses file content that was not synced, and may leave the marker, which nothing
syncs, torn.

### MsApi, GraphMail, DocIntel, Delivery

`MsApi` is the retry loop of `Client.Do`: `Do`, `Attempt`, `Receive`,
`GoesMissing`, `Wake`, `Cancel`. An attempt puts a request into `inFlight`; the
service handles it at any later time or never, after the client has given it up,
too, and after a later attempt of the same request was handled. `Signed` wraps
what `Retry-After` asks for at the width of a `time.Duration`.

| Code | Model |
|---|---|
| `graphmail.Send`, up to its first request | `Send`, `Fits`, `CannotRead` |
| `post`, `sendLarge`, `createDraft`, `attach`, `postJSON` | `stage` with `HasDraft`, `Attach`, `HasAttached`, `HasSession`, `PutChunk`, `HasPutChunk`, `Succeeds`, `Fails` |
| `docintel.SearchablePDF`: submit, poll, fetch | `Analyze`, `Analyzed`, `Poll`, `Polled`, `Paused`, `Fetch`, `Fetched`, `OcrGivesUp`, `CannotOpen` |
| `pipeline.runOCR`, `deliver` for one job | `Delivery`: `RunOcr`, `ReplaceDocument`, `OcrFails`, `Deliver` |

Graph and Document Intelligence are external: the actions that serve requests
allow whatever the clients have to cope with. Graph's `Grant` does what it is
asked and answers well, without the id, illegibly, or with an error although it
was done; `Acknowledge` is an upload session's answer to a range it has already;
`Deny` does nothing and says so. A message is the list of its attachments' sizes
in quarters of a MiB, with the code's own limits in that unit (a message of 16,
scans of 9, the floor of an upload session at 12, chunks of 15).
`ReplaceDocument` forgets the finished document's operations and the requests about
them: they concern nobody any more.

### MimeScan

`Extract`, `walk` and `leaf` of `internal/mimescan` and the part of
`session.Data` around them. The message is not given beforehand: each step
chooses what the walk finds next, and so the runs cover every tree within the
limits and the first step beyond each.

| Code | Model |
|---|---|
| `walk` | `OpenContainer`, `UnopenedContainer`, `DeepEntity`, `NextPart`, `EndContainer`; `open` is its recursion |
| `leaf` | `Leaf`: `SkipLeaf`, or `StoreLeaf` with `RejectFile` |
| `Extract`'s end and the files it takes back | `ExtractEnds`, `ExtractFails` |
| `errReader`, the discarding of the rest, `extractError` | `ReadFails`, `Answer`, `Respond` |

`sent` and `clues` are history: the whole PDFs the walk met, and what else the
message gave away. What was just written to a file is assumed to be readable
(see the observations below).

### Config

`config.Load` as a function of what there is to read, and one action that calls it.

| Code | Model |
|---|---|
| the `map[string]string` of a file, the environment | `Env`: a text per setting and spelling (`S2G_X`, `S2G_X_FILE`); "" is none |
| `layer` and `pairedName` (`file.go`) | `Layer`, `Paired` |
| `resolve`, `set`, the getters (`env.go`) | `Misspelt`, `IsSet`, `Resolve`, `Parsed` |
| `profiles`, `capabilities`, `anyEmail`/`anyWeb`/`anyOCR`, `domains` | `Entries`, `BadProfiles`, `Profiles`, `Asks`, `AllowedDomains` |
| the requirements and the default profile in `Load` | `Lacks`, `DefaultProfile`, `BadDefault` |
| `smtpAuth`, `limits` | `BadAuth`, `Anonymous`, `Password`; `BadLimits` |
| `Profile`, `RecipientAllowed`, `NormalizeAddress` | operators of the same names |

A text stands for all that its parser makes the same of: "bad" is refused, and a proper
one is proper. What matters is which of four places it comes from and what else is set.
An address is the mailbox it means, its domain, and whether it is written in the
canonical form, in another (capitals, angle brackets, blanks), or could not be one.

### Intake

| Code | Model |
|---|---|
| `main`'s `Load` and listener, a connection | `LoadConfig`, `NewSession`; `phase` |
| `Auth` with `authenticate`, `loginServer` | `AuthPlain`; `AuthLogin`, `LoginUsername`, `LoginPassword`, `CancelLogin` |
| `Mail`, `Rcpt`, `Reset` | `Mail`, `Rcpt`, `Rset`, with `Granted` and `ResetSession` |
| `Data` | `Data`; `Read`, the walk of `MimeScan`; `Settle`, the answer and the commit; `DataReturns` with go-smtp's reset |

What go-smtp itself remembers (`named`) is modelled from how the session relies on it: it
asks for a MAIL and a RCPT before it calls `Data`, counts those that were accepted since the
last reset, and does not reset before a second MAIL. `announced` is history: what the
printer was told 250 to. Resets while `Data` runs, the staging and the queue are
`Appliance`'s; here a failing commit is the choice of `Settle`.

### WebUi

| Code | Model |
|---|---|
| the cookies of a browser | `jar`: one for a sign-in under way, one for the session |
| `handleLogin`, `handleCallback` (`auth.go`) | `HandleLogin`, `HandleCallback` with `SignIn`; the provider's redirect is `Return` |
| `sessionStore.create`, `get`, `drop` (`session.go`) | `Create`, `Get`, `Without` |
| `handleLogout`, `guard` | `HandleLogout`, `Guard` |
| `Server.job`, `ListForUser` and the handlers behind `guard` | `Finds`, `Handle` |

A request is three steps, sent (`Ask`), let in (`Guard`) and answered (`Handle`), and any
other request, sign-out or expiry may come in between. The state, nonce and verifier of a
sign-in are made together and are one number. The identity provider is external: it
redirects any browser that has the link, as often as it likes, exchanges a code once, may
fail, and asserts the addresses in `Claims`. `born` is history.

### Operators marked "Wrong:"

Some definitions are preceded by a deliberately wrong version of them, marked
`\* Wrong:`. They are what a plausible bug in that code would look like, are used
nowhere in the specifications, and exist so that each property can be shown to
notice it (`mutants` in `PROJECT.json`).

## 3. The runs

| Run | What it asks | Instance | States |
|---|---|---|---|
| `store` | the whole of the bookkeeping: types, exact total, promises, budget, eviction order and economy, tombstones | 3 scans, 1 document, OCR sizes 1 and 3 against a message of 2 and a budget of 4, clock to 3 | 93,000 |
| `files_safety` | documents on disk, nothing stranded, nothing unaccounted, downloads find their file; partial OCR | 2 scans of 2 documents, clock to 2 | 1.4 million |
| `files_liveness` | expired scans leave the disk, leaked promises are released, the files implement `JobStore` | 2 scans, clock to 2 | 107,000 |
| `session_races` | resets, late goroutines and overwritten fields of one connection | 2 transfers, 3 generations | 985,000 |
| `shutdown` | accepted scans are reported, nothing unsearchable goes out, progress, nothing accepted while stopping, the shutdown's end, `Appliance` implements `JobStore` | 2 scans of 2 documents, 1 worker, each pair of capabilities | 246,000 |
| `delivery` | what goes out is whole, Graph is asked for nothing it must turn down, `MailPromise`, the worker comes free | 10 shapes of message, 2 attempts | 163,000 |
| `setup` | forms are the holder's, file and memory agree, secrets, untouched boxes | 3 requests, 2 browsers, 2 settings | 162,000 |
| `run_modes` | the door stays shut, a marker opens once, a save leads to serving | 2 starts, 2 requests, 1 token | 699,000 |
| `front_door` | settings are layered and checked soundly, an accepted scan is as configured and announced, a dropped message hid nothing, a kept scan is complete, it is shown to exactly its people, ended sessions admit nobody | 1,183 configurations; 3 senders, 3 recipients; 3 parts, 1 level, 2 PDFs; 2 browsers, 2 sign-ins, sessions of one tick | 1.5 million |
| `refused_evicts`, `setup_overlap`, `unreadable_dropped` | three sentences of the repository's comments that the code does not keep | | found |

### Bounds, and why they are enough

- *Scans.* Eviction order needs two finished scans and the one that commits
  (three, `store`). A file race is between one scan's own steps and those of one
  other that evicts it (two). A queue overflow needs as many scans as there are
  places, workers aside, plus one: two while the worker has not taken the first,
  three in `refused_evicts`, where an older one has to be finished.
- *Bytes.* A unit is a whole message or half of one. `MaxBytes` is two messages,
  the least `limits()` in `internal/config` allows; OCR may return more than a whole
  message, so settling alone can force an eviction.
- *Clock.* `Horizon` caps `now`: the deadline is one or two ticks, the stale age
  one, a late clock reading one, so each fires within the horizon and is also
  seen not to have fired. The stale age is shorter than a transaction may take, so
  the sweep does take slow transactions for leaked ones. The `Appliance` runs, whose
  questions are not about time, have next to no clock (`Horizon` 0 or 1).
- *`QueuePerWorker`* is 8 in the code and 1 in the runs: a full queue is reached
  with fewer scans, and nothing depends on its length otherwise.
- *`MaxGeneration`* caps the resets of one connection: three, that is a reset
  before, between and after two transfers. A logout is always possible beyond it.
- *Retries.* `MaxAttempts` is 4 in the code and 2 in the run: a first attempt, and
  one that follows a lost one. `Width` is 8 bits and a second two units, so that 63
  seconds still fit and 64 do not; the headers asked with are those around this
  edge, zero, a negative number, a date that has passed, and none.
- *Messages.* The shapes are none, and those on both sides of each of the four
  limits, alone and in pairs, one of them only too large once it is searchable.
- *The wizard.* `FormsKept` is 4 in the code and 1 in the runs: with three requests a
  page is remembered, found again, and pushed out. Two browsers are a holder and
  somebody else. One box cannot be rendered back and is typed into, one can and is left or
  emptied; the file has the first, or has the second in a file of its own.
- *Starts.* A save, a crash and what the next start makes of it need two
  (`MaxStarts`), and `SavedIsServed` is asked of each life by itself: a start clears how the
  one before ended; one token of `setup-next-start` (`MaxTokens`), besides those the wizard
  mints, is used, kept over a crash and looked for again.
- *Messages in `MimeScan`.* Limits of 3 parts, 1 level and 2 PDFs stand for 100, 10
  and 16 in `front_door` (`unreadable_dropped` has its own); each is met exactly and
  exceeded. The proofs hold for any limits.
- *Configurations.* Every combination of the settings that depend on each other, every
  combination of the three for authentication, each setting in each spelling in the
  file and in the environment against a complete configuration, and the limits around
  zero, half and just over half of the budget. They need not be combined further: what
  two settings of different groups do to each other goes through `Resolve`, which looks
  at one.
- *Addresses.* Of printers, one that is spelt as its profile is not and one the other
  way round; of recipients, one in an allowed domain and one outside it; of those who
  sign in, each recipient, in another spelling, and a stranger; and what is no address in
  every place.
- *Browsers.* Two sign-ins are a second one beside or after the first, in one browser or
  in two. A session lasts one tick of a clock with one tick, so that it is used before
  and asked for after it expired, and so that a sign-in meets it expired in the table.
- *Symmetry* is used on scans, requests and browsers, in runs without liveness only.

Deadlock is checked in `store` and both file runs, where the sweep never stops. The
other systems end by design: the process of `Appliance` exits, a job of
`Delivery` and a message of `MimeScan` are answered, the connection of `Intake` is followed
up to its first stored scan or a refused configuration, and requests to the wizard, sign-ins
and starts run out at their bounds. What rules out a real deadlock there are
`ShutdownEnds`, `AcceptedIsProcessed`, `JobEnds` and `SavedIsServed`.

### Fairness

- `JobStoreFiles`: the clock advances, the sweep's ticker keeps firing
  (`Sweep(now)`; store.go:649-664), a goroutine that is past its unlock goes on to
  its `os.RemoveAll`, and a caller that waits for the mutex gets it. Nothing is
  assumed of what a staging's owner or the pipeline does next, so a leaked
  reservation is one whose owner never comes back.
- `Appliance`: a goroutine that can run does. `Data` ends because the connection
  has a read timeout, a worker's calls end with `jobTimeout`, closing the server
  closes each connection, and `srv.Shutdown` has a deadline. A printer never has to
  do anything.
- `Delivery`: the worker goes on when it can (`WF(Work)`), where an attempt without
  an answer ends because the HTTP clients have timeouts, and the job's context ends
  at `jobTimeout` (`WF(Deadline)`). Nothing is assumed of Graph or Document
  Intelligence, which may never answer, or say "running" forever.
- `Intake` and `WebUi` state no fairness: what they are asked is safety. A printer or a
  browser never has to go on, and that a session's requests end is the HTTP server's.
- `RunModes`: an admitted handler goes on, and so does `main` once it is told of a
  save. Nothing is assumed of browsers, operators, or whoever starts the process.

### Findings

Three passages say something the code does not do; each has a run that shows it:

1. *A refused scan can destroy others* (`refused_evicts`). `store.go:236-237` says a
   scan is only destroyed for one that was actually accepted. Commit evicts; if
   `Enqueue` then finds the queue full the new scan is refused, and the evicted ones are
   gone.
2. *A fold can go stale* (`setup_overlap`). `setup.go:576-578` says that folding is the
   only moment when the question whether a page still talks about the current file
   cannot go stale. A save of another page between the fold and the save of a
   submission is undone by it, and both pages say "Saved".
3. *What cannot be read is dropped* (`unreadable_dropped`). `mimescan.go:48-53` and
   97-99 say that a message not fully read is refused. A part whose base64 breaks within
   its first kilobyte, with headers that tell nothing, leaves the message "plain text", and
   it is accepted with 250 and dropped (`mimescan.go:222-224`).

Observations that no run shows, most of them consequences of an order the
models do have:

- `pipeline.go:121-122` says the store expires what is still queued when the workers
  stop. Such a job is pending, and a pending one never expires (`live`); `Close`
  removes it soon after, in an orderly exit.
- `main.go:493-495` says the workers outlive the SMTP listener. When a listener fails
  `run` returns at once and its deferred `stopWorkers` runs while sessions still answer
  250; hence the `broken` in two properties.
- `store.go:348-351` says a job is never hidden while its files are on disk. Between
  the deadline and the next sweep it is.
- A profile with `ocr` alone is accepted by `Profile`, processed, and deleted without
  anybody seeing the result.
- A retried `sendMail` may send twice, and a `Send` that failed may have gone out, while
  the notice says that the scan was not delivered. `MailPromise` says so.
- A `Retry-After` large enough to overflow a duration yields the shortest wait.
- go-smtp's record of an accepted MAIL and RCPT survives a second MAIL that is refused, which
  clears the session's sender and recipients. `Data` is then called all the same and can
  store a scan for nobody, which can do nothing; it goes when the pipeline is done with it.
- A browser that signs in again leaves its older session in the table, valid until it
  expires: signing out drops the newer one only.
- A browser has one cookie for a sign-in under way. With two tabs, the second login
  overwrites the first one's, and the callback that comes back first clears it: if it is
  the first tab's, neither signs in.
- `pipeline.go:31-37` gives a notice five seconds so that it fits the ten that a container
  has to stop by default. Before any worker is told to stop, `srv.Shutdown` may take fifteen
  (`main.go:548`).
- A PDF whose tail cannot be read back from the disk (`mimescan.go:241`) is skipped like
  a damaged one; a file that cannot be written is a storage error.

## 4. The proofs

### The store

Proved with TLAPS for any set of scans, any finite set of documents per scan, any
sizes, budget, deadlines and clock lag (`StoreAssumption`, which is weaker than
what `internal/config` enforces: the budget need not even hold one message):

| Theorem | Statement |
|---|---|
| `JobStoreProofs!StoreInvariant` | `Spec => []IInv` |
| `TypeCorrect`, `AccountingIsExact`, `PromisesAreKept`, `BudgetIsKept` | `Spec => []TypeOK`, `[]BudgetAccounting`, `[]PromisesFit`, `[]HeldFits` |
| `TombstonesStay` | `Spec => TombstoneKeepsDeadline` |
| `ChargesAreSettled` | `Spec => []TurnInv` |
| `EvictionIsInTurn` | `Spec => EvictsInTurn` |

The inductive invariant is

    IInv == TypeOK /\ BudgetAccounting /\ TombstonesHoldNothing
                   /\ PromisesFit /\ HeldFits

and none of its parts is inductive alone. `PromisesFit` says that unfinished jobs
and open promises fit the budget together; at `Reserve` this follows from what
`Admits` computed from `used`, so it needs `BudgetAccounting`; the admission on the space of
finished jobs needs that tombstones, which are neither finished nor unfinished,
are charged nothing. `HeldFits` at `Commit` needs `PromisesFit`: evicting
*all* candidates leaves the unfinished jobs, which fit. For a job that settles at
a size larger than its promise the same argument works because it is a candidate
itself. Within a critical section, between the change of a record and the eviction
that follows it, the invariant does not hold; what does is the predicate
`Sound(js, rs, u)`, and one lemma says that `MakeRoom` leads from `Sound` back
to `IInv`. Every action that evicts is an application of it.

Who is evicted is read off the same `MakeRoom` (`RoomInTurn`, `TurnIsKept`), with one
addition. `EvictsInTurn` says that nothing is evicted but scans that were finished
before the step and the one it settles (`OnlyFinished`), none younger than a finished
one that stays (`OldestFirst`), and none too many (`NoMoreThanNeeded`). The last is said
in terms of the documents a scan has, not of its charge: put back at what its documents
occupy, after the step's own change if it is the scan that changes, the youngest evicted
scan would exceed the budget. That needs `SettledCharges`, a finished scan is charged
for exactly the documents it has, and `TurnInv` is `IInv` with it. A `makeRoomLocked`
that forgot to ask whether a scan is finished, or that counted promises as held, breaks
it; both are mutants of `store`.

### The walk over a message

Proved for any limits (`LimitsAssumption`: they are positive):

| Theorem | Statement |
|---|---|
| `MimeScanProofs!ScanInvariant` | `ScanSpec => []ScanInv` |
| `ScanTypeCorrect` | `ScanSpec => []ScanTypeOK`, with the limits on parts and depth in it |
| `DroppedMessagesHadNothing` | `ScanSpec => []DroppedHadNothing` |
| `KeptScansAreComplete` | `ScanSpec => []KeptIsWhatWasSent` |

    ScanInv == ScanTypeOK /\ WalkInv /\ ExtractInv /\ AnswerInv
                          /\ Increasing /\ PlainInv

The two properties speak of the end, so the invariant says what leads to it at
each place. `WalkInv`: while the walk goes on the files are those of the PDFs
taken, those are the whole ones met so far, and each has a lower number than
the part at hand, which is what keeps `pdfs` in order when one is appended.
`PlainInv`: while the flag stands, nothing but an unreadable part was given away; it is
what makes `AnswerInv` say something. `ExtractInv` carries both over to the answer: a
failure took the files back, and "no attachments" needs the flag. The steps
that end a walk share two lemmas, `Failing` and `Returning`.

### The settings and the connection

Proved for any settings, addresses and limits (`IntakeAssumption`: the addresses are
addresses; `ConfigAssumption`: the texts of profiles decode to entries with an address and
capabilities, there is a domain, and "{}" is the text of none):

| Theorem | Statement |
|---|---|
| `IntakeProofs!IntakeInvariant` | `IntakeSpec => [](IntakeInv /\ ScanInv)` |
| `IntakeTypeCorrect` | `IntakeSpec => []IntakeTypeOK` |
| `ScansAreAsConfigured` | `IntakeSpec => []AcceptedAsConfigured` |
| `MessagesAreTheirOwn` | `IntakeSpec => [](DroppedHadNothing /\ KeptIsWhatWasSent)` |
| `LoadIsSound` | `IntakeSpec => []LoadedIsSound` |

`AcceptedAsConfigured` speaks of a stored scan. What leads to it is `TransactionInv`: at
any moment before, what the session holds is what the printer was told yes to, a MAIL that
counts was made by a trusted one, the capabilities are provided for and the recipients
allowed. That needs `ConfigSound`: whatever `Load` accepted, every profile's capabilities,
and the default's, have what they need. It is where the checks of single settings are
put together, and where the default profile is seen to be computed from the same settings
that the checks are about.

`LoadedIsSound` compares `Layer`, which decides by spelling, with the sentence of the
documentation, which speaks of settings. The lemma `LayerMerges` says that they agree for
every file and environment; `LoadInv` keeps the accepted configuration and the input it was
made of together until the first connection. `MessagesAreTheirOwn` reuses the proof of
`MimeScan`: every step of the connection is a step of the walk, leaves it alone, or starts
another in the state `ScanInit` describes, where `ScanInv` holds.

### The browsers

Proved for any browsers, claims, sign-ins, session time and clock (`WebAssumption`: a
mailbox is at one domain, whoever names it):

| Theorem | Statement |
|---|---|
| `WebUiProofs!DoorInvariant` | `DoorSpec => []DoorInv` |
| `DoorImplementsIntake` | `DoorSpec => IntakeSpec` |
| `ScansAreShownToTheirPeople` | `DoorSpec => []ShownToItsPeople` |
| `EndedSessionsStayEnded` | `DoorSpec => EndedSessionsAdmitNobody` |

    DoorInv == IntakeInv /\ ScanInv /\ RecipientsInv /\ StoredInv /\ WebInv
    WebInv  == LoginsInv /\ JarInv /\ SessionsInv /\ RequestsInv

Both properties speak of what a request carries, so the invariant follows it back: a
request's session is of a sign-in its browser started (`RequestsInv`), as the cookie it was
sent with was (`JarInv`); a session has the identities the provider asserted at that sign-in
and the deadline it was made with, and one that is in the table has not been signed out
(`SessionsInv`). That a scan is shown to exactly its people is then a statement about
addresses alone, the lemma `FindsWhatBelongs`: two of them normalize to the same if and only
if they mean the same mailbox. It needs `AsAnnounced` of `Intake` for the scan's side.

### The store's files

Proved for any scans, documents, sizes, budget and clock (`StoreAssumption`, and
`FilesAssumption`: the mark for "no call" is not a call):

| Theorem | Statement |
|---|---|
| `JobStoreFilesProofs!FilesInvariant` | `FilesSpec => []FilesInv` |
| `FilesImplementStore` | `FilesSpec => StoreSpec` |
| `FilesTypesHold` | `FilesSpec => []FilesTypeOK` |
| `DocumentsStayOnDisk`, `NoDirIsStranded`, `FinishedJobsKeepDocumentsOnly`, `DownloadsFindTheirFile` | `FilesSpec => []DocumentsOnDisk`, `[]NoStrandedDirs`, `[]FinishedKeepsOnlyDocuments`, `[]DownloadFindsFile` |

    FilesInv  == IInv /\ TreeInv
    TreeInv   == FilesTyped /\ ClosedIsEmpty /\ DownloadHeld /\ \A i \in Ids : IdInv(i)
    IdInv(i)  == StagingMatches(i) /\ CommitReady(i) /\ RemovalsSpare(i)
                   /\ FilesTracked(i) /\ DirAccounted(i)

The hard part is what is removed after the unlock. `RemovalsSpare` says that no removal still
to come takes a file somebody needs, OCR's new file included, and `FilesTracked` and
`DirAccounted` that whatever nobody needs is already somebody's to remove. What makes the
proof manageable is that a step is about one id: every other one is a `Bystander`, whose job
the step may evict, expire or wipe but not change. The implementation of `JobStore` needs
`CommitReady`: what `Commit` checked before it waited for the mutex is still so when it gets
it, or the reservation is gone.

### The appliance

Proved for any connections, workers, scans, length of the queue and clock
(`ApplianceAssumption`: there is a worker, and the queue has a place):

| Theorem | Statement |
|---|---|
| `ApplianceProofs!ApplianceInvariant` | `ApplianceSpec => []ApplianceInv` |
| `ApplianceImplementsStore` | `ApplianceSpec => StoreSpec` |
| `ApplianceTypesHold` | `ApplianceSpec => []ApplianceTypeOK` |
| `CommittedOrAborted`, `AcceptedScansAreReported`, `NothingIsOrphaned` | `ApplianceSpec => []AbortedOrCommitted`, `[]AcceptedIsReported`, `[]EverythingHasAnOwner` |
| `ScansKeepTheirTransaction`, `NoScanAfterTheStop`, `SearchableBeforeDelivery` | `ApplianceSpec => ScanBelongsToItsTransaction`, `NoneAcceptedOnceStopping`, `OnlySearchableIsDelivered` |

    ApplianceInv == IInv /\ LineInv

`LineInv` follows a scan from hand to hand. `SessionInv` and `TransferInv`: a call of `Data`
whose generation is still its session's has that transaction's capabilities, and from the
commit to the answer it has the session's mutex. `QueueInv` and `WorkerInv`: what is queued
is queued once and pending, what a worker has is nobody else's and in the state that worker
left it in. `LooseInv`: what is in nobody's hands any more was reported. Each of these is of
use only with `PhaseInv`, the order of the shutdown, which says when a job may be gone under
its owner.

### The delivery

Proved for any messages, limits, bounds on attempts and waits (`ApiAssumption`,
`MailAssumption`, `DocIntelAssumption`, `DeliveryAssumption`; of the limits they ask only that
a chunk is smaller than what Graph takes in one request). The provers do not know what a
power is, so `PowersAssumption` says that those the back-off uses are positive numbers; TLC
evaluates it.

| Theorem | Statement |
|---|---|
| `DeliveryProofs!DeliveryInvariant` | `DeliverySpec => []DeliveryInv` |
| `DeliveryTypesHold`, `MailedDocumentsAreWhole`, `RequestsAreTaken` | `DeliverySpec => []DeliveryTypeOK`, `[]MailedIsWhole`, `[]AsksWhatGraphTakes` |
| `DeliveryKeepsPromise` | `DeliverySpec => KeepsPromise` |

    DeliveryInv == DeliveryTypeOK /\ CallInv /\ DraftsInv /\ SessionsInv /\ DeliveredInv
                     /\ StageInv /\ OcrInv /\ MailedIsWhole

The invariant is about time. A request may be served long after the client gave it up, so
what justified making it has to stay true: `Asked(r)` says what that is for each kind of
request, and `CallInv` that it holds of every request still under way, old repetitions
included. An answer may be read long after it was given: `Meant(r, reply)` is what a success
says of the service at any later time, and `StageInv` what `Send` has concluded from the
answers so far. A message goes out by a `send` whose `Asked` is that every attachment is in
the draft, whole; that is where `MailedIsWhole` comes from.

### The wizard and the run modes

Proved for any requests, browsers, settings and files (`SetupAssumption`), and any starts and
tokens (`RunAssumption`: a configuration that loads has something to protect, since the
settings `config.Load` requires, config.go:164-166, are among its `protected` ones,
setupfields.go:172-175):

| Theorem | Statement |
|---|---|
| `RunModesProofs!WizardInvariant` | `WizardSpec => []WizardInv` |
| `HoldersOnly`, `MemoryIsTheFile` | `WizardSpec => []FormsAreTheHolders`, `[]FileAndMemoryAgree` |
| `SecretsAreOwnOrCurrent`, `UntouchedBoxesStay` | `WizardSpec => SavedSecretIsOwnOrCurrent`, `UntouchedBoxesAreKept` |
| `RunInvariant` | `RunSpec => []RunInv` |
| `DoorIsKeptShut`, `MarkersOpenOnce` | `RunSpec => []DoorStaysShut`, `[]MarkerOpensOnce` |

    WizardInv == WizardTypeOK /\ FormsAreTheHolders /\ SaveInv /\ PendingInv
                   /\ \A r \in Requests : RequestInv(r)
    RunInv    == RunTypeOK /\ MarkerInv /\ DoorInv

`SaveInv` is the one save that holds the mutex: memory lags the file only between its rename
and its last step. `PendingInv` describes the remembered forms from the history: they are the
last ones rendered, and whatever older one is missing although there was room is of a file
that was replaced since. It is what `UntouchedBoxesAreKept` needs, and the part whose proof
counts places in two sequences. `RequestInv` carries the origin of each value from page to
submission, which gives the secrets.

`DoorInv` needs that a wizard without a token never gets as far as to write the file: whoever
writes holds a key, so a token was there, and the next start asks for one because of what the
file then holds. `conf.durable`, the sync before the rename, is what lets it survive a power
cut. `MarkerInv` says that no token that may still come from a marker has opened a wizard.

### What stays with TLC

Every safety property of a passing run, invariant or action property, is stated by a theorem.
What is only model-checked is liveness under fairness, and with it everything that needs
ENABLED: `ExpiredScansAreRemoved`, `LeakedReservationsAreReleased`, `AcceptedIsProcessed`,
`ShutdownEnds`, `JobEnds`, `SavedIsServed`. Neither is `Total` proved to be the
sum that a fold computes (induction over data); `MCJobStore` compares the two on bounded inputs.

Each inductive invariant was checked by TLC on the run of its module before it was proved
(`RunInv` with three starts and two tokens); the runs keep the properties alone, which say
more to a reader.

## 5. Not modelled

- The HTTP pages' rendering and headers, and which of the two job pages is open at what
  moment; `JobStoreFiles` has the download against OCR and the sweep, `WebUi` who may see.
- The verification of an ID token (signature, issuer, audience): it either holds or the
  sign-in fails. Cookies' flags, and the cross-site protection.
- Parsing: the lines of a configuration file, JSON, URLs, durations, sizes. A text is one
  its parser takes or refuses. Settings nothing else depends on (addresses to listen on,
  retention, workers, texts) are left out. `limits` halves the budget instead of doubling
  the message, so the width of an integer does not enter.
- In `SetupWizard` and `RunModes`, which predate `Config`, a configuration is what `Loads`
  asks of it.
- The real-time limits of the shutdown: five seconds for a notice, fifteen for each HTTP
  server, and whatever the container allows. `Appliance` lets each of them strike or not.
- The roles in a token, and what the wizard's connection checks make of them.
- The texts of mails, notices, errors and pages; header and file-name sanitizing; id
  generation; TLS and certificates; the version stamp; the fakes of the end-to-end
  tests.
- What decoders and the PDF check do byte by byte: a part can be read or not, and holds
  a whole document or not.

## 6. The plan

Done: all the modules above, their runs, and a theorem for every safety property of a
passing run, with the refinements of `JobStore`, `MailPromise` and `IntakeSpec`.

Left to model, in this order; where a question is about the same system as an
existing run it joins that run:

1. The time limits of the shutdown against `jobTimeout`: what an operator's
   container runtime may cut short.
2. `SetupWizard` over the settings of `Config`, with the environment above the file.
3. `ScanLifecycle`, an abstract specification of one scan (offered, accepted,
   reported, gone) that `Appliance` implements.

Left to prove, in the modules there are (`ScanLifecycle`'s in `ApplianceProofs`):

1. That a fair step is enabled where the liveness arguments need one, stated without ENABLED:
   in each state of the invariant that is not final, the guard of a named action holds. With
   it, what remains of `ShutdownEnds` and `JobEnds` is the fairness rule.
2. `ApplianceSpec` against `ScanLifecycle`, once that is there.
