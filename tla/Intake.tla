------------------------------- MODULE Intake -------------------------------
(***************************************************************************)
(* How a scan comes in (internal/smtpin): one connection, from the         *)
(* configuration that decides what it may do to the job it leaves.  AUTH,  *)
(* MAIL and RCPT put a transaction together; Data reads the message as     *)
(* MimeScan says and commits what was announced.                           *)
(*                                                                         *)
(* go-smtp keeps a record of its own of whether there was a MAIL and a     *)
(* RCPT since it last reset the session, and asks for nothing more before  *)
(* it calls Data.  Resets while Data runs are the business of Appliance.   *)
(***************************************************************************)
EXTENDS Config, MimeScan

CONSTANTS
  Senders,    \* the envelope senders a printer may use, as it writes them
  Recipients  \* the envelope recipients

ASSUME IntakeAssumption == Senders \cup Recipients \subseteq Address

VARIABLES
  phase,          \* where the connection is
  authenticated,  \* session.authenticated
  login,          \* loginServer
  caps,           \* session.caps
  recipients,     \* session.recipients
  named,          \* go-smtp: MAIL, then RCPT, since the last reset
  scan,           \* the job Data left, if any
  announced       \* history: what the printer was told yes to since its last MAIL

smtpVars == <<phase, authenticated, login, caps, recipients, named, scan, announced>>
intakeVars == <<configVars, scanVars, smtpVars>>

Phase == {"starting", "commands", "data", "stored"}

Canonical == {NormalizeAddress(a) : a \in Recipients} \ {Nowhere}

\* user: the user name an exchange has brought was the configured one.
NoLogin == [step |-> "none", user |-> FALSE]

NoScan == [kept |-> FALSE, caps |-> {}, recipients |-> {}]
Nothing == [caps |-> {}, mailboxes |-> {}]

IntakeTypeOK ==
  /\ ScanTypeOK
  /\ phase \in Phase
  /\ authenticated \in BOOLEAN
  /\ login \in [step : {"none", "username", "password"}, user : BOOLEAN]
  /\ caps \subseteq Cap /\ recipients \subseteq Canonical
  /\ named \subseteq {"mail", "rcpt"}
  /\ scan \in [kept : BOOLEAN, caps : SUBSET Cap, recipients : SUBSET Canonical]
  /\ announced \in [caps : SUBSET Cap, mailboxes : SUBSET {r.mailbox : r \in Canonical}]

IntakeInit ==
  /\ ConfigInit /\ ScanInit
  /\ phase = "starting"
  /\ authenticated = FALSE /\ login = NoLogin
  /\ caps = {} /\ recipients = {} /\ named = {}
  /\ scan = NoScan /\ announced = Nothing

-----------------------------------------------------------------------------
LoadConfig == phase = "starting" /\ Load /\ UNCHANGED <<scanVars, smtpVars>>

\* run listens, and a printer connects.  What was read for Load is read no more.
NewSession ==
  /\ phase = "starting" /\ loaded = "yes"
  /\ phase' = "commands"
  /\ input' = [file |-> Unset, environ |-> Unset, message |-> 0, stored |-> 0]
  /\ UNCHANGED <<loaded, config, scanVars, authenticated, login, caps, recipients, named, scan,
                 announced>>

Idle == phase = "commands" /\ login = NoLogin

-----------------------------------------------------------------------------
(***************************************************************************)
(* AUTH, which only an authSession offers.                                 *)
(***************************************************************************)
Offered == {"", "mistyped", "typed", "generated"}

\* authenticate: a failure takes nothing back.
Authenticate(user, password) ==
  authenticated' = (authenticated \/ (user /\ password = config.password))

AuthPlain ==
  /\ Idle /\ ~config.anonymous
  /\ \E user \in BOOLEAN, password \in Offered : Authenticate(user, password)
  /\ UNCHANGED <<configVars, scanVars, phase, login, caps, recipients, named, scan, announced>>

\* LOGIN, with the user name in the first response or after a prompt.
AuthLogin ==
  /\ Idle /\ ~config.anonymous
  /\ \/ login' = [step |-> "username", user |-> FALSE]
     \/ \E user \in BOOLEAN : login' = [step |-> "password", user |-> user]
  /\ UNCHANGED <<configVars, scanVars, phase, authenticated, caps, recipients, named, scan,
                 announced>>

LoginUsername ==
  /\ phase = "commands" /\ login.step = "username"
  /\ \E user \in BOOLEAN : login' = [step |-> "password", user |-> user]
  /\ UNCHANGED <<configVars, scanVars, phase, authenticated, caps, recipients, named, scan,
                 announced>>

LoginPassword ==
  /\ phase = "commands" /\ login.step = "password"
  /\ \E password \in Offered : Authenticate(login.user, password)
  /\ login' = NoLogin
  /\ UNCHANGED <<configVars, scanVars, phase, caps, recipients, named, scan, announced>>

\* The printer calls the exchange off.
CancelLogin ==
  /\ phase = "commands" /\ login # NoLogin
  /\ login' = NoLogin
  /\ UNCHANGED <<configVars, scanVars, phase, authenticated, caps, recipients, named, scan,
                 announced>>

-----------------------------------------------------------------------------
(***************************************************************************)
(* The transaction.                                                        *)
(***************************************************************************)
ResetSession == caps' = {} /\ recipients' = {}

\* RSET, a message that finds no capacity, another EHLO.
Rset ==
  /\ Idle
  /\ ResetSession /\ named' = {} /\ announced' = Nothing
  /\ UNCHANGED <<configVars, scanVars, phase, authenticated, login, scan>>

Granted(from) == IF config.anonymous \/ authenticated THEN Profile(from) ELSE {}

\* Wrong: a second MAIL keeps the recipients of the first.
MailKeepingRecipients(from) ==
  /\ Idle
  /\ \/ /\ Granted(from) = {}
        /\ ResetSession
        /\ announced' = Nothing
        /\ UNCHANGED named
     \/ \E granted \in Granted(from) :
        /\ caps' = granted /\ UNCHANGED recipients
        /\ announced' = [caps |-> granted, mailboxes |-> {}]
        /\ named' = named \cup {"mail"}
  /\ UNCHANGED <<configVars, scanVars, phase, authenticated, login, scan>>

\* Mail discards the transaction before, then refuses the sender or selects its
\* profile.  go-smtp's record survives either.
Mail(from) ==
  /\ Idle
  /\ \/ /\ Granted(from) = {}
        /\ ResetSession
        /\ announced' = Nothing
        /\ UNCHANGED named
     \/ \E granted \in Granted(from) :
        /\ caps' = granted /\ recipients' = {}
        /\ announced' = [caps |-> granted, mailboxes |-> {}]
        /\ named' = named \cup {"mail"}
  /\ UNCHANGED <<configVars, scanVars, phase, authenticated, login, scan>>

\* Wrong: the address is kept as the printer wrote it.
RcptVerbatim(to) ==
  /\ Idle /\ "mail" \in named
  /\ NormalizeAddress(to) # Nowhere /\ RecipientAllowed(NormalizeAddress(to))
  /\ recipients' = recipients \cup {to}
  /\ announced' = [announced EXCEPT !.mailboxes = @ \cup {to.mailbox}]
  /\ named' = named \cup {"rcpt"}
  /\ UNCHANGED <<configVars, scanVars, phase, authenticated, login, caps, scan>>

\* Rcpt; an address that is none, or not allowed, changes nothing.
Rcpt(to) ==
  /\ Idle /\ "mail" \in named
  /\ NormalizeAddress(to) # Nowhere /\ RecipientAllowed(NormalizeAddress(to))
  /\ recipients' = recipients \cup {NormalizeAddress(to)}
  /\ announced' = [announced EXCEPT !.mailboxes = @ \cup {to.mailbox}]
  /\ named' = named \cup {"rcpt"}
  /\ UNCHANGED <<configVars, scanVars, phase, authenticated, login, caps, scan>>

Data ==
  /\ Idle /\ named = {"mail", "rcpt"}
  /\ phase' = "data"
  /\ UNCHANGED <<configVars, scanVars, authenticated, login, caps, recipients, named, scan,
                 announced>>

Read == phase = "data" /\ ScanWalk /\ UNCHANGED <<configVars, smtpVars>>

\* The answer; the scan is committed and enqueued, or one of that fails.
Settle ==
  /\ phase = "data" /\ Respond
  /\ \/ reply' = "scan" /\ scan' = [kept |-> TRUE, caps |-> caps, recipients |-> recipients]
     \/ UNCHANGED scan
  /\ UNCHANGED <<configVars, phase, authenticated, login, caps, recipients, named, announced>>

\* The next message is another walk.
NextScan ==
  /\ at' = "entity" /\ open' = << >> /\ parts' = 0
  /\ plainText' = TRUE
  /\ pdfs' = << >> /\ files' = {}
  /\ readFailed' = FALSE
  /\ result' = "none" /\ reply' = "none"
  /\ sent' = {} /\ clues' = {}

\* Data returns, and go-smtp resets the session.  The connection of a printer
\* whose scan is stored is of no further interest here.
DataReturns ==
  /\ phase = "data" /\ at = "answered"
  /\ NextScan
  /\ ResetSession /\ named' = {}
  /\ IF scan.kept THEN phase' = "stored" /\ UNCHANGED announced
                  ELSE phase' = "commands" /\ announced' = Nothing
  /\ UNCHANGED <<configVars, authenticated, login, scan>>

IntakeNext ==
  \/ LoadConfig \/ NewSession
  \/ AuthPlain \/ AuthLogin \/ LoginUsername \/ LoginPassword \/ CancelLogin
  \/ Rset
  \/ \E from \in Senders : Mail(from)
  \/ \E to \in Recipients : Rcpt(to)
  \/ Data \/ Read \/ Settle \/ DataReturns

IntakeSpec == IntakeInit /\ [][IntakeNext]_intakeVars

-----------------------------------------------------------------------------
(***************************************************************************)
(* Properties.                                                             *)
(***************************************************************************)

\* A printer that sends scans is one the operator let in: it knew a password
\* that is not empty, unless anonymous printers were asked for.
FromATrustedPrinter == config.anonymous \/ (authenticated /\ config.password # "")

\* The envelope is that of the last MAIL and of the RCPTs after it.
AsAnnounced ==
  /\ scan.caps = announced.caps
  /\ {r.mailbox : r \in scan.recipients} = announced.mailboxes

\* scan2graph is not an open relay (config.go:227): what will be mailed goes to
\* allowed domains only, and there are some.
NeverRelayed ==
  "email" \in scan.caps =>
     /\ config.domains # {}
     /\ \A r \in scan.recipients : r.domain \in config.domains

\* run gave the pipeline and the web UI what the scan's capabilities ask for.
HasItsServices ==
  /\ "email" \in scan.caps => config.sender # ""
  /\ "ocr" \in scan.caps => config.endpoint # ""
  /\ "web" \in scan.caps => config.baseURL # ""

\* Whatever order the commands came in, and whatever was configured in whatever
\* way: a scan that is accepted comes from a trusted printer, is for the
\* recipients of its own transaction and what their sender may do, is mailed
\* within the allowed domains only, and finds the services it will need.
AcceptedAsConfigured ==
  scan.kept => FromATrustedPrinter /\ AsAnnounced /\ NeverRelayed /\ HasItsServices

\* What Load accepts is sound: whatever the environment says of a setting, in
\* either spelling, is what counts and the file's say in it does not, not even
\* as a conflict; and two messages fit the budget of the store, in whole numbers.
LoadedIsSound ==
  (phase = "starting" /\ loaded # "no") =>
     LET merged == [s \in Setting |-> IF input.environ[s] # Unset[s] THEN input.environ[s]
                                      ELSE input.file[s]]
     IN  /\ loaded = "yes" => /\ config = ConfigOf(merged, input.message, input.stored)
                              /\ config.message > 0 /\ 2 * config.message <= config.stored
         /\ loaded = "refused" => Refuses(merged, input.message, input.stored)
=============================================================================
