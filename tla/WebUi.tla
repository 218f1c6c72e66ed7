-------------------------------- MODULE WebUi --------------------------------
(***************************************************************************)
(* How a scan is picked up (internal/web): browsers sign in through the    *)
(* identity provider, keep a session, and ask for the scan that Intake     *)
(* left.  The pages a job is on at which moment are JobStoreFiles'; here   *)
(* the question is who gets to see it.                                     *)
(*                                                                         *)
(* A sign-in is a number, and so are its state, nonce and verifier, which  *)
(* are made together, the code the provider issues for it, and the session *)
(* it may end in: none of them can be guessed.  A request is under way     *)
(* from the moment the browser sends it, with the cookies it then has,     *)
(* until the answer with the new ones is there.                            *)
(***************************************************************************)
EXTENDS Intake

CONSTANTS
  Browsers,
  Claims,      \* the addresses the provider may assert of somebody
  MaxLogins,   \* sign-ins that are started
  SessionTTL,  \* sessionTTL
  MaxTime      \* the clock's last reading

\* A mailbox is at one domain, whoever names it.
ASSUME WebAssumption ==
  /\ {MaxLogins, SessionTTL, MaxTime} \subseteq Nat \ {0}
  /\ UNION Claims \subseteq Address
  /\ \A a \in Recipients, b \in UNION Claims : a.mailbox = b.mailbox => a.domain = b.domain

VARIABLES
  clock,     \* what now() says
  jar,       \* the cookies of each browser, 0 for none
  logins,    \* the sign-ins: the browser that started each, and what the provider says of it
  spent,     \* at the provider: those whose code has been exchanged
  sessions,  \* sessionStore.m
  request,   \* what each browser is waiting for, or last got
  born       \* history: the sessions not signed out, and when each was made

webVars == <<clock, jar, logins, spent, sessions, request, born>>
doorVars == <<intakeVars, webVars>>

Login == 1..MaxLogins

None == [at |-> "none", id |-> 0, cookie |-> 0, identities |-> {}]

WebInit ==
  /\ clock = 0
  /\ jar = [b \in Browsers |-> [auth |-> 0, session |-> 0]]
  /\ logins = << >> /\ spent = {}
  /\ sessions = [l \in {} |-> {}]
  /\ request = [b \in Browsers |-> None]
  /\ born = [l \in {} |-> 0]

\* newHTTPHandler mounts the UI where there is an address for it.
Served == phase = "stored" /\ config.baseURL # ""

Waiting(b) == request[b].at \in {"asked", "admitted", "returned"}

Without(f, gone) == [l \in DOMAIN f \ gone |-> f[l]]

-----------------------------------------------------------------------------
(***************************************************************************)
(* Signing in (auth.go).                                                   *)
(***************************************************************************)

\* handleLogin: the one cookie for it is overwritten.
HandleLogin(b) ==
  /\ Served /\ Len(logins) < MaxLogins
  /\ \E claims \in Claims : logins' = Append(logins, [by |-> b, claims |-> claims])
  /\ jar' = [jar EXCEPT ![b].auth = Len(logins')]
  /\ UNCHANGED <<intakeVars, clock, spent, sessions, request, born>>

\* The provider sends the browser back.  Any browser may follow the link, and
\* again.
Return(b, l) ==
  /\ Served /\ ~Waiting(b)
  /\ l \in DOMAIN logins
  /\ request' = [request EXCEPT ![b] =
       [at |-> "returned", id |-> l, cookie |-> jar[b].auth, identities |-> {}]]
  /\ UNCHANGED <<intakeVars, clock, jar, logins, spent, sessions, born>>

Identities(claims) == {NormalizeAddress(a) : a \in claims} \ {Nowhere}

\* sessionStore.create sweeps what has expired.
Create(id, identities) ==
  LET expired == {k \in DOMAIN sessions : clock >= sessions[k].expires}
  IN  sessions' = [k \in (DOMAIN sessions \ expired) \cup {id} |->
                     IF k = id THEN [identities |-> identities, expires |-> clock + SessionTTL]
                     ELSE sessions[k]]

\* Signed in: the session is there, and the browser has its cookie.
SignIn(b, l) ==
  /\ l \notin spent /\ spent' = spent \cup {l}
  /\ Create(l, Identities(logins[l].claims))
  /\ born' = [k \in DOMAIN born \cup {l} |-> IF k = l THEN clock ELSE born[k]]
  /\ jar' = [jar EXCEPT ![b] = [auth |-> 0, session |-> l]]

\* The state, the verifier and the nonce in the cookie have to be this sign-in's,
\* and the code unspent.  The exchange may fail, before or after; whatever
\* happens, the cookie was for one attempt.
HandleCallback(b) ==
  LET l == request[b].id
      matches == request[b].cookie = l
  IN  /\ request[b].at = "returned"
      /\ request' = [request EXCEPT ![b] = None]
      /\ \/ matches /\ SignIn(b, l)
         \/ /\ UNCHANGED spent \/ (matches /\ spent' = spent \cup {l})
            /\ jar' = [jar EXCEPT ![b].auth = 0]
            /\ UNCHANGED <<sessions, born>>
      /\ UNCHANGED <<intakeVars, clock, logins>>

\* Wrong: the cookie is cleared, and that is all.
ForgetInTheBrowser(b) ==
  /\ Served /\ jar[b].session # 0
  /\ jar' = [jar EXCEPT ![b].session = 0]
  /\ born' = Without(born, {jar[b].session})
  /\ UNCHANGED <<intakeVars, clock, logins, spent, sessions, request>>

\* handleLogout, in a tab of its own: requests may be under way.
HandleLogout(b) ==
  /\ Served /\ jar[b].session # 0
  /\ sessions' = Without(sessions, {jar[b].session})
  /\ jar' = [jar EXCEPT ![b].session = 0]
  /\ born' = Without(born, {jar[b].session})
  /\ UNCHANGED <<intakeVars, clock, logins, spent, request>>

-----------------------------------------------------------------------------
(***************************************************************************)
(* Asking for the scan (web.go).                                           *)
(***************************************************************************)
Ask(b) ==
  /\ Served /\ ~Waiting(b) /\ jar[b].session # 0
  /\ request' = [request EXCEPT ![b] =
       [at |-> "asked", id |-> jar[b].session, cookie |-> 0, identities |-> {}]]
  /\ UNCHANGED <<intakeVars, clock, jar, logins, spent, sessions, born>>

\* sessionStore.get
Get(id) == id \in DOMAIN sessions /\ clock < sessions[id].expires

\* guard: an expired session is dropped on the spot, and who has none is sent to
\* sign in.
Guard(b) ==
  LET id == request[b].id
  IN  /\ request[b].at = "asked"
      /\ IF Get(id)
         THEN /\ request' = [request EXCEPT ![b] =
                   [at |-> "admitted", id |-> id, cookie |-> 0,
                    identities |-> sessions[id].identities]]
              /\ UNCHANGED sessions
         ELSE /\ request' = [request EXCEPT ![b] = None]
              /\ sessions' = Without(sessions, {id})
      /\ UNCHANGED <<intakeVars, clock, jar, logins, spent, born>>

\* Server.job, and Store.ListForUser for the list: either finds the scan if the
\* web is one of its capabilities and an identity one of its recipients.
Finds(identities) ==
  scan.kept /\ "web" \in scan.caps /\ identities \cap scan.recipients # {}

\* handleList, handleDetail, handleDownload, with the session they were handed,
\* ended or not.
Handle(b) ==
  /\ request[b].at = "admitted"
  /\ request' = [request EXCEPT ![b].at =
       IF Finds(request[b].identities) THEN "shown" ELSE "turned_away"]
  /\ UNCHANGED <<intakeVars, clock, jar, logins, spent, sessions, born>>

Tick ==
  /\ Served /\ clock < MaxTime
  /\ clock' = clock + 1
  /\ UNCHANGED <<intakeVars, jar, logins, spent, sessions, request, born>>

WebNext ==
  \/ \E b \in Browsers :
        \/ HandleLogin(b) \/ HandleCallback(b) \/ HandleLogout(b)
        \/ Ask(b) \/ Guard(b) \/ Handle(b)
        \/ \E l \in Login : Return(b, l)
  \/ Tick

DoorNext == (IntakeNext /\ UNCHANGED webVars) \/ WebNext

DoorInit == IntakeInit /\ WebInit

DoorSpec == DoorInit /\ [][DoorNext]_doorVars

-----------------------------------------------------------------------------
(***************************************************************************)
(* Properties.                                                             *)
(***************************************************************************)

\* Somebody the provider vouches for under an address, however it spells it, of a
\* mailbox the printer announced, however it spelt that; and the sender's scans
\* may be picked up at all.
Belongs(claims) ==
  /\ "web" \in announced.caps
  /\ \E a \in claims : a.form # "implausible" /\ a.mailbox \in announced.mailboxes

\* Whoever signs in sees a scan if and only if it was sent to them (web.go:168):
\* from the operator's settings through the printer's envelope to the claims of
\* an ID token, every spelling of a mailbox is the same one.
ShownToItsPeople ==
  \A b \in Browsers :
     /\ request[b].at = "shown" => Belongs(logins[request[b].id].claims)
     /\ request[b].at = "turned_away" => ~Belongs(logins[request[b].id].claims)

\* A request is let in by a session that is not past its time, that nobody has
\* signed out, in whatever tab, and that came of a sign-in of this very browser.
EndedSessionsAdmitNobody ==
  [][\A b \in Browsers :
        (request[b].at = "asked" /\ request'[b].at = "admitted") =>
           LET id == request[b].id
           IN  /\ id \in DOMAIN born /\ clock < born[id] + SessionTTL
               /\ logins[id].by = b]_doorVars
=============================================================================
