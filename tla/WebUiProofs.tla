----------------------------- MODULE WebUiProofs -----------------------------
(***************************************************************************)
(* Proofs about WebUi, for any settings, addresses, browsers and number of *)
(* sign-ins: whoever sees a scan it was sent to, and no session that is    *)
(* over admits anybody.  The browsers do not disturb the printer, so what  *)
(* is proved of Intake holds here.                                         *)
(***************************************************************************)
EXTENDS WebUi, IntakeProofs

\* Addresses are kept in the canonical form of something the printer may write.
RecipientsInv == recipients \subseteq Canonical /\ scan.recipients \subseteq Canonical

\* Nobody asks before there is something to ask for.
StoredInv ==
  /\ phase = "stored" => scan.kept
  /\ phase # "stored" => \A b \in Browsers : request[b].at = "none"

StartedBy(b, l) == l \in DOMAIN logins /\ logins[l].by = b

LoginsInv == logins \in Seq([by : Browsers, claims : Claims])

\* A cookie is of a sign-in that its browser started.
JarInv ==
  /\ jar \in [Browsers -> [auth : Nat, session : Nat]]
  /\ \A b \in Browsers :
        /\ jar[b].auth # 0 => StartedBy(b, jar[b].auth)
        /\ jar[b].session # 0 => StartedBy(b, jar[b].session)

\* A session is of a sign-in, and nobody has signed out of it.
SessionsInv ==
  \A l \in DOMAIN sessions :
     /\ l \in DOMAIN logins /\ l \in DOMAIN born
     /\ sessions[l].expires = born[l] + SessionTTL
     /\ sessions[l].identities = Identities(logins[l].claims)

\* What a browser waits for was asked with cookies of its own; what was found out
\* since is true of the one who signed in.
RequestInv(b) ==
  /\ request[b].at = "returned" =>
        /\ request[b].id \in DOMAIN logins
        /\ request[b].cookie # 0 => StartedBy(b, request[b].cookie)
  /\ request[b].at \in {"asked", "admitted", "shown", "turned_away"} => StartedBy(b, request[b].id)
  /\ request[b].at = "admitted" =>
        request[b].identities = Identities(logins[request[b].id].claims)
  /\ request[b].at = "shown" => Belongs(logins[request[b].id].claims)
  /\ request[b].at = "turned_away" => ~Belongs(logins[request[b].id].claims)

Request == [at : {"none", "returned", "asked", "admitted", "shown", "turned_away"},
            id : Nat, cookie : Nat, identities : SUBSET {NormalizeAddress(a) : a \in UNION Claims}]

RequestsInv ==
  /\ request \in [Browsers -> Request]
  /\ \A b \in Browsers : RequestInv(b)

WebInv == LoginsInv /\ JarInv /\ SessionsInv /\ RequestsInv

DoorInv == IntakeInv /\ ScanInv /\ RecipientsInv /\ StoredInv /\ WebInv

-----------------------------------------------------------------------------
(***************************************************************************)
(* The printer.                                                            *)
(***************************************************************************)
LEMMA WebLeavesIntake == [DoorNext]_doorVars => [IntakeNext]_intakeVars
BY DEF DoorNext, WebNext, doorVars, HandleLogin, Return, HandleCallback, HandleLogout, Ask, Guard,
       Handle, Tick

LEMMA RecipientsKeep == RecipientsInv /\ [IntakeNext]_intakeVars => RecipientsInv'
<1> SUFFICES ASSUME RecipientsInv, [IntakeNext]_intakeVars
             PROVE  RecipientsInv'
  OBVIOUS
<1>1. CASE LoadConfig
  BY <1>1 DEF RecipientsInv, LoadConfig, smtpVars
<1>2. CASE NewSession \/ Data
  BY <1>2 DEF RecipientsInv, NewSession, Data
<1>3. CASE AuthPlain \/ AuthLogin \/ LoginUsername \/ LoginPassword \/ CancelLogin
  BY <1>3 DEF RecipientsInv, AuthPlain, AuthLogin, LoginUsername, LoginPassword, CancelLogin
<1>4. CASE Rset
  BY <1>4 DEF RecipientsInv, Rset, ResetSession
<1>5. ASSUME NEW from \in Senders, Mail(from)
      PROVE  RecipientsInv'
  BY <1>5 DEF RecipientsInv, Mail, ResetSession
<1>6. ASSUME NEW to \in Recipients, Rcpt(to)
      PROVE  RecipientsInv'
  BY <1>6 DEF RecipientsInv, Rcpt, Canonical
<1>7. CASE Read
  BY <1>7 DEF RecipientsInv, Read, smtpVars
<1>8. CASE Settle
  BY <1>8 DEF RecipientsInv, Settle
<1>9. CASE DataReturns
  BY <1>9 DEF RecipientsInv, DataReturns, ResetSession
<1>10. CASE UNCHANGED intakeVars
  BY <1>10 DEF RecipientsInv, intakeVars, smtpVars
<1> QED BY <1>1, <1>2, <1>3, <1>4, <1>5, <1>6, <1>7, <1>8, <1>9, <1>10 DEF IntakeNext

\* The connection that left a scan is over.
LEMMA StoredIsLast == phase = "stored" => ~IntakeNext
BY DEF IntakeNext, LoadConfig, NewSession, AuthPlain, AuthLogin, LoginUsername, LoginPassword,
       CancelLogin, Rset, Mail, Rcpt, Data, Read, Settle, DataReturns, Idle

LEMMA StoredWithAScan ==
  IntakeNext => (phase' = "stored" => scan'.kept)
BY DEF IntakeNext, LoadConfig, NewSession, AuthPlain, AuthLogin, LoginUsername, LoginPassword,
       CancelLogin, Rset, Mail, Rcpt, Data, Read, Settle, DataReturns, Idle, smtpVars

-----------------------------------------------------------------------------
(***************************************************************************)
(* Who may see the scan.                                                   *)
(***************************************************************************)

\* Different spellings of one mailbox have one canonical form.
LEMMA SameMailbox ==
  ASSUME NEW q \in Recipients, NEW a \in UNION Claims,
         q.form # "implausible", a.form # "implausible", a.mailbox = q.mailbox
  PROVE  NormalizeAddress(a) = NormalizeAddress(q)
<1>1. a \in Address /\ q \in Address /\ a.domain = q.domain
  BY WebAssumption, IntakeAssumption
<1> QED BY <1>1 DEF NormalizeAddress, Address

LEMMA NormalizedMailbox ==
  ASSUME NEW a \in Address, NormalizeAddress(a) # Nowhere
  PROVE  a.form # "implausible" /\ NormalizeAddress(a).mailbox = a.mailbox
BY DEF NormalizeAddress, Address

LEMMA FindsWhatBelongs ==
  ASSUME NEW claims \in Claims, scan.kept, AsAnnounced, scan.recipients \subseteq Canonical
  PROVE  Finds(Identities(claims)) <=> Belongs(claims)
<1>1. ASSUME Finds(Identities(claims))
      PROVE  Belongs(claims)
  <2>1. PICK r : r \in Identities(claims) /\ r \in scan.recipients
    BY <1>1 DEF Finds
  <2>2. PICK a \in claims : r = NormalizeAddress(a) /\ r # Nowhere
    BY <2>1 DEF Identities
  <2>3. a.form # "implausible" /\ r.mailbox = a.mailbox
    BY <2>2, NormalizedMailbox, WebAssumption
  <2> QED BY <1>1, <2>1, <2>2, <2>3 DEF Finds, Belongs, AsAnnounced
<1>2. ASSUME Belongs(claims)
      PROVE  Finds(Identities(claims))
  <2>1. PICK a \in claims : a.form # "implausible" /\ a.mailbox \in announced.mailboxes
    BY <1>2 DEF Belongs
  <2>2. PICK r \in scan.recipients : r.mailbox = a.mailbox
    BY <2>1 DEF AsAnnounced
  <2>3. PICK q \in Recipients : r = NormalizeAddress(q) /\ r # Nowhere
    BY <2>2 DEF Canonical
  <2>4. q.form # "implausible" /\ r.mailbox = q.mailbox
    BY <2>3, NormalizedMailbox, IntakeAssumption
  <2>5. NormalizeAddress(a) = r
    BY <2>1, <2>2, <2>3, <2>4, SameMailbox
  <2>6. r \in Identities(claims)
    BY <2>3, <2>5 DEF Identities
  <2> QED BY <1>2, <2>2, <2>6 DEF Finds, Belongs, AsAnnounced
<1> QED BY <1>1, <1>2

-----------------------------------------------------------------------------
(***************************************************************************)
(* The browsers.                                                           *)
(***************************************************************************)

\* A browser whose request is as it was.
LEMMA RequestKeeps ==
  ASSUME NEW b \in Browsers, RequestInv(b), request'[b] = request[b],
         UNCHANGED <<logins, announced>>
  PROVE  RequestInv(b)'
BY DEF RequestInv, StartedBy, Belongs

\* One that waits for nothing.
LEMMA RequestNone ==
  ASSUME NEW b \in Browsers, request'[b] = None
  PROVE  RequestInv(b)'
BY DEF RequestInv, None

LEMMA LoginTyped ==
  ASSUME LoginsInv, NEW l \in DOMAIN logins
  PROVE  logins[l].claims \in Claims
<1> DEFINE Started == [by : Browsers, claims : Claims]
<1>1. logins \in Seq(Started)
  BY DEF LoginsInv
<1> HIDE DEF Started
<1>2. DOMAIN logins = 1..Len(logins) /\ logins[l] \in Started
  BY <1>1
<1> QED BY <1>2 DEF Started

LEMMA JarKeeps ==
  ASSUME JarInv, UNCHANGED <<jar, logins>>
  PROVE  JarInv'
BY DEF JarInv, StartedBy

LEMMA SessionsKeep ==
  ASSUME SessionsInv, UNCHANGED <<sessions, born, logins>>
  PROVE  SessionsInv'
BY DEF SessionsInv

LEMMA HandleLoginKeeps ==
  ASSUME WebInv, NEW b \in Browsers, HandleLogin(b)
  PROVE  WebInv'
<1>1. PICK claims \in Claims : logins' = Append(logins, [by |-> b, claims |-> claims])
  BY DEF HandleLogin
<1>2. /\ jar' = [jar EXCEPT ![b].auth = Len(logins')]
      /\ UNCHANGED <<announced, sessions, request, born>>
  BY DEF HandleLogin, intakeVars, smtpVars
<1>3. /\ LoginsInv'
      /\ Len(logins') = Len(logins) + 1 /\ Len(logins') \in Nat
      /\ DOMAIN logins = 1..Len(logins) /\ DOMAIN logins' = 1..Len(logins')
      /\ logins'[Len(logins')].by = b
      /\ \A l \in DOMAIN logins : l \in DOMAIN logins' /\ logins'[l] = logins[l]
  BY <1>1 DEF WebInv, LoginsInv
<1>4. ASSUME NEW c \in Browsers, NEW l, StartedBy(c, l)
      PROVE  StartedBy(c, l)'
  BY <1>3, <1>4 DEF StartedBy
<1>5. JarInv'
  <2>1. jar' \in [Browsers -> [auth : Nat, session : Nat]]
    BY <1>2, <1>3 DEF WebInv, JarInv
  <2>2. ASSUME NEW c \in Browsers
        PROVE  /\ jar'[c].auth # 0 => StartedBy(c, jar[c].auth)'
               /\ jar'[c].session # 0 => StartedBy(c, jar[c].session)'
    <3>1. jar'[c].session = jar[c].session
      BY <1>2 DEF WebInv, JarInv
    <3>2. IF c = b THEN jar'[c].auth = Len(logins') ELSE jar'[c].auth = jar[c].auth
      BY <1>2 DEF WebInv, JarInv
    <3>3. Len(logins') \in DOMAIN logins'
      BY <1>3
    <3> QED BY <1>3, <1>4, <3>1, <3>2, <3>3 DEF WebInv, JarInv, StartedBy
  <2> QED BY <2>1, <2>2 DEF JarInv
<1>6. SessionsInv'
  BY <1>2, <1>3 DEF WebInv, SessionsInv
<1>7. RequestsInv'
  <2>1. ASSUME NEW c \in Browsers
        PROVE  RequestInv(c)'
    <3>1. RequestInv(c) /\ request'[c] = request[c]
      BY <1>2 DEF WebInv, RequestsInv
    <3>2. request[c].at \in {"asked", "admitted", "shown", "turned_away"} =>
            StartedBy(c, request[c].id)
      BY <3>1 DEF RequestInv
    <3>3. request[c].at \in {"asked", "admitted", "shown", "turned_away"} =>
            logins'[request[c].id] = logins[request[c].id]
      BY <1>3, <3>2 DEF StartedBy
    <3> QED BY <1>2, <1>3, <1>4, <3>1, <3>2, <3>3 DEF RequestInv, Belongs
  <2> QED BY <1>2, <2>1 DEF WebInv, RequestsInv
<1> QED BY <1>3, <1>5, <1>6, <1>7 DEF WebInv

LEMMA ReturnKeeps ==
  ASSUME WebInv, NEW b \in Browsers, NEW l, Return(b, l)
  PROVE  WebInv'
<1>1. /\ l \in DOMAIN logins
      /\ request' = [request EXCEPT ![b] =
           [at |-> "returned", id |-> l, cookie |-> jar[b].auth, identities |-> {}]]
      /\ UNCHANGED <<announced, jar, logins, sessions, born>>
  BY DEF Return, intakeVars, smtpVars
<1>2. l \in Nat /\ jar[b].auth \in Nat /\ (jar[b].auth # 0 => StartedBy(b, jar[b].auth))
  BY <1>1 DEF WebInv, LoginsInv, JarInv
<1>3. request' \in [Browsers -> Request]
  BY <1>1, <1>2 DEF WebInv, RequestsInv, Request
<1>4. ASSUME NEW c \in Browsers
      PROVE  RequestInv(c)'
  <2>1. CASE c = b
    <3>1. request'[c] = [at |-> "returned", id |-> l, cookie |-> jar[b].auth, identities |-> {}]
      BY <1>1, <2>1 DEF WebInv, RequestsInv
    <3> QED BY <1>1, <1>2, <2>1, <3>1 DEF RequestInv, StartedBy
  <2>2. CASE c # b
    BY <1>1, <2>2, RequestKeeps DEF WebInv, RequestsInv
  <2> QED BY <2>1, <2>2
<1>5. LoginsInv'
  BY <1>1 DEF WebInv, LoginsInv
<1> QED BY <1>1, <1>3, <1>4, <1>5, JarKeeps, SessionsKeep DEF WebInv, RequestsInv

\* The session made is the sign-in's, and is as old as born says.
LEMMA CreateKeeps ==
  ASSUME SessionsInv, NEW id, id \in DOMAIN logins, Create(id, Identities(logins[id].claims)),
         born' = [k \in DOMAIN born \cup {id} |-> IF k = id THEN clock ELSE born[k]],
         UNCHANGED logins
  PROVE  SessionsInv'
<1> DEFINE expired == {k \in DOMAIN sessions : clock >= sessions[k].expires}
<1>1. sessions' = [k \in (DOMAIN sessions \ expired) \cup {id} |->
                     IF k = id THEN [identities |-> Identities(logins[id].claims),
                                     expires |-> clock + SessionTTL]
                     ELSE sessions[k]]
  BY DEF Create
<1> HIDE DEF expired
<1>2. ASSUME NEW k \in DOMAIN sessions'
      PROVE  /\ k \in DOMAIN logins' /\ k \in DOMAIN born'
             /\ sessions'[k].expires = born'[k] + SessionTTL
             /\ sessions'[k].identities = Identities(logins'[k].claims)
  <2>1. k = id \/ k \in DOMAIN sessions
    BY <1>1
  <2>2. CASE k = id
    <3>1. sessions'[k] = [identities |-> Identities(logins[id].claims),
                          expires |-> clock + SessionTTL]
      BY <1>1, <2>2
    <3> QED BY <2>2, <3>1
  <2>3. CASE k # id
    <3>1. sessions'[k] = sessions[k] /\ k \in DOMAIN sessions
      BY <1>1, <2>1, <2>3
    <3>2. /\ k \in DOMAIN logins /\ k \in DOMAIN born
          /\ sessions[k].expires = born[k] + SessionTTL
          /\ sessions[k].identities = Identities(logins[k].claims)
      BY <3>1 DEF SessionsInv
    <3> QED BY <2>3, <3>1, <3>2
  <2> QED BY <2>2, <2>3
<1> QED BY <1>2 DEF SessionsInv

\* A browser that waits for nothing any more, and the others as they were.
LEMMA RequestDone ==
  ASSUME RequestsInv, NEW b \in Browsers, request' = [request EXCEPT ![b] = None],
         UNCHANGED <<logins, announced>>
  PROVE  RequestsInv'
<1>1. None \in Request
  BY DEF None, Request
<1>2. request' \in [Browsers -> Request]
  BY <1>1 DEF RequestsInv
<1>3. ASSUME NEW c \in Browsers
      PROVE  RequestInv(c)'
  <2>1. CASE c = b
    BY <2>1, RequestNone DEF RequestsInv
  <2>2. CASE c # b
    BY <2>2, RequestKeeps DEF RequestsInv
  <2> QED BY <2>1, <2>2
<1> QED BY <1>2, <1>3 DEF RequestsInv

LEMMA HandleCallbackKeeps ==
  ASSUME WebInv, NEW b \in Browsers, HandleCallback(b)
  PROVE  WebInv'
<1> DEFINE l == request[b].id
<1>1. /\ request[b].at = "returned" /\ request' = [request EXCEPT ![b] = None]
      /\ UNCHANGED <<announced, clock, logins>>
  BY DEF HandleCallback, intakeVars, smtpVars
<1>2. /\ l \in DOMAIN logins
      /\ request[b].cookie # 0 => StartedBy(b, request[b].cookie)
  BY <1>1 DEF WebInv, RequestsInv, RequestInv
<1>3. l \in Nat /\ l # 0
  BY <1>2 DEF WebInv, LoginsInv
<1>4. RequestsInv' /\ LoginsInv'
  BY <1>1, RequestDone DEF WebInv, LoginsInv
<1>5. CASE request[b].cookie = l /\ SignIn(b, l)
  <2>1. StartedBy(b, l)
    BY <1>2, <1>3, <1>5
  <2>2. /\ Create(l, Identities(logins[l].claims))
        /\ born' = [k \in DOMAIN born \cup {l} |-> IF k = l THEN clock ELSE born[k]]
        /\ jar' = [jar EXCEPT ![b] = [auth |-> 0, session |-> l]]
    BY <1>5 DEF SignIn
  <2>3. SessionsInv'
    BY <1>1, <1>2, <2>2, CreateKeeps DEF WebInv
  <2>4. JarInv'
    BY <1>1, <1>3, <2>1, <2>2 DEF WebInv, JarInv, StartedBy
  <2> QED BY <1>4, <2>3, <2>4 DEF WebInv
<1>6. CASE jar' = [jar EXCEPT ![b].auth = 0] /\ UNCHANGED <<sessions, born>>
  <2>1. JarInv'
    <3>1. jar' \in [Browsers -> [auth : Nat, session : Nat]]
      BY <1>6 DEF WebInv, JarInv
    <3>2. ASSUME NEW c \in Browsers
          PROVE  jar'[c].session = jar[c].session /\ jar'[c].auth \in {0, jar[c].auth}
      BY <1>6 DEF WebInv, JarInv
    <3> QED BY <1>1, <3>1, <3>2 DEF WebInv, JarInv, StartedBy
  <2> QED BY <1>1, <1>4, <1>6, <2>1, SessionsKeep DEF WebInv
<1> QED BY <1>5, <1>6 DEF HandleCallback

LEMMA HandleLogoutKeeps ==
  ASSUME WebInv, NEW b \in Browsers, HandleLogout(b)
  PROVE  WebInv'
<1>1. /\ sessions' = Without(sessions, {jar[b].session})
      /\ born' = Without(born, {jar[b].session})
      /\ jar' = [jar EXCEPT ![b].session = 0]
      /\ UNCHANGED <<announced, logins, request>>
  BY DEF HandleLogout, intakeVars, smtpVars
<1>2. JarInv'
  <2>1. jar' \in [Browsers -> [auth : Nat, session : Nat]]
    BY <1>1 DEF WebInv, JarInv
  <2>2. ASSUME NEW c \in Browsers
        PROVE  jar'[c].auth = jar[c].auth /\ jar'[c].session \in {0, jar[c].session}
    BY <1>1 DEF WebInv, JarInv
  <2> QED BY <1>1, <2>1, <2>2 DEF WebInv, JarInv, StartedBy
<1>3. SessionsInv'
  BY <1>1 DEF WebInv, SessionsInv, Without
<1>4. RequestsInv' /\ LoginsInv'
  BY <1>1, RequestKeeps DEF WebInv, RequestsInv, LoginsInv
<1> QED BY <1>2, <1>3, <1>4 DEF WebInv

LEMMA AskKeeps ==
  ASSUME WebInv, NEW b \in Browsers, Ask(b)
  PROVE  WebInv'
<1>1. /\ jar[b].session # 0
      /\ request' = [request EXCEPT ![b] =
           [at |-> "asked", id |-> jar[b].session, cookie |-> 0, identities |-> {}]]
      /\ UNCHANGED <<announced, jar, logins, sessions, born>>
  BY DEF Ask, intakeVars, smtpVars
<1>2. StartedBy(b, jar[b].session) /\ jar[b].session \in Nat
  BY <1>1 DEF WebInv, JarInv
<1>3. request' \in [Browsers -> Request]
  BY <1>1, <1>2 DEF WebInv, RequestsInv, Request
<1>4. ASSUME NEW c \in Browsers
      PROVE  RequestInv(c)'
  <2>1. CASE c = b
    <3>1. request'[c] = [at |-> "asked", id |-> jar[b].session, cookie |-> 0, identities |-> {}]
      BY <1>1, <2>1 DEF WebInv, RequestsInv
    <3> QED BY <1>1, <1>2, <2>1, <3>1 DEF RequestInv, StartedBy
  <2>2. CASE c # b
    BY <1>1, <2>2, RequestKeeps DEF WebInv, RequestsInv
  <2> QED BY <2>1, <2>2
<1>5. LoginsInv'
  BY <1>1 DEF WebInv, LoginsInv
<1> QED BY <1>1, <1>3, <1>4, <1>5, JarKeeps, SessionsKeep DEF WebInv, RequestsInv

LEMMA GuardKeeps ==
  ASSUME WebInv, NEW b \in Browsers, Guard(b)
  PROVE  WebInv'
<1> DEFINE id == request[b].id
<1>1. /\ request[b].at = "asked" /\ UNCHANGED <<announced, jar, logins, born>>
  BY DEF Guard, intakeVars, smtpVars
<1>2. JarInv' /\ LoginsInv'
  BY <1>1, JarKeeps DEF WebInv, LoginsInv
<1>3. CASE Get(id)
  <2>1. /\ request' = [request EXCEPT ![b] =
             [at |-> "admitted", id |-> id, cookie |-> 0,
              identities |-> sessions[id].identities]]
        /\ UNCHANGED sessions
    BY <1>3 DEF Guard
  <2>2. StartedBy(b, id) /\ sessions[id].identities = Identities(logins[id].claims)
    BY <1>1, <1>3 DEF WebInv, RequestsInv, RequestInv, SessionsInv, Get
  <2>3. Identities(logins[id].claims) \subseteq {NormalizeAddress(a) : a \in UNION Claims}
    BY <2>2, LoginTyped DEF WebInv, StartedBy, Identities
  <2>4. id \in Nat
    BY <2>2 DEF WebInv, LoginsInv, StartedBy
  <2>5. request' \in [Browsers -> Request]
    BY <2>1, <2>2, <2>3, <2>4 DEF WebInv, RequestsInv, Request
  <2>6. ASSUME NEW c \in Browsers
        PROVE  RequestInv(c)'
    <3>1. CASE c = b
      <4>1. /\ request'[c].at = "admitted" /\ request'[c].id = id
            /\ request'[c].identities = sessions[id].identities
        BY <2>1, <3>1 DEF WebInv, RequestsInv
      <4> QED BY <1>1, <2>2, <3>1, <4>1 DEF RequestInv, StartedBy
    <3>2. CASE c # b
      BY <1>1, <2>1, <3>2, RequestKeeps DEF WebInv, RequestsInv
    <3> QED BY <3>1, <3>2
  <2> QED BY <1>1, <1>2, <2>1, <2>5, <2>6, SessionsKeep DEF WebInv, RequestsInv
<1>4. CASE ~Get(id)
  <2>1. request' = [request EXCEPT ![b] = None] /\ sessions' = Without(sessions, {id})
    BY <1>4 DEF Guard
  <2>2. SessionsInv'
    BY <1>1, <2>1 DEF WebInv, SessionsInv, Without
  <2> QED BY <1>1, <1>2, <2>1, <2>2, RequestDone DEF WebInv
<1> QED BY <1>3, <1>4

LEMMA HandleKeeps ==
  ASSUME WebInv, IntakeInv, RecipientsInv, StoredInv, NEW b \in Browsers, Handle(b)
  PROVE  WebInv'
<1> DEFINE claims == logins[request[b].id].claims
           verdict == IF Finds(request[b].identities) THEN "shown" ELSE "turned_away"
<1>1. /\ request[b].at = "admitted" /\ request' = [request EXCEPT ![b].at = verdict]
      /\ UNCHANGED <<announced, jar, logins, sessions, born>>
  BY DEF Handle, intakeVars, smtpVars
<1>2. StartedBy(b, request[b].id) /\ request[b].identities = Identities(claims)
  BY <1>1 DEF WebInv, RequestsInv, RequestInv
<1>3. claims \in Claims
  BY <1>2, LoginTyped DEF WebInv, StartedBy
<1>4. scan.kept /\ AsAnnounced
  BY <1>1 DEF StoredInv, IntakeInv, AcceptedAsConfigured
<1>5. Finds(request[b].identities) <=> Belongs(claims)
  BY <1>2, <1>3, <1>4, FindsWhatBelongs DEF RecipientsInv
<1>6. (Belongs(claims))' <=> Belongs(claims)
  BY <1>1 DEF Belongs
<1>7. /\ request' \in [Browsers -> Request]
      /\ request'[b].at = verdict /\ request'[b].id = request[b].id
  BY <1>1 DEF WebInv, RequestsInv, Request
<1>8. ASSUME NEW c \in Browsers
      PROVE  RequestInv(c)'
  <2>1. CASE c = b
    BY <1>1, <1>2, <1>5, <1>6, <1>7, <2>1 DEF RequestInv, StartedBy
  <2>2. CASE c # b
    BY <1>1, <2>2, RequestKeeps DEF WebInv, RequestsInv
  <2> QED BY <2>1, <2>2
<1>9. LoginsInv'
  BY <1>1 DEF WebInv, LoginsInv
<1> QED BY <1>1, <1>7, <1>8, <1>9, JarKeeps, SessionsKeep DEF WebInv, RequestsInv

LEMMA TickKeeps ==
  ASSUME WebInv, UNCHANGED <<announced, jar, logins, sessions, request, born>>
  PROVE  WebInv'
<1>1. RequestsInv' /\ LoginsInv'
  BY RequestKeeps DEF WebInv, RequestsInv, LoginsInv
<1> QED BY <1>1, JarKeeps, SessionsKeep DEF WebInv

\* A step of the printer: nobody waits yet.
LEMMA PrinterKeeps ==
  ASSUME WebInv, StoredInv, IntakeNext, UNCHANGED webVars
  PROVE  WebInv' /\ StoredInv'
<1>1. \A b \in Browsers : request[b].at = "none"
  BY StoredIsLast DEF StoredInv
<1>2. RequestsInv' /\ LoginsInv'
  BY <1>1 DEF WebInv, RequestsInv, RequestInv, LoginsInv, webVars
<1>3. StoredInv'
  BY <1>1, StoredWithAScan DEF StoredInv, webVars
<1> QED BY <1>2, <1>3, JarKeeps, SessionsKeep DEF WebInv, webVars

-----------------------------------------------------------------------------
LEMMA DoorStarts == IntakeInit /\ WebInit => DoorInv
<1> SUFFICES ASSUME IntakeInit, WebInit
             PROVE  DoorInv
  OBVIOUS
<1>1. IntakeInv /\ ScanInv
  BY IntakeStarts, ScanStarts DEF IntakeInit
<1>2. RecipientsInv /\ StoredInv
  BY DEF IntakeInit, WebInit, RecipientsInv, StoredInv, NoScan, None
<1>3. LoginsInv /\ SessionsInv
  BY DEF WebInit, LoginsInv, SessionsInv
<1>4. JarInv
  BY DEF WebInit, JarInv
<1>5. RequestsInv
  BY DEF WebInit, RequestsInv, RequestInv, Request, None
<1> QED BY <1>1, <1>2, <1>3, <1>4, <1>5 DEF DoorInv, WebInv

LEMMA BrowsersKeep ==
  ASSUME DoorInv, WebNext
  PROVE  WebInv' /\ StoredInv'
<1>1. phase = "stored" /\ UNCHANGED intakeVars
  <2>1. ASSUME NEW b \in Browsers, request[b].at # "none"
        PROVE  phase = "stored"
    BY <2>1 DEF DoorInv, StoredInv
  <2>2. ASSUME NEW b \in Browsers, HandleCallback(b) \/ Guard(b) \/ Handle(b)
        PROVE  phase = "stored" /\ UNCHANGED intakeVars
    BY <2>1, <2>2 DEF HandleCallback, Guard, Handle
  <2>3. ASSUME NEW b \in Browsers,
               HandleLogin(b) \/ HandleLogout(b) \/ Ask(b) \/ \E l \in Login : Return(b, l)
        PROVE  phase = "stored" /\ UNCHANGED intakeVars
    BY <2>3 DEF HandleLogin, HandleLogout, Ask, Return, Served
  <2> QED BY <2>2, <2>3 DEF WebNext, Tick, Served
<1>2. StoredInv'
  BY <1>1 DEF DoorInv, StoredInv, intakeVars, smtpVars
<1>3. ASSUME NEW b \in Browsers,
             \/ HandleLogin(b) \/ HandleCallback(b) \/ HandleLogout(b)
             \/ Ask(b) \/ Guard(b) \/ Handle(b)
             \/ \E l \in Login : Return(b, l)
      PROVE  WebInv'
  BY <1>3, HandleLoginKeeps, HandleCallbackKeeps, HandleLogoutKeeps, AskKeeps, GuardKeeps,
     HandleKeeps, ReturnKeeps DEF DoorInv
<1>4. ASSUME Tick
      PROVE  WebInv'
  BY <1>4, TickKeeps DEF DoorInv, Tick, intakeVars, smtpVars
<1> QED BY <1>2, <1>3, <1>4 DEF WebNext

LEMMA DoorKeeps == DoorInv /\ [DoorNext]_doorVars => DoorInv'
<1> SUFFICES ASSUME DoorInv, [DoorNext]_doorVars
             PROVE  DoorInv'
  OBVIOUS
<1>1. [IntakeNext]_intakeVars
  BY WebLeavesIntake
<1>2. IntakeInv' /\ ScanInv' /\ RecipientsInv'
  BY <1>1, IntakeKeeps, MessagesKeep, RecipientsKeep DEF DoorInv
<1>3. CASE IntakeNext /\ UNCHANGED webVars
  BY <1>2, <1>3, PrinterKeeps DEF DoorInv
<1>4. CASE WebNext
  BY <1>2, <1>4, BrowsersKeep DEF DoorInv
<1>5. CASE UNCHANGED doorVars
  <2>1. StoredInv'
    BY <1>5 DEF DoorInv, StoredInv, doorVars, intakeVars, smtpVars, webVars
  <2>2. WebInv'
    BY <1>5, TickKeeps DEF DoorInv, doorVars, intakeVars, smtpVars, webVars
  <2> QED BY <1>2, <2>1, <2>2 DEF DoorInv
<1> QED BY <1>3, <1>4, <1>5 DEF DoorNext

-----------------------------------------------------------------------------
(***************************************************************************)
(* The theorems.                                                           *)
(***************************************************************************)

\* The invariant holds whatever printers and browsers do.
THEOREM DoorInvariant == DoorSpec => []DoorInv
BY DoorStarts, DoorKeeps, PTL DEF DoorSpec, DoorInit

\* With its browsers, the appliance is still the one that Intake describes: they
\* implement nothing of it and disturb nothing (web.go:151).
THEOREM DoorImplementsIntake == DoorSpec => IntakeSpec
BY WebLeavesIntake, PTL DEF DoorSpec, DoorInit, IntakeSpec

\* A scan is shown to those it was sent to and to nobody else (web.go:168).
THEOREM ScansAreShownToTheirPeople == DoorSpec => []ShownToItsPeople
<1>1. DoorInv => ShownToItsPeople
  BY DEF DoorInv, WebInv, RequestsInv, RequestInv, ShownToItsPeople
<1> QED BY <1>1, DoorInvariant, PTL

\* Who is let in has a session that is neither past its time nor signed out, of a
\* sign-in of its own (session.go:52).
THEOREM EndedSessionsStayEnded == DoorSpec => EndedSessionsAdmitNobody
<1> DEFINE A == \A b \in Browsers :
                  (request[b].at = "asked" /\ request'[b].at = "admitted") =>
                     LET id == request[b].id
                     IN  /\ id \in DOMAIN born /\ clock < born[id] + SessionTTL
                         /\ logins[id].by = b
<1>1. DoorInv /\ [DoorNext]_doorVars => A
  <2> SUFFICES ASSUME DoorInv, [DoorNext]_doorVars,
                      NEW b \in Browsers, request[b].at = "asked", request'[b].at = "admitted"
               PROVE  LET id == request[b].id
                      IN  /\ id \in DOMAIN born /\ clock < born[id] + SessionTTL
                          /\ logins[id].by = b
    OBVIOUS
  <2>1. request \in [Browsers -> Request] /\ request' # request
    BY DEF DoorInv, WebInv, RequestsInv
  <2>2. PICK c \in Browsers : \/ HandleCallback(c) \/ Ask(c) \/ Guard(c) \/ Handle(c)
                             \/ \E l \in Login : Return(c, l)
    BY <2>1 DEF DoorNext, WebNext, doorVars, webVars, HandleLogin, HandleLogout, Tick
  <2>3. Guard(c) /\ c = b
    <3>1. CASE HandleCallback(c)
      BY <2>1, <3>1 DEF HandleCallback, None
    <3>2. CASE Ask(c)
      BY <2>1, <3>2 DEF Ask
    <3>3. ASSUME NEW l \in Login, Return(c, l)
          PROVE  FALSE
      BY <2>1, <3>3 DEF Return
    <3>4. CASE Handle(c)
      BY <2>1, <3>4 DEF Handle, Request
    <3>5. CASE Guard(c)
      <4>1. request[c].at = "asked"
        BY <3>5 DEF Guard
      <4>2. c = b
        BY <2>1, <3>5 DEF Guard, None
      <4> QED BY <3>5, <4>2
    <3> QED BY <2>2, <3>1, <3>2, <3>3, <3>4, <3>5
  <2>4. Get(request[b].id)
    BY <2>1, <2>3 DEF Guard, None
  <2>5. StartedBy(b, request[b].id)
    BY DEF DoorInv, WebInv, RequestsInv, RequestInv
  <2> QED BY <2>4, <2>5 DEF Get, StartedBy, DoorInv, WebInv, SessionsInv
<1> HIDE DEF A
<1>2. DoorSpec => [][A]_doorVars
  BY <1>1, DoorInvariant, PTL DEF DoorSpec
<1>3. QED BY <1>2 DEF EndedSessionsAdmitNobody, A
=============================================================================
