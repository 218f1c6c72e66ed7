---------------------------- MODULE IntakeProofs ----------------------------
(***************************************************************************)
(* Proofs about Intake, for any settings, senders and recipients: what is  *)
(* accepted is what was configured and announced, and what MimeScan's      *)
(* proofs say of one message holds of every message of a connection.       *)
(***************************************************************************)
EXTENDS Intake, MimeScanProofs

\* The configuration has what a sender with these capabilities needs.
Provides(granted) ==
  /\ "email" \in granted => config.domains # {} /\ config.sender # ""
  /\ "ocr" \in granted => config.endpoint # ""
  /\ "web" \in granted => config.baseURL # ""

\* What the checks of Load leave to rely on.
ConfigSound ==
  /\ config.anonymous \/ config.password # ""
  /\ Provides(config.defaultProfile)
  /\ \A key \in DOMAIN config.profiles : Provides(config.profiles[key])

\* The transaction at any moment of it.
TransactionInv ==
  /\ announced = [caps |-> caps, mailboxes |-> {r.mailbox : r \in recipients}]
  /\ named # {} => config.anonymous \/ authenticated
  /\ Provides(caps)
  /\ \A r \in recipients : RecipientAllowed(r)

IntakeInv ==
  /\ phase \in Phase
  /\ phase # "starting" => loaded = "yes"
  /\ loaded = "yes" => ConfigSound
  /\ phase = "starting" => caps = {} /\ recipients = {} /\ named = {} /\ announced = Nothing
  /\ phase \in {"starting", "commands", "data"} => TransactionInv
  /\ phase = "data" => named = {"mail", "rcpt"}
  /\ scan.kept => phase = "stored" \/ (phase = "data" /\ at = "answered")
  /\ AcceptedAsConfigured

-----------------------------------------------------------------------------
(***************************************************************************)
(* The configuration.                                                      *)
(***************************************************************************)

\* Whoever has a capability gets it from an entry that asks for it.
LEMMA ProfilesAsk ==
  ASSUME NEW env, NEW key \in DOMAIN Profiles(env), NEW cap, cap \in Profiles(env)[key]
  PROVE  Asks(env, cap)
<1>1. Profiles(env)[key] =
        UNION {entry.caps : entry \in {e \in Entries(env) : NormalizeAddress(e.key) = key}}
  BY DEF Profiles
<1>2. PICK entry \in Entries(env) : cap \in entry.caps
  BY <1>1
<1> QED BY <1>2 DEF Asks

LEMMA AcceptedIsProvided ==
  ASSUME NEW env, NEW message, NEW stored, ~Refuses(env, message, stored),
         config' = ConfigOf(env, message, stored)
  PROVE  ConfigSound'
<1>1. /\ config'.profiles = Profiles(env) /\ config'.defaultProfile = DefaultProfile(env)
      /\ config'.domains = AllowedDomains(env)
      /\ config'.anonymous = Anonymous(env) /\ config'.password = Password(env)
      /\ config'.sender = Parsed(env, "GRAPH_SENDER")
      /\ config'.baseURL = Parsed(env, "PUBLIC_BASE_URL")
      /\ config'.endpoint = Parsed(env, "DI_ENDPOINT")
  BY DEF ConfigOf
<1>2. ~Lacks(env) /\ ~BadAuth(env)
  BY DEF Refuses
<1>3. \A s \in {"GRAPH_SENDER", "PUBLIC_BASE_URL", "DI_ENDPOINT"} : Parsed(env, s) = Resolve(env, s)
  BY DEF Refuses, Parsed
<1>4. (config.anonymous \/ config.password # "")'
  <2>1. CASE IsSet(env, "SMTP_PASSWORD") /\ ~Anonymous(env)
    BY <1>1, <1>2, <2>1 DEF BadAuth, Password
  <2>2. CASE ~IsSet(env, "SMTP_PASSWORD") \/ Anonymous(env)
    BY <1>1, <2>2 DEF Password
  <2> QED BY <2>1, <2>2
<1>5. Provides(config.defaultProfile)'
  <2>1. /\ "email" \in DefaultProfile(env)
              => AllowedDomains(env) # {} /\ Parsed(env, "GRAPH_SENDER") # ""
        /\ "ocr" \in DefaultProfile(env) => Parsed(env, "DI_ENDPOINT") # ""
        /\ "web" \in DefaultProfile(env) => Parsed(env, "PUBLIC_BASE_URL") # ""
    BY DEF DefaultProfile
  <2> QED BY <1>1, <2>1 DEF Provides
<1>6. ASSUME NEW key \in DOMAIN config'.profiles
      PROVE  Provides(config.profiles[key])'
  <2>1. \A cap \in config'.profiles[key] : Asks(env, cap)
    BY <1>1, <1>6, ProfilesAsk
  <2> QED BY <1>1, <1>2, <1>3, <2>1 DEF Lacks, Provides
<1> QED BY <1>4, <1>5, <1>6 DEF ConfigSound

\* What a sender is granted, the configuration provides.
LEMMA GrantedIsProvided ==
  ASSUME ConfigSound, NEW from, NEW granted \in Granted(from)
  PROVE  Provides(granted) /\ (config.anonymous \/ authenticated)
<1>1. granted \in Profile(from) /\ (config.anonymous \/ authenticated)
  BY DEF Granted
<1> QED BY <1>1 DEF Profile, ConfigSound

-----------------------------------------------------------------------------
(***************************************************************************)
(* The commands.                                                           *)
(***************************************************************************)
LEMMA IntakeStarts == IntakeInit => IntakeInv
<1> SUFFICES ASSUME IntakeInit
             PROVE  IntakeInv
  OBVIOUS
<1>1. /\ phase = "starting" /\ loaded = "no" /\ scan.kept = FALSE
      /\ caps = {} /\ recipients = {} /\ named = {} /\ announced = Nothing
  BY DEF IntakeInit, ConfigInit, NoScan
<1>2. TransactionInv
  BY <1>1 DEF TransactionInv, Provides, Nothing
<1> QED BY <1>1, <1>2 DEF IntakeInv, Phase, AcceptedAsConfigured

LEMMA LoadKeeps ==
  ASSUME IntakeInv, LoadConfig
  PROVE  IntakeInv'
<1>1. /\ phase = "starting" /\ phase' = "starting" /\ ~scan.kept /\ ~(scan.kept)'
      /\ UNCHANGED <<caps, recipients, named, announced, authenticated>>
  BY DEF IntakeInv, LoadConfig, smtpVars
<1>2. loaded' = "yes" => ConfigSound'
  <2>1. ASSUME loaded' = "yes"
        PROVE  /\ ~Refuses(Layer(input.file, input.environ), input.message, input.stored)
               /\ config' = ConfigOf(Layer(input.file, input.environ), input.message, input.stored)
    BY <2>1 DEF LoadConfig, Load
  <2> QED BY <2>1, AcceptedIsProvided
<1>3. TransactionInv'
  BY <1>1 DEF IntakeInv, TransactionInv, Provides, Nothing
<1> QED BY <1>1, <1>2, <1>3 DEF IntakeInv, Phase, AcceptedAsConfigured

LEMMA NewSessionKeeps ==
  ASSUME IntakeInv, NewSession
  PROVE  IntakeInv'
<1>1. /\ phase = "starting" /\ phase' = "commands" /\ loaded = "yes" /\ ~scan.kept
      /\ UNCHANGED <<loaded, config, at, caps, recipients, named, scan, announced, authenticated>>
  BY DEF IntakeInv, NewSession, scanVars
<1>2. TransactionInv' /\ ConfigSound'
  BY <1>1 DEF IntakeInv, TransactionInv, Provides, RecipientAllowed, ConfigSound
<1> QED BY <1>1, <1>2 DEF IntakeInv, Phase, AcceptedAsConfigured

\* A step between commands that leaves the settings and whatever was accepted.
LEMMA CommandKeeps ==
  ASSUME IntakeInv, phase = "commands", phase' = "commands",
         UNCHANGED <<configVars, scan>>, TransactionInv'
  PROVE  IntakeInv'
<1>1. ~scan.kept /\ ~(scan.kept)' /\ loaded' = "yes" /\ ConfigSound'
  BY DEF IntakeInv, configVars, ConfigSound, Provides
<1> QED BY <1>1 DEF IntakeInv, Phase, AcceptedAsConfigured

LEMMA AuthenticateKeeps ==
  ASSUME IntakeInv, NEW user, NEW password, Authenticate(user, password), phase = "commands",
         UNCHANGED <<configVars, phase, caps, recipients, named, scan, announced>>
  PROVE  IntakeInv'
<1>1. authenticated => authenticated'
  BY DEF Authenticate
<1>2. TransactionInv'
  BY <1>1 DEF IntakeInv, TransactionInv, Provides, RecipientAllowed, configVars
<1> QED BY <1>2, CommandKeeps

LEMMA LoginKeeps ==
  ASSUME IntakeInv, phase = "commands",
         UNCHANGED <<configVars, phase, authenticated, caps, recipients, named, scan, announced>>
  PROVE  IntakeInv'
<1>1. TransactionInv'
  BY DEF IntakeInv, TransactionInv, Provides, RecipientAllowed, configVars
<1> QED BY <1>1, CommandKeeps

LEMMA RsetKeeps ==
  ASSUME IntakeInv, Rset
  PROVE  IntakeInv'
<1>1. TransactionInv'
  BY DEF Rset, ResetSession, TransactionInv, Nothing, Provides
<1> QED BY <1>1, CommandKeeps DEF Rset, Idle

LEMMA MailKeeps ==
  ASSUME IntakeInv, NEW from, Mail(from)
  PROVE  IntakeInv'
<1>1. phase = "commands" /\ ConfigSound /\ TransactionInv
      /\ UNCHANGED <<configVars, phase, authenticated, scan>>
  BY DEF Mail, Idle, IntakeInv
<1>2. ASSUME ResetSession, announced' = Nothing, UNCHANGED named
      PROVE  TransactionInv'
  BY <1>1, <1>2 DEF ResetSession, TransactionInv, Nothing, Provides, configVars
<1>3. ASSUME NEW granted \in Granted(from), caps' = granted, recipients' = {},
             announced' = [caps |-> granted, mailboxes |-> {}], named' = named \cup {"mail"}
      PROVE  TransactionInv'
  <2>1. Provides(granted)' /\ (config.anonymous \/ authenticated)'
    BY <1>1, GrantedIsProvided DEF configVars, Provides
  <2> QED BY <1>3, <2>1 DEF TransactionInv
<1>4. TransactionInv'
  BY <1>2, <1>3 DEF Mail
<1> QED BY <1>1, <1>4, CommandKeeps

LEMMA RcptKeeps ==
  ASSUME IntakeInv, NEW to \in Recipients, Rcpt(to)
  PROVE  IntakeInv'
<1>1. phase = "commands" /\ TransactionInv
      /\ UNCHANGED <<configVars, phase, authenticated, caps, scan>>
  BY DEF Rcpt, Idle, IntakeInv
<1>2. /\ named # {} /\ RecipientAllowed(NormalizeAddress(to))
      /\ recipients' = recipients \cup {NormalizeAddress(to)}
      /\ announced' = [announced EXCEPT !.mailboxes = @ \cup {to.mailbox}]
  BY DEF Rcpt
<1>3. NormalizeAddress(to).mailbox = to.mailbox
  BY IntakeAssumption DEF Rcpt, NormalizeAddress, Address
<1>4. announced' = [caps |-> caps', mailboxes |-> {r.mailbox : r \in recipients'}]
  BY <1>1, <1>2, <1>3 DEF TransactionInv
<1>5. TransactionInv'
  BY <1>1, <1>2, <1>4 DEF TransactionInv, Provides, RecipientAllowed, configVars
<1> QED BY <1>1, <1>5, CommandKeeps

LEMMA DataKeeps ==
  ASSUME IntakeInv, Data
  PROVE  IntakeInv'
<1>1. /\ phase = "commands" /\ phase' = "data" /\ named' = {"mail", "rcpt"}
      /\ TransactionInv /\ ~scan.kept /\ loaded = "yes" /\ ConfigSound
      /\ UNCHANGED <<configVars, authenticated, caps, recipients, named, scan, announced>>
  BY DEF Data, Idle, IntakeInv
<1>2. TransactionInv' /\ ConfigSound'
  BY <1>1 DEF TransactionInv, Provides, RecipientAllowed, ConfigSound, configVars
<1> QED BY <1>1, <1>2 DEF IntakeInv, Phase, AcceptedAsConfigured, configVars

-----------------------------------------------------------------------------
(***************************************************************************)
(* The message.                                                            *)
(***************************************************************************)
LEMMA WalksUnanswered == ScanWalk => at # "answered"
BY DEF ScanWalk, NoMessage, DeepEntity, OpenContainer, UnopenedContainer, Leaf, NextPart,
       EndContainer, ReadFails, Walking

LEMMA ReadKeeps ==
  ASSUME IntakeInv, Read
  PROVE  IntakeInv'
<1>1. /\ phase = "data" /\ ~scan.kept /\ loaded = "yes" /\ ConfigSound /\ TransactionInv
      /\ named = {"mail", "rcpt"}
      /\ UNCHANGED <<configVars, phase, authenticated, caps, recipients, named, scan, announced>>
  BY WalksUnanswered DEF Read, IntakeInv, smtpVars
<1>2. TransactionInv' /\ ConfigSound'
  BY <1>1 DEF TransactionInv, Provides, RecipientAllowed, ConfigSound, configVars
<1> QED BY <1>1, <1>2 DEF IntakeInv, Phase, AcceptedAsConfigured, configVars

LEMMA SettleKeeps ==
  ASSUME IntakeInv, Settle
  PROVE  IntakeInv'
<1>1. /\ phase = "data" /\ at' = "answered" /\ ~scan.kept /\ loaded = "yes"
      /\ ConfigSound /\ TransactionInv /\ named = {"mail", "rcpt"}
      /\ UNCHANGED <<configVars, phase, authenticated, caps, recipients, named, announced>>
  BY DEF Settle, Respond, IntakeInv
<1>2. TransactionInv' /\ ConfigSound'
  BY <1>1 DEF TransactionInv, Provides, RecipientAllowed, ConfigSound, configVars
<1>3. CASE scan' = [kept |-> TRUE, caps |-> caps, recipients |-> recipients]
  <2>1. (scan.caps = caps /\ scan.recipients = recipients /\ named = {"mail", "rcpt"})'
    BY <1>1, <1>3
  <2>2. FromATrustedPrinter'
    BY <1>2, <2>1 DEF ConfigSound, TransactionInv, FromATrustedPrinter
  <2>3. AsAnnounced'
    BY <1>2, <2>1 DEF TransactionInv, AsAnnounced
  <2>4. NeverRelayed' /\ HasItsServices'
    BY <1>2, <2>1
       DEF TransactionInv, Provides, RecipientAllowed, NeverRelayed, HasItsServices
  <2> QED BY <1>1, <1>2, <2>2, <2>3, <2>4 DEF IntakeInv, Phase, AcceptedAsConfigured, configVars
<1>4. CASE UNCHANGED scan
  BY <1>1, <1>2, <1>4 DEF IntakeInv, Phase, AcceptedAsConfigured, configVars
<1> QED BY <1>3, <1>4 DEF Settle

LEMMA DataReturnsKeeps ==
  ASSUME IntakeInv, DataReturns
  PROVE  IntakeInv'
<1>1. /\ phase = "data" /\ loaded' = "yes" /\ ConfigSound
      /\ UNCHANGED <<configVars, authenticated, scan>>
      /\ caps' = {} /\ recipients' = {} /\ named' = {}
  BY DEF DataReturns, ResetSession, IntakeInv, configVars
<1>2. ConfigSound'
  BY <1>1 DEF ConfigSound, Provides, configVars
<1>3. CASE scan.kept
  <2>1. phase' = "stored" /\ UNCHANGED announced
    BY <1>3 DEF DataReturns
  <2>2. FromATrustedPrinter /\ AsAnnounced /\ NeverRelayed /\ HasItsServices
    BY <1>3 DEF IntakeInv, AcceptedAsConfigured
  <2>3. (FromATrustedPrinter /\ AsAnnounced /\ NeverRelayed /\ HasItsServices)'
    BY <1>1, <2>1, <2>2
       DEF FromATrustedPrinter, AsAnnounced, NeverRelayed, HasItsServices, configVars
  <2> QED BY <1>1, <1>2, <2>1, <2>3 DEF IntakeInv, Phase, AcceptedAsConfigured
<1>4. CASE ~scan.kept
  <2>1. phase' = "commands" /\ announced' = Nothing /\ ~(scan.kept)'
    BY <1>1, <1>4 DEF DataReturns
  <2>2. TransactionInv'
    BY <1>1, <2>1 DEF TransactionInv, Nothing, Provides
  <2> QED BY <1>1, <1>2, <2>1, <2>2 DEF IntakeInv, Phase, AcceptedAsConfigured
<1> QED BY <1>3, <1>4

-----------------------------------------------------------------------------
LEMMA IntakeKeeps == IntakeInv /\ [IntakeNext]_intakeVars => IntakeInv'
<1> SUFFICES ASSUME IntakeInv, [IntakeNext]_intakeVars
             PROVE  IntakeInv'
  OBVIOUS
<1>1. CASE LoadConfig
  BY <1>1, LoadKeeps
<1>2. CASE NewSession
  BY <1>2, NewSessionKeeps
<1>3. CASE AuthPlain
  BY <1>3, AuthenticateKeeps DEF AuthPlain, Idle
<1>4. CASE AuthLogin
  BY <1>4, LoginKeeps DEF AuthLogin, Idle
<1>5. CASE LoginUsername
  BY <1>5, LoginKeeps DEF LoginUsername
<1>6. CASE LoginPassword
  BY <1>6, AuthenticateKeeps DEF LoginPassword
<1>7. CASE CancelLogin
  BY <1>7, LoginKeeps DEF CancelLogin
<1>8. CASE Rset
  BY <1>8, RsetKeeps
<1>9. ASSUME NEW from \in Senders, Mail(from)
      PROVE  IntakeInv'
  BY <1>9, MailKeeps
<1>10. ASSUME NEW to \in Recipients, Rcpt(to)
       PROVE  IntakeInv'
  BY <1>10, RcptKeeps
<1>11. CASE Data
  BY <1>11, DataKeeps
<1>12. CASE Read
  BY <1>12, ReadKeeps
<1>13. CASE Settle
  BY <1>13, SettleKeeps
<1>14. CASE DataReturns
  BY <1>14, DataReturnsKeeps
<1>15. CASE UNCHANGED intakeVars
  BY <1>15
     DEF intakeVars, configVars, scanVars, smtpVars, IntakeInv, ConfigSound, TransactionInv,
         Provides, RecipientAllowed, AcceptedAsConfigured, FromATrustedPrinter, AsAnnounced,
         NeverRelayed, HasItsServices
<1> QED
  BY <1>1, <1>2, <1>3, <1>4, <1>5, <1>6, <1>7, <1>8, <1>9, <1>10, <1>11, <1>12, <1>13, <1>14,
     <1>15
     DEF IntakeNext

\* Intake does nothing to a message that MimeScan does not, but to start the next.
LEMMA StepsAreScans == [IntakeNext]_intakeVars => [ScanNext]_scanVars \/ NextScan
BY DEF IntakeNext, intakeVars, LoadConfig, NewSession, AuthPlain, AuthLogin, LoginUsername,
       LoginPassword, CancelLogin, Rset, Mail, Rcpt, Data, Read, Settle, DataReturns, ScanNext

LEMMA NextScanStarts == NextScan => ScanInv'
<1>1. NextScan => ScanInit'
  BY DEF NextScan, ScanInit
<1> QED BY <1>1, ScanStarts, PTL

LEMMA MessagesKeep == ScanInv /\ [IntakeNext]_intakeVars => ScanInv'
BY StepsAreScans, NextScanStarts, ScanKeeps

-----------------------------------------------------------------------------
(***************************************************************************)
(* Types.                                                                  *)
(***************************************************************************)
ConfigTypeOK ==
  /\ config.defaultProfile \subseteq Cap
  /\ \A key \in DOMAIN config.profiles : config.profiles[key] \subseteq Cap

LEMMA ConfigsAreTyped ==
  ASSUME NEW env, NEW message, NEW stored, config' = ConfigOf(env, message, stored)
  PROVE  ConfigTypeOK'
<1>1. config'.profiles = Profiles(env) /\ config'.defaultProfile = DefaultProfile(env)
  BY DEF ConfigOf
<1>2. \A entry \in Entries(env) : entry.caps \subseteq Cap
  BY ConfigAssumption DEF Entries
<1>3. ASSUME NEW key \in DOMAIN Profiles(env), NEW cap \in Profiles(env)[key]
      PROVE  cap \in Cap
  BY <1>2, <1>3, ProfilesAsk DEF Asks
<1>4. DefaultProfile(env) \subseteq Cap
  BY DEF DefaultProfile
<1> QED BY <1>1, <1>3, <1>4 DEF ConfigTypeOK

LEMMA TypesStart == IntakeInit => IntakeTypeOK /\ ConfigTypeOK
<1> SUFFICES ASSUME IntakeInit
             PROVE  IntakeTypeOK /\ ConfigTypeOK
  OBVIOUS
<1>1. ScanTypeOK
  BY ScanStarts DEF IntakeInit, ScanInv
<1>2. Entries(Unset) = {}
  BY ConfigAssumption DEF Entries, ProfilesText, IsSet, Unset, Setting
<1>3. config.profiles = Profiles(Unset) /\ config.defaultProfile = DefaultProfile(Unset)
  BY DEF IntakeInit, ConfigInit, ConfigOf
<1>4. ConfigTypeOK
  BY <1>2, <1>3 DEF ConfigTypeOK, Profiles, DefaultProfile
<1> QED BY <1>1, <1>4 DEF IntakeInit, IntakeTypeOK, Phase, NoLogin, NoScan, Nothing

LEMMA TypesKeep ==
  IntakeTypeOK /\ ConfigTypeOK /\ ScanTypeOK' /\ [IntakeNext]_intakeVars
    => IntakeTypeOK' /\ ConfigTypeOK'
<1> SUFFICES ASSUME IntakeTypeOK, ConfigTypeOK, ScanTypeOK', [IntakeNext]_intakeVars
             PROVE  IntakeTypeOK' /\ ConfigTypeOK'
  OBVIOUS
<1>1. CASE LoadConfig
  <2>1. ConfigTypeOK'
    BY <1>1, ConfigsAreTyped DEF LoadConfig, Load, ConfigTypeOK
  <2> QED BY <1>1, <2>1 DEF LoadConfig, smtpVars, IntakeTypeOK
<1>2. CASE NewSession
  BY <1>2 DEF NewSession, IntakeTypeOK, ConfigTypeOK, Phase
<1>3. CASE AuthPlain \/ AuthLogin \/ LoginUsername \/ LoginPassword \/ CancelLogin
  <2>1. authenticated' \in BOOLEAN
    BY <1>3 DEF AuthPlain, AuthLogin, LoginUsername, LoginPassword, CancelLogin, Authenticate,
                IntakeTypeOK
  <2>2. login' \in [step : {"none", "username", "password"}, user : BOOLEAN]
    <3>1. ASSUME NEW step \in {"none", "username", "password"}, NEW user \in BOOLEAN,
                 login' = [step |-> step, user |-> user]
          PROVE  login' \in [step : {"none", "username", "password"}, user : BOOLEAN]
      BY <3>1
    <3>2. CASE AuthLogin \/ LoginUsername
      BY <3>1, <3>2 DEF AuthLogin, LoginUsername
    <3>3. CASE AuthPlain
      BY <3>3 DEF AuthPlain, IntakeTypeOK
    <3>4. CASE LoginPassword \/ CancelLogin
      <4>1. login' = [step |-> "none", user |-> FALSE]
        BY <3>4 DEF LoginPassword, CancelLogin, NoLogin
      <4> QED BY <3>1, <4>1
    <3> QED BY <1>3, <3>2, <3>3, <3>4
  <2>3. UNCHANGED <<configVars, phase, caps, recipients, named, scan, announced>>
    BY <1>3 DEF AuthPlain, AuthLogin, LoginUsername, LoginPassword, CancelLogin
  <2> QED BY <2>1, <2>2, <2>3 DEF IntakeTypeOK, ConfigTypeOK, configVars
<1>4. CASE Rset
  BY <1>4 DEF Rset, ResetSession, Nothing, IntakeTypeOK, ConfigTypeOK, configVars
<1>5. ASSUME NEW from \in Senders, Mail(from)
      PROVE  IntakeTypeOK' /\ ConfigTypeOK'
  <2>1. \A granted \in Granted(from) : granted \subseteq Cap
    BY DEF Granted, Profile, ConfigTypeOK
  <2>2. /\ caps' \subseteq Cap /\ recipients' = {} /\ named' \subseteq {"mail", "rcpt"}
        /\ announced' \in [caps : SUBSET Cap, mailboxes : SUBSET {r.mailbox : r \in Canonical}]
    <3>1. CASE Granted(from) = {} /\ ResetSession /\ announced' = Nothing /\ UNCHANGED named
      BY <3>1 DEF ResetSession, Nothing, IntakeTypeOK
    <3>2. ASSUME NEW granted \in Granted(from), caps' = granted, recipients' = {},
                 announced' = [caps |-> granted, mailboxes |-> {}], named' = named \cup {"mail"}
          PROVE  /\ caps' \subseteq Cap /\ recipients' = {} /\ named' \subseteq {"mail", "rcpt"}
                 /\ announced' \in [caps : SUBSET Cap,
                                    mailboxes : SUBSET {r.mailbox : r \in Canonical}]
      BY <2>1, <3>2 DEF IntakeTypeOK
    <3> QED BY <1>5, <3>1, <3>2 DEF Mail
  <2>3. UNCHANGED <<configVars, phase, authenticated, login, scan>>
    BY <1>5 DEF Mail
  <2> QED BY <2>2, <2>3 DEF IntakeTypeOK, ConfigTypeOK, configVars
<1>6. ASSUME NEW to \in Recipients, Rcpt(to)
      PROVE  IntakeTypeOK' /\ ConfigTypeOK'
  <2>1. NormalizeAddress(to) \in Canonical /\ NormalizeAddress(to).mailbox = to.mailbox
    BY <1>6, IntakeAssumption DEF Rcpt, Canonical, NormalizeAddress, Address
  <2>2. announced'
          = [caps |-> announced.caps, mailboxes |-> announced.mailboxes \cup {to.mailbox}]
    BY <1>6 DEF Rcpt, IntakeTypeOK
  <2>3. announced' \in [caps : SUBSET Cap, mailboxes : SUBSET {r.mailbox : r \in Canonical}]
    BY <2>1, <2>2 DEF IntakeTypeOK
  <2>4. recipients' \subseteq Canonical /\ named' \subseteq {"mail", "rcpt"}
    BY <1>6, <2>1 DEF Rcpt, IntakeTypeOK
  <2>5. UNCHANGED <<configVars, phase, authenticated, login, caps, scan>>
    BY <1>6 DEF Rcpt
  <2> QED BY <2>3, <2>4, <2>5 DEF IntakeTypeOK, ConfigTypeOK, configVars
<1>7. CASE Data \/ Read
  BY <1>7 DEF Data, Read, smtpVars, IntakeTypeOK, ConfigTypeOK, Phase, configVars
<1>8. CASE Settle
  <2>1. scan' \in [kept : BOOLEAN, caps : SUBSET Cap, recipients : SUBSET Canonical]
    <3>1. CASE scan' = [kept |-> TRUE, caps |-> caps, recipients |-> recipients]
      BY <3>1 DEF IntakeTypeOK
    <3>2. CASE UNCHANGED scan
      BY <3>2 DEF IntakeTypeOK
    <3> QED BY <1>8, <3>1, <3>2 DEF Settle
  <2>2. UNCHANGED <<configVars, phase, authenticated, login, caps, recipients, named, announced>>
    BY <1>8 DEF Settle
  <2> QED BY <2>1, <2>2 DEF IntakeTypeOK, ConfigTypeOK, configVars
<1>9. CASE DataReturns
  BY <1>9 DEF DataReturns, ResetSession, Nothing, IntakeTypeOK, ConfigTypeOK, Phase, configVars
<1>10. CASE UNCHANGED intakeVars
  BY <1>10 DEF intakeVars, smtpVars, configVars, IntakeTypeOK, ConfigTypeOK
<1> QED BY <1>1, <1>2, <1>3, <1>4, <1>5, <1>6, <1>7, <1>8, <1>9, <1>10 DEF IntakeNext

-----------------------------------------------------------------------------
(***************************************************************************)
(* The theorems.                                                           *)
(***************************************************************************)

\* Both invariants hold at every moment of any connection.
THEOREM IntakeInvariant == IntakeSpec => [](IntakeInv /\ ScanInv)
<1>1. IntakeInit => IntakeInv /\ ScanInv
  BY IntakeStarts, ScanStarts DEF IntakeInit
<1>2. IntakeInv /\ ScanInv /\ [IntakeNext]_intakeVars => IntakeInv' /\ ScanInv'
  BY IntakeKeeps, MessagesKeep
<1> QED BY <1>1, <1>2, PTL DEF IntakeSpec

\* The session's fields are of their types, and its recipients canonical
\* addresses (session.go:60), whatever a printer writes.
THEOREM IntakeTypeCorrect == IntakeSpec => []IntakeTypeOK
<1>1. ScanInv => ScanTypeOK
  BY DEF ScanInv
<1> QED BY <1>1, IntakeInvariant, TypesStart, TypesKeep, PTL DEF IntakeSpec

\* Whatever is configured and in whatever order the commands come, a scan that is
\* accepted is one the operator provided for (session.go:93).
THEOREM ScansAreAsConfigured == IntakeSpec => []AcceptedAsConfigured
<1>1. IntakeInv => AcceptedAsConfigured
  BY DEF IntakeInv
<1> QED BY <1>1, IntakeInvariant, PTL

\* What is dropped and what is kept, for every message of a connection: nothing
\* of one is left for the next (session.go:140).
THEOREM MessagesAreTheirOwn == IntakeSpec => [](DroppedHadNothing /\ KeptIsWhatWasSent)
<1>1. ScanInv => DroppedHadNothing /\ KeptIsWhatWasSent
  BY DEF ScanInv, ScanTypeOK, Place, WalkInv, Walking, ExtractInv, AnswerInv, Increasing,
         PlainInv, DroppedHadNothing, KeptIsWhatWasSent
<1> QED BY <1>1, IntakeInvariant, PTL

-----------------------------------------------------------------------------
(***************************************************************************)
(* The two spellings of a setting.                                         *)
(***************************************************************************)
Merged(file, environ) ==
  [s \in Setting |-> IF environ[s] # Unset[s] THEN environ[s] ELSE file[s]]

\* Layer looks at one spelling at a time, and has the effect of looking at the
\* setting.
LEMMA LayerMerges ==
  ASSUME NEW file \in Env, NEW environ \in Env
  PROVE  Layer(file, environ) = Merged(file, environ)
<1>1. ASSUME NEW s \in Setting
      PROVE  Layer(file, environ)[s] = Merged(file, environ)[s]
  <2>1. /\ environ[s] \in [Spelling -> STRING] /\ file[s] \in [Spelling -> STRING]
        /\ Unset[s] = [spelling \in Spelling |-> ""]
    BY DEF Env, Unset
  <2>2. Layer(file, environ)[s] = [spelling \in Spelling |->
          IF environ[s][spelling] # "" THEN environ[s][spelling]
          ELSE IF environ[s][Paired(spelling)] # "" THEN "" ELSE file[s][spelling]]
    BY DEF Layer
  <2>3. CASE environ[s] = Unset[s]
    <3>1. \A spelling \in Spelling : environ[s][spelling] = "" /\ environ[s][Paired(spelling)] = ""
      BY <2>1, <2>3 DEF Spelling, Paired
    <3>2. Layer(file, environ)[s] = [spelling \in Spelling |-> file[s][spelling]]
      BY <2>2, <3>1
    <3> QED BY <2>1, <2>3, <3>2 DEF Merged
  <2>4. CASE environ[s] # Unset[s]
    <3>1. environ[s]["direct"] # "" \/ environ[s]["file"] # ""
      BY <2>1, <2>4 DEF Spelling
    <3>2. \A spelling \in Spelling :
            environ[s][spelling] # "" \/ environ[s][Paired(spelling)] # ""
      BY <3>1 DEF Spelling, Paired
    <3>3. Layer(file, environ)[s] = [spelling \in Spelling |-> environ[s][spelling]]
      BY <2>2, <3>2
    <3> QED BY <2>1, <2>4, <3>3 DEF Merged
  <2> QED BY <2>3, <2>4
<1> QED BY <1>1 DEF Layer, Merged

\* Until a printer connects, what was read can still be compared.
LoadInv ==
  phase = "starting" =>
    LET env == Layer(input.file, input.environ)
    IN  /\ input \in Inputs
        /\ loaded = "yes" => /\ ~Refuses(env, input.message, input.stored)
                             /\ config = ConfigOf(env, input.message, input.stored)
        /\ loaded = "refused" => Refuses(env, input.message, input.stored)

LEMMA LoadInvKeeps == LoadInv /\ [IntakeNext]_intakeVars => LoadInv'
<1> SUFFICES ASSUME LoadInv, [IntakeNext]_intakeVars, phase' = "starting"
             PROVE  LoadInv'
  BY DEF LoadInv
<1>1. CASE LoadConfig
  BY <1>1 DEF LoadInv, LoadConfig, Load
<1>2. phase = "starting"
  BY DEF IntakeNext, LoadConfig, NewSession, AuthPlain, AuthLogin, LoginUsername,
       LoginPassword, CancelLogin, Rset, Mail, Rcpt, Data, Read, Settle, DataReturns, Idle,
       smtpVars, intakeVars
<1>3. CASE UNCHANGED intakeVars
  BY <1>2, <1>3 DEF LoadInv, intakeVars, configVars
<1>4. CASE IntakeNext /\ ~LoadConfig
  BY <1>2, <1>4
     DEF IntakeNext, NewSession, AuthPlain, AuthLogin, LoginUsername,
         LoginPassword, CancelLogin, Rset, Mail, Rcpt, Data, Read, Settle, DataReturns, Idle
<1> QED BY <1>1, <1>3, <1>4

LEMMA LoadInvSound == LoadInv => LoadedIsSound
<1> SUFFICES ASSUME LoadInv, phase = "starting", loaded # "no"
             PROVE  LET merged == Merged(input.file, input.environ)
                    IN  /\ loaded = "yes" =>
                             /\ config = ConfigOf(merged, input.message, input.stored)
                             /\ config.message > 0 /\ 2 * config.message <= config.stored
                        /\ loaded = "refused" => Refuses(merged, input.message, input.stored)
  BY DEF LoadedIsSound, Merged
<1> DEFINE env == Layer(input.file, input.environ)
<1>1. input \in Inputs /\ env = Merged(input.file, input.environ)
  BY LayerMerges, ConfigAssumption DEF LoadInv
<1>2. ASSUME loaded = "yes"
      PROVE  config.message > 0 /\ 2 * config.message <= config.stored
  <2>1. /\ config.message = input.message /\ config.stored = input.stored
        /\ ~BadLimits(input.message, input.stored)
    BY <1>2 DEF LoadInv, ConfigOf, Refuses
  <2>2. input.message \in Int /\ input.stored \in Int
    BY <1>1, ConfigAssumption
  <2> QED BY <2>1, <2>2 DEF BadLimits
<1> QED BY <1>1, <1>2 DEF LoadInv

\* What is loaded is what the settings say, each in whichever spelling is used, and
\* leaves room for two messages (file.go:39).
THEOREM LoadIsSound == IntakeSpec => []LoadedIsSound
<1>1. IntakeInit => LoadInv
  BY DEF IntakeInit, ConfigInit, LoadInv
<1> QED BY <1>1, LoadInvKeeps, LoadInvSound, PTL DEF IntakeSpec
=============================================================================
