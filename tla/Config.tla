------------------------------- MODULE Config -------------------------------
(***************************************************************************)
(* What the appliance makes of its settings (internal/config): the         *)
(* environment above the configuration file, the two spellings of each     *)
(* setting, the checks that let it start at all, and the questions the     *)
(* rest of it asks of the result.                                          *)
(*                                                                         *)
(* A setting is a text.  "" is none, "bad" is one its parser refuses, and  *)
(* any other stands for a proper one.  S2G_X_FILE names a file by what is  *)
(* in it; one named "hollow" is empty and one named "unreadable" is just   *)
(* that.  Settings that nothing else depends on are left out.              *)
(***************************************************************************)
EXTENDS Integers

CONSTANTS
  ProfileTexts,  \* S2G_PROFILES decoded: the entries of each text that does
  Domains,       \* what a proper S2G_ALLOWED_RECIPIENT_DOMAINS lists
  Inputs         \* the files, environments and limits there may be

Cap == {"email", "web", "ocr"}

Setting == {"PROFILES", "ALLOWED_RECIPIENT_DOMAINS", "GRAPH_SENDER", "PUBLIC_BASE_URL",
            "DI_ENDPOINT", "ENTRA_CLIENT_SECRET", "SMTP_USERNAME", "SMTP_PASSWORD",
            "SMTP_ALLOW_ANONYMOUS"}

\* S2G_X and S2G_X_FILE.
Spelling == {"direct", "file"}

Env == [Setting -> [Spelling -> STRING]]
Unset == [s \in Setting |-> [spelling \in Spelling |-> ""]]

\* An address as somebody writes it: the mailbox it means, in the canonical form,
\* in another one, or as nothing that could be an address.
Form == {"canonical", "variant", "implausible"}
Address == [mailbox : STRING, domain : STRING, form : Form]

\* NormalizeAddress, which answers "" for what is no address.
Nowhere == [mailbox |-> "", domain |-> "", form |-> "canonical"]

NormalizeAddress(a) ==
  IF a.form = "implausible" THEN Nowhere ELSE [a EXCEPT !.form = "canonical"]

ASSUME ConfigAssumption ==
  /\ "{}" \in DOMAIN ProfileTexts /\ ProfileTexts["{}"] = {}
  /\ \A text \in DOMAIN ProfileTexts : \A entry \in ProfileTexts[text] :
        entry.key \in Address /\ entry.caps \subseteq Cap
  /\ Domains # {}
  /\ \A i \in Inputs : i.file \in Env /\ i.environ \in Env /\ i.message \in Int /\ i.stored \in Int

VARIABLES
  input,   \* what is there to read: the file, the environment, the limits
  loaded,  \* whether Load has read it, or refused to
  config   \* the Config it built

configVars == <<input, loaded, config>>

-----------------------------------------------------------------------------
(***************************************************************************)
(* One setting (file.go, env.go).                                          *)
(***************************************************************************)
Paired(spelling) == IF spelling = "direct" THEN "file" ELSE "direct"

\* Wrong: the environment hides only the spelling it uses itself.
LayerBySpelling(file, environ) ==
  [s \in Setting |-> [spelling \in Spelling |->
     IF environ[s][spelling] # "" THEN environ[s][spelling] ELSE file[s][spelling]]]

\* The environment overrides a setting, not one spelling of it.
Layer(file, environ) ==
  [s \in Setting |-> [spelling \in Spelling |->
     IF environ[s][spelling] # "" THEN environ[s][spelling]
     ELSE IF environ[s][Paired(spelling)] # "" THEN "" ELSE file[s][spelling]]]

\* resolve reports an error.
Misspelt(env, s) ==
  env[s].file # "" /\ (env[s].direct # "" \/ env[s].file = "unreadable")

IsSet(env, s) == env[s] # [spelling \in Spelling |-> ""] /\ ~Misspelt(env, s)

Resolve(env, s) ==
  IF ~IsSet(env, s) \/ env[s].file = "hollow" THEN ""
  ELSE IF env[s].direct # "" THEN env[s].direct ELSE env[s].file

-----------------------------------------------------------------------------
(***************************************************************************)
(* Load (config.go).                                                       *)
(***************************************************************************)
ProfilesText(env) == IF IsSet(env, "PROFILES") THEN Resolve(env, "PROFILES") ELSE "{}"

Entries(env) ==
  IF ProfilesText(env) \in DOMAIN ProfileTexts THEN ProfileTexts[ProfilesText(env)] ELSE {}

\* An entry without an address or a capability, or two for one address.
BadProfiles(env) ==
  \/ ProfilesText(env) \notin DOMAIN ProfileTexts
  \/ \E entry \in Entries(env) :
        \/ NormalizeAddress(entry.key) = Nowhere
        \/ entry.caps = {}
        \/ \E other \in Entries(env) \ {entry} :
              NormalizeAddress(other.key) = NormalizeAddress(entry.key)

Profiles(env) ==
  [key \in {NormalizeAddress(entry.key) : entry \in Entries(env)} |->
     UNION {entry.caps : entry \in {e \in Entries(env) : NormalizeAddress(e.key) = key}}]

\* anyEmail, anyWeb, anyOCR
Asks(env, cap) == \E entry \in Entries(env) : cap \in entry.caps

\* domains, whose commas may enclose nothing.
AllowedDomains(env) ==
  IF Resolve(env, "ALLOWED_RECIPIENT_DOMAINS") \in {"", "bad", "blank"} THEN {} ELSE Domains

\* graphSender, publicBaseURL, baseURL
Parsed(env, s) == IF Resolve(env, s) = "bad" THEN "" ELSE Resolve(env, s)

\* What a profile asks for, or everything does, and nobody set, or set to nothing.
Lacks(env) ==
  \/ Asks(env, "email") /\ AllowedDomains(env) = {}
  \/ Asks(env, "email") /\ Resolve(env, "GRAPH_SENDER") = ""
  \/ Asks(env, "web") /\ Resolve(env, "PUBLIC_BASE_URL") = ""
  \/ Asks(env, "ocr") /\ Resolve(env, "DI_ENDPOINT") = ""
  \/ Resolve(env, "ENTRA_CLIENT_SECRET") = ""

\* What every sender may do where there are no profiles.
DefaultProfile(env) ==
  IF Entries(env) # {} THEN {}
  ELSE {cap \in Cap :
          \/ cap = "email" /\ Parsed(env, "GRAPH_SENDER") # "" /\ AllowedDomains(env) # {}
          \/ cap = "web" /\ Parsed(env, "PUBLIC_BASE_URL") # ""
          \/ cap = "ocr" /\ Parsed(env, "DI_ENDPOINT") # ""}

\* Without profiles: a sender that could mail to anybody, or no way to deliver.
BadDefault(env) ==
  /\ Entries(env) = {}
  /\ \/ Parsed(env, "GRAPH_SENDER") # "" /\ AllowedDomains(env) = {}
     \/ DefaultProfile(env) \cap {"email", "web"} = {}

\* smtpAuth
Anonymous(env) ==
  IsSet(env, "SMTP_ALLOW_ANONYMOUS") /\ Resolve(env, "SMTP_ALLOW_ANONYMOUS") = "true"

BadAuth(env) ==
  LET user == IsSet(env, "SMTP_USERNAME")
      password == IsSet(env, "SMTP_PASSWORD")
  IN  \/ /\ IsSet(env, "SMTP_ALLOW_ANONYMOUS")
         /\ Resolve(env, "SMTP_ALLOW_ANONYMOUS") \notin {"true", "false"}
      \/ Anonymous(env) /\ (user \/ password)
      \/ ~Anonymous(env) /\ user /\ ~password
      \/ ~Anonymous(env) /\ password /\ Resolve(env, "SMTP_PASSWORD") = ""
      \/ ~Anonymous(env) /\ user /\ Resolve(env, "SMTP_USERNAME") = ""

\* One that is generated if nobody sets one.
Password(env) ==
  IF Anonymous(env) THEN ""
  ELSE IF IsSet(env, "SMTP_PASSWORD") THEN Resolve(env, "SMTP_PASSWORD") ELSE "generated"

BadLimits(message, stored) ==
  message <= 0 \/ stored <= 0 \/ message > stored \div 2

Refuses(env, message, stored) ==
  \/ \E s \in Setting : Misspelt(env, s)
  \/ \E s \in {"ALLOWED_RECIPIENT_DOMAINS", "GRAPH_SENDER", "PUBLIC_BASE_URL", "DI_ENDPOINT"} :
        Resolve(env, s) = "bad"
  \/ BadProfiles(env) \/ Lacks(env) \/ BadDefault(env) \/ BadAuth(env)
  \/ BadLimits(message, stored)

ConfigOf(env, message, stored) ==
  [profiles |-> Profiles(env), defaultProfile |-> DefaultProfile(env),
   domains |-> AllowedDomains(env), anonymous |-> Anonymous(env), password |-> Password(env),
   sender |-> Parsed(env, "GRAPH_SENDER"), baseURL |-> Parsed(env, "PUBLIC_BASE_URL"),
   endpoint |-> Parsed(env, "DI_ENDPOINT"), message |-> message, stored |-> stored]

ConfigInit ==
  /\ input \in Inputs
  /\ loaded = "no"
  /\ config = ConfigOf(Unset, 0, 0)

Load ==
  LET env == Layer(input.file, input.environ)
  IN  /\ loaded = "no"
      /\ IF Refuses(env, input.message, input.stored)
         THEN loaded' = "refused" /\ UNCHANGED config
         ELSE loaded' = "yes" /\ config' = ConfigOf(env, input.message, input.stored)
      /\ UNCHANGED input

-----------------------------------------------------------------------------
(***************************************************************************)
(* What is asked of it.                                                    *)
(***************************************************************************)

\* Config.Profile, as a set of one answer or none.
Profile(from) ==
  IF NormalizeAddress(from) = Nowhere THEN {}
  ELSE IF DOMAIN config.profiles = {} THEN {config.defaultProfile}
  ELSE IF NormalizeAddress(from) \in DOMAIN config.profiles
       THEN {config.profiles[NormalizeAddress(from)]} ELSE {}

RecipientAllowed(canonical) == config.domains = {} \/ canonical.domain \in config.domains
=============================================================================
