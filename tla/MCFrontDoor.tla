----------------------------- MODULE MCFrontDoor -----------------------------
(***************************************************************************)
(* Model values for WebUi, and the modules under it.                       *)
(***************************************************************************)
EXTENDS WebUi

Spelt(mailbox, domain, form) == [mailbox |-> mailbox, domain |-> domain, form |-> form]

\* The two printers, one of them with capital letters in its address.
MCSenders == {Spelt("hall", "corp", "variant"), Spelt("desk", "corp", "canonical"),
              Spelt("junk", "", "implausible")}

MCRecipients == {Spelt("ann", "corp", "variant"), Spelt("bob", "home", "canonical"),
                 Spelt("junk", "", "implausible")}

\* Ann; Bob, who has a second name that is no address; and somebody unknown.
MCClaims == {{Spelt("ann", "corp", "canonical")},
             {Spelt("bob", "home", "variant"), Spelt("junk", "", "implausible")},
             {Spelt("eve", "corp", "canonical")}}

MCDomains == {"corp"}

Hall(may) == [key |-> Spelt("hall", "corp", "canonical"), caps |-> may]
Desk(may) == [key |-> Spelt("desk", "corp", "variant"), caps |-> may]

MCProfileTexts ==
  [text \in {"{}", "mailing", "office", "clash", "idle", "nobody"} |->
     CASE text = "{}" -> {}
       [] text = "mailing" -> {Hall({"email"})}
       [] text = "office" -> {Hall({"email", "web"}), Desk({"web", "ocr"})}
       [] text = "clash" -> {Desk({"web"}), [Desk({"email"}) EXCEPT !.key.form = "canonical"]}
       [] text = "idle" -> {Hall({})}
       [] text = "nobody" -> {[key |-> Spelt("junk", "", "implausible"), caps |-> {"web"}]}]

\* Settings given in the environment, directly.
Given(settings) ==
  [s \in Setting |-> IF s \in DOMAIN settings THEN [Unset[s] EXCEPT !.direct = settings[s]]
                     ELSE Unset[s]]

From(settings) == [file |-> Unset, environ |-> Given(settings), message |-> 3, stored |-> 6]

\* Printers need not sign in.
Auth == [s \in {"SMTP_ALLOW_ANONYMOUS"} |-> "true"]

Services(profiles, domains, sender, base, endpoint) ==
  [s \in {"PROFILES", "ALLOWED_RECIPIENT_DOMAINS", "GRAPH_SENDER", "PUBLIC_BASE_URL",
          "DI_ENDPOINT", "ENTRA_CLIENT_SECRET"} |->
     CASE s = "PROFILES" -> profiles
       [] s = "ALLOWED_RECIPIENT_DOMAINS" -> domains
       [] s = "GRAPH_SENDER" -> sender
       [] s = "PUBLIC_BASE_URL" -> base
       [] s = "DI_ENDPOINT" -> endpoint
       [] OTHER -> "set"]

Everything == Services("office", "set", "set", "set", "set")

\* The choices of what is configured; where there are domains, the web UI comes
\* with the endpoint or not at all.
Combinations ==
  {From(Auth @@ Services(profiles, domains, sender, base, endpoint)) :
     profiles \in {"", "mailing", "office"}, domains \in {"", "blank"},
     sender \in {"", "set"}, base \in {"", "set"}, endpoint \in {"", "set"}}
  \cup
  {From(Auth @@ Services(profiles, "set", sender, base, base)) :
     profiles \in {"", "mailing", "office"}, sender \in {"", "set"}, base \in {"", "set"}}

\* Every way for a printer to be let in.
Authentications ==
  {From([s \in {"SMTP_ALLOW_ANONYMOUS"} |-> anonymous] @@ [s \in {"SMTP_USERNAME"} |-> user]
        @@ [s \in {"SMTP_PASSWORD"} |-> password] @@ Services("mailing", "set", "set", "", "")) :
     anonymous \in {"", "true", "false", "bad"}, user \in {"", "set"},
     password \in {"", "typed"}}

Values(s) ==
  CASE s = "PROFILES" -> {"mailing", "clash", "idle", "nobody", "bad"}
    [] s = "SMTP_ALLOW_ANONYMOUS" -> {"true", "false", "bad"}
    [] s = "SMTP_PASSWORD" -> {"typed"}
    [] OTHER -> {"set", "bad"}

\* Every way to say one thing: in the file and in the environment, directly and
\* by the name of a file.
Spellings ==
  UNION {{[environ |-> [Given(Everything) EXCEPT ![s] = [direct |-> direct, file |-> pointed]],
           file |-> [Unset EXCEPT ![s] = [direct |-> below, file |-> pointedBelow]],
           message |-> 3, stored |-> 6] :
            direct \in {""} \cup Values(s),
            pointed \in {"", "hollow", "unreadable", "mailing", "set"},
            below \in {""} \cup Values(s), pointedBelow \in {"", "unreadable"}} : s \in Setting}

Limits ==
  {[From(Everything) EXCEPT !.message = message, !.stored = stored] :
     message \in {-1, 0, 4, 7}, stored \in {-1, 0, 6, 7}}

MCInputs == Combinations \cup Authentications \cup Spellings \cup Limits

Interchangeable == Permutations(Browsers)
=============================================================================
