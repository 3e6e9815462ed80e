----------------------------- MODULE WebSettings -----------------------------
(***************************************************************************)
(* One of the settings pages of the three themes, the server's options     *)
(* behind it, and another administrator who writes them.                   *)
(***************************************************************************)
EXTENDS WebSetting

Default == INSTANCE SettingsDefault
AirTheme == INSTANCE SettingsAir
BerryTheme == INSTANCE SettingsBerry

DefaultPages == Default!DefaultUser \/ Default!DefaultGoesOn
AirPages == AirTheme!AirUser \/ AirTheme!AirGoesOn
BerryPagesStep == BerryTheme!BerryUser \/ BerryTheme!BerryGoesOn

Next == DefaultPages \/ AirPages \/ BerryPagesStep \/ Serve \/ Fault \/ Others

\* A request is answered or its loss is noticed, and the browser's event loop
\* goes on with the answer.
Continues == Default!DefaultGoesOn \/ AirTheme!AirGoesOn \/ BerryTheme!BerryGoesOn
Spec == Init /\ [][Next]_vars /\ WF_vars(Serve \/ Fault \/ Continues)

(***************************************************************************)
(* Properties                                                              *)
(***************************************************************************)
\* The user waited for every answer, and nothing failed.
Calm == hasty = 0 /\ failed = "no"

\* A secret, which the server never shows, is never overwritten with nothing:
\* not by a form that was not loaded, nor one whose field was left empty,
\* however fast the user is and whatever fails.  (The air theme writes the
\* token of the message pusher with every key that is pressed.)
SecretsKept ==
  \A k \in Keys \cap Secrets :
    ~(section = "Pusher" /\ page = "air/system") => store[k] # ""

\* A patient user changes no option but those that were typed or switched: what
\* another administrator wrote meanwhile stays, though the form does not show
\* it.  (Options that are written unconditionally are written as they were
\* loaded.)
Unconditional ==
  IF section = "Domains" THEN {k \in {"EmailDomainWhitelist"} : page = "berry/system"}
  ELSE IF section \in {"General", "Other"} THEN Keys ELSE {}
NothingUnasked ==
  Calm => \A k \in Keys \ Unconditional :
            store[k] \in expected[k] \cup {Stripped(v) : v \in expected[k]}

\* When everything has come to rest, a patient user who saved an option sees it
\* as it is stored, unless another administrator wrote it.  Excepted is what a
\* button does not send: a value set back to the one that was loaded, an empty
\* secret or port, texts after an invalid one, and domains without a token for
\* mails or, in the default theme, at all.
NotSent(k) ==
  \/ inputs[k] = origin[k] /\ k \notin Switches
  \/ k \in Secrets \cup {"SMTPPort"} /\ inputs[k] = ""
  \/ section = "Ratio" /\ \E j \in Ratios \cap Keys : inputs[j] \in {"", "bad"}
  \/ section = "Oidc" /\ inputs["OidcWellKnown"] = "bad"
  \/ k = "EmailDomainWhitelist" /\ (page = "default/system" \/ inputs["SMTPToken"] = "")
ShownIsStored ==
  (Calm /\ net = {}) =>
    \A k \in saved \ others :
      NotSent(k) \/ store[k] = Written(k, inputs[k])

\* Password sign-in is only ever switched off by one who confirmed the warning,
\* however fast the user clicks and whenever the options are loaded.
WarnedBeforeOff ==
  section = "Login" => (store["PasswordLoginEnabled"] = "false" => confirmed)

\* The spinner of a save goes away, also after a refusal, unless an answer is
\* lost or has no data.
SavingEnds == loading ~> (~loading \/ failed = "lost")
=============================================================================
