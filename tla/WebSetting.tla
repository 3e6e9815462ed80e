----------------------------- MODULE WebSetting -----------------------------
(***************************************************************************)
(* What the settings pages of the three front ends have in common: options *)
(* that are loaded once into a form, switches that are written when they   *)
(* are clicked, and sections whose button writes their options one by one, *)
(* each after the answer to the one before.                                *)
(*                                                                         *)
(* A page of the administrator is open; `section' is the one that is used. *)
(* Of an option's value only its origin counts: what the server had, what  *)
(* another administrator wrote, what was typed, or nothing at all.         *)
(***************************************************************************)
EXTENDS Integers, Sequences, FiniteSets, TLC

CONSTANTS
  Sections,        \* the sections that may be used, <<page, section>>
  Options,         \* the options that are told apart; others are like one of them
  MaxTyped,        \* fields that are typed
  MaxRequests,     \* requests that are modelled
  MaxOutstanding,  \* requests that are under way at once
  MaxHasty,        \* times that the user does not wait for an answer
  MaxFaults,       \* refused or lost answers
  MaxChanges       \* options that another administrator writes

\* The sections of each page.
SystemSections == {"General", "Login", "Domains", "SMTP", "GitHub", "WeChat", "Turnstile"}
OperationSections == {"Basics", "Logs", "Monitor", "Quota"}
AllSections ==
  {<<"default/system", s>> : s \in SystemSections \cup {"Lark"}}
  \cup {<<"air/system", s>> : s \in SystemSections \cup {"Pusher"}}
  \cup {<<"berry/system", s>> : s \in SystemSections \cup {"Lark", "Oidc", "Pusher"}}
  \cup {<<"default/operation", s>> : s \in OperationSections}
  \cup {<<"air/operation", s>> : s \in OperationSections \cup {"Ratio"}}
  \cup {<<"berry/operation", s>> : s \in OperationSections \cup {"Ratio"}}
  \cup {<<p, "Other">> : p \in {"default/other", "air/other", "berry/other"}}
\* The options that a handler looks at though it writes another one.
Consulted == {"SMTPToken", "OidcWellKnown"}

ASSUME SettingAssumption ==
  /\ MaxTyped \in Nat
  /\ MaxRequests \in Nat
  /\ MaxOutstanding \in Nat
  /\ MaxHasty \in Nat
  /\ MaxFaults \in Nat
  /\ MaxChanges \in Nat
  /\ Sections \subseteq AllSections
  /\ Consulted \subseteq Options

VARIABLES
  page,            \* the page that is open, "<theme>/<page>"
  section,         \* the section that is used
  ready,           \* what the switches of other sections' options require is there
  inputs,          \* the values in the form
  obj,             \* which object holds them (of a section that changes it in place)
  origin,          \* originInputs: the values that were loaded
  domains,         \* the list of domains that a dropdown offers
  warning,         \* the warning that password sign-in will be switched off
  loading,         \* the spinner
  store,           \* the server's options
  net,             \* requests under way
  issued,          \* number of requests so far
  typed,           \* number of fields typed so far
  faults,          \* refused or lost answers so far
  changes,         \* options written by others so far
  hasty,           \* history: how often the user did not wait for an answer
  failed,          \* history: "no", or something was "refused" or even "lost"
  wrote,           \* history: options the user typed, switched or saved
  expected,        \* history: the values each option may rightly have
  saved,           \* history: options that nothing was typed into since they were saved
  others,          \* history: options that others wrote
  confirmed        \* history: the warning was confirmed

place == <<page, section, ready>>
form == <<inputs, obj, origin, domains, warning, loading>>
wire == <<net, issued>>
past == <<hasty, failed, wrote, expected, saved, others, confirmed>>
vars == <<place, form, store, wire, typed, faults, changes, past>>

Themes == {"default", "air", "berry"}
Undefined == "undefined"
Zero == "0"          \* the number that a numeric field shows before the load
None == [ok |-> "none"]

Logins == {"PasswordLoginEnabled", "PasswordRegisterEnabled", "EmailVerificationEnabled",
           "GitHubOAuthEnabled", "OidcEnabled", "WeChatAuthEnabled", "RegisterEnabled",
           "TurnstileCheckEnabled"}
Endpoints == {"OidcAuthorizationEndpoint", "OidcTokenEndpoint", "OidcUserinfoEndpoint"}
Ratios == {"ModelRatio", "GroupRatio", "CompletionRatio"}
Numbers == {"QuotaForNewUser", "QuotaForInvitee", "QuotaForInviter", "PreConsumedQuota",
            "ChannelDisableThreshold", "QuotaRemindThreshold", "QuotaPerUnit", "RetryTimes"}
KeysOf ==
  [General |-> {"ServerAddress"},
   Login |-> Logins,
   Domains |-> {"EmailDomainRestrictionEnabled", "EmailDomainWhitelist", "SMTPToken"},
   SMTP |-> {"SMTPServer", "SMTPAccount", "SMTPFrom", "SMTPPort", "SMTPToken"},
   GitHub |-> {"GitHubClientId", "GitHubClientSecret"},
   Lark |-> {"LarkClientId", "LarkClientSecret"},
   Oidc |-> {"OidcWellKnown", "OidcClientId", "OidcClientSecret"} \cup Endpoints,
   WeChat |-> {"WeChatServerAddress", "WeChatAccountQRCodeImageURL", "WeChatServerToken"},
   Pusher |-> {"MessagePusherAddress", "MessagePusherToken"},
   Turnstile |-> {"TurnstileSiteKey", "TurnstileSecretKey"},
   Quota |-> {"QuotaForNewUser", "QuotaForInvitee", "QuotaForInviter", "PreConsumedQuota"},
   Logs |-> {"LogConsumeEnabled"},
   Monitor |-> {"ChannelDisableThreshold", "QuotaRemindThreshold",
                "AutomaticDisableChannelEnabled", "AutomaticEnableChannelEnabled"},
   Basics |-> {"TopUpLink", "ChatLink", "QuotaPerUnit", "RetryTimes",
               "DisplayInCurrencyEnabled", "DisplayTokenStatEnabled",
               "ApproximateTokenEnabled"},
   Ratio |-> Ratios,
   Other |-> {"Notice", "SystemName", "Theme", "Logo", "HomePageContent", "About", "Footer"}]
AllKeys == UNION {KeysOf[s] : s \in DOMAIN KeysOf}
Keys == KeysOf[section] \cap Options

Switches == Logins \cup
  {"EmailDomainRestrictionEnabled", "LogConsumeEnabled", "AutomaticDisableChannelEnabled",
   "AutomaticEnableChannelEnabled", "DisplayInCurrencyEnabled", "DisplayTokenStatEnabled",
   "ApproximateTokenEnabled"}
\* GetOptions leaves out what ends with Token or Secret.
Secrets == {"SMTPToken", "GitHubClientSecret", "LarkClientSecret", "OidcClientSecret",
            "WeChatServerToken", "MessagePusherToken", "TurnstileSecretKey"}
Addresses == {"ServerAddress", "WeChatServerAddress", "MessagePusherAddress"}

\* The values of a text: "old" is the one the server had at the start, "new/"
\* ends with a slash, "bad" is no JSON text, or no URL.
Typable(k) ==
  {"", "old", "new"} \cup (IF k \in Addresses THEN {"new/"} ELSE {})
                     \cup (IF k \in Ratios \cup {"OidcWellKnown"} THEN {"bad"} ELSE {})
Stripped(v) == IF v = "new/" THEN "new" ELSE v
Written(k, v) == IF k \in Addresses THEN Stripped(v) ELSE v
Opposite(v) == IF v = "true" THEN "false" ELSE "true"

(***************************************************************************)
(* What a button writes: steps, one option each, and when it is written    *)
(***************************************************************************)
Always(k) == [key |-> k, when |-> "always"]
Changed(k) == [key |-> k, when |-> "changed"]
Filled(k) == [key |-> k, when |-> "filled"]
Listed(k) == [key |-> k, when |-> "listed"]
Json(k) == [key |-> k, when |-> "json"]

\* Slips: what is empty, or what is as it was, is written as well.
DueEmpty(step, snap, org) == step.when = "always" \/ snap[step.key] # org[step.key]
DueAlways(step, snap, org) ==
  \/ step.when \in {"always", "changed", "json"}
  \/ step.when = "filled" /\ snap[step.key] \notin {"", Undefined}
  \/ step.when = "listed" /\ snap["SMTPToken"] # "" /\ snap[step.key] # Undefined
\* snap and org are the inputs and originInputs that the handler captured.  (A
\* whitelist that was not loaded yet is no list, and the handler dies of it.)
Due(step, snap, org) ==
  \/ step.when = "always"
  \/ /\ snap[step.key] # org[step.key]
     /\ step.when = "filled" => snap[step.key] # ""
     /\ step.when = "listed" => snap["SMTPToken"] # "" /\ snap[step.key] # Undefined
Invalid(step, snap) == step.when = "json" /\ snap[step.key] \in {"", "bad"}

\* What is written, one after the other: all that is due before an invalid text.
Writes(steps, snap, org) ==
  LET due == {j \in DOMAIN steps : steps[j].key \in Keys /\ Due(steps[j], snap, org)}
      done == {j \in due : \A i \in due : i <= j => ~Invalid(steps[i], snap)}
  IN  {[at |-> j, key |-> steps[j].key, value |-> Written(steps[j].key, snap[steps[j].key])] :
         j \in done}
Alone(k, v) == {[at |-> 1, key |-> k, value |-> v]}
First(writes) == CHOOSE w \in writes : \A v \in writes : w.at <= v.at

\* The request that makes the first of the writes; the others wait for it.
Put(n, writes) == [n |-> n, do |-> "put", writes |-> writes, ans |-> None]
Now(r) == First(r.writes)

(***************************************************************************)
(* The user                                                                *)
(***************************************************************************)
At(p, s) == page = p /\ section = s
Acts ==
  /\ \/ net = {} /\ UNCHANGED hasty
     \/ net # {} /\ hasty < MaxHasty /\ hasty' = hasty + 1
  /\ UNCHANGED <<place, store, faults, changes, failed, others>>
CanAsk == issued < MaxRequests /\ Cardinality(net) < MaxOutstanding
Asks(r) ==
  /\ CanAsk
  /\ net' = net \cup {r}
  /\ issued' = issued + 1

\* The spinner of the default and the air theme covers the form; only berry's
\* switches and buttons work under it.
BerryPages == {"berry/system", "berry/operation", "berry/other"}
Clickable == ~warning /\ (~loading \/ page \in BerryPages)

\* setInputs((inputs) => ({...inputs, [name]: value}))
NewObject == obj' = IF section = "Oidc" THEN obj + 1 ELSE obj
SetInput(k, v) == inputs' = [inputs EXCEPT ![k] = v] /\ NewObject
Expect(ks, v) ==
  /\ wrote' = wrote \cup (ks \cap Keys)
  /\ expected' = [k \in Keys |-> IF k \in ks THEN expected[k] \cup {v} ELSE expected[k]]

\* Some sections save all of their options or, when one is not right, fewer.
Together == {"Domains", "Oidc", "Ratio"}
Typed(k) ==
  /\ typed < MaxTyped
  /\ typed' = typed + 1
  /\ saved' = IF section \in Together THEN {} ELSE saved \ {k}
TypeInto(k) ==
  /\ Typed(k)
  /\ \E v \in Typable(k) \ {inputs[k]} :
       /\ SetInput(k, v)
       /\ Expect({k}, Stripped(v))
  /\ Acts
  /\ UNCHANGED <<origin, domains, warning, loading, wire, confirmed>>
Fields(ks) == ~loading /\ ~warning /\ \E k \in ks \cap Keys : TypeInto(k)

\* A button that saves: the handler makes the first write, if any is due.
Saves(steps) ==
  /\ Clickable
  /\ saved' = saved \cup ({steps[j].key : j \in DOMAIN steps} \cap Keys)
  /\ LET writes == Writes(steps, inputs, origin)
     IN  IF writes = {} THEN UNCHANGED <<wire, loading>>
         ELSE Asks(Put(issued + 1, writes)) /\ loading' = TRUE
  /\ Acts
  /\ UNCHANGED <<inputs, obj, origin, domains, warning, typed, wrote, expected, confirmed>>

\* updateOption writes the opposite of what the switch showed.
Sets(k, v) ==
  /\ Asks(Put(issued + 1, Alone(k, v)))
  /\ loading' = TRUE
  /\ Expect({k}, v)
  /\ saved' = saved \cup {k}
  /\ Acts

\* Slip: password sign-in is switched like the others.
SwitchesAll(ks) ==
  /\ Clickable
  /\ \E k \in ks \cap Keys : Sets(k, Opposite(inputs[k])) /\ UNCHANGED warning
  /\ UNCHANGED <<inputs, obj, origin, domains, typed, confirmed>>
\* Password sign-in is switched off only after a warning.
Clicks(ks) ==
  /\ Clickable
  /\ \E k \in ks \cap Keys :
       IF k = "PasswordLoginEnabled" /\ inputs[k] = "true"
       THEN /\ warning' = TRUE
            /\ Acts
            /\ UNCHANGED <<loading, wire, wrote, expected, saved>>
       ELSE Sets(k, Opposite(inputs[k])) /\ UNCHANGED warning
  /\ UNCHANGED <<inputs, obj, origin, domains, typed, confirmed>>
Confirms ==
  /\ warning
  /\ warning' = FALSE
  /\ confirmed' = TRUE
  /\ Sets("PasswordLoginEnabled", Opposite(inputs["PasswordLoginEnabled"]))
  /\ UNCHANGED <<inputs, obj, origin, domains, typed>>
Cancels ==
  /\ warning
  /\ warning' = FALSE
  /\ Acts
  /\ UNCHANGED <<inputs, obj, origin, domains, loading, wire, typed, wrote, expected,
                 saved, confirmed>>
PasswordWarning == Confirms \/ Cancels

(***************************************************************************)
(* The server                                                              *)
(***************************************************************************)
Answered(r, ans) == net' = (net \ {r}) \cup {[r EXCEPT !.ans = ans]}

Fails(how) == failed' = IF failed = "lost" THEN "lost" ELSE how

ServeOptions(r) ==
  /\ r.do = "options"
  /\ Answered(r, [ok |-> "ok", options |-> [k \in Keys |->
                    IF k \in Secrets THEN Undefined ELSE store[k]]])
  /\ UNCHANGED <<store, failed>>

\* Some switches need an option first.  (The check of the whitelist looks at
\* the length of strings.Split(value, ","), which is never zero.)
Requires == {"GitHubOAuthEnabled", "WeChatAuthEnabled", "TurnstileCheckEnabled"}
Acceptable(k, v) ==
  /\ k \in Requires /\ v = "true" => ready
  /\ k = "Theme" => v # ""
\* A number in the place of a text is a bad request: its answer has no data.
BadRequest(w) == w.value = Zero /\ page # "default/operation"
ServeUpdate(r) ==
  /\ r.do = "put"
  /\ LET w == Now(r)
         fine == ~BadRequest(w) /\ Acceptable(w.key, w.value)
         how == IF BadRequest(w) THEN "lost" ELSE "refused"
     IN  IF fine
         THEN /\ Answered(r, [ok |-> "ok"])
              /\ store' = [store EXCEPT ![w.key] = w.value]
              /\ UNCHANGED failed
         ELSE /\ Answered(r, [ok |-> how])
              /\ Fails(how)
              /\ UNCHANGED store

\* the identity provider's own page about itself
ServeWellKnown(r) ==
  /\ r.do = "fetch"
  /\ Answered(r, [ok |-> "ok"])
  /\ UNCHANGED <<store, failed>>

Elsewhere == UNCHANGED <<place, form, issued, typed, hasty, wrote, saved, confirmed>>
Serve ==
  /\ \E r \in net :
       /\ r.ans = None
       /\ ServeOptions(r) \/ ServeUpdate(r) \/ ServeWellKnown(r)
  /\ Elsewhere
  /\ UNCHANGED <<faults, changes, expected, others>>

\* The server answers success = false, or an answer is lost on its way.
Fault ==
  /\ faults < MaxFaults
  /\ faults' = faults + 1
  /\ \E r \in net :
       \/ r.ans = None /\ Answered(r, [ok |-> "refused"]) /\ Fails("refused")
       \/ r.ans.ok # "lost" /\ Answered(r, [ok |-> "lost"]) /\ Fails("lost")
  /\ Elsewhere
  /\ UNCHANGED <<store, changes, expected, others>>

\* Another administrator writes an option.
Others ==
  /\ changes < MaxChanges
  /\ changes' = changes + 1
  /\ \E k \in Keys \ {"PasswordLoginEnabled"} :
       LET v == IF k \in Switches THEN Opposite(store[k]) ELSE "other"
       IN  /\ store' = [store EXCEPT ![k] = v]
           /\ expected' = [expected EXCEPT ![k] = IF k \in wrote THEN @ \cup {v} ELSE {v}]
           /\ others' = others \cup {k}
  /\ Elsewhere
  /\ UNCHANGED <<net, faults, failed>>

(***************************************************************************)
(* Continuations                                                           *)
(***************************************************************************)
Goes == UNCHANGED <<place, store, typed, faults, changes, past>>
Answers(do) == {r \in net : r.do = do /\ r.ans # None}

LoadEnds ==
  \E r \in Answers("options") :
    /\ IF r.ans.ok = "ok"
       THEN /\ inputs' = r.ans.options
            /\ origin' = r.ans.options
            /\ domains' = IF section = "Domains" THEN r.ans.options["EmailDomainWhitelist"]
                          ELSE domains
            /\ NewObject
       ELSE UNCHANGED <<inputs, origin, domains, obj>>
    /\ net' = net \ {r}
    /\ UNCHANGED <<warning, loading, issued>>
    /\ Goes

\* The handler makes its next write, or is done.
GoesOn(r) ==
  LET rest == r.writes \ {Now(r)}
  IN  IF rest = {}
      THEN net' = net \ {r} /\ UNCHANGED issued /\ loading' = FALSE
      ELSE /\ net' = (net \ {r}) \cup {Put(issued + 1, rest)}
           /\ issued' = issued + 1
           /\ loading' = TRUE
\* Slips: a refusal takes no spinner away; the value is not shown.
UpdateEndsSpinning ==
  \E r \in Answers("put") :
    /\ \/ /\ r.ans.ok = "ok"
          /\ SetInput(Now(r).key, Now(r).value)
          /\ GoesOn(r)
       \/ /\ r.ans.ok # "ok"
          /\ net' = net \ {r}
          /\ UNCHANGED <<inputs, obj, issued, loading>>
    /\ UNCHANGED <<origin, domains, warning>>
    /\ Goes
UpdateEndsUnseen ==
  \E r \in Answers("put") :
    /\ \/ /\ r.ans.ok # "lost"
          /\ UNCHANGED <<inputs, obj>>
          /\ GoesOn(r)
       \/ /\ r.ans.ok = "lost"
          /\ net' = net \ {r}
          /\ UNCHANGED <<inputs, obj, issued, loading>>
    /\ UNCHANGED <<origin, domains, warning>>
    /\ Goes
\* A refusal is shown and the next option written all the same; without an
\* answer the handler dies, and the spinner stays.
UpdateEnds ==
  \E r \in Answers("put") :
    /\ \/ /\ r.ans.ok = "ok"
          /\ SetInput(Now(r).key, Now(r).value)
          /\ GoesOn(r)
       \/ /\ r.ans.ok = "refused"
          /\ UNCHANGED <<inputs, obj>>
          /\ GoesOn(r)
       \/ /\ r.ans.ok = "lost"
          /\ net' = net \ {r}
          /\ UNCHANGED <<inputs, obj, issued, loading>>
    /\ UNCHANGED <<origin, domains, warning>>
    /\ Goes

Init ==
  /\ \E s \in Sections : page = s[1] /\ section = s[2]
  /\ ready \in IF section = "Login" THEN BOOLEAN ELSE {TRUE}
  /\ inputs = [k \in Keys |->
                 IF k \in Numbers THEN Zero
                 ELSE IF k = "EmailDomainWhitelist" /\ page # "berry/system" THEN Undefined
                 ELSE ""]
  /\ obj = 0
  /\ origin = [k \in Keys |-> Undefined]
  /\ domains = ""
  /\ warning = FALSE
  /\ loading = FALSE
  /\ store = [k \in Keys |-> IF k \in Switches
                             THEN IF k = "PasswordLoginEnabled" THEN "true" ELSE "false"
                             ELSE IF k \in Ratios THEN Undefined ELSE "old"]
  /\ issued = 1
  /\ net = {[n |-> 1, do |-> "options", ans |-> None]}
  /\ typed = 0
  /\ faults = 0
  /\ changes = 0
  /\ hasty = 0
  /\ failed = "no"
  /\ wrote = {}
  /\ expected = [k \in Keys |-> {store[k]}]
  /\ saved = {}
  /\ others = {}
  /\ confirmed = FALSE
=============================================================================
