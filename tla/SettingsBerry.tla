---------------------------- MODULE SettingsBerry ----------------------------
(***************************************************************************)
(* The settings pages of the berry theme: SystemSetting, OperationSetting  *)
(* and OtherSetting.  Fields are disabled while an option is written, but  *)
(* for the list of domains and the long texts; switches and buttons never  *)
(* are.                                                                    *)
(***************************************************************************)
EXTENDS WebSetting

System(s) == At("berry/system", s)
Operation(s) == At("berry/operation", s)
OpenFields(ks) == ~warning /\ \E k \in ks \cap Keys : TypeInto(k)

(***************************************************************************)
(* SystemSetting                                                           *)
(***************************************************************************)
GetSystemOptions == page = "berry/system" /\ LoadEnds
UpdateSystem == page = "berry/system" /\ UpdateEnds

SubmitServerAddress == Saves(<<Always("ServerAddress")>>)
General == System("General") /\ (Fields(Keys) \/ SubmitServerAddress)

LoginSwitches == System("Login") /\ Clicks(Keys)
LoginWarning == page = "berry/system" /\ PasswordWarning

SubmitEmailDomainWhitelist == Saves(<<Always("EmailDomainWhitelist")>>)
Domains ==
  /\ System("Domains")
  /\ \/ Clicks({"EmailDomainRestrictionEnabled"})
     \/ OpenFields({"EmailDomainWhitelist"})
     \/ SubmitEmailDomainWhitelist

SubmitSMTP == Saves(<<Changed("SMTPServer"), Changed("SMTPAccount"), Changed("SMTPFrom"),
                      Filled("SMTPPort"), Filled("SMTPToken")>>)
SMTP == System("SMTP") /\ (Fields(Keys) \/ SubmitSMTP)

SubmitGitHubOAuth == Saves(<<Changed("GitHubClientId"), Filled("GitHubClientSecret")>>)
GitHub == System("GitHub") /\ (Fields(Keys) \/ SubmitGitHubOAuth)

SubmitLarkOAuth == Saves(<<Changed("LarkClientId"), Filled("LarkClientSecret")>>)
Lark == System("Lark") /\ (Fields(Keys) \/ SubmitLarkOAuth)

SubmitWeChat == Saves(<<Changed("WeChatServerAddress"), Changed("WeChatAccountQRCodeImageURL"),
                        Filled("WeChatServerToken")>>)
WeChat == System("WeChat") /\ (Fields(Keys) \/ SubmitWeChat)

\* submitOidc first asks the provider for its endpoints, without a spinner.
OidcSteps ==
  <<Changed("OidcWellKnown"), Changed("OidcClientId"), Filled("OidcClientSecret"),
    Changed("OidcAuthorizationEndpoint"), Changed("OidcTokenEndpoint"),
    Changed("OidcUserinfoEndpoint")>>
SubmitOidc ==
  \/ inputs["OidcWellKnown"] = "" /\ Saves(OidcSteps)
  \/ /\ inputs["OidcWellKnown"] \notin {"", "bad"}
     /\ Clickable
     /\ Asks([n |-> issued + 1, do |-> "fetch", snap |-> inputs, org |-> origin, obj |-> obj,
              ans |-> None])
     /\ Expect(Endpoints, "fetched")
     /\ saved' = saved \cup Keys
     /\ Acts
     /\ UNCHANGED <<inputs, obj, origin, domains, warning, loading, typed, confirmed>>
\* The endpoints are put into the object that the handler captured, which may
\* no longer be the one that is shown.  Without an answer it goes on as well.
OidcEnds ==
  \E r \in Answers("fetch") :
    LET Fetched(v) == [k \in Keys |-> IF k \in Endpoints /\ r.ans.ok = "ok" THEN "fetched"
                                      ELSE v[k]]
        writes == Writes(OidcSteps, Fetched(r.snap), r.org)
    IN  /\ inputs' = IF r.obj = obj THEN Fetched(inputs) ELSE inputs
        /\ IF writes = {}
           THEN net' = net \ {r} /\ UNCHANGED <<issued, loading>>
           ELSE /\ net' = (net \ {r}) \cup {Put(issued + 1, writes)}
                /\ issued' = issued + 1
                /\ loading' = TRUE
        /\ UNCHANGED <<obj, origin, domains, warning>>
        /\ Goes
Oidc == System("Oidc") /\ (Fields(Keys) \/ SubmitOidc)

SubmitMessagePusher == Saves(<<Changed("MessagePusherAddress"), Filled("MessagePusherToken")>>)
Pusher == System("Pusher") /\ (Fields(Keys) \/ SubmitMessagePusher)

SubmitTurnstile == Saves(<<Changed("TurnstileSiteKey"), Filled("TurnstileSecretKey")>>)
Turnstile == System("Turnstile") /\ (Fields(Keys) \/ SubmitTurnstile)

(***************************************************************************)
(* OperationSetting                                                        *)
(***************************************************************************)
GetOperationOptions == page = "berry/operation" /\ LoadEnds
UpdateOperation == page = "berry/operation" /\ UpdateEnds

\* submitConfig, its argument being the section
SubmitConfig ==
  \/ section = "Monitor" /\ Saves(<<Changed("ChannelDisableThreshold"),
                                    Changed("QuotaRemindThreshold")>>)
  \/ section = "Ratio" /\ Saves(<<Json("ModelRatio"), Json("GroupRatio"), Json("CompletionRatio")>>)
  \/ section = "Quota" /\ Saves(<<Changed("QuotaForNewUser"), Changed("QuotaForInvitee"),
                                  Changed("QuotaForInviter"), Changed("PreConsumedQuota")>>)
  \/ section = "Basics" /\ Saves(<<Changed("TopUpLink"), Changed("ChatLink"),
                                   Changed("QuotaPerUnit"), Changed("RetryTimes")>>)

Basics ==
  Operation("Basics") /\ (Fields(Keys \ Switches) \/ Clicks(Keys \cap Switches) \/ SubmitConfig)
Logs == Operation("Logs") /\ Clicks(Keys)
Monitor ==
  Operation("Monitor") /\ (Fields(Keys \ Switches) \/ Clicks(Keys \cap Switches) \/ SubmitConfig)
Quota == Operation("Quota") /\ (Fields(Keys) \/ SubmitConfig)
Ratio == Operation("Ratio") /\ (OpenFields(Keys) \/ SubmitConfig)

(***************************************************************************)
(* OtherSetting                                                            *)
(***************************************************************************)
GetOtherOptions == page = "berry/other" /\ LoadEnds
UpdateOther == page = "berry/other" /\ UpdateEnds

\* Every text has a button of its own that writes it.
SubmitOther == \E k \in Keys : Saves(<<Always(k)>>)
LongTexts == {"Notice", "HomePageContent", "About", "Footer"}
Other ==
  page = "berry/other" /\ (Fields(Keys \ LongTexts) \/ OpenFields(LongTexts) \/ SubmitOther)

BerryUser ==
  \/ General \/ LoginSwitches \/ LoginWarning \/ Domains \/ SMTP \/ GitHub \/ Lark
  \/ WeChat \/ Oidc \/ Pusher \/ Turnstile
  \/ Basics \/ Logs \/ Monitor \/ Quota \/ Ratio
  \/ Other
BerryGoesOn ==
  \/ GetSystemOptions \/ UpdateSystem \/ OidcEnds
  \/ GetOperationOptions \/ UpdateOperation
  \/ GetOtherOptions \/ UpdateOther
=============================================================================
