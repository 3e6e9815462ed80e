----------------------------- MODULE SettingsAir -----------------------------
(***************************************************************************)
(* The settings pages of the air theme: SystemSetting, OperationSetting and*)
(* OtherSetting.                                                           *)
(***************************************************************************)
EXTENDS WebSetting

System(s) == At("air/system", s)
Operation(s) == At("air/operation", s)

(***************************************************************************)
(* SystemSetting                                                           *)
(***************************************************************************)
GetSystemOptions == page = "air/system" /\ LoadEnds
UpdateSystem == page = "air/system" /\ UpdateEnds

SubmitServerAddress == Saves(<<Always("ServerAddress")>>)
General == System("General") /\ (Fields(Keys) \/ SubmitServerAddress)

LoginSwitches == System("Login") /\ Clicks(Keys \ {"OidcEnabled"})
LoginWarning == page = "air/system" /\ PasswordWarning

\* A new domain joins the list in the form (submitNewRestrictedDomain), the
\* dropdown takes domains out of it.
EditDomains == Fields({"EmailDomainWhitelist"})
SubmitEmailDomainWhitelist == Saves(<<Listed("EmailDomainWhitelist")>>)
Domains ==
  /\ System("Domains")
  /\ \/ Clicks({"EmailDomainRestrictionEnabled"})
     \/ EditDomains
     \/ SubmitEmailDomainWhitelist

SubmitSMTP == Saves(<<Changed("SMTPServer"), Changed("SMTPAccount"), Changed("SMTPFrom"),
                      Filled("SMTPPort"), Filled("SMTPToken")>>)
SMTP ==
  \/ System("SMTP") /\ (Fields(Keys) \/ SubmitSMTP)
  \/ System("Domains") /\ Fields({"SMTPToken"})

SubmitGitHubOAuth == Saves(<<Changed("GitHubClientId"), Filled("GitHubClientSecret")>>)
GitHub == System("GitHub") /\ (Fields(Keys) \/ SubmitGitHubOAuth)

SubmitWeChat == Saves(<<Changed("WeChatServerAddress"), Changed("WeChatAccountQRCodeImageURL"),
                        Filled("WeChatServerToken")>>)
WeChat == System("WeChat") /\ (Fields(Keys) \/ SubmitWeChat)

\* handleInputChange does not know these two fields: what is typed is written at
\* once, and shown when it is.  (The focus stays in the field under a spinner.)
TypeEagerly ==
  \E k \in Keys :
    /\ Typed(k)
    /\ \E v \in Typable(k) \ {inputs[k]} :
         /\ Asks(Put(issued + 1, Alone(k, v)))
         /\ Expect({k}, v)
    /\ loading' = TRUE
    /\ Acts
    /\ UNCHANGED <<inputs, obj, origin, domains, warning, confirmed>>
SubmitMessagePusher == Saves(<<Changed("MessagePusherAddress"), Filled("MessagePusherToken")>>)
Pusher == System("Pusher") /\ (TypeEagerly \/ SubmitMessagePusher)

SubmitTurnstile == Saves(<<Changed("TurnstileSiteKey"), Filled("TurnstileSecretKey")>>)
Turnstile == System("Turnstile") /\ (Fields(Keys) \/ SubmitTurnstile)

(***************************************************************************)
(* OperationSetting                                                        *)
(***************************************************************************)
GetOperationOptions == page = "air/operation" /\ LoadEnds
UpdateOperation == page = "air/operation" /\ UpdateEnds

\* submitConfig, its argument being the section
SubmitConfig ==
  \/ section = "Monitor" /\ Saves(<<Changed("ChannelDisableThreshold"),
                                    Changed("QuotaRemindThreshold")>>)
  \/ section = "Ratio" /\ Saves(<<Json("ModelRatio"), Json("GroupRatio"), Json("CompletionRatio")>>)
  \/ section = "Quota" /\ Saves(<<Changed("QuotaForNewUser"), Changed("QuotaForInvitee"),
                                  Changed("QuotaForInviter"), Changed("PreConsumedQuota")>>)
  \/ section = "Basics" /\ Saves(<<Changed("TopUpLink"), Changed("ChatLink"),
                                   Changed("QuotaPerUnit"), Changed("RetryTimes")>>)

Basics ==
  Operation("Basics") /\ (Fields(Keys \ Switches) \/ Clicks(Keys \cap Switches) \/ SubmitConfig)
Logs == Operation("Logs") /\ Clicks(Keys)
Monitor ==
  Operation("Monitor") /\ (Fields(Keys \ Switches) \/ Clicks(Keys \cap Switches) \/ SubmitConfig)
Quota == Operation("Quota") /\ (Fields(Keys) \/ SubmitConfig)
Ratio == Operation("Ratio") /\ (Fields(Keys) \/ SubmitConfig)

(***************************************************************************)
(* OtherSetting                                                            *)
(***************************************************************************)
GetOtherOptions == page = "air/other" /\ LoadEnds
UpdateOther == page = "air/other" /\ UpdateEnds

\* Every text has a button of its own that writes it.
SubmitOther == \E k \in Keys : Saves(<<Always(k)>>)
Other == page = "air/other" /\ (Fields(Keys) \/ SubmitOther)

AirUser ==
  \/ General \/ LoginSwitches \/ LoginWarning \/ Domains \/ SMTP \/ GitHub
  \/ WeChat \/ Pusher \/ Turnstile
  \/ Basics \/ Logs \/ Monitor \/ Quota \/ Ratio
  \/ Other
AirGoesOn ==
  \/ GetSystemOptions \/ UpdateSystem
  \/ GetOperationOptions \/ UpdateOperation
  \/ GetOtherOptions \/ UpdateOther
=============================================================================
