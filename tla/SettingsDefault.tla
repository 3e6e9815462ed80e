--------------------------- MODULE SettingsDefault ---------------------------
(***************************************************************************)
(* The settings pages of the default theme: SystemSetting, OperationSetting*)
(* and OtherSetting.  The fields, the switches and the button of a section *)
(* are one action; what its button writes is named after its handler.      *)
(***************************************************************************)
EXTENDS WebSetting

System(s) == At("default/system", s)
Operation(s) == At("default/operation", s)

(***************************************************************************)
(* SystemSetting                                                           *)
(***************************************************************************)
GetSystemOptions == page = "default/system" /\ LoadEnds
UpdateSystem == page = "default/system" /\ UpdateEnds

SubmitServerAddress == Saves(<<Always("ServerAddress")>>)
General == System("General") /\ (Fields(Keys) \/ SubmitServerAddress)

LoginSwitches == System("Login") /\ Clicks(Keys \ {"OidcEnabled"})
LoginWarning == page = "default/system" /\ PasswordWarning

\* The dropdown of domains keeps a list of its own, the button looks at the one
\* in the form.
EditDropdown ==
  /\ ~loading
  /\ Typed("EmailDomainWhitelist")
  /\ \E v \in Typable("EmailDomainWhitelist") \ {domains} :
       domains' = v /\ Expect({"EmailDomainWhitelist"}, v)
  /\ Acts
  /\ UNCHANGED <<inputs, obj, origin, warning, loading, wire, confirmed>>
SubmitEmailDomainWhitelist == Saves(<<Listed("EmailDomainWhitelist")>>)
Domains ==
  /\ System("Domains")
  /\ \/ Clicks({"EmailDomainRestrictionEnabled"})
     \/ EditDropdown
     \/ SubmitEmailDomainWhitelist

SubmitSMTP == Saves(<<Changed("SMTPServer"), Changed("SMTPAccount"), Changed("SMTPFrom"),
                      Filled("SMTPPort"), Filled("SMTPToken")>>)
SMTP ==
  \/ System("SMTP") /\ (Fields(Keys) \/ SubmitSMTP)
  \/ System("Domains") /\ Fields({"SMTPToken"})

SubmitGitHubOAuth == Saves(<<Changed("GitHubClientId"), Filled("GitHubClientSecret")>>)
GitHub == System("GitHub") /\ (Fields(Keys) \/ SubmitGitHubOAuth)

SubmitLarkOAuth == Saves(<<Changed("LarkClientId"), Filled("LarkClientSecret")>>)
Lark == System("Lark") /\ (Fields(Keys) \/ SubmitLarkOAuth)

SubmitWeChat == Saves(<<Changed("WeChatServerAddress"), Changed("WeChatAccountQRCodeImageURL"),
                        Filled("WeChatServerToken")>>)
WeChat == System("WeChat") /\ (Fields(Keys) \/ SubmitWeChat)

SubmitTurnstile == Saves(<<Changed("TurnstileSiteKey"), Filled("TurnstileSecretKey")>>)
Turnstile == System("Turnstile") /\ (Fields(Keys) \/ SubmitTurnstile)

(***************************************************************************)
(* OperationSetting                                                        *)
(***************************************************************************)
GetOperationOptions == page = "default/operation" /\ LoadEnds
UpdateOperation == page = "default/operation" /\ UpdateEnds

\* submitConfig, its argument being the section
SubmitConfig ==
  \/ section = "Monitor" /\ Saves(<<Changed("ChannelDisableThreshold"),
                                    Changed("QuotaRemindThreshold")>>)
  \/ section = "Quota" /\ Saves(<<Changed("QuotaForNewUser"), Changed("PreConsumedQuota")>>)
  \/ section = "Basics" /\ Saves(<<Changed("TopUpLink"), Changed("ChatLink"),
                                   Changed("QuotaPerUnit"), Changed("RetryTimes")>>)

Quota ==
  Operation("Quota") /\ (Fields({"QuotaForNewUser", "PreConsumedQuota"}) \/ SubmitConfig)
Logs == Operation("Logs") /\ Clicks(Keys)
Monitor ==
  Operation("Monitor") /\ (Fields(Keys \ Switches) \/ Clicks(Keys \cap Switches) \/ SubmitConfig)
Basics ==
  Operation("Basics") /\ (Fields(Keys \ Switches) \/ Clicks(Keys \cap Switches) \/ SubmitConfig)

(***************************************************************************)
(* OtherSetting                                                            *)
(***************************************************************************)
GetOtherOptions == page = "default/other" /\ LoadEnds
UpdateOther == page = "default/other" /\ UpdateEnds

\* Every text has a button of its own that writes it.
SubmitOther == \E k \in Keys : Saves(<<Always(k)>>)
Other == page = "default/other" /\ (Fields(Keys) \/ SubmitOther)

DefaultUser ==
  \/ General \/ LoginSwitches \/ LoginWarning \/ Domains \/ SMTP \/ GitHub \/ Lark
  \/ WeChat \/ Turnstile
  \/ Quota \/ Logs \/ Monitor \/ Basics
  \/ Other
DefaultGoesOn ==
  \/ GetSystemOptions \/ UpdateSystem
  \/ GetOperationOptions \/ UpdateOperation
  \/ GetOtherOptions \/ UpdateOther
=============================================================================
