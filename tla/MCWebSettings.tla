---------------------------- MODULE MCWebSettings ----------------------------
(* Every section of every page, with one or two options of each kind. *)
EXTENDS WebSettings

MCOptions ==
  {"ServerAddress", "PasswordLoginEnabled", "GitHubOAuthEnabled", "OidcEnabled",
   "EmailDomainRestrictionEnabled", "EmailDomainWhitelist", "SMTPToken", "SMTPServer", "SMTPPort",
   "GitHubClientId", "GitHubClientSecret", "LarkClientId", "LarkClientSecret",
   "OidcWellKnown", "OidcTokenEndpoint",
   "WeChatServerAddress", "WeChatServerToken", "MessagePusherAddress", "MessagePusherToken",
   "TurnstileSiteKey", "TurnstileSecretKey", "QuotaForNewUser", "PreConsumedQuota",
   "LogConsumeEnabled", "QuotaRemindThreshold", "AutomaticDisableChannelEnabled",
   "QuotaPerUnit", "DisplayInCurrencyEnabled", "ModelRatio", "GroupRatio",
   "Notice", "Theme"}
=============================================================================
