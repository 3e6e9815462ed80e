---------------------------- MODULE AccountPages ----------------------------
(***************************************************************************)
(* The pages of the three themes that ask for codes and links by mail and  *)
(* use them, in front of Accounts: the request for a reset link ("mail"),  *)
(* the page such a link opens ("confirm"), registration ("register") and   *)
(* the binding of an address in the personal settings ("bind").            *)
(*                                                                         *)
(* One page is open, or none; others make requests meanwhile.  A page's    *)
(* request is a handler whose answer waits for the page ("done"), or does  *)
(* not arrive ("lost").                                                    *)
(***************************************************************************)
EXTENDS Accounts

CONSTANTS
    Pages,     \* the pages, as <<theme, kind>>, and <<"", "none">>
    Self,      \* the user who has the page open, or registers with it
    Address,   \* the address that is typed
    MaxBeside, \* bound: requests of the page and of others, and the relay's beside them
    MaxHasty   \* bound: clicks while an answer is under way

ASSUME PageAssumption == Self \in Users /\ Address \in Emails

VARIABLES
    page,      \* the open page
    turnstile, \* is Turnstile enabled?  (It has checked the browser by then.)
    disabled,  \* disableButton: the countdown runs
    loading,   \* loading, or isSubmitting
    typed,     \* is there an address in the field?
    link,      \* the mail whose link opened the page
    told,      \* what the page has told: a password that was set, or "done"
    hasty      \* (history, bounded by MaxHasty)

pageVars == <<page, turnstile, disabled, loading, typed, link, told, hasty>>
allVars  == <<vars, pageVars>>

Theme  == page[1]
Kind   == page[2]
Open   == Kind # "none"
NoLink == [purpose |-> Reset_, email |-> "", code |-> 0]

PageInit ==
    /\ Init
    /\ page \in Pages
    /\ turnstile \in IF page = <<"berry", "bind">> THEN BOOLEAN ELSE {TRUE}
    /\ disabled = FALSE /\ loading = FALSE /\ typed = FALSE
    /\ link = NoLink /\ told = 0 /\ hasty = 0

-----------------------------------------------------------------------------
(* The browser's side of a click                                            *)
Under == {h \in Handlers : pc[h] # "idle" /\ (job[h].by = "page" \/ pc[h] = "lost")}
Clicks == /\ IF Under = {} THEN UNCHANGED hasty ELSE hasty < MaxHasty /\ hasty' = hasty + 1
          /\ UNCHANGED <<page, turnstile, typed, link, told>>
Counts(on)  == disabled' = (disabled \/ on)
Spins(on)   == loading' = (loading \/ on)
ServerStill == UNCHANGED vars

Retypes ==
    /\ Open /\ Kind # "confirm" /\ ~typed
    /\ typed' = TRUE
    /\ UNCHANGED <<vars, page, turnstile, disabled, loading, link, told, hasty>>
CountdownEnds ==
    /\ disabled /\ disabled' = FALSE
    /\ UNCHANGED <<vars, page, turnstile, loading, typed, link, told, hasty>>

-----------------------------------------------------------------------------
(* "mail": default and air disable the button first, without regard to the  *)
(* field; berry's form is validated before.                                 *)
AsksForLink(h) ==
    /\ ~disabled /\ Clicks /\ Counts(TRUE) /\ Spins(typed)
    /\ IF typed THEN SendPasswordResetEmail(h, "page", Address) ELSE ServerStill
DefaultPasswordResetForm(h) == page = <<"default", "mail">> /\ AsksForLink(h)
AirPasswordResetForm(h)     == page = <<"air", "mail">> /\ AsksForLink(h)
ForgetPasswordForm(h) ==
    page = <<"berry", "mail">> /\ ~loading /\ typed /\ told = 0 /\ AsksForLink(h)

(* "confirm": the link of a mail opens the page; default and air disable    *)
(* the button, berry replaces it once there is a password.                  *)
Follows(m) ==
    /\ Open /\ Kind = "confirm" /\ link = NoLink
    /\ m.email = Address /\ link' = m
    /\ UNCHANGED <<vars, page, turnstile, disabled, loading, typed, told, hasty>>
Confirms(h, spins) ==
    /\ link # NoLink /\ ~disabled
    /\ Clicks /\ Counts(spins) /\ Spins(spins)
    /\ ResetPassword(h, "page", link)
DefaultPasswordResetConfirm(h) == page = <<"default", "confirm">> /\ Confirms(h, TRUE)
AirPasswordResetConfirm(h)     == page = <<"air", "confirm">> /\ Confirms(h, TRUE)
ResetPasswordForm(h) ==
    page = <<"berry", "confirm">> /\ told = 0 /\ Confirms(h, FALSE)

(* "register", "bind": the button beside the address asks for a code, if    *)
(* the handler gets that far; some count down before that, and some after.  *)
AsksForCode(h, counts, asks, spins) ==
    /\ Clicks /\ Counts(counts) /\ Spins(spins)
    /\ IF asks THEN SendEmailVerification(h, "page", Address) ELSE ServerStill
DefaultRegisterCode(h) ==
    page = <<"default", "register">> /\ ~loading /\ AsksForCode(h, typed, typed, typed)
AirRegisterCode(h) ==
    page = <<"air", "register">> /\ ~loading /\ AsksForCode(h, FALSE, typed, typed)
BerryRegisterCode(h) ==
    page = <<"berry", "register">> /\ AsksForCode(h, FALSE, typed, FALSE)
DefaultBindCode(h) ==
    /\ page = <<"default", "bind">> /\ ~disabled /\ ~loading
    /\ AsksForCode(h, TRUE, typed, typed)
AirBindCode(h) ==
    /\ page = <<"air", "bind">> /\ ~disabled /\ ~loading
    /\ AsksForCode(h, typed, typed, typed)
(* berry's binding wants a token of Turnstile even without Turnstile.       *)
EmailModalCode(h) ==
    /\ page = <<"berry", "bind">> /\ ~disabled /\ ~loading
    /\ AsksForCode(h, TRUE, typed /\ turnstile, typed /\ turnstile)

(* ... and another sends the code from a mail; only berry's is disabled     *)
(* meanwhile.                                                               *)
Sends(m) ==
    /\ Theme = "berry" => ~loading
    /\ told = 0 /\ typed /\ m.email = Address
    /\ Clicks /\ Counts(FALSE) /\ Spins(TRUE)
Registers(theme, h, m) ==
    page = <<theme, "register">> /\ Sends(m) /\ Register(h, "page", Self, m)
DefaultRegister(h, m) == Registers("default", h, m)
AirRegister(h, m)     == Registers("air", h, m)
BerryRegister(h, m)   == Registers("berry", h, m)
Binds(theme, h, m) ==
    page = <<theme, "bind">> /\ Sends(m) /\ EmailBind(h, "page", Self, m)
DefaultBindEmail(h, m) == Binds("default", h, m)
AirBindEmail(h, m)     == Binds("air", h, m)
EmailModalSubmit(h, m) == Binds("berry", h, m)

-----------------------------------------------------------------------------
(* An answer arrives.  A refusal gives the button back on three pages, and  *)
(* berry's registration does not spin for a code.                           *)
Frees(h) == Goto(h, "idle", NoJob) /\ UNCHANGED <<stored, history, served, debits>>
GivenBack == {<<"default", "mail">>, <<"berry", "mail">>, <<"default", "register">>}
Ends(op) == IF page = <<"berry", "register">> /\ op = "sendCode" THEN UNCHANGED loading
            ELSE loading' = FALSE
Arrives(h) ==
    LET j == job[h] IN
    /\ pc[h] = "done"
    /\ Frees(h) /\ UNCHANGED faults
    /\ disabled' = (disabled /\ ~(~j.ok /\ page \in GivenBack /\ j.op \in {"sendReset", "sendCode"}))
    /\ Ends(j.op)
    /\ typed' = (typed /\ ~(j.ok /\ j.op = "sendReset" /\ Theme # "berry"))
    /\ told' = CASE j.ok /\ j.op = "reset" -> j.password
                 [] j.ok /\ j.op \in {"bind", "register"} -> 1
                 [] j.ok /\ page = <<"berry", "mail">> -> 1
                 [] OTHER -> told
    /\ UNCHANGED <<page, turnstile, link, hasty>>

(* No answer: default and air stop in the middle, and so does berry's       *)
(* binding; the rest of berry catches the error.                            *)
GoesMissing(h) ==
    /\ \/ pc[h] = "lost" /\ UNCHANGED faults
       \/ pc[h] = "done" /\ Fault
    /\ Frees(h)
    /\ IF Theme = "berry" /\ job[h].op # "bind" THEN Ends(job[h].op) ELSE UNCHANGED loading
    /\ UNCHANGED <<page, turnstile, disabled, typed, link, told, hasty>>

PageStep ==
    \/ \E h \in Handlers :
         \/ DefaultPasswordResetForm(h) \/ AirPasswordResetForm(h) \/ ForgetPasswordForm(h)
         \/ DefaultPasswordResetConfirm(h) \/ AirPasswordResetConfirm(h) \/ ResetPasswordForm(h)
         \/ DefaultRegisterCode(h) \/ AirRegisterCode(h) \/ BerryRegisterCode(h)
         \/ DefaultBindCode(h) \/ AirBindCode(h) \/ EmailModalCode(h)
         \/ \E m \in Mailed(Verify_) :
              \/ DefaultRegister(h, m) \/ AirRegister(h, m) \/ BerryRegister(h, m)
              \/ DefaultBindEmail(h, m) \/ AirBindEmail(h, m) \/ EmailModalSubmit(h, m)
         \/ Arrives(h) \/ GoesMissing(h)
    \/ \E m \in Mailed(Reset_) : Follows(m)
    \/ Retypes \/ CountdownEnds

(* Others, while a page is open: whatever mails and uses codes, and a       *)
(* writer of whole rows.                                                    *)
BesidePage(h) ==
    \/ SendEmailVerification(h, "other", Address) \/ SendPasswordResetEmail(h, "other", Address)
    \/ \E u \in Users \ {Self}, m \in Mailed(Verify_) : EmailBind(h, "other", u, m)
    \/ ChangePassword(h, Self) \/ GenerateAccessToken(h, Self)
Others ==
    /\ \/ ~Open /\ (Elsewhere \/ \E h \in Handlers : Request(h))
       \/ Open /\ \E h \in Handlers : BesidePage(h)
       \/ Open /\ (Crash \/ \E p \in Purposes, e \in Emails : CodeExpires(p, e))
       \/ \E h \in Handlers : Step(h)
    /\ UNCHANGED pageVars

PageNext == (PageStep \/ Others) /\ served' + debits' <= MaxBeside
PageSpec == PageInit /\ [][PageNext]_allVars

\* What a page has told a patient user is so: the password it shows is the one
\* that works, for everybody who got it and has not set another since, and the
\* address it has bound or registered is the user's, unless writers of the row
\* overlapped.
ToldIsTrue ==
    (Open /\ told # 0 /\ hasty = 0) =>
      /\ Kind = "confirm" =>
           \A u \in Users \ torn : setBy[u] = "page" => row[u].password = told
      /\ Kind \in {"bind", "register"} =>
           Self \in torn \/ row[Self].email = Address
=============================================================================
