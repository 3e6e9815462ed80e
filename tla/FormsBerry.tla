----------------------------- MODULE FormsBerry -----------------------------
(***************************************************************************)
(* The editors of web/berry/src/views: dialogs of the tables.  The values  *)
(* a form starts from stay in the component, an effect loads them when the *)
(* id changes; the form itself (Formik) appears and goes with the dialog,  *)
(* starts anew when those values change, and disables its button while a   *)
(* submission is under way.                                                *)
(***************************************************************************)
EXTENDS WebForm

Opens(ids) ==
  \E id \in ids :
    /\ Appear(id)
    /\ inputs' = initial
    /\ busy' = FALSE
    /\ IF id = New THEN SendNothing ELSE Send("load", id, Blank)
    /\ UNCHANGED <<mode, initial, spin>>

\* Slip: what was loaded is kept.
ClosedKeeps ==
  /\ open' = FALSE
  /\ target' = New
  /\ inputs' = Blank
  /\ busy' = FALSE
  /\ UNCHANGED initial
\* The table closes the dialog; the effect forgets what was loaded.
Closed ==
  /\ open' = FALSE
  /\ target' = New
  /\ initial' = IF target = New THEN initial ELSE Blank
  /\ inputs' = Blank
  /\ busy' = FALSE
Closes ==
  /\ open
  /\ Closed
  /\ UserActs
  /\ SendNothing
  /\ UNCHANGED <<sess, mode, spin, timers, failed, stale>>

LoadEnds ==
  \E r \in Answers({"load"}) :
    /\ initial' = IF r.ans.ok = "ok" THEN Loaded(r) ELSE initial
    /\ inputs' = IF open /\ initial' # initial THEN initial' ELSE inputs
    /\ Received(r)
    /\ Goes
    /\ UNCHANGED <<open, sess, target, mode, spin, busy, timers, failed>>

\* The form's check of its values stops a submission before submit runs.
Stopped == open /\ ~busy /\ TurnedBack(inputs, spin) /\ UNCHANGED busy
\* Slip: the button stays enabled.
SubmitsAgain(do, v) ==
  /\ open /\ ~busy
  /\ SaveBy(do, target, v)
  /\ inputs' = v
  /\ UNCHANGED <<spin, busy>>
Submits(do, v) ==
  /\ open /\ ~busy
  /\ SaveBy(do, target, v)
  /\ inputs' = v
  /\ busy' = TRUE
  /\ UNCHANGED spin
\* Success closes whatever dialog is open; the form of the submission, if it
\* is still there, lets its button go in any case.
SaveEnds ==
  \E r \in Answers({"put", "post"}) :
    /\ \/ r.ans.ok = "ok" /\ Closed
       \/ /\ r.ans.ok # "ok"
          /\ busy' = (busy /\ r.sess # sess)
          /\ UNCHANGED <<open, target, initial, inputs>>
    /\ Received(r)
    /\ Goes
    /\ UNCHANGED <<sess, mode, spin, timers, failed>>

(***************************************************************************)
(* Channel/component/EditModal                                             *)
(***************************************************************************)
BerryChannel == form = "berry/channel"

BerryChannelOpens == BerryChannel /\ Opens(Ids \cup {New})
BerryChannelLoad == BerryChannel /\ LoadEnds
BerryChannelTyped == BerryChannel /\ TypeFields({"text", "models", "wrong"})
\* A new type empties the config.
BerryChannelType ==
  /\ BerryChannel
  /\ \E t \in Types \ {inputs.type} :
       Typing(FillModels([inputs EXCEPT !.type = t, !.config = {}]))
BerryChannelConfig == BerryChannel /\ TypeFields({"config"})
BerryChannelKey == BerryChannel /\ TypeFields({"key"})

BerryMadeOfConfig(v) ==
  [v EXCEPT !.key = IF @ # "none" THEN @
                    ELSE IF "aws" \in v.config THEN "aws"
                    ELSE IF "vertex" \in v.config THEN "vertex"
                    ELSE @]
BerryChannelMissing ==
  \/ inputs.of = New /\ ~inputs.text
  \/ inputs.of = New /\ inputs.key = "none" /\ inputs.type # "aws"
  \/ inputs.models = "none"
  \/ inputs.wrong
BerryChannelSubmit ==
  /\ BerryChannel
  /\ \/ BerryChannelMissing /\ Stopped
     \/ ~BerryChannelMissing /\ Submits(IF target = New THEN "post" ELSE "put",
                                        BerryMadeOfConfig(inputs))
BerryChannelSaved == BerryChannel /\ SaveEnds
BerryChannelClosed == BerryChannel /\ Closes

BerryEditChannel ==
  \/ BerryChannelOpens \/ BerryChannelLoad \/ BerryChannelTyped \/ BerryChannelType
  \/ BerryChannelConfig \/ BerryChannelKey \/ BerryChannelSubmit \/ BerryChannelSaved
  \/ BerryChannelClosed

(***************************************************************************)
(* Token/component/EditModal, User/component/EditModal: whether a record is*)
(* edited is decided by the values, not by the dialog.                     *)
(***************************************************************************)
DecidedByValues == IF inputs.of = New THEN "post" ELSE "put"

BerryToken == form = "berry/token"

BerryTokenOpens == BerryToken /\ Opens(Ids \cup {New})
BerryTokenLoad == BerryToken /\ LoadEnds
BerryTokenTyped == BerryToken /\ TypeFields({"text", "models", "wrong"})
BerryTokenMissing ==
  (inputs.of = New /\ ~inputs.text) \/ inputs.wrong
BerryTokenSubmit ==
  /\ BerryToken
  /\ \/ BerryTokenMissing /\ Stopped
     \/ ~BerryTokenMissing /\ Submits(DecidedByValues, inputs)
BerryTokenSaved == BerryToken /\ SaveEnds
BerryTokenClosed == BerryToken /\ Closes

BerryEditToken ==
  \/ BerryTokenOpens \/ BerryTokenLoad \/ BerryTokenTyped \/ BerryTokenSubmit
  \/ BerryTokenSaved \/ BerryTokenClosed

BerryUser == form = "berry/user"

BerryUserOpens == BerryUser /\ Opens(Ids \cup {New})
BerryUserLoad == BerryUser /\ LoadEnds
BerryUserTyped == BerryUser /\ TypeFields({"text"})
BerryUserSubmit ==
  /\ BerryUser
  /\ \/ inputs.of = New /\ ~inputs.text /\ Stopped
     \/ (inputs.of # New \/ inputs.text) /\ Submits(DecidedByValues, inputs)
BerryUserSaved == BerryUser /\ SaveEnds
BerryUserClosed == BerryUser /\ Closes

BerryEditUser ==
  \/ BerryUserOpens \/ BerryUserLoad \/ BerryUserTyped \/ BerryUserSubmit
  \/ BerryUserSaved \/ BerryUserClosed

BerryStep == BerryEditChannel \/ BerryEditToken \/ BerryEditUser
BerryGoesOn ==
  \/ BerryChannelLoad \/ BerryChannelSaved \/ BerryTokenLoad \/ BerryTokenSaved
  \/ BerryUserLoad \/ BerryUserSaved
=============================================================================
