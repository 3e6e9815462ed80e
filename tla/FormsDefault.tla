---------------------------- MODULE FormsDefault ----------------------------
(***************************************************************************)
(* The editors of web/default/src/pages: they are pages of their own, so a *)
(* form is mounted when it is opened and forgotten when it is left, and no *)
(* field or button of it works while its spinner is on.                    *)
(***************************************************************************)
EXTENDS WebForm

MaxScale == 1    \* a bound: quotas are not multiplied further

Mounted(r) == open /\ r.sess = sess

\* Slip: the form can be used while its record is loaded.
MountOpen(id, loads) ==
  /\ Appear(id)
  /\ inputs' = Blank
  /\ spin' = FALSE
  /\ IF loads THEN Send("load", id, Blank) ELSE SendNothing
  /\ UNCHANGED <<mode, initial, busy>>
Mount(id, loads) ==
  /\ Appear(id)
  /\ inputs' = Blank
  /\ spin' = loads
  /\ IF loads THEN Send("load", id, Blank) ELSE SendNothing
  /\ UNCHANGED <<mode, initial, busy>>
\* The page goes; answers to its loads mean nothing any more.
Unmount ==
  /\ open' = FALSE
  /\ target' = New
  /\ inputs' = Blank
  /\ spin' = FALSE
  /\ mode' = "add"
  /\ UNCHANGED <<sess, initial, busy>>
Leave ==
  /\ open
  /\ Unmount
  /\ net' = {r \in net : r.do \in {"put", "post"}}
  /\ UserActs
  /\ UNCHANGED <<issued, timers, failed, stale>>

\* The handler of a load that got no answer dies before it takes the spinner
\* away, unless it catches the error.
LoadEnds(catches) ==
  \E r \in Answers({"load"}) :
    /\ inputs' = IF r.ans.ok = "ok" THEN Loaded(r) ELSE inputs
    /\ spin' = (r.ans.ok = "lost" /\ ~catches)
    /\ Received(r)
    /\ Goes
    /\ UNCHANGED <<open, sess, target, mode, initial, busy, timers, failed>>

\* The answer to a submission; success shows the list after 800 ms, whichever
\* page is open then.
SaveEnds(clears) ==
  \E r \in Answers({"put", "post"}) :
    /\ timers' = IF r.ans.ok = "ok" THEN timers \cup {[do |-> "leave", n |-> r.n]} ELSE timers
    /\ inputs' = IF r.ans.ok = "ok" /\ r.do = "post" /\ Mounted(r) /\ clears THEN Blank ELSE inputs
    /\ Received(r)
    /\ Goes
    /\ UNCHANGED <<open, sess, target, mode, initial, spin, busy, failed>>
LeaveTimer ==
  \E t \in timers :
    /\ t.do = "leave"
    /\ timers' = timers \ {t}
    /\ Unmount
    /\ net' = {r \in net : r.do \in {"put", "post"}}
    /\ Goes
    /\ UNCHANGED <<issued, failed>>

(***************************************************************************)
(* EditChannel: submit writes the key that it makes of the config into the *)
(* form's own values, before it looks whether anything is missing.         *)
(***************************************************************************)
DefaultChannel == form = "default/channel"

ChannelOpens == DefaultChannel /\ \E id \in Ids \cup {New} : Mount(id, id # New)
LoadChannel == DefaultChannel /\ LoadEnds(FALSE)
ChannelTyped == DefaultChannel /\ TypeFields({"text", "wrong"})
ChannelType ==
  /\ DefaultChannel
  /\ \E t \in Types \ {inputs.type} : Typing(FillModels([inputs EXCEPT !.type = t]))
ChannelModels == DefaultChannel /\ inputs.type # "proxy" /\ TypeFields({"models"})
ChannelConfig == DefaultChannel /\ TypeFields({"config"})
ChannelKey == DefaultChannel /\ TypeFields({"key"})

\* The AWS values are looked at first, whatever the type is.
MadeOfConfig(v) ==
  [v EXCEPT !.key = IF @ # "none" THEN @
                    ELSE IF "aws" \in v.config THEN "aws"
                    ELSE IF "vertex" \in v.config THEN "vertex"
                    ELSE @]
ChannelMissing(v) ==
  \/ target = New /\ (~v.text \/ v.key = "none")
  \/ v.type # "proxy" /\ v.models = "none"
  \/ v.wrong
SubmitChannel ==
  /\ DefaultChannel
  /\ open /\ ~spin
  /\ LET v == MadeOfConfig(inputs)
     IN  \/ ChannelMissing(v) /\ TurnedBack(v, spin)
         \/ ~ChannelMissing(v) /\ Save(target, v) /\ inputs' = v /\ UNCHANGED spin
  /\ UNCHANGED busy
ChannelSaved == DefaultChannel /\ (SaveEnds(TRUE) \/ LeaveTimer)
ChannelLeft == DefaultChannel /\ Leave

EditChannel ==
  \/ ChannelOpens \/ LoadChannel \/ ChannelTyped \/ ChannelType \/ ChannelModels
  \/ ChannelConfig \/ ChannelKey \/ SubmitChannel \/ ChannelSaved \/ ChannelLeft

(***************************************************************************)
(* EditToken: submit converts the quota, the date and the models in the    *)
(* form's own values.  Converted models cannot be joined again, so a second*)
(* click dies; models that are chosen again can.                           *)
(***************************************************************************)
DefaultToken == form = "default/token"

TokenOpens == DefaultToken /\ \E id \in Ids \cup {New} : Mount(id, id # New)
LoadToken == DefaultToken /\ LoadEnds(TRUE)
TokenTyped == DefaultToken /\ TypeFields({"text", "models", "wrong"})
\* A group is chosen, and always one from then on: its models are asked for and
\* replace the ones chosen, though there may be none, and none in a refusal.
TokenGroup ==
  /\ DefaultToken
  /\ open /\ ~spin
  /\ mode' = "group"
  /\ sess' = sess
  /\ Send("group", target, Blank)
  /\ UserActs
  /\ UNCHANGED <<open, target, initial, inputs, spin, busy, timers, failed, stale>>
GroupModels ==
  /\ DefaultToken
  /\ \E r \in Answers({"group"}) :
       /\ \/ r.ans.ok = "lost" /\ UNCHANGED inputs
          \/ r.ans.ok # "lost" /\ inputs' = [inputs EXCEPT !.models = "none"]
          \/ r.ans.ok = "ok" /\ inputs' = [inputs EXCEPT !.models = "list"]
       /\ Received(r)
  /\ Goes
  /\ UNCHANGED <<open, sess, target, mode, initial, spin, busy, timers, failed>>

TokenMissing(v) ==
  /\ target = New
  /\ ~v.text \/ (v.models = "none" /\ mode # "group")
\* Slip: the quota is sent as it is shown.
ConvertedNot(v) == v
Converted(v) == [v EXCEPT !.scale = IF @ = MaxScale THEN @ ELSE @ + 1]
Joined(v) == [v EXCEPT !.models = "text"]
SubmitToken ==
  /\ DefaultToken
  /\ open /\ ~spin
  /\ LET v == Converted(inputs)
     IN  \/ TokenMissing(inputs) /\ TurnedBack(inputs, spin)
         \/ ~TokenMissing(inputs) /\ (v.wrong \/ v.models = "text") /\ TurnedBack(v, spin)
         \/ /\ ~TokenMissing(inputs) /\ ~v.wrong /\ v.models # "text"
            /\ Save(target, v)
            /\ inputs' = Joined(v)
            /\ UNCHANGED spin
  /\ UNCHANGED busy
TokenSaved == DefaultToken /\ (SaveEnds(TRUE) \/ LeaveTimer)
TokenLeft == DefaultToken /\ Leave

EditToken ==
  \/ TokenOpens \/ LoadToken \/ TokenTyped \/ TokenGroup \/ GroupModels
  \/ SubmitToken \/ TokenSaved \/ TokenLeft

(***************************************************************************)
(* EditUser, AddUser: submit converts a copy.                              *)
(***************************************************************************)
DefaultUser == form = "default/user"

UserOpens == DefaultUser /\ \E id \in Ids : Mount(id, TRUE)
LoadUser == DefaultUser /\ LoadEnds(FALSE)
UserTyped == DefaultUser /\ TypeFields({"text"})
SubmitUser ==
  /\ DefaultUser
  /\ open /\ ~spin
  /\ Save(target, Converted(inputs))
  /\ UNCHANGED <<inputs, spin, busy>>
UserSaved ==
  /\ DefaultUser
  /\ \E r \in Answers({"put"}) : Received(r)
  /\ Goes
  /\ UNCHANGED <<editor, timers, failed>>
UserLeft == DefaultUser /\ Leave

EditUser == UserOpens \/ LoadUser \/ UserTyped \/ SubmitUser \/ UserSaved \/ UserLeft

DefaultAddUser == form = "default/adduser"

AddUserOpens == DefaultAddUser /\ Mount(New, FALSE)
AddUserTyped == DefaultAddUser /\ TypeFields({"text"})
AddUserSubmit ==
  /\ DefaultAddUser
  /\ open
  /\ \/ ~inputs.text /\ TurnedBack(inputs, spin)
     \/ inputs.text /\ Save(New, Converted(inputs)) /\ UNCHANGED <<inputs, spin>>
  /\ UNCHANGED busy
\* Success shows the list of the users at once.
AddUserSaved ==
  /\ DefaultAddUser
  /\ \E r \in Answers({"post"}) :
       /\ Received(r)
       /\ IF r.ans.ok = "ok" THEN Unmount ELSE UNCHANGED editor
  /\ Goes
  /\ UNCHANGED <<timers, failed>>
AddUserLeft == DefaultAddUser /\ Leave

AddUser ==
  AddUserOpens \/ AddUserTyped \/ AddUserSubmit \/ AddUserSaved \/ AddUserLeft

DefaultStep == EditChannel \/ EditToken \/ EditUser \/ AddUser
DefaultGoesOn ==
  \/ LoadChannel \/ ChannelSaved \/ LoadToken \/ GroupModels \/ TokenSaved
  \/ LoadUser \/ UserSaved \/ AddUserSaved
=============================================================================
