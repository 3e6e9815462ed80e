------------------------------ MODULE FormsAir ------------------------------
(***************************************************************************)
(* The editors of web/air/src/pages: side sheets of the tables, which stay *)
(* mounted when they are closed.  What a sheet is open on is a property    *)
(* that its table sets; an effect loads the record when it changes.  The   *)
(* spinner covers the fields but not the buttons.                          *)
(***************************************************************************)
EXTENDS WebForm

\* The table opens the sheet on a record; the record is loaded.
LoadsOn(id) ==
  /\ spin' = TRUE
  /\ Sends("load", id, Blank)
  /\ UNCHANGED inputs
Shows(v) ==
  /\ inputs' = v
  /\ UNCHANGED <<spin, wire>>

\* The table closes the sheet.
Close ==
  /\ open
  /\ open' = FALSE
  /\ UserActs
  /\ UNCHANGED <<sess, initial, busy, failed, stale>>

\* Slip: the spinner is left on.
LoadEndsSpinning ==
  \E r \in Answers({"load"}) :
    /\ inputs' = IF r.ans.ok = "ok" THEN Loaded(r) ELSE inputs
    /\ Received(r)
    /\ Goes
    /\ UNCHANGED <<open, sess, target, mode, initial, spin, busy, timers, failed>>
LoadEnds ==
  \E r \in Answers({"load"}) :
    /\ inputs' = IF r.ans.ok = "ok" THEN Loaded(r) ELSE inputs
    /\ spin' = IF r.ans.ok = "lost" THEN spin ELSE FALSE
    /\ Received(r)
    /\ Goes
    /\ UNCHANGED <<open, sess, target, mode, initial, busy, timers, failed>>

\* submit sends the values, by a copy.
Submits(id) == open /\ Save(id, inputs) /\ UNCHANGED <<inputs, busy>>

(***************************************************************************)
(* EditChannel                                                             *)
(***************************************************************************)
AirChannel == form = "air/channel"

\* Closing leaves the property as it is, so the same channel is not loaded
\* again when it is opened again.
AirChannelOpens ==
  /\ AirChannel
  /\ \E id \in Ids \cup {New} :
       /\ Appear(id)
       /\ \/ id = target /\ Shows(inputs)
          \/ id # target /\ id = New /\ Shows(Blank)
          \/ id # target /\ id # New /\ LoadsOn(id)
  /\ UNCHANGED <<mode, initial, busy>>
AirChannelLoad == AirChannel /\ LoadEnds
AirChannelTyped == AirChannel /\ TypeFields({"text", "models", "wrong"})
\* The sheet asks for the same fields whatever the type is; some types bring
\* models of their own.
AirChannelType ==
  /\ AirChannel
  /\ \E t \in {"plain", "proxy"} \ {inputs.type} :
       LET v == [inputs EXCEPT !.type = t] IN Typing(v) \/ Typing(FillModels(v))
AirChannelKey == AirChannel /\ inputs.key = "none" /\ Typing(Write(inputs, "key"))

AirChannelMissing ==
  \/ target = New /\ (~inputs.text \/ inputs.key = "none")
  \/ inputs.models = "none"
  \/ inputs.wrong
AirChannelSubmit ==
  /\ AirChannel
  /\ \/ AirChannelMissing /\ open /\ TurnedBack(inputs, spin) /\ UNCHANGED busy
     \/ ~AirChannelMissing /\ Submits(target) /\ UNCHANGED spin
AirChannelSaved ==
  /\ AirChannel
  /\ \E r \in Answers({"put", "post"}) :
       /\ inputs' = IF r.ans.ok = "ok" /\ r.do = "post" THEN Blank ELSE inputs
       /\ open' = (open /\ r.ans.ok # "ok")
       /\ Received(r)
  /\ Goes
  /\ UNCHANGED <<sess, target, mode, initial, spin, busy, timers, failed>>
AirChannelClosed == AirChannel /\ Close /\ Shows(inputs) /\ UNCHANGED <<target, mode, timers>>

AirEditChannel ==
  \/ AirChannelOpens \/ AirChannelLoad \/ AirChannelTyped \/ AirChannelType
  \/ AirChannelKey \/ AirChannelSubmit \/ AirChannelSaved \/ AirChannelClosed

(***************************************************************************)
(* EditToken: whether it edits is a state of its own, and only its changes *)
(* load a token or clear the form; a closed sheet forgets its token 500 ms *)
(* later.                                                                  *)
(***************************************************************************)
AirToken == form = "air/token"

Editing(id) == IF id = New THEN "add" ELSE "edit"
Retargeted(id) ==
  /\ mode' = Editing(id)
  /\ \/ mode = Editing(id) /\ Shows(inputs)
     \/ mode # Editing(id) /\ id = New /\ Shows(Blank)
     \/ mode # Editing(id) /\ id # New /\ LoadsOn(id)
AirTokenOpens ==
  /\ AirToken
  /\ \E id \in Ids \cup {New} : Appear(id) /\ Retargeted(id)
  /\ UNCHANGED <<initial, busy>>
AirTokenLoad == AirToken /\ LoadEnds
AirTokenTyped == AirToken /\ TypeFields({"text", "wrong"})

\* A wrong date: editing turns back, adding clears the form as well.
AirTokenSubmit ==
  /\ AirToken
  /\ \/ /\ inputs.wrong /\ open
        /\ TurnedBack(IF mode = "edit" THEN inputs ELSE Blank, FALSE)
        /\ UNCHANGED busy
     \/ ~inputs.wrong /\ mode = "edit" /\ Submits(target) /\ spin' = TRUE
     \/ /\ ~inputs.wrong /\ mode = "add" /\ open
        /\ \E more \in 0 .. TokenCount - 1 : SaveBy("post", more, inputs)
        /\ spin' = TRUE
        /\ UNCHANGED <<inputs, busy>>

ResetLater(n) == timers' = timers \cup {[do |-> "reset", n |-> n]}
\* After the last answer the form is cleared, and closed if anything was saved.
AirTokenFinishes(r, saved) ==
  /\ spin' = FALSE
  /\ inputs' = Blank
  /\ IF saved THEN open' = FALSE /\ ResetLater(r.n) ELSE UNCHANGED <<open, timers>>
  /\ Received(r)
AirTokenSaved ==
  /\ AirToken
  /\ \E r \in Answers({"put", "post"}) :
       \/ /\ r.ans.ok = "lost"
          /\ Received(r)
          /\ UNCHANGED <<open, inputs, spin, timers>>
       \/ /\ r.ans.ok # "lost" /\ (r.do = "put" \/ r.id = 0 \/ r.ans.ok = "refused")
          /\ AirTokenFinishes(r, r.ans.ok = "ok" \/ \E m \in made : m.click = r.click)
       \/ /\ r.ans.ok = "ok" /\ r.do = "post" /\ r.id > 0
          /\ SendNext(r, "post", r.id - 1)
          /\ UNCHANGED <<open, inputs, spin, timers>>
  /\ Goes
  /\ UNCHANGED <<sess, target, mode, initial, busy, failed>>
AirTokenReset ==
  /\ AirToken
  /\ \E t \in timers : t.do = "reset" /\ timers' = timers \ {t}
  /\ target' = New
  /\ mode' = "add"
  /\ Shows(IF mode = "add" THEN inputs ELSE Blank)
  /\ Goes
  /\ UNCHANGED <<open, sess, initial, busy, failed>>
AirTokenClosed ==
  AirToken /\ Close /\ ResetLater(-sess) /\ Shows(inputs) /\ UNCHANGED <<target, mode>>

AirEditToken ==
  \/ AirTokenOpens \/ AirTokenLoad \/ AirTokenTyped \/ AirTokenSubmit
  \/ AirTokenSaved \/ AirTokenReset \/ AirTokenClosed

(***************************************************************************)
(* EditUser: without a user it loads the administrator's own account, when *)
(* the table appears and whenever the sheet is closed.                     *)
(***************************************************************************)
AirUser == form = "air/user"

AirUserOpens ==
  /\ AirUser
  /\ \E id \in Ids : Appear(id) /\ LoadsOn(id)
  /\ UNCHANGED <<mode, initial, busy>>
AirUserLoad == AirUser /\ LoadEnds
AirUserTyped == AirUser /\ TypeFields({"text"})
AirUserSubmit == AirUser /\ Submits(target) /\ spin' = TRUE
AirUserSaved ==
  /\ AirUser
  /\ \E r \in Answers({"put"}) :
       \/ /\ r.ans.ok = "ok"
          /\ open' = FALSE
          /\ target' = New
          /\ IF target = New THEN Received(r) /\ spin' = FALSE
             ELSE SendNext(r, "load", Self) /\ spin' = TRUE
       \/ r.ans.ok = "refused" /\ Received(r) /\ spin' = FALSE /\ UNCHANGED <<open, target>>
       \/ r.ans.ok = "lost" /\ Received(r) /\ UNCHANGED <<open, target, spin>>
  /\ Goes
  /\ UNCHANGED <<sess, mode, initial, inputs, busy, timers, failed>>
AirUserClosed ==
  /\ AirUser /\ Close
  /\ target' = New
  /\ LoadsOn(Self)
  /\ UNCHANGED <<mode, timers>>

AirEditUser == AirUserOpens \/ AirUserLoad \/ AirUserTyped \/ AirUserSubmit
               \/ AirUserSaved \/ AirUserClosed

(***************************************************************************)
(* AddUser: the spinner is put on before submit looks for a name.          *)
(***************************************************************************)
AirAddUser == form = "air/adduser"

AirAddUserOpens ==
  AirAddUser /\ Appear(New) /\ Shows(inputs) /\ UNCHANGED <<mode, initial, busy>>
AirAddUserTyped == AirAddUser /\ TypeFields({"text"})
AirAddUserSubmit ==
  /\ AirAddUser
  /\ \/ ~inputs.text /\ open /\ TurnedBack(inputs, TRUE) /\ UNCHANGED busy
     \/ inputs.text /\ Submits(New) /\ spin' = TRUE
AirAddUserSaved ==
  /\ AirAddUser
  /\ \E r \in Answers({"post"}) :
       /\ inputs' = IF r.ans.ok = "ok" THEN Blank ELSE inputs
       /\ open' = (open /\ r.ans.ok # "ok")
       /\ spin' = IF r.ans.ok = "lost" THEN spin ELSE FALSE
       /\ Received(r)
  /\ Goes
  /\ UNCHANGED <<sess, target, mode, initial, busy, timers, failed>>
AirAddUserClosed ==
  AirAddUser /\ Close /\ Shows(inputs) /\ UNCHANGED <<target, mode, timers>>

AirAdd == AirAddUserOpens \/ AirAddUserTyped \/ AirAddUserSubmit \/ AirAddUserSaved
          \/ AirAddUserClosed

AirStep == AirEditChannel \/ AirEditToken \/ AirEditUser \/ AirAdd
AirGoesOn ==
  \/ AirChannelLoad \/ AirChannelSaved \/ AirTokenLoad \/ AirTokenSaved \/ AirTokenReset
  \/ AirUserLoad \/ AirUserSaved \/ AirAddUserSaved
=============================================================================
