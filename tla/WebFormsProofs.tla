---------------------------- MODULE WebFormsProofs ----------------------------
(***************************************************************************)
(* What TLAPS proves of the editors, for any records, bounds and speed of  *)
(* the user: no record is written with another one's values, what is       *)
(* converted is converted once, an opened editor adds what one click asked *)
(* for, and the form shows the record it was opened on.                    *)
(***************************************************************************)
EXTENDS WebForms, TLAPS

(***************************************************************************)
(* The shape of the state                                                  *)
(***************************************************************************)
Targets == Ids \cup {New}
Saves(r) == r.do \in {"put", "post"}

\* A form, a record and a request have their fields.
IsForm(v) ==
  v = [x \in {"of", "ver", "text", "wrong", "scale", "models", "type", "config", "key"} |-> v[x]]
IsRecord(c) == c = [x \in {"of", "ver", "scale"} |-> c[x]]
IsRequest(r) == r = [x \in {"n", "click", "do", "id", "body", "sess", "ans"} |-> r[x]]

\* A request is one of the four, its load is answered with a record, and a
\* refusal or a loss is known.
Request(r) ==
  /\ IsRequest(r) /\ IsForm(r.body)
  /\ r.do \in {"load", "group", "put", "post"}
  /\ r.ans.ok \in {"none", "ok", "refused", "lost"}
  /\ r.ans.ok = "none" <=> r.ans = None
  /\ r.ans.ok \in {"refused", "lost"} => failed
  /\ r.do = "load" => r.id \in Records
  /\ r.do = "put" => r.id \in Targets
  /\ r.sess \in Nat /\ r.sess <= sess
Shape ==
  /\ hasty \in Nat /\ sess \in Nat /\ failed \in BOOLEAN
  /\ target \in Targets
  /\ IsForm(inputs) /\ IsForm(initial)
  /\ DOMAIN store = Records /\ \A id \in Records : IsRecord(store[id])
  /\ \A r \in net : Request(r)
  /\ \A m \in made : m.sess \in Nat /\ m.sess <= sess

(***************************************************************************)
(* Whatever the speed of the user                                          *)
(***************************************************************************)
\* Quotas are in the database's unit once they leave the form; the default
\* theme's token editor keeps to that for a patient user only.
Rescaled(r) ==
  /\ Saves(r) => r.body.scale = 0
  /\ r.do = "load" /\ r.ans.ok = "ok" => r.ans.cols.scale = 0
Unsaved == timers = {} /\ \A r \in net : ~Saves(r)
ScaleInv ==
  (form = "default/token" => Calm) =>
    /\ \A id \in Records : store[id].scale = 0
    /\ \A m \in made : m.cols.scale = 0
    /\ \A r \in net : Rescaled(r)
    /\ form # "default/token" \/ Unsaved => inputs.scale = FormScale
    /\ initial.scale = FormScale

\* A key that was made of a config is the one of the type.
KeyFits(r) ==
  (/\ Saves(r)
   /\ ~failed
   /\ form \in DefaultForms => hasty = 0 /\ r.body.config \subseteq {r.body.type}
   /\ r.body.key \in Special)
    => r.body.key = r.body.type
KeyInv ==
  /\ \A r \in net : KeyFits(r)
  /\ form \in AirForms \cup {"default/user"} => inputs.key \notin Special
  /\ form \in BerryForms =>
       /\ initial.key \notin Special /\ initial.config \subseteq {initial.type}
       /\ inputs.config \subseteq {inputs.type}
       /\ ~failed /\ ~busy => inputs.key \notin Special
  /\ form \in DefaultForms /\ Calm /\ Unsaved => inputs.key \notin Special

\* The forms of the default theme hold the record they are open on, or nothing.
DefaultRequest(r) ==
  /\ r.do = "load" =>
       /\ open /\ r.id = target /\ target # New
       /\ r.ans.ok = "ok" => r.ans.cols.of \in {New, r.id} /\ (~failed => r.ans.cols.of = r.id)
  /\ r.do = "put" => r.body.of \in {New, r.id} /\ (~failed => r.body.of = r.id)
  /\ r.do = "post" => r.body.of = New /\ (open /\ r.sess = sess => target = New)
DefaultInv ==
  form \in DefaultForms =>
    /\ \A r \in net : DefaultRequest(r)
    /\ inputs.of \in {New, target}
    /\ open /\ ~failed /\ ~spin => inputs.of = target
    /\ \A id \in Records : store[id].of \in {New, id} /\ (~failed => store[id].of = id)
    /\ form = "default/adduser" => target = New

\* What is added was typed into an empty form, if not the server sees to that.
AddInv ==
  /\ form # "air/token" => \A m \in made : m.cols.of = New
  /\ form \notin DefaultForms \cup ChannelForms \cup {"air/token"} =>
       \A r \in net : r.do = "post" => r.body.of = New
  /\ form = "air/user" /\ open => target # New
  /\ form = "air/adduser" => inputs.of = New /\ \A r \in net : r.do # "load"

\* A berry form is submitted once until it is answered.
BerryInv ==
  form \in BerryForms =>
    /\ \A r, q \in net : Saves(r) /\ Saves(q) /\ r.sess = q.sess => r = q
    /\ \A r \in net : Saves(r) /\ r.sess = sess /\ open => busy
    /\ \A m \in made, r \in net : Saves(r) /\ m.sess = r.sess => m.click = r.click
    /\ \A m, o \in made : m.sess = o.sess => m.click = o.click
    /\ \A m \in made : m.sess = sess /\ open =>
         \E r \in net : Saves(r) /\ r.sess = sess /\ r.ans.ok = "ok"

(***************************************************************************)
(* A user who waits                                                        *)
(***************************************************************************)
Editor(id) == IF id = New THEN "add" ELSE "edit"
AddingOnce ==
  /\ \A m, o \in made : m.sess = o.sess => m.click = o.click
  /\ \A r \in net : r.do = "post" => r.sess = sess /\ open
  /\ \A m \in made : m.sess = sess =>
       ~open \/ timers # {} \/ \E r \in net : r.do = "post" /\ r.ans.ok = "ok"
\* The sheet of air's tokens adds none: a patient user cannot choose models.
TokenSheet ==
  /\ made = {}
  /\ mode \in {"add", "edit"}
  /\ mode = "add" => inputs.of = New /\ inputs.models = "none"
  /\ open => timers = {} /\ mode = Editor(target)
  /\ ~open /\ timers = {} => net = {} /\ target = New /\ mode = "add"
  /\ \A r \in net :
       /\ r.do = "load" => mode = "edit"
       /\ r.do = "post" => r.body.models = "none" /\ r.ans.ok # "ok"
PatientInv ==
  hasty = 0 =>
    /\ \A r, q \in net : r = q
    /\ timers # {} => net = {}
    /\ form \notin BerryForms => AddingOnce
    /\ form = "air/token" => TokenSheet

\* The values in the form are those of the record.
Shown ==
  /\ inputs.of = target
  /\ target # New /\ ~stale /\ form # "air/channel" => inputs.ver = store[target].ver
Showing == open \/ form = "air/channel"
CalmRequest(r) ==
  /\ r.do = "load" =>
       /\ Showing => r.id = target
       /\ r.ans.ok = "ok" => /\ r.ans.cols.of = r.id
                             /\ open /\ ~stale => r.ans.cols.ver = store[r.id].ver
  /\ r.do = "put" =>
       /\ open /\ r.id = target /\ r.body.of = r.id
       /\ target # New /\ ~stale /\ form # "air/channel" => r.body.ver = store[target].ver
  /\ r.do = "post" => open /\ target = New
NoLoad == \A r \in net : r.do # "load"
\* A berry dialog starts from the defaults until a record is loaded.
Dialog ==
  /\ ~open => target = New /\ NoLoad
  /\ target = New \/ ~NoLoad => initial.of = New
CalmInv ==
  Calm =>
    /\ \A id \in Records : store[id].of = id
    /\ \A r \in net : CalmRequest(r)
    /\ Showing /\ NoLoad => Shown
    /\ form \in BerryForms => Dialog

Inv ==
  /\ Shape
  /\ ScaleInv /\ KeyInv /\ DefaultInv /\ AddInv /\ BerryInv
  /\ PatientInv /\ CalmInv

(***************************************************************************)
(* The steps of an editor, in words that the themes share: each says as    *)
(* much of an action as the invariants need.                               *)
(***************************************************************************)
Asked(do, id, body) == net' = net \cup {Req(do, id, body)}
Took(r) == net' = net \ {r}
Sent(r, do, id) ==
  net' = (net \ {r}) \cup {[r EXCEPT !.n = issued + 1, !.do = do, !.id = id, !.ans = None]}
Same(v) == IsForm(v) /\ v.of = inputs.of /\ v.ver = inputs.ver

\* The form appears, loads its record, is new, or is as it was left.
Kept(id) ==
  /\ net' = net /\ inputs' = inputs
  /\ \/ form = "air/channel" /\ id = target
     \/ form = "air/token" /\ mode = Editor(id)
     \/ form = "air/adduser"
Opening ==
  \E id \in Targets :
    /\ Appear(id)
    /\ inputs' \in {inputs, initial, Blank}
    /\ UNCHANGED initial
    /\ \/ id # New /\ Asked("load", id, Blank)
       \/ id = New /\ net' = net /\ (inputs' = Blank \/ form \in BerryForms)
       \/ Kept(id)
    /\ form \in DefaultForms => inputs' = Blank /\ spin' = (id # New)
    /\ form \in BerryForms => inputs' = initial /\ busy' = FALSE
    /\ form \in AirForms => inputs' \in {inputs, Blank}
    /\ form = "air/token" => mode' = Editor(id)
    /\ form \in {"default/adduser", "air/adduser"} => id = New
    /\ form = "air/user" => id # New

\* What is typed leaves it the same record's form.
Rewritten(v) ==
  /\ Same(v)
  /\ v.scale \in {inputs.scale, FormScale}
  /\ v.key \in Special => v.key = inputs.key
  /\ form \in BerryForms /\ inputs.config \subseteq {inputs.type} => v.config \subseteq {v.type}
  /\ form = "air/token" => v.models = inputs.models
Writing == \E v : Typing(v) /\ Rewritten(v)

Turned(v, s) ==
  \/ v = inputs /\ (form \in DefaultForms => s = spin)
  \/ v = Blank /\ form = "air/token" /\ mode # "edit"
  \/ /\ form \in {"default/channel", "default/token"}
     /\ s = spin /\ Same(v)
     /\ form = "default/channel" => v.scale = inputs.scale
Turning == \E v, s : open /\ TurnedBack(v, s) /\ Turned(v, s) /\ UNCHANGED busy

\* The values are sent, converted where that is due.
Converts(v) ==
  /\ Same(v)
  /\ inputs.scale = FormScale => v.scale = 0
  /\ v.key \in Special \ {inputs.key} => v.key \in v.config
  /\ v.config = inputs.config /\ v.type = inputs.type
  /\ form = "air/token" => v.models = inputs.models
  /\ Same(inputs')
  /\ form # "default/token" => inputs'.scale = inputs.scale
  /\ inputs'.config = inputs.config /\ inputs'.type = inputs.type
  /\ form \in AirForms => v.key = inputs.key
  /\ form \in AirForms \cup {"default/user"} => inputs'.key = inputs.key
  /\ form = "air/token" => inputs'.models = inputs.models
Adds(id, v) ==
  /\ form \in DefaultForms => target = New \/ form = "default/adduser"
  /\ form = "air/user" => target = New
  /\ form = "air/channel" => target = New
  /\ form = "air/token" => mode = "add" \/ target = New
  /\ form = "berry/channel" => target = New
  /\ form \in {"berry/token", "berry/user"} => inputs.of = New
Puts(id, v) ==
  /\ id = target
  /\ form \in DefaultForms => id # New /\ ~spin
  /\ form = "air/token" => mode = "edit"
Submitting ==
  \E do, id, v :
    /\ form \in DefaultForms \cup AirForms \cup BerryForms
    /\ open
    /\ Asked(do, id, v)
    /\ Converts(v)
    /\ \/ do = "post" /\ Adds(id, v)
       \/ do = "put" /\ Puts(id, v)
    /\ form \in BerryForms => ~busy /\ busy' = TRUE
    /\ form \in DefaultForms => UNCHANGED spin
    /\ UserActs
    /\ UNCHANGED <<open, sess, target, mode, initial, timers, failed, stale>>
Grouping ==
  /\ form = "default/token"
  /\ open
  /\ Asked("group", target, Blank)
  /\ UserActs
  /\ UNCHANGED <<open, sess, target, initial, inputs, spin, busy, timers, failed, stale>>

\* The form goes.
Unmounted ==
  /\ form \in DefaultForms
  /\ ~open' /\ target' = New /\ inputs' = Blank /\ ~spin'
  /\ UNCHANGED <<sess, initial>>
  /\ net' \subseteq net
  /\ (\A r \in net' : Saves(r)) \/ form = "default/adduser"
  /\ timers' \subseteq timers
  /\ hasty' \in {hasty, hasty + 1}
  /\ UserActs \/ timers # {} \/ \E r \in net : r.ans # None /\ r.do = "post" /\ Took(r)
  /\ UNCHANGED <<form, server, failed, stale>>
AirClosing ==
  /\ form \in AirForms
  /\ open /\ ~open'
  /\ UserActs
  /\ UNCHANGED <<sess, mode, initial, inputs, failed, stale>>
  /\ \/ form = "air/user" /\ target' = New /\ Asked("load", Self, Blank) /\ timers' = timers
     \/ form # "air/user" /\ target' = target /\ net' = net
  /\ form # "air/token" => timers' = timers
  /\ form = "air/token" => \E t : timers' = timers \cup {t}
BerryClosed ==
  /\ form \in BerryForms
  /\ ~open' /\ target' = New /\ inputs' = Blank
  /\ initial' = IF target = New THEN initial ELSE Blank
  /\ busy' = FALSE
  /\ UNCHANGED <<sess, mode, failed, stale>>
BerryClosing == BerryClosed /\ UserActs /\ net' = net /\ UNCHANGED timers

\* The answer to a load.
Reloaded(r) ==
  IF form \in BerryForms
  THEN /\ initial' = IF r.ans.ok = "ok" THEN Loaded(r) ELSE initial
       /\ inputs' = IF open /\ initial' # initial THEN initial' ELSE inputs
  ELSE /\ inputs' = IF r.ans.ok = "ok" THEN Loaded(r) ELSE inputs
       /\ UNCHANGED initial
Loading ==
  \E r \in net :
    /\ r.do = "load" /\ r.ans # None
    /\ Reloaded(r)
    /\ Took(r)
    /\ form \in DefaultForms => spin' \in {FALSE, r.ans.ok = "lost"}
    /\ Goes
    /\ UNCHANGED <<open, sess, target, mode, busy, timers, failed>>
GroupLoading ==
  /\ form = "default/token"
  /\ \E r \in net :
       /\ r.do = "group"
       /\ Took(r)
       /\ Same(inputs') /\ inputs'.scale = inputs.scale /\ inputs'.key = inputs.key
  /\ Goes
  /\ UNCHANGED <<open, sess, target, mode, initial, spin, busy, timers, failed>>

\* The answer to what was saved.
Answer(r) == r \in net /\ Saves(r) /\ r.ans # None
DefaultSaving ==
  /\ form \in DefaultForms
  /\ \E r \in net :
       /\ Answer(r)
       /\ Took(r)
       /\ \/ inputs' = inputs
          \/ inputs' = Blank /\ r.do = "post" /\ open /\ r.sess = sess
       /\ \/ timers' = timers /\ (r.ans.ok = "ok" => form = "default/user" /\ r.do = "put")
          \/ \E t : timers' = timers \cup {t}
  /\ Goes
  /\ UNCHANGED <<open, sess, target, mode, initial, spin, failed>>
AirSaving ==
  /\ form \in {"air/channel", "air/adduser"}
  /\ \E r \in net :
       /\ Answer(r)
       /\ inputs' = IF r.ans.ok = "ok" /\ r.do = "post" THEN Blank ELSE inputs
       /\ open' = (open /\ r.ans.ok # "ok")
       /\ Took(r)
  /\ Goes
  /\ UNCHANGED <<sess, target, mode, initial, timers, failed>>
AirTokenSaving ==
  /\ form = "air/token"
  /\ \E r \in net :
       /\ Answer(r)
       /\ \/ r.ans.ok = "lost" /\ Took(r) /\ UNCHANGED <<open, inputs, timers>>
          \/ /\ inputs' = Blank
             /\ Took(r)
             /\ \/ ~open' /\ \E t : timers' = timers \cup {t}
                \/ r.ans.ok # "ok" /\ UNCHANGED <<open, timers>>
          \/ /\ r.ans.ok = "ok" /\ r.do = "post"
             /\ \E id : Sent(r, "post", id)
             /\ UNCHANGED <<open, inputs, timers>>
  /\ Goes
  /\ UNCHANGED <<sess, target, mode, initial, failed>>
AirTokenResetting ==
  /\ form = "air/token"
  /\ timers # {} /\ timers' \subseteq timers
  /\ target' = New /\ mode' = "add"
  /\ inputs' = IF mode = "add" THEN inputs ELSE Blank
  /\ net' = net
  /\ Goes
  /\ UNCHANGED <<open, sess, initial, failed>>
AirUserSaving ==
  /\ form = "air/user"
  /\ \E r \in net :
       /\ Answer(r)
       /\ \/ /\ ~open' /\ target' = New
             /\ Took(r) \/ Sent(r, "load", Self)
          \/ r.ans.ok # "ok" /\ Took(r) /\ UNCHANGED <<open, target>>
  /\ Goes
  /\ UNCHANGED <<sess, mode, initial, inputs, timers, failed>>
BerrySaving ==
  /\ form \in BerryForms
  /\ \E r \in net :
       /\ Answer(r)
       /\ Took(r)
       /\ \/ r.ans.ok = "ok" /\ BerryClosed
          \/ /\ r.ans.ok # "ok"
             /\ busy' = (busy /\ r.sess # sess)
             /\ UNCHANGED <<open, sess, target, mode, initial, inputs, failed>>
  /\ Goes
  /\ UNCHANGED timers

UserStep ==
  \/ Opening \/ Writing \/ Turning \/ Submitting \/ Grouping \/ AirClosing \/ BerryClosing
AnswerStep ==
  \/ Unmounted \/ Loading \/ GroupLoading \/ DefaultSaving \/ AirSaving \/ AirTokenSaving
  \/ AirTokenResetting \/ AirUserSaving \/ BerrySaving

(***************************************************************************)
(* Values and requests                                                     *)
(***************************************************************************)
LEMMA BlankIs ==
  /\ IsForm(Blank) /\ Blank.of = New /\ Blank.ver = 0 /\ Blank.scale = FormScale
  /\ Blank.models = "none" /\ Blank.type = "plain" /\ Blank.config = {} /\ Blank.key = "none"
BY DEF Blank, IsForm, New

LEMMA LoadedIs ==
  ASSUME NEW r
  PROVE  LET v == Loaded(r)
             c == r.ans.cols
         IN  /\ IsForm(v) /\ v.of = c.of /\ v.ver = c.ver /\ v.scale = c.scale + FormScale
             /\ v.models = "list" /\ v.key = "none" /\ v.config \subseteq {v.type}
BY BlankIs DEF Loaded, IsForm

LEMMA FormScaleIs ==
  /\ FormScale \in {-1, 0}
  /\ form \in AirForms \cup BerryForms \cup ChannelForms => FormScale = 0
  /\ form = "default/token" => FormScale = -1
BY DEF FormScale, DefaultForms, AirForms, BerryForms, ChannelForms

LEMMA WriteIs ==
  ASSUME IsForm(inputs), NEW f \in {"text", "models", "config", "key", "wrong"},
         form = "air/token" => f # "models"
  PROVE  Rewritten(Write(inputs, f))
<1> DEFINE v == Write(inputs, f)
<1>1. IsForm(v)
  BY DEF Write, IsForm
<1>2. v.of = inputs.of /\ v.ver = inputs.ver /\ v.type = inputs.type
  BY DEF Write, IsForm
<1>3. v.scale = IF f = "text" THEN FormScale ELSE inputs.scale
  BY DEF Write, IsForm
<1>4. v.models = IF f = "models" THEN "list" ELSE inputs.models
  BY DEF Write, IsForm
<1>5. v.config = IF f = "config" THEN inputs.config \cup {inputs.type} ELSE inputs.config
  BY DEF Write, IsForm
<1>6. v.key = IF f = "key" THEN "typed" ELSE inputs.key
  BY DEF Write, IsForm
<1> HIDE DEF v
<1>7. Same(v) /\ v.scale \in {inputs.scale, FormScale}
  BY <1>1, <1>2, <1>3 DEF Same
<1>8. v.key \in Special => v.key = inputs.key
  BY <1>6 DEF Special
<1>9. inputs.config \subseteq {inputs.type} => v.config \subseteq {v.type}
  BY <1>2, <1>5
<1>10. form = "air/token" => v.models = inputs.models
  BY <1>4
<1> QED
  BY <1>7, <1>8, <1>9, <1>10 DEF Rewritten, v

LEMMA RetypedIs ==
  ASSUME IsForm(inputs), form # "air/token", NEW t
  PROVE  /\ form \notin BerryForms =>
              LET v == [inputs EXCEPT !.type = t] IN Rewritten(v) /\ Rewritten(FillModels(v))
         /\ Rewritten(FillModels([inputs EXCEPT !.type = t, !.config = {}]))
<1>1. ASSUME NEW w, IsForm(w)
      PROVE  LET v == FillModels(w)
             IN  /\ IsForm(v) /\ v.of = w.of /\ v.ver = w.ver /\ v.scale = w.scale
                 /\ v.key = w.key /\ v.config = w.config
  BY <1>1 DEF FillModels, IsForm
<1>2. LET v == [inputs EXCEPT !.type = t]
      IN  /\ IsForm(v) /\ v.of = inputs.of /\ v.ver = inputs.ver /\ v.scale = inputs.scale
          /\ v.key = inputs.key /\ v.config = inputs.config /\ v.models = inputs.models
  BY DEF IsForm
<1>3. LET v == [inputs EXCEPT !.type = t, !.config = {}]
      IN  /\ IsForm(v) /\ v.of = inputs.of /\ v.ver = inputs.ver /\ v.scale = inputs.scale
          /\ v.key = inputs.key /\ v.config = {}
  BY DEF IsForm
<1> QED
  BY <1>1, <1>2, <1>3 DEF Rewritten, Same

(***************************************************************************)
(* The editors of the default theme                                        *)
(***************************************************************************)
\* The theme is a copy of the common definitions, which mean the same.
LEMMA DefaultValues ==
  /\ Default!New = New
  /\ Default!None = None
  /\ Default!Special = Special
  /\ Default!FormScale = FormScale
  /\ Default!Blank = Blank
  /\ \A r : Default!Loaded(r) = Loaded(r)
  /\ \A v, f : Default!Write(v, f) = Write(v, f)
  /\ \A v : Default!FillModels(v) = FillModels(v)
  /\ \A dos : Default!Answers(dos) = Answers(dos)
<1>1. Default!FormScale = FormScale
  BY DEF Default!FormScale, FormScale, Default!DefaultForms, DefaultForms,
         Default!ChannelForms, ChannelForms
<1>2. Default!Blank = Blank
  BY <1>1 DEF Default!Blank, Blank, Default!New, New
<1>3. Default!Special = Special
  BY DEF Default!Special, Special
<1>4. \A id : Default!TypeOf(id) = TypeOf(id)
  BY DEF Default!TypeOf, TypeOf, Default!FirstId, FirstId
<1>5. \A r : Default!Loaded(r) = Loaded(r)
  BY <1>1, <1>2, <1>3, <1>4 DEF Default!Loaded, Loaded
<1>6. \A v, f : Default!Write(v, f) = Write(v, f)
  BY <1>1 DEF Default!Write, Write
<1>7. \A v : Default!FillModels(v) = FillModels(v)
  BY DEF Default!FillModels, FillModels
<1>8. Default!New = New /\ Default!None = None
  BY DEF Default!New, New, Default!None, None
<1>9. \A dos : Default!Answers(dos) = Answers(dos)
  BY <1>8 DEF Default!Answers, Answers
<1> QED
  BY <1>1, <1>2, <1>3, <1>5, <1>6, <1>7, <1>8, <1>9

LEMMA DefaultWords ==
  /\ Default!UserActs <=> UserActs
  /\ Default!Goes <=> Goes
  /\ Default!SendNothing => net' = net
  /\ \A do, id, v : Default!Send(do, id, v) => Asked(do, id, v)
  /\ \A r : Default!Received(r) => Took(r)
  /\ \A id : Default!Appear(id) => Appear(id)
  /\ \A v : Default!Typing(v) => Typing(v)
  /\ \A v, s : Default!TurnedBack(v, s) => TurnedBack(v, s)
  /\ \A id, v : Default!Save(id, v) =>
       /\ Asked(IF id = New THEN "post" ELSE "put", id, v)
       /\ UserActs
       /\ UNCHANGED <<open, sess, target, mode, initial, timers, failed, stale>>
<1>1. Default!Acts <=> Acts
  BY DEF Default!Acts, Acts
<1>2. Default!UserActs <=> UserActs
  BY <1>1 DEF Default!UserActs, UserActs, Default!server, server
<1>3. Default!Goes <=> Goes
  BY DEF Default!Goes, Goes, Default!server, server
<1>4. Default!SendNothing <=> SendNothing
  BY DEF Default!SendNothing, SendNothing, Default!wire, wire
<1>5. \A do, id, v : Default!Req(do, id, v) = Req(do, id, v)
  BY DefaultValues DEF Default!Req, Req
<1>6. \A do, id, v : Default!Send(do, id, v) => Asked(do, id, v)
  BY <1>5 DEF Default!Send, Default!Sends, Asked
<1>7. \A r : Default!Received(r) => Took(r)
  BY DEF Default!Received, Took
<1>8. \A id : Default!Appear(id) => Appear(id)
  BY <1>2, DefaultValues DEF Default!Appear, Appear, Default!FirstId, FirstId
<1>9. \A v : Default!Typing(v) => Typing(v)
  BY <1>2, <1>4 DEF Default!Typing, Typing
<1>10. \A v, s : Default!TurnedBack(v, s) => TurnedBack(v, s)
  BY <1>2, <1>4 DEF Default!TurnedBack, TurnedBack
<1>11. \A do, id, v : Default!SaveBy(do, id, v) =>
         /\ Asked(do, id, v)
         /\ UserActs
         /\ UNCHANGED <<open, sess, target, mode, initial, timers, failed, stale>>
  BY <1>2, <1>6 DEF Default!SaveBy
<1>12. \A id, v : Default!Save(id, v) =>
         Default!SaveBy(IF id = New THEN "post" ELSE "put", id, v)
  BY DefaultValues DEF Default!Save
<1>13. Default!SendNothing => net' = net
  BY <1>4 DEF SendNothing, wire
<1> QED
  BY <1>2, <1>3, <1>6, <1>7, <1>8, <1>9, <1>10, <1>11, <1>12, <1>13

\* What the user does in these editors.
LEMMA DefaultFields ==
  ASSUME IsForm(inputs), form \in DefaultForms, NEW fs,
         fs \subseteq {"text", "models", "config", "key", "wrong"}, Default!TypeFields(fs)
  PROVE  Writing
<1>1. PICK f \in fs : Default!Typing(Default!Write(inputs, f))
  BY DEF Default!TypeFields
<1>2. Typing(Write(inputs, f))
  BY <1>1, DefaultValues, DefaultWords
<1>3. form # "air/token"
  BY DEF DefaultForms
<1> QED
  BY <1>2, <1>3, WriteIs DEF Writing

LEMMA DefaultMounts ==
  ASSUME form \in DefaultForms, NEW id \in Targets, Default!Mount(id, id # New),
         form = "default/adduser" => id = New
  PROVE  Opening
<1>1. Appear(id) /\ inputs' = Blank /\ spin' = (id # New) /\ UNCHANGED initial
  BY DefaultValues, DefaultWords DEF Default!Mount
<1>2. id # New => Asked("load", id, Blank)
  BY DefaultValues, DefaultWords DEF Default!Mount
<1>3. id = New => net' = net
  BY DefaultValues, DefaultWords DEF Default!Mount
<1>4. form \notin BerryForms \cup AirForms
  BY DEF DefaultForms, BerryForms, AirForms
<1> QED
  BY <1>1, <1>2, <1>3, <1>4 DEF Opening, AirForms

LEMMA DefaultUnmounts ==
  ASSUME form \in DefaultForms, Default!Unmount,
         \/ net' = {r \in net : r.do \in {"put", "post"}}
         \/ form = "default/adduser" /\ net' \subseteq net,
         timers' \subseteq timers, hasty' \in {hasty, hasty + 1},
         UserActs \/ timers # {} \/ \E r \in net : r.ans # None /\ r.do = "post" /\ Took(r),
         UNCHANGED <<form, server, failed, stale>>
  PROVE  Unmounted
<1>1. ~open' /\ target' = New /\ inputs' = Blank /\ ~spin' /\ UNCHANGED <<sess, initial>>
  BY DefaultValues DEF Default!Unmount
<1>2. net' \subseteq net /\ ((\A r \in net' : Saves(r)) \/ form = "default/adduser")
  BY DEF Saves
<1> QED
  BY <1>1, <1>2 DEF Unmounted

LEMMA Hastens ==
  /\ UserActs => hasty' \in {hasty, hasty + 1} /\ UNCHANGED <<form, server>>
  /\ Goes => hasty' = hasty /\ UNCHANGED <<form, server, stale>>
BY DEF UserActs, Acts, Goes

LEMMA DefaultLeaves ==
  ASSUME form \in DefaultForms, Default!Leave \/ Default!LeaveTimer
  PROVE  Unmounted
<1>1. CASE Default!Leave
  BY <1>1, DefaultUnmounts, DefaultWords, Hastens DEF Default!Leave
<1>2. CASE Default!LeaveTimer
  <2>1. timers' \subseteq timers /\ timers # {}
    BY <1>2 DEF Default!LeaveTimer
  <2> QED
    BY <1>2, <2>1, DefaultUnmounts, DefaultWords, Hastens DEF Default!LeaveTimer
<1> QED
  BY <1>1, <1>2

LEMMA DefaultLoads ==
  ASSUME form \in DefaultForms, Default!LoadEnds(FALSE) \/ Default!LoadEnds(TRUE)
  PROVE  Loading
<1>1. PICK r \in net :
         /\ r.do = "load" /\ r.ans # None
         /\ inputs' = IF r.ans.ok = "ok" THEN Loaded(r) ELSE inputs
         /\ spin' \in {FALSE, r.ans.ok = "lost"}
         /\ Took(r)
         /\ Goes
         /\ UNCHANGED <<open, sess, target, mode, initial, busy, timers, failed>>
  BY DefaultValues, DefaultWords DEF Default!LoadEnds, Answers
<1>2. form \notin BerryForms
  BY DEF DefaultForms, BerryForms
<1> QED
  BY <1>1, <1>2 DEF Loading, Reloaded

LEMMA DefaultSaves ==
  ASSUME form \in DefaultForms, Default!SaveEnds(TRUE)
  PROVE  DefaultSaving
<1>1. PICK r \in net :
         /\ r.do \in {"put", "post"} /\ r.ans # None
         /\ timers' = IF r.ans.ok = "ok" THEN timers \cup {[do |-> "leave", n |-> r.n]} ELSE timers
         /\ inputs' = IF r.ans.ok = "ok" /\ r.do = "post" /\ Default!Mounted(r)
                      THEN Blank ELSE inputs
         /\ Took(r)
         /\ Goes
         /\ UNCHANGED <<open, sess, target, mode, initial, spin, failed>>
  BY DefaultValues, DefaultWords DEF Default!SaveEnds, Answers
<1>2. Default!Mounted(r) => open /\ r.sess = sess
  BY DEF Default!Mounted
<1>3. r.ans.ok = "ok" => \E t : timers' = timers \cup {t}
  BY <1>1
<1>4. r.ans.ok # "ok" => timers' = timers
  BY <1>1
<1>5. \/ inputs' = inputs
      \/ inputs' = Blank /\ r.do = "post" /\ open /\ r.sess = sess
  BY <1>1, <1>2
<1> QED
  BY <1>1, <1>3, <1>4, <1>5 DEF DefaultSaving, Answer, Saves

\* Converting keeps what is in the form about the record.
LEMMA DefaultConverts ==
  ASSUME IsForm(inputs)
  PROVE  /\ LET v == Default!Converted(inputs)
            IN  /\ Same(v) /\ v.config = inputs.config /\ v.type = inputs.type
                /\ v.key = inputs.key
                /\ inputs.scale = -1 => v.scale = 0
         /\ LET v == Default!MadeOfConfig(inputs)
            IN  /\ Same(v) /\ v.config = inputs.config /\ v.type = inputs.type
                /\ v.scale = inputs.scale
                /\ v.key \in Special \ {inputs.key} => v.key \in v.config
<1> DEFINE v == Default!Converted(inputs)
           w == Default!MadeOfConfig(inputs)
<1>1. Same(v)
  BY DEF Default!Converted, IsForm, Same
<1>2. v.config = inputs.config /\ v.type = inputs.type /\ v.key = inputs.key
  BY DEF Default!Converted, IsForm
<1>3. inputs.scale = -1 => v.scale = 0
  BY DEF Default!Converted, IsForm, Default!MaxScale
<1>4. Same(w)
  BY DEF Default!MadeOfConfig, IsForm, Same
<1>5. w.config = inputs.config /\ w.type = inputs.type /\ w.scale = inputs.scale
  BY DEF Default!MadeOfConfig, IsForm
<1>6. w.key \in Special \ {inputs.key} => w.key \in w.config
  <2>1. w.key \in {inputs.key} \cup w.config
    BY <1>5 DEF Default!MadeOfConfig, IsForm
  <2> QED
    BY <2>1
<1> QED
  BY <1>1, <1>2, <1>3, <1>4, <1>5, <1>6

\* submit of each editor.
LEMMA DefaultSubmits ==
  ASSUME form \in DefaultForms, IsForm(inputs), NEW id, NEW v, Default!Save(id, v), open,
         ~spin \/ id = New, id = target \/ form = "default/adduser", target = New => id = New,
         spin' = spin, Converts(v), form = "default/adduser" => id = New
  PROVE  Submitting
<1>1. /\ Asked(IF id = New THEN "post" ELSE "put", id, v)
      /\ UserActs
      /\ UNCHANGED <<open, sess, target, mode, initial, timers, failed, stale>>
  BY DefaultWords
<1>2. id = New => Adds(id, v)
  BY DEF Adds, DefaultForms
<1>3. id # New => Puts(id, v)
  BY DEF Puts, DefaultForms
<1>4. form \notin BerryForms
  BY DEF DefaultForms, BerryForms
<1> QED
  BY <1>1, <1>2, <1>3, <1>4 DEF Submitting

LEMMA DefaultChannelSubmits ==
  ASSUME IsForm(inputs), Default!SubmitChannel
  PROVE  UserStep
<1> DEFINE v == Default!MadeOfConfig(inputs)
<1>1. form = "default/channel" /\ form \in DefaultForms /\ open /\ ~spin /\ UNCHANGED busy
  BY DEF Default!SubmitChannel, Default!DefaultChannel, DefaultForms
<1>2. /\ Same(v) /\ v.config = inputs.config /\ v.type = inputs.type
      /\ v.scale = inputs.scale
      /\ v.key \in Special \ {inputs.key} => v.key \in v.config
  BY DefaultConverts
<1>3. \/ Default!TurnedBack(v, spin)
      \/ Default!Save(target, v) /\ inputs' = v /\ UNCHANGED spin
  BY DEF Default!SubmitChannel
<1> HIDE DEF v
<1>4. CASE Default!TurnedBack(v, spin)
  <2>1. Turned(v, spin)
    BY <1>1, <1>2 DEF Turned
  <2> QED
    BY <1>1, <1>4, <2>1, DefaultWords DEF Turning, UserStep
<1>5. CASE Default!Save(target, v) /\ inputs' = v /\ UNCHANGED spin
  <2>1. Converts(v)
    BY <1>1, <1>2, <1>5, FormScaleIs DEF Converts, Same, AirForms, ChannelForms
  <2> QED
    BY <1>1, <1>5, <2>1, DefaultSubmits DEF UserStep
<1> QED
  BY <1>3, <1>4, <1>5

LEMMA DefaultTokenSubmits ==
  ASSUME IsForm(inputs), Default!SubmitToken
  PROVE  UserStep
<1> DEFINE v == Default!Converted(inputs)
<1>1. form = "default/token" /\ form \in DefaultForms /\ open /\ ~spin /\ UNCHANGED busy
  BY DEF Default!SubmitToken, Default!DefaultToken, DefaultForms
<1>2. /\ Same(v) /\ v.config = inputs.config /\ v.type = inputs.type /\ v.key = inputs.key
      /\ inputs.scale = -1 => v.scale = 0
  BY DefaultConverts
<1>3. \/ Default!TurnedBack(inputs, spin)
      \/ Default!TurnedBack(v, spin)
      \/ Default!Save(target, v) /\ inputs' = Default!Joined(v) /\ UNCHANGED spin
  BY DEF Default!SubmitToken
<1> HIDE DEF v
<1>4. CASE Default!TurnedBack(v, spin) \/ Default!TurnedBack(inputs, spin)
  <2>1. Turned(v, spin) /\ Turned(inputs, spin)
    BY <1>1, <1>2 DEF Turned
  <2> QED
    BY <1>1, <1>4, <2>1, DefaultWords DEF Turning, UserStep
<1>5. CASE Default!Save(target, v) /\ inputs' = Default!Joined(v) /\ UNCHANGED spin
  <2> DEFINE w == Default!Joined(v)
  <2>1. Same(w) /\ w.config = v.config /\ w.type = v.type
    BY <1>2 DEF Default!Joined, Same, IsForm
  <2> HIDE DEF w
  <2>2. Converts(v)
    BY <1>1, <1>2, <1>5, <2>1, FormScaleIs DEF Converts, AirForms, w
  <2> QED
    BY <1>1, <1>5, <2>2, DefaultSubmits DEF UserStep
<1> QED
  BY <1>3, <1>4, <1>5

LEMMA DefaultUserSubmits ==
  ASSUME IsForm(inputs), Default!SubmitUser \/ Default!AddUserSubmit
  PROVE  UserStep
<1> DEFINE v == Default!Converted(inputs)
<1>1. form \in {"default/user", "default/adduser"} /\ form \in DefaultForms /\ open
  BY DEF Default!SubmitUser, Default!DefaultUser, Default!AddUserSubmit,
         Default!DefaultAddUser, DefaultForms
<1>2. /\ Same(v) /\ v.config = inputs.config /\ v.type = inputs.type /\ v.key = inputs.key
      /\ inputs.scale = -1 => v.scale = 0
  BY DefaultConverts
<1>3. FormScale = -1
  BY <1>1 DEF FormScale, DefaultForms, ChannelForms
<1> HIDE DEF v
<1>4. inputs' = inputs => Converts(v)
  BY <1>1, <1>2, <1>3 DEF Converts, Same, AirForms
<1>5. CASE Default!SubmitUser
  <2>1. Default!Save(target, v) /\ inputs' = inputs /\ spin' = spin /\ ~spin
        /\ form = "default/user"
    BY <1>5 DEF Default!SubmitUser, Default!DefaultUser, v
  <2> QED
    BY <1>1, <1>4, <2>1, DefaultSubmits DEF UserStep
<1>6. CASE Default!AddUserSubmit
  <2>1. form = "default/adduser" /\ UNCHANGED busy
    BY <1>6 DEF Default!AddUserSubmit, Default!DefaultAddUser
  <2>2. CASE Default!TurnedBack(inputs, spin)
    <3>1. Turned(inputs, spin)
      BY DEF Turned
    <3> QED
      BY <1>1, <2>1, <2>2, <3>1, DefaultWords DEF Turning, UserStep
  <2>3. CASE Default!Save(New, v) /\ inputs' = inputs /\ spin' = spin
    BY <1>1, <1>4, <2>1, <2>3, DefaultSubmits DEF UserStep
  <2> QED
    BY <1>6, <2>2, <2>3, DefaultValues DEF Default!AddUserSubmit, v
<1> QED
  BY <1>5, <1>6

LEMMA DefaultGroups ==
  /\ Default!TokenGroup => Grouping
  /\ Default!GroupModels /\ IsForm(inputs) => GroupLoading
<1>1. Default!TokenGroup => Grouping
  BY DefaultValues, DefaultWords
  DEF Default!TokenGroup, Default!DefaultToken, Grouping
<1>2. ASSUME Default!GroupModels, IsForm(inputs)
      PROVE  GroupLoading
  <2>1. PICK r \in net :
           /\ r.do = "group"
           /\ inputs' \in {inputs, [inputs EXCEPT !.models = "none"],
                                   [inputs EXCEPT !.models = "list"]}
           /\ Took(r)
    BY <1>2, DefaultValues, DefaultWords DEF Default!GroupModels, Answers
  <2>2. \A m : \A v : v = [inputs EXCEPT !.models = m] =>
          Same(v) /\ v.scale = inputs.scale /\ v.key = inputs.key
    BY <1>2 DEF Same, IsForm
  <2>3. Same(inputs') /\ inputs'.scale = inputs.scale /\ inputs'.key = inputs.key
    BY <1>2, <2>1, <2>2 DEF Same
  <2> QED
    BY <1>2, <2>1, <2>3, DefaultWords DEF Default!GroupModels, Default!DefaultToken, GroupLoading
<1> QED
  BY <1>1, <1>2

\* A form that a user or an answer left alone.
LEMMA DefaultUserSaves ==
  /\ Default!UserSaved => DefaultSaving
  /\ Default!AddUserSaved => AnswerStep
<1>1. ASSUME Default!UserSaved PROVE DefaultSaving
  <2>1. form = "default/user" /\ form \in DefaultForms
    BY <1>1 DEF Default!UserSaved, Default!DefaultUser, DefaultForms
  <2>2. PICK r \in net : r.do = "put" /\ r.ans # None /\ Took(r)
    BY <1>1, DefaultValues, DefaultWords DEF Default!UserSaved, Answers
  <2>3. Goes /\ UNCHANGED <<open, sess, target, mode, initial, inputs, spin, timers, failed>>
    BY <1>1, DefaultWords DEF Default!UserSaved, Default!editor
  <2> QED
    BY <2>1, <2>2, <2>3 DEF DefaultSaving, Answer, Saves
<1>2. ASSUME Default!AddUserSaved PROVE AnswerStep
  <2>1. form = "default/adduser" /\ form \in DefaultForms
    BY <1>2 DEF Default!AddUserSaved, Default!DefaultAddUser, DefaultForms
  <2>2. PICK r \in net :
           /\ r.do = "post" /\ r.ans # None /\ Took(r)
           /\ IF r.ans.ok = "ok" THEN Default!Unmount ELSE UNCHANGED Default!editor
    BY <1>2, DefaultValues, DefaultWords DEF Default!AddUserSaved, Answers
  <2>3. Goes /\ UNCHANGED <<timers, failed>>
    BY <1>2, DefaultWords DEF Default!AddUserSaved
  <2>4. CASE r.ans.ok = "ok"
    BY <2>1, <2>2, <2>3, <2>4, DefaultUnmounts, Hastens DEF AnswerStep, Took
  <2>5. CASE r.ans.ok # "ok"
    <3>1. UNCHANGED <<open, sess, target, mode, initial, inputs, spin>>
      BY <2>2, <2>5 DEF Default!editor
    <3> QED
      BY <2>1, <2>2, <2>3, <2>5, <3>1 DEF DefaultSaving, Answer, Saves, AnswerStep
  <2> QED
    BY <2>4, <2>5
<1> QED
  BY <1>1, <1>2

LEMMA DefaultSteps ==
  ASSUME IsForm(inputs), Default!DefaultStep
  PROVE  UserStep \/ AnswerStep
<1>1. CASE Default!EditChannel
  <2>1. CASE Default!ChannelOpens
    <3>1. form = "default/channel"
      BY <2>1 DEF Default!ChannelOpens, Default!DefaultChannel
    <3>2. PICK id \in Targets : Default!Mount(id, id # New)
      BY <2>1, DefaultValues DEF Default!ChannelOpens, Targets
    <3> QED
      BY <3>1, <3>2, DefaultMounts DEF UserStep, DefaultForms
  <2>2. CASE Default!LoadChannel
    BY <2>2, DefaultLoads
    DEF Default!LoadChannel, Default!DefaultChannel, DefaultForms, AnswerStep
  <2>3. CASE Default!ChannelTyped \/ Default!ChannelModels \/ Default!ChannelConfig
             \/ Default!ChannelKey
    BY <2>3, DefaultFields
    DEF Default!ChannelTyped, Default!ChannelModels, Default!ChannelConfig,
        Default!ChannelKey, Default!DefaultChannel, DefaultForms, UserStep
  <2>4. CASE Default!ChannelType
    <3>1. form = "default/channel" /\ form \notin BerryForms
      BY <2>4 DEF Default!ChannelType, Default!DefaultChannel, BerryForms
    <3>2. PICK t : Typing(FillModels([inputs EXCEPT !.type = t]))
      BY <2>4, DefaultValues, DefaultWords DEF Default!ChannelType
    <3>3. Rewritten(FillModels([inputs EXCEPT !.type = t]))
      BY <3>1, RetypedIs
    <3> QED
      BY <3>2, <3>3 DEF Writing, UserStep
  <2>5. CASE Default!ChannelSaved \/ Default!ChannelLeft
    BY <2>5, DefaultSaves, DefaultLeaves
    DEF Default!ChannelSaved, Default!ChannelLeft, Default!DefaultChannel, DefaultForms,
        AnswerStep
  <2> QED
    BY <1>1, <2>1, <2>2, <2>3, <2>4, <2>5, DefaultChannelSubmits DEF Default!EditChannel
<1>2. CASE Default!EditToken
  <2>1. CASE Default!TokenOpens
    <3>1. form = "default/token"
      BY <2>1 DEF Default!TokenOpens, Default!DefaultToken
    <3>2. PICK id \in Targets : Default!Mount(id, id # New)
      BY <2>1, DefaultValues DEF Default!TokenOpens, Targets
    <3> QED
      BY <3>1, <3>2, DefaultMounts DEF UserStep, DefaultForms
  <2>2. CASE Default!LoadToken \/ Default!TokenSaved \/ Default!TokenLeft
    BY <2>2, DefaultLoads, DefaultSaves, DefaultLeaves
    DEF Default!LoadToken, Default!TokenSaved, Default!TokenLeft, Default!DefaultToken,
        DefaultForms, AnswerStep
  <2>3. CASE Default!TokenTyped
    BY <2>3, DefaultFields
    DEF Default!TokenTyped, Default!DefaultToken, DefaultForms, UserStep
  <2>4. CASE Default!TokenGroup \/ Default!GroupModels
    BY <2>4, DefaultGroups DEF UserStep, AnswerStep
  <2> QED
    BY <1>2, <2>1, <2>2, <2>3, <2>4, DefaultTokenSubmits DEF Default!EditToken
<1>3. CASE Default!EditUser
  <2>1. CASE Default!UserOpens
    <3>1. form = "default/user"
      BY <2>1 DEF Default!UserOpens, Default!DefaultUser
    <3>2. PICK id \in Ids : Default!Mount(id, TRUE)
      BY <2>1 DEF Default!UserOpens
    <3>3. id \in Targets /\ (id # New) = TRUE
      BY FormAssumption DEF Targets, New
    <3> QED
      BY <3>1, <3>2, <3>3, DefaultMounts DEF UserStep, DefaultForms
  <2>2. CASE Default!LoadUser \/ Default!UserTyped \/ Default!UserLeft
    BY <2>2, DefaultLoads, DefaultFields, DefaultLeaves
    DEF Default!LoadUser, Default!UserTyped, Default!UserLeft, Default!DefaultUser,
        DefaultForms, UserStep, AnswerStep
  <2> QED
    BY <1>3, <2>1, <2>2, DefaultUserSubmits, DefaultUserSaves
    DEF Default!EditUser, AnswerStep
<1>4. CASE Default!AddUser
  <2>1. CASE Default!AddUserOpens
    <3>1. form = "default/adduser" /\ Default!Mount(New, FALSE)
      BY <2>1, DefaultValues DEF Default!AddUserOpens, Default!DefaultAddUser
    <3>2. New \in Targets /\ (New # New) = FALSE
      BY DEF Targets
    <3> QED
      BY <3>1, <3>2, DefaultMounts DEF UserStep, DefaultForms
  <2>2. CASE Default!AddUserTyped \/ Default!AddUserLeft
    BY <2>2, DefaultFields, DefaultLeaves
    DEF Default!AddUserTyped, Default!AddUserLeft, Default!DefaultAddUser, DefaultForms,
        UserStep, AnswerStep
  <2> QED
    BY <1>4, <2>1, <2>2, DefaultUserSubmits, DefaultUserSaves DEF Default!AddUser
<1> QED
  BY <1>1, <1>2, <1>3, <1>4 DEF Default!DefaultStep

(***************************************************************************)
(* The editors of the air theme                                            *)
(***************************************************************************)
LEMMA AirValues ==
  /\ AirTheme!New = New
  /\ AirTheme!None = None
  /\ AirTheme!Special = Special
  /\ AirTheme!FormScale = FormScale
  /\ AirTheme!Blank = Blank
  /\ \A r : AirTheme!Loaded(r) = Loaded(r)
  /\ \A v, f : AirTheme!Write(v, f) = Write(v, f)
  /\ \A v : AirTheme!FillModels(v) = FillModels(v)
  /\ \A dos : AirTheme!Answers(dos) = Answers(dos)
<1>1. AirTheme!FormScale = FormScale
  BY DEF AirTheme!FormScale, FormScale, AirTheme!DefaultForms, DefaultForms,
         AirTheme!ChannelForms, ChannelForms
<1>2. AirTheme!Blank = Blank
  BY <1>1 DEF AirTheme!Blank, Blank, AirTheme!New, New
<1>3. AirTheme!Special = Special
  BY DEF AirTheme!Special, Special
<1>4. \A id : AirTheme!TypeOf(id) = TypeOf(id)
  BY DEF AirTheme!TypeOf, TypeOf, AirTheme!FirstId, FirstId
<1>5. \A r : AirTheme!Loaded(r) = Loaded(r)
  BY <1>1, <1>2, <1>3, <1>4 DEF AirTheme!Loaded, Loaded
<1>6. \A v, f : AirTheme!Write(v, f) = Write(v, f)
  BY <1>1 DEF AirTheme!Write, Write
<1>7. \A v : AirTheme!FillModels(v) = FillModels(v)
  BY DEF AirTheme!FillModels, FillModels
<1>8. AirTheme!New = New /\ AirTheme!None = None
  BY DEF AirTheme!New, New, AirTheme!None, None
<1>9. \A dos : AirTheme!Answers(dos) = Answers(dos)
  BY <1>8 DEF AirTheme!Answers, Answers
<1> QED
  BY <1>1, <1>2, <1>3, <1>5, <1>6, <1>7, <1>8, <1>9

LEMMA AirWords ==
  /\ AirTheme!UserActs <=> UserActs
  /\ AirTheme!Goes <=> Goes
  /\ AirTheme!SendNothing => net' = net
  /\ \A do, id, v : AirTheme!Sends(do, id, v) => Asked(do, id, v)
  /\ \A r, do, id : AirTheme!SendNext(r, do, id) => Sent(r, do, id)
  /\ \A r : AirTheme!Received(r) => Took(r)
  /\ \A id : AirTheme!Appear(id) => Appear(id)
  /\ \A v : AirTheme!Typing(v) => Typing(v)
  /\ \A v, s : AirTheme!TurnedBack(v, s) => TurnedBack(v, s)
  /\ \A do, id, v : AirTheme!SaveBy(do, id, v) =>
       /\ Asked(do, id, v)
       /\ UserActs
       /\ UNCHANGED <<open, sess, target, mode, initial, timers, failed, stale>>
  /\ \A id, v : AirTheme!Save(id, v) =>
       AirTheme!SaveBy(IF id = New THEN "post" ELSE "put", id, v)
<1>1. AirTheme!Acts <=> Acts
  BY DEF AirTheme!Acts, Acts
<1>2. AirTheme!UserActs <=> UserActs
  BY <1>1 DEF AirTheme!UserActs, UserActs, AirTheme!server, server
<1>3. AirTheme!Goes <=> Goes
  BY DEF AirTheme!Goes, Goes, AirTheme!server, server
<1>4. AirTheme!SendNothing <=> SendNothing
  BY DEF AirTheme!SendNothing, SendNothing, AirTheme!wire, wire
<1>5. \A do, id, v : AirTheme!Req(do, id, v) = Req(do, id, v)
  BY AirValues DEF AirTheme!Req, Req
<1>6. \A do, id, v : AirTheme!Sends(do, id, v) => Asked(do, id, v)
  BY <1>5 DEF AirTheme!Sends, Asked
<1>7. \A r : AirTheme!Received(r) => Took(r)
  BY DEF AirTheme!Received, Took
<1>8. \A id : AirTheme!Appear(id) => Appear(id)
  BY <1>2, AirValues DEF AirTheme!Appear, Appear, AirTheme!FirstId, FirstId
<1>9. \A v : AirTheme!Typing(v) => Typing(v)
  BY <1>2, <1>4 DEF AirTheme!Typing, Typing
<1>10. \A v, s : AirTheme!TurnedBack(v, s) => TurnedBack(v, s)
  BY <1>2, <1>4 DEF AirTheme!TurnedBack, TurnedBack
<1>11. \A do, id, v : AirTheme!SaveBy(do, id, v) =>
         /\ Asked(do, id, v)
         /\ UserActs
         /\ UNCHANGED <<open, sess, target, mode, initial, timers, failed, stale>>
  BY <1>2, <1>6 DEF AirTheme!SaveBy, AirTheme!Send
<1>12. \A id, v : AirTheme!Save(id, v) =>
         AirTheme!SaveBy(IF id = New THEN "post" ELSE "put", id, v)
  BY AirValues DEF AirTheme!Save
<1>13. AirTheme!SendNothing => net' = net
  BY <1>4 DEF SendNothing, wire
<1>14. \A r, do, id : AirTheme!SendNext(r, do, id) => Sent(r, do, id)
  BY AirValues DEF AirTheme!SendNext, Sent
<1> QED
  BY <1>2, <1>3, <1>6, <1>7, <1>8, <1>9, <1>10, <1>11, <1>12, <1>13, <1>14

\* The table shows the sheet.
LEMMA AirShows ==
  /\ \A v : AirTheme!Shows(v) => inputs' = v /\ net' = net /\ UNCHANGED spin
  /\ \A id : AirTheme!LoadsOn(id) =>
       inputs' = inputs /\ Asked("load", id, Blank)
BY AirValues, AirWords DEF AirTheme!Shows, AirTheme!LoadsOn, AirTheme!wire

LEMMA AirThemes ==
  ASSUME form \in AirForms
  PROVE  form \notin BerryForms /\ form \notin DefaultForms
BY DEF AirForms, BerryForms, DefaultForms

LEMMA AirOpening ==
  ASSUME form \in AirForms, NEW id \in Targets, Appear(id), UNCHANGED initial,
         \/ id # New /\ inputs' = inputs /\ Asked("load", id, Blank)
         \/ id = New /\ net' = net /\ inputs' = Blank
         \/ Kept(id),
         form = "air/token" => mode' = Editor(id),
         form = "air/adduser" => id = New,
         form = "air/user" => id # New
  PROVE  Opening
<1>1. inputs' \in {inputs, Blank}
  BY DEF Kept
<1>2. form # "default/adduser"
  BY DEF AirForms
<1> QED
  BY <1>1, <1>2, AirThemes DEF Opening

LEMMA AirOpens ==
  ASSUME \/ AirTheme!AirChannelOpens \/ AirTheme!AirTokenOpens
         \/ AirTheme!AirUserOpens \/ AirTheme!AirAddUserOpens
  PROVE  Opening
<1>1. CASE AirTheme!AirChannelOpens
  <2>1. form = "air/channel" /\ form \in AirForms /\ UNCHANGED initial
    BY <1>1 DEF AirTheme!AirChannelOpens, AirTheme!AirChannel, AirForms
  <2>2. PICK id \in Targets :
           /\ Appear(id)
           /\ \/ id = target /\ AirTheme!Shows(inputs)
              \/ id # target /\ id = New /\ AirTheme!Shows(Blank)
              \/ id # target /\ id # New /\ AirTheme!LoadsOn(id)
    BY <1>1, AirValues, AirWords DEF AirTheme!AirChannelOpens, Targets
  <2> QED
    BY <2>1, <2>2, AirShows, AirOpening DEF Kept
<1>2. CASE AirTheme!AirTokenOpens
  <2>1. form = "air/token" /\ form \in AirForms /\ UNCHANGED initial
    BY <1>2 DEF AirTheme!AirTokenOpens, AirTheme!AirToken, AirForms
  <2>2. PICK id \in Targets : Appear(id) /\ AirTheme!Retargeted(id)
    BY <1>2, AirValues, AirWords DEF AirTheme!AirTokenOpens, Targets
  <2>3. /\ mode' = Editor(id)
        /\ \/ mode = Editor(id) /\ AirTheme!Shows(inputs)
           \/ id = New /\ AirTheme!Shows(Blank)
           \/ id # New /\ AirTheme!LoadsOn(id)
    BY <2>2, AirValues DEF AirTheme!Retargeted, AirTheme!Editing, Editor
  <2> QED
    BY <2>1, <2>2, <2>3, AirShows, AirOpening DEF Kept
<1>3. CASE AirTheme!AirUserOpens
  <2>1. form = "air/user" /\ form \in AirForms /\ UNCHANGED initial
    BY <1>3 DEF AirTheme!AirUserOpens, AirTheme!AirUser, AirForms
  <2>2. PICK id \in Ids : Appear(id) /\ AirTheme!LoadsOn(id)
    BY <1>3, AirWords DEF AirTheme!AirUserOpens
  <2>3. id \in Targets /\ id # New
    BY FormAssumption DEF Targets, New
  <2> QED
    BY <2>1, <2>2, <2>3, AirShows, AirOpening
<1>4. CASE AirTheme!AirAddUserOpens
  <2>1. form = "air/adduser" /\ form \in AirForms /\ UNCHANGED initial
    BY <1>4 DEF AirTheme!AirAddUserOpens, AirTheme!AirAddUser, AirForms
  <2>2. Appear(New) /\ AirTheme!Shows(inputs) /\ New \in Targets
    BY <1>4, AirValues, AirWords DEF AirTheme!AirAddUserOpens, Targets
  <2> QED
    BY <2>1, <2>2, AirShows, AirOpening DEF Kept
<1> QED
  BY <1>1, <1>2, <1>3, <1>4

LEMMA AirFields ==
  ASSUME IsForm(inputs), form \in AirForms, NEW fs,
         fs \subseteq {"text", "models", "wrong"}, form = "air/token" => "models" \notin fs,
         AirTheme!TypeFields(fs)
  PROVE  Writing
<1>1. PICK f \in fs : AirTheme!Typing(AirTheme!Write(inputs, f))
  BY DEF AirTheme!TypeFields
<1>2. Typing(Write(inputs, f))
  BY <1>1, AirValues, AirWords
<1> QED
  BY <1>2, WriteIs DEF Writing

LEMMA AirChannelFields ==
  ASSUME IsForm(inputs), AirTheme!AirChannelType \/ AirTheme!AirChannelKey
  PROVE  Writing
<1>1. form = "air/channel" /\ form \notin BerryForms
  BY DEF AirTheme!AirChannelType, AirTheme!AirChannelKey, AirTheme!AirChannel, BerryForms
<1>2. CASE AirTheme!AirChannelKey
  BY <1>1, <1>2, WriteIs, AirValues, AirWords DEF AirTheme!AirChannelKey, Writing
<1>3. CASE AirTheme!AirChannelType
  <2>1. PICK t : LET v == [inputs EXCEPT !.type = t]
                 IN  Typing(v) \/ Typing(FillModels(v))
    BY <1>3, AirValues, AirWords DEF AirTheme!AirChannelType
  <2>2. LET v == [inputs EXCEPT !.type = t] IN Rewritten(v) /\ Rewritten(FillModels(v))
    BY <1>1, RetypedIs
  <2> QED
    BY <2>1, <2>2 DEF Writing
<1> QED
  BY <1>2, <1>3

\* The values are sent as they are.
LEMMA AirConverts ==
  ASSUME IsForm(inputs), form \in AirForms, inputs' = inputs
  PROVE  Converts(inputs)
<1>1. FormScale = 0
  BY FormScaleIs
<1>2. Same(inputs) /\ Same(inputs')
  BY DEF Same
<1> QED
  BY <1>1, <1>2 DEF Converts

LEMMA AirSubmitting ==
  ASSUME IsForm(inputs), form \in AirForms, open, NEW do \in {"put", "post"}, NEW id,
         AirTheme!SaveBy(do, id, inputs), inputs' = inputs,
         do = "put" => id = target /\ (form = "air/token" => mode = "edit"),
         do = "post" => \/ target = New \/ form = "air/adduser"
                        \/ form = "air/token" /\ mode = "add"
  PROVE  Submitting
<1>1. /\ Asked(do, id, inputs)
      /\ UserActs
      /\ UNCHANGED <<open, sess, target, mode, initial, timers, failed, stale>>
  BY AirWords
<1>2. form \notin BerryForms /\ form \notin DefaultForms
      /\ form \notin {"berry/channel", "berry/token", "berry/user"}
  BY AirThemes DEF BerryForms
<1>3. do = "post" => Adds(id, inputs)
  BY <1>2 DEF Adds
<1>4. do = "put" => Puts(id, inputs)
  BY <1>2 DEF Puts
<1> QED
  BY <1>1, <1>2, <1>3, <1>4, AirConverts DEF Submitting

LEMMA AirSubmits ==
  ASSUME IsForm(inputs), form \in AirForms, AirTheme!Submits(IF form = "air/adduser" THEN New ELSE target),
         form = "air/token" => mode = "edit"
  PROVE  Submitting
<1> DEFINE id == IF form = "air/adduser" THEN New ELSE target
           do == IF id = New THEN "post" ELSE "put"
<1>1. open /\ inputs' = inputs /\ AirTheme!SaveBy(do, id, inputs)
  BY AirWords DEF AirTheme!Submits
<1>2. do \in {"put", "post"} /\ (do = "put" => id = target /\ id # New)
  OBVIOUS
<1>3. do = "post" => target = New \/ form = "air/adduser"
  OBVIOUS
<1> HIDE DEF do, id
<1> QED
  BY <1>1, <1>2, <1>3, AirSubmitting

LEMMA AirTurns ==
  ASSUME form \in AirForms, open, NEW v, NEW s, AirTheme!TurnedBack(v, s), UNCHANGED busy,
         \/ v = inputs
         \/ form = "air/token" /\ mode # "edit" /\ v = Blank
  PROVE  Turning
<1>1. Turned(v, s)
  BY AirThemes DEF Turned
<1> QED
  BY <1>1, AirWords DEF Turning

LEMMA AirPosts ==
  ASSUME IsForm(inputs),
         \/ AirTheme!AirChannelSubmit \/ AirTheme!AirTokenSubmit
         \/ AirTheme!AirUserSubmit \/ AirTheme!AirAddUserSubmit
  PROVE  Submitting \/ Turning
<1>1. CASE AirTheme!AirChannelSubmit
  <2>1. form = "air/channel" /\ form \in AirForms
    BY <1>1 DEF AirTheme!AirChannelSubmit, AirTheme!AirChannel, AirForms
  <2> QED
    BY <1>1, <2>1, AirTurns, AirSubmits DEF AirTheme!AirChannelSubmit
<1>2. CASE AirTheme!AirTokenSubmit
  <2>1. form = "air/token" /\ form \in AirForms
    BY <1>2 DEF AirTheme!AirTokenSubmit, AirTheme!AirToken, AirForms
  <2>2. CASE /\ open
             /\ AirTheme!TurnedBack(IF mode = "edit" THEN inputs ELSE Blank, FALSE)
             /\ UNCHANGED busy
    BY <2>1, <2>2, AirTurns
  <2>3. CASE mode = "edit" /\ AirTheme!Submits(target)
    BY <2>1, <2>3, AirSubmits
  <2>4. CASE /\ mode = "add" /\ open
             /\ \E more \in 0 .. TokenCount - 1 : AirTheme!SaveBy("post", more, inputs)
             /\ UNCHANGED <<inputs, busy>>
    BY <2>1, <2>4, AirSubmitting
  <2> QED
    BY <1>2, <2>2, <2>3, <2>4, AirValues DEF AirTheme!AirTokenSubmit
<1>3. CASE AirTheme!AirUserSubmit
  <2>1. form = "air/user" /\ form \in AirForms
    BY <1>3 DEF AirTheme!AirUserSubmit, AirTheme!AirUser, AirForms
  <2> QED
    BY <1>3, <2>1, AirSubmits DEF AirTheme!AirUserSubmit
<1>4. CASE AirTheme!AirAddUserSubmit
  <2>1. form = "air/adduser" /\ form \in AirForms
    BY <1>4 DEF AirTheme!AirAddUserSubmit, AirTheme!AirAddUser, AirForms
  <2>2. CASE open /\ AirTheme!TurnedBack(inputs, TRUE) /\ UNCHANGED busy
    BY <2>1, <2>2, AirTurns
  <2>3. CASE AirTheme!Submits(New)
    BY <2>1, <2>3, AirSubmits
  <2> QED
    BY <1>4, <2>2, <2>3, AirValues DEF AirTheme!AirAddUserSubmit
<1> QED
  BY <1>1, <1>2, <1>3, <1>4

LEMMA AirCloses ==
  ASSUME \/ AirTheme!AirChannelClosed \/ AirTheme!AirTokenClosed
         \/ AirTheme!AirUserClosed \/ AirTheme!AirAddUserClosed
  PROVE  AirClosing
<1>1. AirTheme!Close
  BY DEF AirTheme!AirChannelClosed, AirTheme!AirTokenClosed, AirTheme!AirUserClosed,
         AirTheme!AirAddUserClosed
<1>2. open /\ ~open' /\ UserActs /\ UNCHANGED <<sess, initial, failed, stale>>
  BY <1>1, AirWords DEF AirTheme!Close
<1>3. CASE AirTheme!AirChannelClosed \/ AirTheme!AirAddUserClosed
  <2>1. form \in {"air/channel", "air/adduser"}
    BY <1>3 DEF AirTheme!AirChannelClosed, AirTheme!AirChannel, AirTheme!AirAddUserClosed,
                AirTheme!AirAddUser
  <2>2. inputs' = inputs /\ net' = net /\ UNCHANGED <<target, mode, timers>>
    BY <1>3, AirShows DEF AirTheme!AirChannelClosed, AirTheme!AirAddUserClosed
  <2> QED
    BY <1>2, <2>1, <2>2 DEF AirClosing, AirForms
<1>4. CASE AirTheme!AirTokenClosed
  <2>1. form = "air/token" /\ inputs' = inputs /\ net' = net /\ UNCHANGED <<target, mode>>
    BY <1>4, AirShows DEF AirTheme!AirTokenClosed, AirTheme!AirToken
  <2>2. \E t : timers' = timers \cup {t}
    BY <1>4 DEF AirTheme!AirTokenClosed, AirTheme!ResetLater
  <2> QED
    BY <1>2, <2>1, <2>2 DEF AirClosing, AirForms
<1>5. CASE AirTheme!AirUserClosed
  <2>1. form = "air/user" /\ target' = New /\ UNCHANGED <<mode, timers>>
    BY <1>5, AirValues DEF AirTheme!AirUserClosed, AirTheme!AirUser
  <2>2. inputs' = inputs /\ Asked("load", Self, Blank)
    BY <1>5, AirShows DEF AirTheme!AirUserClosed
  <2> QED
    BY <1>2, <2>1, <2>2 DEF AirClosing, AirForms
<1> QED
  BY <1>3, <1>4, <1>5

\* Answers.
LEMMA AirLoads ==
  ASSUME form \in AirForms, AirTheme!LoadEnds
  PROVE  Loading
<1>1. PICK r \in net :
         /\ r.do = "load" /\ r.ans # None
         /\ inputs' = IF r.ans.ok = "ok" THEN Loaded(r) ELSE inputs
         /\ Took(r)
         /\ Goes
         /\ UNCHANGED <<open, sess, target, mode, initial, busy, timers, failed>>
  BY AirValues, AirWords DEF AirTheme!LoadEnds, Answers
<1> QED
  BY <1>1, AirThemes DEF Loading, Reloaded

LEMMA AirSaves ==
  ASSUME AirTheme!AirChannelSaved \/ AirTheme!AirAddUserSaved
  PROVE  AirSaving
<1>1. form \in {"air/channel", "air/adduser"}
  BY DEF AirTheme!AirChannelSaved, AirTheme!AirChannel, AirTheme!AirAddUserSaved,
         AirTheme!AirAddUser
<1>2. Goes /\ UNCHANGED <<sess, target, mode, initial, timers, failed>>
  BY AirWords DEF AirTheme!AirChannelSaved, AirTheme!AirAddUserSaved
<1>3. PICK r \in net :
         /\ r.do \in {"put", "post"} /\ r.ans # None
         /\ inputs' = IF r.ans.ok = "ok" /\ r.do = "post" THEN Blank ELSE inputs
         /\ open' = (open /\ r.ans.ok # "ok")
         /\ Took(r)
  <2>1. CASE AirTheme!AirChannelSaved
    BY <2>1, AirValues, AirWords DEF AirTheme!AirChannelSaved, Answers
  <2>2. CASE AirTheme!AirAddUserSaved
    BY <2>2, AirValues, AirWords DEF AirTheme!AirAddUserSaved, Answers
  <2> QED
    BY <2>1, <2>2
<1> QED
  BY <1>1, <1>2, <1>3 DEF AirSaving, Answer, Saves

LEMMA AirTokenSaves ==
  ASSUME AirTheme!AirTokenSaved
  PROVE  AirTokenSaving
<1>1. form = "air/token" /\ Goes /\ UNCHANGED <<sess, target, mode, initial, failed>>
  BY AirWords DEF AirTheme!AirTokenSaved, AirTheme!AirToken
<1>2. PICK r \in AirTheme!Answers({"put", "post"}) :
         \/ /\ r.ans.ok = "lost"
            /\ AirTheme!Received(r)
            /\ UNCHANGED <<open, inputs, spin, timers>>
         \/ /\ r.ans.ok # "lost" /\ (r.do = "put" \/ r.id = 0 \/ r.ans.ok = "refused")
            /\ AirTheme!AirTokenFinishes(r, r.ans.ok = "ok" \/ \E m \in made : m.click = r.click)
         \/ /\ r.ans.ok = "ok" /\ r.do = "post" /\ r.id > 0
            /\ AirTheme!SendNext(r, "post", r.id - 1)
            /\ UNCHANGED <<open, inputs, spin, timers>>
  BY DEF AirTheme!AirTokenSaved
<1>3. Answer(r)
  BY <1>2, AirValues DEF Answers, Answer, Saves
<1>4. CASE r.ans.ok = "lost" /\ AirTheme!Received(r) /\ UNCHANGED <<open, inputs, spin, timers>>
  BY <1>1, <1>3, <1>4, AirWords DEF AirTokenSaving, Answer
<1>5. CASE AirTheme!AirTokenFinishes(r, r.ans.ok = "ok" \/ \E m \in made : m.click = r.click)
  <2> DEFINE saved == r.ans.ok = "ok" \/ \E m \in made : m.click = r.click
  <2>1. inputs' = Blank /\ Took(r)
    BY <1>5, AirValues, AirWords DEF AirTheme!AirTokenFinishes
  <2>2. IF saved THEN open' = FALSE /\ AirTheme!ResetLater(r.n) ELSE UNCHANGED <<open, timers>>
    BY <1>5 DEF AirTheme!AirTokenFinishes
  <2>3. \/ ~open' /\ \E t : timers' = timers \cup {t}
        \/ r.ans.ok # "ok" /\ UNCHANGED <<open, timers>>
    BY <2>2 DEF AirTheme!ResetLater
  <2> QED
    BY <1>1, <1>3, <2>1, <2>3 DEF AirTokenSaving, Answer
<1>6. CASE /\ r.ans.ok = "ok" /\ r.do = "post"
           /\ AirTheme!SendNext(r, "post", r.id - 1)
           /\ UNCHANGED <<open, inputs, spin, timers>>
  <2>1. \E id : Sent(r, "post", id)
    BY <1>6, AirWords
  <2> QED
    BY <1>1, <1>3, <1>6, <2>1 DEF AirTokenSaving, Answer
<1> QED
  BY <1>2, <1>4, <1>5, <1>6

LEMMA AirTokenResets ==
  ASSUME AirTheme!AirTokenReset
  PROVE  AirTokenResetting
<1>1. timers # {} /\ timers' \subseteq timers
  BY DEF AirTheme!AirTokenReset
<1>2. inputs' = IF mode = "add" THEN inputs ELSE Blank
  BY AirShows, AirValues DEF AirTheme!AirTokenReset
<1>3. net' = net
  BY AirShows DEF AirTheme!AirTokenReset
<1> QED
  BY <1>1, <1>2, <1>3, AirValues, AirWords
  DEF AirTheme!AirTokenReset, AirTheme!AirToken, AirTokenResetting

LEMMA AirUserSaves ==
  ASSUME AirTheme!AirUserSaved
  PROVE  AirUserSaving
<1>1. form = "air/user" /\ Goes /\ UNCHANGED <<sess, mode, initial, inputs, timers, failed>>
  BY AirWords DEF AirTheme!AirUserSaved, AirTheme!AirUser
<1>2. PICK r \in net :
         /\ Answer(r)
         /\ \/ /\ ~open' /\ target' = New
               /\ Took(r) \/ Sent(r, "load", Self)
            \/ r.ans.ok # "ok" /\ Took(r) /\ UNCHANGED <<open, target>>
  <2>1. PICK r \in AirTheme!Answers({"put"}) :
         \/ /\ r.ans.ok = "ok"
            /\ open' = FALSE
            /\ target' = New
            /\ IF target = New THEN AirTheme!Received(r) /\ spin' = FALSE
               ELSE AirTheme!SendNext(r, "load", Self) /\ spin' = TRUE
         \/ r.ans.ok = "refused" /\ AirTheme!Received(r) /\ spin' = FALSE /\ UNCHANGED <<open, target>>
         \/ r.ans.ok = "lost" /\ AirTheme!Received(r) /\ UNCHANGED <<open, target, spin>>
    BY AirValues DEF AirTheme!AirUserSaved
  <2>2. Answer(r)
    BY <2>1, AirValues DEF Answers, Answer, Saves
  <2> QED
    BY <2>1, <2>2, AirWords DEF Answer
<1> QED
  BY <1>1, <1>2 DEF AirUserSaving

LEMMA AirSteps ==
  ASSUME IsForm(inputs), AirTheme!AirStep
  PROVE  UserStep \/ AnswerStep
<1>1. CASE \/ AirTheme!AirChannelOpens \/ AirTheme!AirTokenOpens
           \/ AirTheme!AirUserOpens \/ AirTheme!AirAddUserOpens
  BY <1>1, AirOpens DEF UserStep
<1>2. CASE \/ AirTheme!AirChannelSubmit \/ AirTheme!AirTokenSubmit
           \/ AirTheme!AirUserSubmit \/ AirTheme!AirAddUserSubmit
  BY <1>2, AirPosts DEF UserStep
<1>3. CASE \/ AirTheme!AirChannelClosed \/ AirTheme!AirTokenClosed
           \/ AirTheme!AirUserClosed \/ AirTheme!AirAddUserClosed
  BY <1>3, AirCloses DEF UserStep
<1>4. CASE \/ AirTheme!AirChannelTyped \/ AirTheme!AirTokenTyped
           \/ AirTheme!AirUserTyped \/ AirTheme!AirAddUserTyped
  <2>1. form \in AirForms
    BY <1>4 DEF AirTheme!AirChannelTyped, AirTheme!AirChannel, AirTheme!AirTokenTyped,
                AirTheme!AirToken, AirTheme!AirUserTyped, AirTheme!AirUser,
                AirTheme!AirAddUserTyped, AirTheme!AirAddUser, AirForms
  <2> QED
    BY <1>4, <2>1, AirFields
    DEF AirTheme!AirChannelTyped, AirTheme!AirChannel, AirTheme!AirTokenTyped,
        AirTheme!AirToken, AirTheme!AirUserTyped, AirTheme!AirUser,
        AirTheme!AirAddUserTyped, AirTheme!AirAddUser, UserStep
<1>5. CASE AirTheme!AirChannelType \/ AirTheme!AirChannelKey
  BY <1>5, AirChannelFields DEF UserStep
<1>6. CASE AirTheme!AirChannelLoad \/ AirTheme!AirTokenLoad \/ AirTheme!AirUserLoad
  BY <1>6, AirLoads
  DEF AirTheme!AirChannelLoad, AirTheme!AirChannel, AirTheme!AirTokenLoad,
      AirTheme!AirToken, AirTheme!AirUserLoad, AirTheme!AirUser, AirForms, AnswerStep
<1>7. CASE \/ AirTheme!AirChannelSaved \/ AirTheme!AirAddUserSaved \/ AirTheme!AirTokenSaved
           \/ AirTheme!AirTokenReset \/ AirTheme!AirUserSaved
  BY <1>7, AirSaves, AirTokenSaves, AirTokenResets, AirUserSaves DEF AnswerStep
<1> QED
  BY <1>1, <1>2, <1>3, <1>4, <1>5, <1>6, <1>7
  DEF AirTheme!AirStep, AirTheme!AirEditChannel, AirTheme!AirEditToken,
      AirTheme!AirEditUser, AirTheme!AirAdd

(***************************************************************************)
(* The editors of the berry theme                                          *)
(***************************************************************************)
LEMMA BerryValues ==
  /\ BerryTheme!New = New
  /\ BerryTheme!None = None
  /\ BerryTheme!Special = Special
  /\ BerryTheme!FormScale = FormScale
  /\ BerryTheme!Blank = Blank
  /\ \A r : BerryTheme!Loaded(r) = Loaded(r)
  /\ \A v, f : BerryTheme!Write(v, f) = Write(v, f)
  /\ \A v : BerryTheme!FillModels(v) = FillModels(v)
  /\ \A dos : BerryTheme!Answers(dos) = Answers(dos)
<1>1. BerryTheme!FormScale = FormScale
  BY DEF BerryTheme!FormScale, FormScale, BerryTheme!DefaultForms, DefaultForms,
         BerryTheme!ChannelForms, ChannelForms
<1>2. BerryTheme!Blank = Blank
  BY <1>1 DEF BerryTheme!Blank, Blank, BerryTheme!New, New
<1>3. BerryTheme!Special = Special
  BY DEF BerryTheme!Special, Special
<1>4. \A id : BerryTheme!TypeOf(id) = TypeOf(id)
  BY DEF BerryTheme!TypeOf, TypeOf, BerryTheme!FirstId, FirstId
<1>5. \A r : BerryTheme!Loaded(r) = Loaded(r)
  BY <1>1, <1>2, <1>3, <1>4 DEF BerryTheme!Loaded, Loaded
<1>6. \A v, f : BerryTheme!Write(v, f) = Write(v, f)
  BY <1>1 DEF BerryTheme!Write, Write
<1>7. \A v : BerryTheme!FillModels(v) = FillModels(v)
  BY DEF BerryTheme!FillModels, FillModels
<1>8. BerryTheme!New = New /\ BerryTheme!None = None
  BY DEF BerryTheme!New, New, BerryTheme!None, None
<1>9. \A dos : BerryTheme!Answers(dos) = Answers(dos)
  BY <1>8 DEF BerryTheme!Answers, Answers
<1> QED
  BY <1>1, <1>2, <1>3, <1>5, <1>6, <1>7, <1>8, <1>9

LEMMA BerryWords ==
  /\ BerryTheme!UserActs <=> UserActs
  /\ BerryTheme!Goes <=> Goes
  /\ BerryTheme!SendNothing => net' = net
  /\ \A do, id, v : BerryTheme!Send(do, id, v) => Asked(do, id, v)
  /\ \A r : BerryTheme!Received(r) => Took(r)
  /\ \A id : BerryTheme!Appear(id) => Appear(id)
  /\ \A v : BerryTheme!Typing(v) => Typing(v)
  /\ \A v, s : BerryTheme!TurnedBack(v, s) => TurnedBack(v, s)
  /\ \A do, id, v : BerryTheme!SaveBy(do, id, v) =>
       /\ Asked(do, id, v)
       /\ UserActs
       /\ UNCHANGED <<open, sess, target, mode, initial, timers, failed, stale>>
<1>1. BerryTheme!Acts <=> Acts
  BY DEF BerryTheme!Acts, Acts
<1>2. BerryTheme!UserActs <=> UserActs
  BY <1>1 DEF BerryTheme!UserActs, UserActs, BerryTheme!server, server
<1>3. BerryTheme!Goes <=> Goes
  BY DEF BerryTheme!Goes, Goes, BerryTheme!server, server
<1>4. BerryTheme!SendNothing <=> SendNothing
  BY DEF BerryTheme!SendNothing, SendNothing, BerryTheme!wire, wire
<1>5. \A do, id, v : BerryTheme!Req(do, id, v) = Req(do, id, v)
  BY BerryValues DEF BerryTheme!Req, Req
<1>6. \A do, id, v : BerryTheme!Send(do, id, v) => Asked(do, id, v)
  BY <1>5 DEF BerryTheme!Send, BerryTheme!Sends, Asked
<1>7. \A r : BerryTheme!Received(r) => Took(r)
  BY DEF BerryTheme!Received, Took
<1>8. \A id : BerryTheme!Appear(id) => Appear(id)
  BY <1>2, BerryValues DEF BerryTheme!Appear, Appear, BerryTheme!FirstId, FirstId
<1>9. \A v : BerryTheme!Typing(v) => Typing(v)
  BY <1>2, <1>4 DEF BerryTheme!Typing, Typing
<1>10. \A v, s : BerryTheme!TurnedBack(v, s) => TurnedBack(v, s)
  BY <1>2, <1>4 DEF BerryTheme!TurnedBack, TurnedBack
<1>11. \A do, id, v : BerryTheme!SaveBy(do, id, v) =>
         /\ Asked(do, id, v)
         /\ UserActs
         /\ UNCHANGED <<open, sess, target, mode, initial, timers, failed, stale>>
  BY <1>2, <1>6 DEF BerryTheme!SaveBy
<1>12. BerryTheme!SendNothing => net' = net
  BY <1>4 DEF SendNothing, wire
<1> QED
  BY <1>2, <1>3, <1>6, <1>7, <1>8, <1>9, <1>10, <1>11, <1>12

LEMMA BerryThemes ==
  ASSUME form \in BerryForms
  PROVE  form \notin AirForms /\ form \notin DefaultForms
BY DEF AirForms, BerryForms, DefaultForms

LEMMA BerryOpens ==
  ASSUME form \in BerryForms, BerryTheme!Opens(Ids \cup {New})
  PROVE  Opening
<1>1. PICK id \in Targets :
         /\ Appear(id)
         /\ inputs' = initial
         /\ busy' = FALSE
         /\ UNCHANGED initial
         /\ id = New => net' = net
         /\ id # New => Asked("load", id, Blank)
  BY BerryValues, BerryWords DEF BerryTheme!Opens, Targets
<1>2. /\ form \notin {"default/adduser", "air/adduser"}
      /\ form # "air/user" /\ form # "air/token"
  BY DEF BerryForms
<1> QED
  BY <1>1, <1>2, BerryThemes DEF Opening

LEMMA BerryCloses ==
  ASSUME form \in BerryForms, BerryTheme!Closed, UNCHANGED <<sess, mode, failed, stale>>
  PROVE  BerryClosed
BY BerryValues DEF BerryTheme!Closed, BerryClosed

LEMMA BerryFields ==
  ASSUME IsForm(inputs), form \in BerryForms, NEW fs,
         fs \subseteq {"text", "models", "config", "key", "wrong"}, BerryTheme!TypeFields(fs)
  PROVE  Writing
<1>1. PICK f \in fs : BerryTheme!Typing(BerryTheme!Write(inputs, f))
  BY DEF BerryTheme!TypeFields
<1>2. Typing(Write(inputs, f)) /\ form # "air/token"
  BY <1>1, BerryValues, BerryWords DEF BerryForms
<1> QED
  BY <1>2, WriteIs DEF Writing

LEMMA BerryRetypes ==
  ASSUME IsForm(inputs), BerryTheme!BerryChannelType
  PROVE  Writing
<1>1. form # "air/token"
  BY DEF BerryTheme!BerryChannelType, BerryTheme!BerryChannel
<1>2. PICK t : Typing(FillModels([inputs EXCEPT !.type = t, !.config = {}]))
  BY BerryValues, BerryWords DEF BerryTheme!BerryChannelType
<1> QED
  BY <1>1, <1>2, RetypedIs DEF Writing

LEMMA BerryStops ==
  ASSUME form \in BerryForms, BerryTheme!Stopped
  PROVE  Turning
<1>1. Turned(inputs, spin)
  BY DEF Turned
<1> QED
  BY <1>1, BerryWords DEF BerryTheme!Stopped, Turning

LEMMA BerrySubmits ==
  ASSUME form \in BerryForms, NEW do \in {"put", "post"}, NEW v, BerryTheme!Submits(do, v),
         IsForm(inputs), Same(v), v.scale = inputs.scale, v.config = inputs.config,
         v.type = inputs.type, v.key \in Special \ {inputs.key} => v.key \in v.config,
         do = "post" => IF form = "berry/channel" THEN target = New ELSE inputs.of = New
  PROVE  Submitting
<1>1. /\ open /\ ~busy /\ busy' = TRUE
      /\ Asked(do, target, v)
      /\ UserActs
      /\ UNCHANGED <<open, sess, target, mode, initial, timers, failed, stale>>
      /\ inputs' = v
  BY BerryWords DEF BerryTheme!Submits
<1>2. Converts(v)
  <2>1. FormScale = 0 /\ form # "air/token" /\ form # "default/token"
    BY FormScaleIs DEF BerryForms
  <2> QED
    BY <1>1, <2>1, BerryThemes DEF Converts, Same, BerryForms
<1>3. do = "post" => Adds(target, v)
  BY BerryThemes DEF Adds, BerryForms
<1>4. do = "put" => Puts(target, v)
  BY BerryThemes DEF Puts, BerryForms
<1> QED
  BY <1>1, <1>2, <1>3, <1>4, BerryThemes DEF Submitting

LEMMA BerryLoads ==
  ASSUME form \in BerryForms, BerryTheme!LoadEnds
  PROVE  Loading
<1>1. PICK r \in net :
         /\ r.do = "load" /\ r.ans # None
         /\ initial' = IF r.ans.ok = "ok" THEN Loaded(r) ELSE initial
         /\ inputs' = IF open /\ initial' # initial THEN initial' ELSE inputs
         /\ Took(r)
         /\ Goes
         /\ UNCHANGED <<open, sess, target, mode, spin, busy, timers, failed>>
  BY BerryValues, BerryWords DEF BerryTheme!LoadEnds, Answers
<1> QED
  BY <1>1, BerryThemes DEF Loading, Reloaded

LEMMA BerrySaves ==
  ASSUME form \in BerryForms, BerryTheme!SaveEnds
  PROVE  BerrySaving
<1>1. PICK r \in net :
         /\ r.do \in {"put", "post"} /\ r.ans # None
         /\ \/ r.ans.ok = "ok" /\ BerryTheme!Closed
            \/ /\ r.ans.ok # "ok"
               /\ busy' = (busy /\ r.sess # sess)
               /\ UNCHANGED <<open, target, initial, inputs>>
         /\ Took(r)
         /\ Goes
         /\ UNCHANGED <<sess, mode, spin, timers, failed>>
  BY BerryValues, BerryWords DEF BerryTheme!SaveEnds, Answers
<1>2. BerryTheme!Closed => BerryClosed
  BY <1>1, BerryCloses, Hastens
<1> QED
  BY <1>1, <1>2 DEF BerrySaving, Answer, Saves

LEMMA BerryEnds ==
  ASSUME form \in BerryForms, BerryTheme!Closes
  PROVE  BerryClosing
BY BerryCloses, BerryWords DEF BerryTheme!Closes, BerryClosing

\* The three dialogs.
LEMMA BerryChannelSubmits ==
  ASSUME IsForm(inputs), BerryTheme!BerryChannelSubmit
  PROVE  Submitting \/ Turning
<1> DEFINE v == BerryTheme!BerryMadeOfConfig(inputs)
           do == IF target = New THEN "post" ELSE "put"
<1>1. form = "berry/channel" /\ form \in BerryForms
  BY DEF BerryTheme!BerryChannelSubmit, BerryTheme!BerryChannel, BerryForms
<1>2. BerryTheme!Stopped \/ BerryTheme!Submits(do, v)
  BY BerryValues DEF BerryTheme!BerryChannelSubmit
<1>3. Same(v)
  BY DEF BerryTheme!BerryMadeOfConfig, IsForm, Same
<1>4. v.config = inputs.config /\ v.type = inputs.type /\ v.scale = inputs.scale
  BY DEF BerryTheme!BerryMadeOfConfig, IsForm
<1>5. v.key \in {inputs.key} \cup v.config
  BY <1>4 DEF BerryTheme!BerryMadeOfConfig, IsForm
<1>6. do \in {"put", "post"} /\ (do = "post" => target = New)
  OBVIOUS
<1> HIDE DEF v, do
<1> QED
  BY <1>1, <1>2, <1>3, <1>4, <1>5, <1>6, BerryStops, BerrySubmits

LEMMA BerryOtherSubmits ==
  ASSUME IsForm(inputs), BerryTheme!BerryTokenSubmit \/ BerryTheme!BerryUserSubmit
  PROVE  Submitting \/ Turning
<1> DEFINE do == IF inputs.of = New THEN "post" ELSE "put"
<1>1. form \in {"berry/token", "berry/user"} /\ form \in BerryForms
  BY DEF BerryTheme!BerryTokenSubmit, BerryTheme!BerryToken, BerryTheme!BerryUserSubmit,
         BerryTheme!BerryUser, BerryForms
<1>2. BerryTheme!Stopped \/ BerryTheme!Submits(do, inputs)
  BY BerryValues
  DEF BerryTheme!BerryTokenSubmit, BerryTheme!BerryUserSubmit, BerryTheme!DecidedByValues
<1>3. do \in {"put", "post"} /\ (do = "post" => inputs.of = New)
  OBVIOUS
<1>4. Same(inputs)
  BY DEF Same
<1> HIDE DEF do
<1> QED
  BY <1>1, <1>2, <1>3, <1>4, BerryStops, BerrySubmits

LEMMA BerrySteps ==
  ASSUME IsForm(inputs), BerryTheme!BerryStep
  PROVE  UserStep \/ AnswerStep
<1>1. form \in BerryForms
  BY DEF BerryTheme!BerryStep, BerryTheme!BerryEditChannel, BerryTheme!BerryEditToken,
         BerryTheme!BerryEditUser, BerryTheme!BerryChannelOpens,
         BerryTheme!BerryChannelLoad, BerryTheme!BerryChannelTyped,
         BerryTheme!BerryChannelType, BerryTheme!BerryChannelConfig,
         BerryTheme!BerryChannelKey, BerryTheme!BerryChannelSubmit,
         BerryTheme!BerryChannelSaved, BerryTheme!BerryChannelClosed,
         BerryTheme!BerryTokenOpens, BerryTheme!BerryTokenLoad, BerryTheme!BerryTokenTyped,
         BerryTheme!BerryTokenSubmit, BerryTheme!BerryTokenSaved,
         BerryTheme!BerryTokenClosed, BerryTheme!BerryUserOpens, BerryTheme!BerryUserLoad,
         BerryTheme!BerryUserTyped, BerryTheme!BerryUserSubmit, BerryTheme!BerryUserSaved,
         BerryTheme!BerryUserClosed, BerryTheme!BerryChannel, BerryTheme!BerryToken,
         BerryTheme!BerryUser, BerryForms
<1>2. CASE \/ BerryTheme!BerryChannelOpens \/ BerryTheme!BerryTokenOpens
           \/ BerryTheme!BerryUserOpens
  BY <1>1, <1>2, BerryOpens, BerryValues
  DEF BerryTheme!BerryChannelOpens, BerryTheme!BerryTokenOpens, BerryTheme!BerryUserOpens,
      UserStep
<1>3. CASE \/ BerryTheme!BerryChannelLoad \/ BerryTheme!BerryTokenLoad
           \/ BerryTheme!BerryUserLoad
  BY <1>1, <1>3, BerryLoads
  DEF BerryTheme!BerryChannelLoad, BerryTheme!BerryTokenLoad, BerryTheme!BerryUserLoad,
      AnswerStep
<1>4. CASE \/ BerryTheme!BerryChannelTyped \/ BerryTheme!BerryChannelConfig
           \/ BerryTheme!BerryChannelKey \/ BerryTheme!BerryTokenTyped
           \/ BerryTheme!BerryUserTyped
  BY <1>1, <1>4, BerryFields
  DEF BerryTheme!BerryChannelTyped, BerryTheme!BerryChannelConfig,
      BerryTheme!BerryChannelKey, BerryTheme!BerryTokenTyped, BerryTheme!BerryUserTyped,
      UserStep
<1>5. CASE BerryTheme!BerryChannelType
  BY <1>5, BerryRetypes DEF UserStep
<1>6. CASE \/ BerryTheme!BerryChannelSubmit \/ BerryTheme!BerryTokenSubmit
           \/ BerryTheme!BerryUserSubmit
  BY <1>6, BerryChannelSubmits, BerryOtherSubmits DEF UserStep
<1>7. CASE \/ BerryTheme!BerryChannelSaved \/ BerryTheme!BerryTokenSaved
           \/ BerryTheme!BerryUserSaved
  BY <1>1, <1>7, BerrySaves
  DEF BerryTheme!BerryChannelSaved, BerryTheme!BerryTokenSaved, BerryTheme!BerryUserSaved,
      AnswerStep
<1>8. CASE \/ BerryTheme!BerryChannelClosed \/ BerryTheme!BerryTokenClosed
           \/ BerryTheme!BerryUserClosed
  BY <1>1, <1>8, BerryEnds
  DEF BerryTheme!BerryChannelClosed, BerryTheme!BerryTokenClosed,
      BerryTheme!BerryUserClosed, UserStep
<1> QED
  BY <1>2, <1>3, <1>4, <1>5, <1>6, <1>7, <1>8
  DEF BerryTheme!BerryStep, BerryTheme!BerryEditChannel, BerryTheme!BerryEditToken,
      BerryTheme!BerryEditUser

\* What a step of the system is.
LEMMA Steps ==
  ASSUME IsForm(inputs), Next
  PROVE  UserStep \/ AnswerStep \/ Serve \/ Fault \/ Others
BY DefaultSteps, AirSteps, BerrySteps
DEF Next, DefaultEditors, AirEditors, BerryEditors

(***************************************************************************)
(* Requests and the shape of the state                                     *)
(***************************************************************************)
LEMMA NoneIs == None.ok = "none"
BY DEF None

LEMMA AskedIs ==
  ASSUME NEW do, NEW id, NEW body, Asked(do, id, body)
  PROVE  \E q : /\ net' = net \cup {q}
                /\ IsRequest(q) /\ q.do = do /\ q.id = id /\ q.body = body /\ q.sess = sess'
                /\ q.ans = None
<1> DEFINE q == Req(do, id, body)
<1>1. /\ IsRequest(q) /\ q.do = do /\ q.id = id /\ q.body = body /\ q.sess = sess'
      /\ q.ans = None
  BY DEF Req, IsRequest
<1>2. net' = net \cup {q}
  BY DEF Asked
<1> HIDE DEF q
<1> QED
  BY <1>1, <1>2

LEMMA SentIs ==
  ASSUME NEW r, IsRequest(r), NEW do, NEW id, Sent(r, do, id)
  PROVE  \E q : /\ net' = (net \ {r}) \cup {q}
                /\ IsRequest(q) /\ q.do = do /\ q.id = id /\ q.body = r.body
                /\ q.sess = r.sess /\ q.click = r.click /\ q.ans = None
<1> DEFINE q == [r EXCEPT !.n = issued + 1, !.do = do, !.id = id, !.ans = None]
<1>1. /\ IsRequest(q) /\ q.do = do /\ q.id = id /\ q.body = r.body
      /\ q.sess = r.sess /\ q.click = r.click /\ q.ans = None
  BY DEF IsRequest
<1>2. net' = (net \ {r}) \cup {q}
  BY DEF Sent
<1> HIDE DEF q
<1> QED
  BY <1>1, <1>2

LEMMA AnsweredIs ==
  ASSUME NEW r, IsRequest(r), NEW ans, Answered(r, ans)
  PROVE  \E q : /\ net' = (net \ {r}) \cup {q}
                /\ IsRequest(q) /\ q.do = r.do /\ q.id = r.id /\ q.body = r.body
                /\ q.sess = r.sess /\ q.click = r.click /\ q.ans = ans
<1> DEFINE q == [r EXCEPT !.ans = ans]
<1>1. /\ IsRequest(q) /\ q.do = r.do /\ q.id = r.id /\ q.body = r.body
      /\ q.sess = r.sess /\ q.click = r.click /\ q.ans = ans
  BY DEF IsRequest
<1>2. net' = (net \ {r}) \cup {q}
  BY DEF Answered
<1> HIDE DEF q
<1> QED
  BY <1>1, <1>2

\* A request stays one.
LEMMA RequestOn ==
  ASSUME Shape, failed => failed', sess' \in {sess, sess + 1}, NEW r \in net
  PROVE  Request(r)' /\ r.sess <= sess
<1>1. Request(r) /\ sess \in Nat
  BY DEF Shape
<1>2. r.sess \in Nat /\ r.sess <= sess /\ r.sess <= sess'
  BY <1>1 DEF Request
<1> QED
  BY <1>1, <1>2 DEF Request

LEMMA ShapeOn ==
  ASSUME Shape, \A r \in net' : r \in net \/ Request(r)',
         failed' \in BOOLEAN, failed => failed', hasty' \in {hasty, hasty + 1},
         sess' \in {sess, sess + 1}, target' \in Targets, IsForm(inputs'), IsForm(initial'),
         UNCHANGED server
  PROVE  Shape'
<1>1. \A r \in net' : Request(r)'
  BY RequestOn
<1>2. hasty' \in Nat /\ sess' \in Nat
  BY DEF Shape
<1>3. \A m \in made' : m.sess \in Nat /\ m.sess <= sess'
  BY DEF Shape, server
<1>4. DOMAIN store' = Records /\ \A id \in Records : IsRecord(store'[id])
  BY DEF Shape, server
<1> QED
  BY <1>1, <1>2, <1>3, <1>4 DEF Shape

LEMMA NewRequest ==
  ASSUME Shape, sess' \in {sess, sess + 1}, NEW do \in {"load", "group", "put", "post"}, NEW id,
         NEW body, IsForm(body), do = "load" => id \in Records, do = "put" => id \in Targets,
         NEW q, IsRequest(q), q.do = do, q.id = id, q.body = body, q.sess \in {sess, sess'},
         q.ans = None
  PROVE  Request(q)'
<1>1. sess' \in Nat /\ sess <= sess' /\ sess \in Nat
  BY DEF Shape
<1>2. q.sess \in Nat /\ q.sess <= sess'
  BY <1>1
<1> QED
  BY <1>2, NoneIs DEF Request

LEMMA UserShape ==
  ASSUME Shape, UserStep
  PROVE  Shape'
<1>1. Shape /\ IsForm(Blank) /\ failed \in BOOLEAN /\ target \in Targets /\ New \in Targets
      /\ IsForm(inputs) /\ IsForm(initial) /\ Ids \subseteq Records /\ Self \in Records
  BY BlankIs DEF Shape, Targets, Records
<1>2. CASE Opening
  <2>1. PICK id \in Targets :
           /\ Appear(id)
           /\ UNCHANGED initial
           /\ \/ id # New /\ Asked("load", id, Blank)
              \/ net' = net
    BY <1>2 DEF Opening, Kept
  <2>2. inputs' \in {inputs, initial, Blank}
    BY <1>2 DEF Opening
  <2>3. /\ target' = id /\ sess' = sess + 1 /\ UserActs /\ UNCHANGED failed
    BY <2>1 DEF Appear
  <2>4. CASE net' = net
    BY <1>1, <2>1, <2>2, <2>3, <2>4, Hastens, ShapeOn
  <2>5. CASE id # New /\ Asked("load", id, Blank)
    <3>1. PICK q : /\ net' = net \cup {q}
                   /\ IsRequest(q) /\ q.do = "load" /\ q.id = id /\ q.body = Blank
                   /\ q.sess = sess' /\ q.ans = None
      BY <2>5, AskedIs
    <3>2. Request(q)'
      BY <1>1, <2>3, <2>5, <3>1, NewRequest DEF Targets
    <3> QED
      BY <1>1, <2>1, <2>2, <2>3, <3>1, <3>2, Hastens, ShapeOn
  <2> QED
    BY <2>1, <2>4, <2>5
<1>3. CASE Writing
  <2>1. PICK v : Typing(v) /\ Rewritten(v)
    BY <1>3 DEF Writing
  <2>2. /\ IsForm(inputs') /\ net' = net /\ UNCHANGED <<sess, target, initial, failed>>
        /\ UserActs
    BY <2>1 DEF Typing, Rewritten, Same, SendNothing, wire
  <2> QED
    BY <1>1, <2>2, Hastens, ShapeOn
<1>4. CASE Turning
  <2>1. PICK v, s : TurnedBack(v, s) /\ Turned(v, s)
    BY <1>4 DEF Turning
  <2>2. IsForm(v)
    BY <1>1, <2>1 DEF Turned, Same
  <2>3. /\ IsForm(inputs') /\ net' = net /\ UNCHANGED <<sess, target, initial>>
        /\ failed' \in BOOLEAN /\ (failed => failed')
        /\ UserActs
    BY <1>1, <2>1, <2>2 DEF TurnedBack, SendNothing, wire
  <2> QED
    BY <1>1, <2>3, Hastens, ShapeOn
<1>5. CASE Submitting
  <2>1. PICK do, id, v :
           /\ Asked(do, id, v) /\ Same(v) /\ Same(inputs')
           /\ do \in {"put", "post"} /\ (do = "put" => id = target)
           /\ UserActs
           /\ UNCHANGED <<sess, target, initial, failed>>
    BY <1>5 DEF Submitting, Converts, Puts
  <2>2. PICK q : /\ net' = net \cup {q}
                 /\ IsRequest(q) /\ q.do = do /\ q.id = id /\ q.body = v
                 /\ q.sess = sess' /\ q.ans = None
    BY <2>1, AskedIs
  <2>3. Request(q)'
    BY <1>1, <2>1, <2>2, NewRequest DEF Same
  <2> QED
    BY <1>1, <2>1, <2>2, <2>3, Hastens, ShapeOn DEF Same
<1>6. CASE Grouping
  <2>1. PICK q : /\ net' = net \cup {q}
                 /\ IsRequest(q) /\ q.do = "group" /\ q.id = target /\ q.body = Blank
                 /\ q.sess = sess' /\ q.ans = None
    BY <1>6, AskedIs DEF Grouping
  <2>2. UserActs /\ UNCHANGED <<sess, target, inputs, initial, failed>>
    BY <1>6 DEF Grouping, editor
  <2>3. Request(q)'
    BY <1>1, <2>1, <2>2, NewRequest
  <2> QED
    BY <1>1, <2>1, <2>2, <2>3, Hastens, ShapeOn
<1>7. CASE AirClosing
  <2>1. UserActs /\ UNCHANGED <<sess, inputs, initial, failed>>
    BY <1>7 DEF AirClosing
  <2>2. CASE target' = target /\ net' = net
    BY <1>1, <2>1, <2>2, Hastens, ShapeOn
  <2>3. CASE target' = New /\ Asked("load", Self, Blank)
    <3>1. PICK q : /\ net' = net \cup {q}
                   /\ IsRequest(q) /\ q.do = "load" /\ q.id = Self /\ q.body = Blank
                   /\ q.sess = sess' /\ q.ans = None
      BY <2>3, AskedIs
    <3>2. Request(q)'
      BY <1>1, <2>1, <3>1, NewRequest
    <3> QED
      BY <1>1, <2>1, <2>3, <3>1, <3>2, Hastens, ShapeOn
  <2> QED
    BY <1>7, <2>2, <2>3 DEF AirClosing
<1>8. CASE BerryClosing
  <2>1. /\ UserActs /\ net' = net /\ UNCHANGED <<sess, failed>>
        /\ target' = New /\ inputs' = Blank /\ initial' \in {initial, Blank}
    BY <1>8 DEF BerryClosing, BerryClosed
  <2> QED
    BY <1>1, <2>1, Hastens, ShapeOn
<1> QED
  BY <1>2, <1>3, <1>4, <1>5, <1>6, <1>7, <1>8 DEF UserStep

\* Requests that are answered go, or their handlers ask for more.
LEMMA AnswerNet ==
  ASSUME Shape, AnswerStep, NEW r \in net', r \notin net
  PROVE  \E q \in net :
           /\ r.body = q.body /\ r.sess = q.sess /\ r.click = q.click /\ r.ans = None
           /\ IsRequest(r)
           /\ Answer(q)
           /\ \/ form = "air/token" /\ q.do = "post" /\ q.ans.ok = "ok" /\ r.do = "post"
              \/ form = "air/user" /\ r.do = "load" /\ r.id = Self /\ ~open'
<1>1. CASE AirTokenSaving
  <2>1. PICK q \in net : Answer(q) /\ q.ans.ok = "ok" /\ q.do = "post"
                         /\ \E id : Sent(q, "post", id)
    BY <1>1 DEF AirTokenSaving, Took
  <2>2. PICK id : Sent(q, "post", id)
    BY <2>1
  <2>3. IsRequest(q)
    BY DEF Shape, Request
  <2>4. PICK p : /\ net' = (net \ {q}) \cup {p}
                 /\ IsRequest(p) /\ p.do = "post" /\ p.id = id /\ p.body = q.body
                 /\ p.sess = q.sess /\ p.click = q.click /\ p.ans = None
    BY <2>2, <2>3, SentIs
  <2>5. r = p
    BY <2>4
  <2> QED
    BY <1>1, <2>1, <2>4, <2>5 DEF AirTokenSaving
<1>2. CASE AirUserSaving
  <2>1. PICK q \in net : Answer(q) /\ Sent(q, "load", Self) /\ ~open'
    BY <1>2 DEF AirUserSaving, Took
  <2>2. IsRequest(q)
    BY DEF Shape, Request
  <2>3. PICK p : /\ net' = (net \ {q}) \cup {p}
                 /\ IsRequest(p) /\ p.do = "load" /\ p.id = Self /\ p.body = q.body
                 /\ p.sess = q.sess /\ p.click = q.click /\ p.ans = None
    BY <2>1, <2>2, SentIs
  <2>4. r = p
    BY <2>3
  <2> QED
    BY <1>2, <2>1, <2>3, <2>4 DEF AirUserSaving
<1>3. CASE ~AirTokenSaving /\ ~AirUserSaving
  BY <1>3
  DEF AnswerStep, Unmounted, Loading, GroupLoading, DefaultSaving, AirSaving,
      AirTokenResetting, BerrySaving, Took
<1> QED
  BY <1>1, <1>2, <1>3

LEMMA AnswerShape ==
  ASSUME Shape, AnswerStep
  PROVE  Shape'
<1>1. IsForm(Blank) /\ failed \in BOOLEAN /\ target \in Targets /\ New \in Targets
      /\ IsForm(inputs) /\ IsForm(initial) /\ Self \in Records
  BY BlankIs DEF Shape, Targets, Records
<1>2. UNCHANGED <<server, failed, sess>> /\ hasty' \in {hasty, hasty + 1}
  BY Hastens
  DEF AnswerStep, Unmounted, Loading, GroupLoading, DefaultSaving, AirSaving,
      AirTokenSaving, AirTokenResetting, AirUserSaving, BerrySaving, BerryClosed
<1>3. target' \in {target, New}
  BY DEF AnswerStep, Unmounted, Loading, GroupLoading, DefaultSaving, AirSaving,
         AirTokenSaving, AirTokenResetting, AirUserSaving, BerrySaving, BerryClosed
<1>4. \A r : IsForm(Loaded(r))
  BY LoadedIs
<1>5. IsForm(initial')
  BY <1>1, <1>4
  DEF AnswerStep, Unmounted, Loading, Reloaded, GroupLoading, DefaultSaving, AirSaving,
      AirTokenSaving, AirTokenResetting, AirUserSaving, BerrySaving, BerryClosed
<1>6. IsForm(inputs')
  BY <1>1, <1>4, <1>5
  DEF AnswerStep, Unmounted, Loading, Reloaded, GroupLoading, DefaultSaving, AirSaving,
      AirTokenSaving, AirTokenResetting, AirUserSaving, BerrySaving, BerryClosed, Same
<1>7. ASSUME NEW r \in net', r \notin net
      PROVE  Request(r)'
  <2>1. PICK q \in net :
           /\ r.body = q.body /\ r.sess = q.sess /\ r.ans = None
           /\ IsRequest(r)
           /\ \/ r.do = "post"
              \/ r.do = "load" /\ r.id = Self
    BY <1>7, AnswerNet
  <2>2. Request(q) /\ IsForm(q.body)
    BY DEF Shape, Request
  <2>3. q.sess \in Nat /\ q.sess <= sess
    BY <2>2 DEF Request
  <2>4. r.do \in {"load", "group", "put", "post"} /\ (r.do = "load" => r.id \in Records)
        /\ (r.do = "put" => r.id \in Targets)
    BY <1>1, <2>1
  <2> QED
    BY <1>2, <2>1, <2>2, <2>3, <2>4, NoneIs DEF Request
<1> QED
  BY <1>1, <1>2, <1>3, <1>5, <1>6, <1>7, ShapeOn

(***************************************************************************)
(* The server                                                              *)
(***************************************************************************)
\* What the server and others do to requests and records.
Served(r, q) ==
  /\ r \in net /\ r.ans = None
  /\ net' = (net \ {r}) \cup {q}
  /\ IsRequest(q) /\ q.do = r.do /\ q.id = r.id /\ q.body = r.body
  /\ q.sess = r.sess /\ q.click = r.click
ServingLoad(r, q) ==
  /\ r.do = "load" /\ q.ans.ok = "ok" /\ q.ans.cols = store[r.id]
  /\ UNCHANGED <<server, failed>>
ServingGroup(r, q) == r.do = "group" /\ q.ans.ok = "ok" /\ UNCHANGED <<server, failed>>
ServingPut(r, q) ==
  /\ r.do = "put" /\ q.ans.ok = "ok" /\ PutFits(r)
  /\ store' = [store EXCEPT ![r.id] =
       IF form \in UserForms /\ r.body.of = New THEN @ ELSE Columns(r.body)]
  /\ UNCHANGED <<made, failed>>
ServingPost(r, q) ==
  /\ r.do = "post" /\ q.ans.ok = "ok" /\ PostFits(r)
  /\ made' = made \cup {[click |-> r.click, sess |-> r.sess, cols |-> Columns(r.body)]}
  /\ UNCHANGED <<store, failed>>
Failing(r, q) ==
  /\ q.ans.ok \in {"refused", "lost"}
  /\ failed' = TRUE
  /\ UNCHANGED server
Serving ==
  /\ \E r, q :
       /\ Served(r, q)
       /\ \/ ServingLoad(r, q) \/ ServingGroup(r, q) \/ ServingPut(r, q) \/ ServingPost(r, q)
          \/ Failing(r, q)
  /\ UNCHANGED <<form, editor, timers, hasty, stale>>

LEMMA Serves ==
  ASSUME Shape, Serve \/ Fault
  PROVE  Serving
<1>1. CASE Serve
  <2>1. PICK r \in net :
           /\ r.ans = None
           /\ ServeLoad(r) \/ ServeGroup(r) \/ ServePut(r) \/ ServePost(r)
           /\ UNCHANGED <<form, editor, timers, hasty, stale>>
    BY <1>1 DEF Serve
  <2>2. IsRequest(r)
    BY DEF Shape, Request
  <2>3. \A ans : Answered(r, ans) => \E q : Served(r, q) /\ q.ans = ans
    BY <2>1, <2>2, AnsweredIs DEF Served
  <2>4. CASE ServeLoad(r)
    <3>1. PICK q : Served(r, q) /\ q.ans = [ok |-> "ok", cols |-> store[r.id]]
      BY <2>3, <2>4 DEF ServeLoad
    <3>2. ServingLoad(r, q)
      BY <2>4, <3>1 DEF ServeLoad, ServingLoad
    <3> QED
      BY <2>1, <3>1, <3>2 DEF Serving
  <2>5. CASE ServeGroup(r)
    <3>1. PICK q : Served(r, q) /\ q.ans = Accepted
      BY <2>3, <2>5 DEF ServeGroup
    <3>2. ServingGroup(r, q)
      BY <2>5, <3>1 DEF ServeGroup, ServingGroup, Accepted
    <3> QED
      BY <2>1, <3>1, <3>2 DEF Serving
  <2>6. CASE ServePut(r) /\ PutFits(r)
    <3>1. PICK q : Served(r, q) /\ q.ans = Accepted
      BY <2>3, <2>6 DEF ServePut
    <3>2. ServingPut(r, q)
      BY <2>6, <3>1 DEF ServePut, ServingPut, Accepted
    <3> QED
      BY <2>1, <3>1, <3>2 DEF Serving
  <2>7. CASE ServePost(r) /\ PostFits(r)
    <3>1. PICK q : Served(r, q) /\ q.ans = Accepted
      BY <2>3, <2>7 DEF ServePost
    <3>2. ServingPost(r, q)
      BY <2>7, <3>1 DEF ServePost, ServingPost, Accepted
    <3> QED
      BY <2>1, <3>1, <3>2 DEF Serving
  <2>8. CASE \/ ServePut(r) /\ ~PutFits(r)
             \/ ServePost(r) /\ ~PostFits(r)
    <3>1. Answered(r, Refused) /\ failed' = TRUE /\ UNCHANGED server
      BY <2>8 DEF ServePut, ServePost, server
    <3>2. PICK q : Served(r, q) /\ q.ans = Refused
      BY <2>3, <3>1
    <3>3. Failing(r, q)
      BY <3>1, <3>2 DEF Failing, Refused
    <3> QED
      BY <2>1, <3>2, <3>3 DEF Serving
  <2> QED
    BY <2>1, <2>4, <2>5, <2>6, <2>7, <2>8
<1>2. CASE Fault
  <2>1. PICK r \in net, a \in {"refused", "lost"} :
           /\ r.ans = None
           /\ Answered(r, [ok |-> a])
           /\ failed' = TRUE
           /\ UNCHANGED <<form, editor, server, timers, hasty, stale>>
    BY <1>2 DEF Fault
  <2>2. IsRequest(r)
    BY DEF Shape, Request
  <2>3. PICK q : Served(r, q) /\ q.ans = [ok |-> a]
    BY <2>1, <2>2, AnsweredIs DEF Served
  <2>4. Failing(r, q)
    BY <2>1, <2>3 DEF Failing
  <2> QED
    BY <2>1, <2>3, <2>4 DEF Serving
<1> QED
  BY <1>1, <1>2

\* Others touch a record's version.
Touching ==
  /\ open /\ target # New /\ stale'
  /\ DOMAIN store' = DOMAIN store
  /\ \A id \in Records :
       /\ IsRecord(store'[id]) /\ store'[id].of = store[id].of
       /\ store'[id].scale = store[id].scale
  /\ UNCHANGED <<form, editor, made, net, timers, hasty, failed>>
LEMMA Touches ==
  ASSUME Shape, Others
  PROVE  Touching
<1>1. store' = [store EXCEPT ![target].ver = store[target].ver + 1]
  BY DEF Others
<1>2. \A id \in Records : IsRecord(store[id])
  BY DEF Shape
<1>3. \A id \in Records :
        /\ IsRecord(store'[id]) /\ store'[id].of = store[id].of
        /\ store'[id].scale = store[id].scale
  BY <1>1, <1>2 DEF IsRecord, Shape
<1> QED
  BY <1>1, <1>3 DEF Others, Touching, wire

LEMMA ServerShape ==
  ASSUME Shape, Serving \/ Touching
  PROVE  Shape'
<1>1. CASE Touching
  <2>1. UNCHANGED <<hasty, sess, failed, target, inputs, initial, net, made>>
    BY <1>1 DEF Touching, editor
  <2>2. DOMAIN store' = Records /\ \A id \in Records : IsRecord(store'[id])
    BY <1>1 DEF Touching, Shape
  <2>3. \A r \in net' : Request(r)'
    BY <2>1 DEF Shape, Request
  <2> QED
    BY <2>1, <2>2, <2>3 DEF Shape
<1>2. CASE Serving
  <2>1. UNCHANGED <<hasty, sess, target, inputs, initial>>
    BY <1>2 DEF Serving, editor
  <2>2. PICK r, q :
           /\ Served(r, q)
           /\ \/ ServingLoad(r, q) \/ ServingGroup(r, q) \/ ServingPut(r, q)
              \/ ServingPost(r, q) \/ Failing(r, q)
    BY <1>2 DEF Serving
  <2>3. failed' \in BOOLEAN /\ (failed => failed')
    <3>1. failed' = failed \/ failed' = TRUE
      BY <2>2 DEF ServingLoad, ServingGroup, ServingPut, ServingPost, Failing
    <3> QED
      BY <3>1 DEF Shape
  <2>4. \A p \in net : Request(p)' /\ p.sess <= sess
    BY <2>1, <2>3, RequestOn
  <2>5. Request(r) /\ r \in net
    BY <2>2 DEF Shape, Served
  <2>6. q.ans.ok \in {"ok", "refused", "lost"} /\ (q.ans.ok # "ok" => failed')
    BY <2>2 DEF ServingLoad, ServingGroup, ServingPut, ServingPost, Failing
  <2>7. Request(q)'
    <3>1. Request(r)'
      BY <2>4, <2>5
    <3>2. IsRequest(q) /\ q.do = r.do /\ q.id = r.id /\ q.body = r.body /\ q.sess = r.sess
      BY <2>2 DEF Served
    <3> QED
      BY <2>6, <3>1, <3>2, NoneIs DEF Request
  <2>8. \A p \in net' : Request(p)'
    BY <2>2, <2>4, <2>7 DEF Served
  <2>9. DOMAIN store' = Records /\ \A id \in Records : IsRecord(store'[id])
    <3>1. IsRecord(Columns(r.body))
      BY DEF IsRecord, Columns
    <3>2. DOMAIN store = Records /\ \A id \in Records : IsRecord(store[id])
      BY DEF Shape
    <3>3. CASE ServingPut(r, q)
      BY <3>1, <3>2, <3>3 DEF ServingPut
    <3>4. CASE ~ServingPut(r, q)
      BY <2>2, <3>2, <3>4 DEF ServingLoad, ServingGroup, ServingPost, Failing, server
    <3> QED
      BY <3>3, <3>4
  <2>10. \A m \in made' : m.sess \in Nat /\ m.sess <= sess'
    <3>1. \A m \in made : m.sess \in Nat /\ m.sess <= sess
      BY DEF Shape
    <3>2. r.sess \in Nat /\ r.sess <= sess
      BY <2>5 DEF Request
    <3>3. \A m \in made' : m \in made \/ m.sess = r.sess
      BY <2>2 DEF ServingLoad, ServingGroup, ServingPut, ServingPost, Failing, server
    <3> QED
      BY <2>1, <3>1, <3>2, <3>3
  <2> QED
    BY <2>1, <2>3, <2>8, <2>9, <2>10 DEF Shape
<1> QED
  BY <1>1, <1>2

(***************************************************************************)
(* What every step keeps                                                   *)
(***************************************************************************)
StaysOf == form' = form /\ Blank' = Blank /\ FormScale' = FormScale
LEMMA Stays ==
  ASSUME form' = form
  PROVE  StaysOf
BY DEF StaysOf, Blank, FormScale, New

\* The user is patient when everything had come to rest.
LEMMA Patience ==
  ASSUME Shape, UserActs, hasty' = 0
  PROVE  hasty = 0 /\ net = {} /\ timers = {}
<1>1. hasty \in Nat /\ hasty + 1 # 0
  BY DEF Shape
<1> QED
  BY <1>1 DEF UserActs, Acts

LEMMA UserKeeps ==
  ASSUME UserStep
  PROVE  /\ UserActs /\ (failed => failed')
         /\ StaysOf
         /\ UNCHANGED server
<1>1. UserActs /\ (failed' = failed \/ Turning)
  <2>1. CASE Opening \/ Writing
    BY <2>1 DEF Opening, Appear, Writing, Typing
  <2>2. CASE Turning
    BY <2>2 DEF Turning, TurnedBack
  <2>3. CASE Submitting \/ Grouping \/ AirClosing \/ BerryClosing
    BY <2>3 DEF Submitting, Grouping, AirClosing, BerryClosing, BerryClosed
  <2> QED
    BY <2>1, <2>2, <2>3 DEF UserStep
<1>2. failed => failed'
  BY <1>1 DEF Turning, TurnedBack
<1> QED
  BY <1>1, <1>2, Hastens, Stays

LEMMA AnswerKeeps ==
  ASSUME AnswerStep
  PROVE  /\ hasty' \in {hasty, hasty + 1} /\ failed' = failed
         /\ StaysOf
         /\ UNCHANGED <<server, stale, sess>>
<1>1. /\ hasty' \in {hasty, hasty + 1} /\ failed' = failed /\ form' = form
      /\ UNCHANGED <<server, stale, sess>>
  BY Hastens
  DEF AnswerStep, Unmounted, Loading, GroupLoading, DefaultSaving, AirSaving,
      AirTokenSaving, AirTokenResetting, AirUserSaving, BerrySaving, BerryClosed
<1> QED
  BY <1>1, Stays

LEMMA Outside ==
  ASSUME Serving \/ Touching
  PROVE  /\ StaysOf
         /\ UNCHANGED <<editor, timers, hasty>>
         /\ failed => failed'
         /\ stale => stale'
<1>1. form' = form /\ UNCHANGED <<editor, timers, hasty>> /\ (stale => stale')
  BY DEF Serving, Touching
<1>2. failed => failed'
  BY DEF Serving, Touching, ServingLoad, ServingGroup, ServingPut, ServingPost, Failing
<1> QED
  BY <1>1, <1>2, Stays

\* Once a user was hasty, or something failed, it stays so.
LEMMA CalmBefore ==
  ASSUME Shape, UserStep \/ AnswerStep \/ Serving \/ Touching
  PROVE  /\ hasty' = 0 => hasty = 0
         /\ ~failed' => ~failed
         /\ Calm' => Calm
         /\ StaysOf
<1>1. /\ hasty' \in {hasty, hasty + 1}
      /\ failed => failed'
      /\ StaysOf
  BY UserKeeps, AnswerKeeps, Outside, Hastens
<1>2. hasty \in Nat /\ hasty + 1 # 0
  BY DEF Shape
<1> QED
  BY <1>1, <1>2 DEF Calm

(***************************************************************************)
(* In the beginning                                                        *)
(***************************************************************************)
LEMMA InitInv ==
  ASSUME Init
  PROVE  Inv
<1> USE DEF Init
<1>1. /\ IsForm(Blank) /\ Blank.of = New /\ Blank.ver = 0 /\ Blank.scale = FormScale
      /\ Blank.models = "none" /\ Blank.key = "none" /\ Blank.config = {}
      /\ Blank.key \notin Special
  BY BlankIs DEF Special
<1>2. /\ inputs = Blank /\ initial = Blank /\ made = {} /\ timers = {} /\ hasty = 0 /\ ~open
      /\ target = New /\ mode = "add" /\ sess = 0 /\ failed = FALSE
  OBVIOUS
<1>3. \A id \in Records : /\ IsRecord(store[id]) /\ store[id].of = id
                          /\ store[id].ver = 0 /\ store[id].scale = 0
  BY DEF IsRecord
<1>4. \A r \in net :
        /\ form = "air/user" /\ IsRequest(r) /\ r.do = "load" /\ r.id = Self /\ r.body = Blank
        /\ r.sess = 0 /\ r.ans = None
  BY DEF IsRequest
<1>5. Self \in Records /\ None.ok = "none"
  BY NoneIs DEF Records
<1>6. \A r, q \in net : r = q
  OBVIOUS
<1>7. form = "air/user" => /\ form \notin DefaultForms /\ form \notin BerryForms
                           /\ form # "air/token" /\ form # "air/channel"
  BY DEF DefaultForms, BerryForms
<1>8. DOMAIN store = Records
  OBVIOUS
<1> HIDE DEF Init
<1>10. Shape
  <2>1. \A r \in net : Request(r)
    BY <1>1, <1>2, <1>4, <1>5 DEF Request
  <2> QED
    BY <1>1, <1>2, <1>3, <1>8, <2>1 DEF Shape, Targets
<1>11. ScaleInv
  BY <1>1, <1>2, <1>3, <1>4, <1>5 DEF ScaleInv, Rescaled, Saves
<1>12. KeyInv
  BY <1>1, <1>2, <1>4 DEF KeyInv, KeyFits, Saves
<1>13. DefaultInv
  BY <1>1, <1>2, <1>3, <1>4, <1>7 DEF DefaultInv
<1>14. AddInv
  BY <1>1, <1>2, <1>4 DEF AddInv
<1>15. BerryInv
  BY <1>2, <1>4 DEF BerryInv, Saves
<1>16. PatientInv
  BY <1>1, <1>2, <1>4, <1>6, <1>7 DEF PatientInv, AddingOnce, TokenSheet
<1>17. CalmInv
  <2>1. \A r \in net : CalmRequest(r)
    BY <1>2, <1>4, <1>5, <1>7 DEF CalmRequest, Showing
  <2>2. Shown /\ initial.of = New
    BY <1>1, <1>2 DEF Shown
  <2> QED
    BY <1>2, <1>3, <1>4, <1>7, <2>1, <2>2 DEF CalmInv, Dialog, NoLoad
<1> QED
  BY <1>10, <1>11, <1>12, <1>13, <1>14, <1>15, <1>16, <1>17 DEF Inv

\* What a user's step asks for.
LEMMA UserNet ==
  ASSUME Shape, UserStep, NEW r \in net', r \notin net
  PROVE  /\ IsRequest(r) /\ r.ans = None /\ r.sess = sess'
         /\ \A q : q \in net' <=> q \in net \/ q = r
         /\ \/ r.do = "load" /\ Opening /\ r.id = target' /\ r.id # New
            \/ r.do = "load" /\ AirClosing /\ form = "air/user" /\ r.id = Self
            \/ r.do = "group" /\ Grouping
            \/ /\ Submitting /\ Converts(r.body)
               /\ \/ r.do = "post" /\ Adds(r.id, r.body)
                  \/ r.do = "put" /\ Puts(r.id, r.body)
<1>1. ASSUME NEW do, NEW id, NEW body, Asked(do, id, body)
      PROVE  /\ IsRequest(r) /\ r.do = do /\ r.id = id /\ r.body = body /\ r.sess = sess'
             /\ r.ans = None /\ \A q : q \in net' <=> q \in net \/ q = r
  BY <1>1, AskedIs
<1>2. CASE Opening
  <2>1. PICK id \in Targets :
           /\ Appear(id)
           /\ \/ id # New /\ Asked("load", id, Blank)
              \/ net' = net
    BY <1>2 DEF Opening, Kept
  <2>2. target' = id /\ id # New /\ Asked("load", id, Blank)
    BY <2>1 DEF Appear
  <2> QED
    BY <1>1, <1>2, <2>2
<1>3. CASE Writing \/ Turning \/ BerryClosing
  BY <1>3 DEF Writing, Typing, Turning, TurnedBack, BerryClosing, SendNothing, wire
<1>4. CASE Submitting
  <2>1. PICK do, id, v :
           /\ Asked(do, id, v)
           /\ Converts(v)
           /\ \/ do = "post" /\ Adds(id, v)
              \/ do = "put" /\ Puts(id, v)
    BY <1>4 DEF Submitting
  <2> QED
    BY <1>1, <1>4, <2>1
<1>5. CASE Grouping
  BY <1>1, <1>5 DEF Grouping
<1>6. CASE AirClosing
  BY <1>1, <1>6 DEF AirClosing
<1> QED
  BY <1>2, <1>3, <1>4, <1>5, <1>6 DEF UserStep

LEMMA OpeningNet ==
  ASSUME Opening, NEW r \in net', r \notin net
  PROVE  /\ IsRequest(r) /\ r.ans = None /\ r.ans.ok = "none" /\ r.sess = sess'
         /\ r.do = "load" /\ r.id = target' /\ r.id # New
         /\ net' = net \cup {r}
<1>1. PICK id \in Targets :
         /\ Appear(id)
         /\ \/ id # New /\ Asked("load", id, Blank)
            \/ net' = net
  BY DEF Opening, Kept
<1>2. target' = id /\ id # New /\ Asked("load", id, Blank)
  BY <1>1 DEF Appear
<1> QED
  BY <1>2, AskedIs, NoneIs

LEMMA SubmittingNet ==
  ASSUME Submitting
  PROVE  \E r \in net' :
           /\ IsRequest(r) /\ r.ans = None /\ r.ans.ok = "none" /\ r.sess = sess
           /\ net' = net \cup {r}
           /\ Converts(r.body)
           /\ \/ r.do = "post" /\ Adds(r.id, r.body)
              \/ r.do = "put" /\ Puts(r.id, r.body)
<1>1. PICK do, id, v :
         /\ Asked(do, id, v)
         /\ Converts(v)
         /\ \/ do = "post" /\ Adds(id, v)
            \/ do = "put" /\ Puts(id, v)
         /\ sess' = sess
  BY DEF Submitting
<1> QED
  BY <1>1, AskedIs, NoneIs

LEMMA UserInitial ==
  ASSUME UserStep
  PROVE  initial' \in {initial, Blank}
<1>1. CASE Opening \/ Writing
  BY <1>1 DEF Opening, Writing, Typing
<1>2. CASE Turning
  BY <1>2 DEF Turning, TurnedBack
<1>3. CASE Submitting \/ Grouping
  BY <1>3 DEF Submitting, Grouping, editor
<1>4. CASE AirClosing \/ BerryClosing
  BY <1>4 DEF AirClosing, BerryClosing, BerryClosed
<1> QED
  BY <1>1, <1>2, <1>3, <1>4 DEF UserStep

LEMMA AnswerInitial ==
  ASSUME AnswerStep
  PROVE  \/ initial' \in {initial, Blank}
         \/ form \in BerryForms /\ \E r \in net : r.do = "load" /\ r.ans.ok = "ok" /\ initial' = Loaded(r)
BY DEF AnswerStep, Unmounted, Loading, Reloaded, GroupLoading, DefaultSaving, AirSaving,
       AirTokenSaving, AirTokenResetting, AirUserSaving, BerrySaving, BerryClosed

LEMMA AnswerInputs ==
  ASSUME AnswerStep
  PROVE  \/ inputs' \in {inputs, Blank}
         \/ form \in BerryForms /\ inputs' = initial'
         \/ \E r \in net : r.do = "load" /\ r.ans.ok = "ok" /\ Took(r) /\ inputs' = Loaded(r)
         \/ GroupLoading
BY DEF AnswerStep, Unmounted, Loading, Reloaded, DefaultSaving, AirSaving,
       AirTokenSaving, AirTokenResetting, AirUserSaving, BerrySaving, BerryClosed

LEMMA SameForm ==
  UNCHANGED editor =>
    UNCHANGED open /\ UNCHANGED sess /\ UNCHANGED target /\ UNCHANGED mode
    /\ UNCHANGED initial /\ UNCHANGED inputs /\ UNCHANGED spin /\ UNCHANGED busy
BY DEF editor

(***************************************************************************)
(* Units                                                                   *)
(***************************************************************************)
LEMMA ScaleUser ==
  ASSUME Shape, ScaleInv, UserStep
  PROVE  ScaleInv'
<1> SUFFICES ASSUME form' = "default/token" => Calm'
             PROVE  /\ \A id \in Records' : store'[id].scale = 0
                    /\ \A m \in made' : m.cols.scale = 0
                    /\ \A r \in net' : Rescaled(r)'
                    /\ form' # "default/token" \/ Unsaved' => inputs'.scale = FormScale'
                    /\ initial'.scale = FormScale'
  BY DEF ScaleInv
<1>1. /\ form' = form /\ FormScale' = FormScale /\ Blank' = Blank
      /\ form = "default/token" => Calm
      /\ UNCHANGED server /\ UserActs
  BY CalmBefore, UserKeeps DEF StaysOf
<1>2. /\ \A id \in Records : store[id].scale = 0
      /\ \A m \in made : m.cols.scale = 0
      /\ \A r \in net : Rescaled(r)
      /\ form # "default/token" \/ Unsaved => inputs.scale = FormScale
      /\ initial.scale = FormScale
  BY <1>1 DEF ScaleInv
<1>3. Blank.scale = FormScale
  BY BlankIs
<1>4. (\A id \in Records' : store'[id].scale = 0) /\ (\A m \in made' : m.cols.scale = 0)
  BY <1>1, <1>2 DEF server, Records
<1>5. initial'.scale = FormScale
  BY <1>2, <1>3, UserInitial
<1>6. form = "default/token" => net = {} /\ timers = {} /\ Unsaved
  BY <1>1, Patience DEF Calm, Unsaved
<1>7. inputs.scale = FormScale
  BY <1>2, <1>6
<1>8. ASSUME NEW r \in net'
      PROVE  Rescaled(r)'
  <2>1. CASE r \in net
    BY <1>2, <2>1 DEF Rescaled, Saves
  <2>2. CASE r \notin net
    <3>1. r.ans.ok = "none"
      BY <2>2, UserNet, NoneIs
    <3>2. Saves(r) => r.body.scale = 0
      BY <1>7, <2>2, UserNet DEF Converts, Saves
    <3> QED
      BY <3>1, <3>2 DEF Rescaled, Saves
  <2> QED
    BY <2>1, <2>2
<1>9. ASSUME form # "default/token" \/ Unsaved'
      PROVE  inputs'.scale = FormScale
  <2>1. CASE Opening
    BY <1>2, <1>3, <1>7, <2>1 DEF Opening
  <2>2. CASE Writing
    BY <1>7, <2>2 DEF Writing, Rewritten, Typing
  <2>3. CASE Turning
    <3>1. PICK v, s : TurnedBack(v, s) /\ Turned(v, s)
      BY <2>3 DEF Turning
    <3>2. inputs' = v
      BY <3>1 DEF TurnedBack
    <3>3. form = "default/token" => v = inputs
      BY <1>1, <3>1 DEF TurnedBack, Calm
    <3> QED
      BY <1>3, <1>7, <3>1, <3>2, <3>3 DEF Turned
  <2>4. CASE Submitting
    <3>1. PICK do, id, v : Asked(do, id, v) /\ Converts(v) /\ do \in {"post", "put"}
      BY <2>4 DEF Submitting
    <3>2. PICK q \in net' : q.do = do
      BY <3>1, AskedIs
    <3>3. form # "default/token"
      BY <1>9, <3>1, <3>2 DEF Unsaved, Saves
    <3> QED
      BY <1>7, <3>1, <3>3 DEF Converts
  <2>5. CASE Grouping
    BY <1>7, <2>5 DEF Grouping, editor
  <2>6. CASE AirClosing \/ BerryClosing
    BY <1>3, <1>7, <2>6 DEF AirClosing, BerryClosing, BerryClosed
  <2> QED
    BY <2>1, <2>2, <2>3, <2>4, <2>5, <2>6 DEF UserStep
<1> QED
  BY <1>1, <1>4, <1>5, <1>8, <1>9

LEMMA ScaleAnswer ==
  ASSUME Shape, ScaleInv, AnswerStep
  PROVE  ScaleInv'
<1> SUFFICES ASSUME form' = "default/token" => Calm'
             PROVE  /\ \A id \in Records' : store'[id].scale = 0
                    /\ \A m \in made' : m.cols.scale = 0
                    /\ \A r \in net' : Rescaled(r)'
                    /\ form' # "default/token" \/ Unsaved' => inputs'.scale = FormScale'
                    /\ initial'.scale = FormScale'
  BY DEF ScaleInv
<1>1. /\ form' = form /\ FormScale' = FormScale
      /\ form = "default/token" => Calm
      /\ UNCHANGED server /\ failed' = failed
  BY CalmBefore, AnswerKeeps DEF StaysOf
<1>2. /\ \A id \in Records : store[id].scale = 0
      /\ \A m \in made : m.cols.scale = 0
      /\ \A r \in net : Rescaled(r)
      /\ form # "default/token" \/ Unsaved => inputs.scale = FormScale
      /\ initial.scale = FormScale
  BY <1>1 DEF ScaleInv
<1>3. Blank.scale = FormScale
  BY BlankIs
<1>4. (\A id \in Records' : store'[id].scale = 0) /\ (\A m \in made' : m.cols.scale = 0)
  BY <1>1, <1>2 DEF server, Records
<1>5. \A r \in net : r.do = "load" /\ r.ans.ok = "ok" => Loaded(r).scale = FormScale
  <2>1. \A r \in net : r.do = "load" /\ r.ans.ok = "ok" => r.ans.cols.scale = 0
    BY <1>2 DEF Rescaled
  <2>2. FormScale + 0 = FormScale /\ 0 + FormScale = FormScale
    BY FormScaleIs
  <2> QED
    BY <2>1, <2>2, LoadedIs
<1>6. initial'.scale = FormScale
  BY <1>2, <1>3, <1>5, AnswerInitial
<1>7. ASSUME NEW r \in net'
      PROVE  Rescaled(r)'
  <2>1. CASE r \in net
    BY <1>2, <2>1 DEF Rescaled, Saves
  <2>2. CASE r \notin net
    <3>1. r.ans.ok = "none"
      BY <2>2, AnswerNet, NoneIs
    <3>2. PICK q \in net : r.body = q.body /\ (Saves(r) => Saves(q))
      BY <2>2, AnswerNet DEF Saves
    <3> QED
      BY <1>2, <3>1, <3>2 DEF Rescaled, Saves
  <2> QED
    BY <2>1, <2>2
<1>8. ASSUME NEW r \in net, ~Saves(r), Took(r), timers' = timers, Unsaved'
      PROVE  Unsaved
  BY <1>8 DEF Unsaved, Took, Saves
<1>9. ASSUME form # "default/token" \/ Unsaved'
      PROVE  inputs'.scale = FormScale
  <2>1. CASE form # "default/token"
    BY <1>2, <1>3, <1>5, <1>6, <2>1, AnswerInputs DEF GroupLoading
  <2>2. CASE Unmounted
    BY <1>3, <2>2 DEF Unmounted
  <2>3. CASE form = "default/token" /\ Loading
    <3>1. PICK r \in net : r.do = "load" /\ Reloaded(r) /\ Took(r) /\ timers' = timers
      BY <2>3 DEF Loading
    <3>2. inputs.scale = FormScale
      BY <1>2, <1>8, <1>9, <2>3, <3>1 DEF Saves
    <3> QED
      BY <1>5, <1>6, <2>3, <3>1, <3>2 DEF Reloaded
  <2>4. CASE GroupLoading
    <3>1. PICK r \in net : r.do = "group" /\ Took(r) /\ timers' = timers
      BY <2>4 DEF GroupLoading
    <3>2. inputs.scale = FormScale
      BY <1>2, <1>8, <1>9, <2>4, <3>1 DEF Saves, GroupLoading
    <3> QED
      BY <2>4, <3>2 DEF GroupLoading
  <2>5. CASE form = "default/token" /\ DefaultSaving
    <3>1. PICK r \in net : r.ans # None /\ timers' = timers /\ r.ans.ok # "ok"
      BY <1>9, <2>5 DEF DefaultSaving, Answer, Unsaved
    <3>2. failed
      BY <3>1 DEF Shape, Request
    <3> QED
      BY <1>1, <2>5, <3>2 DEF Calm
  <2>6. CASE AirSaving \/ AirTokenSaving \/ AirTokenResetting \/ AirUserSaving \/ BerrySaving
    BY <2>1, <2>6
    DEF AirSaving, AirTokenSaving, AirTokenResetting, AirUserSaving, BerrySaving, BerryClosed,
        BerryForms
  <2> QED
    BY <2>1, <2>2, <2>3, <2>4, <2>5, <2>6 DEF AnswerStep
<1> QED
  BY <1>1, <1>4, <1>6, <1>7, <1>9

LEMMA ScaleOutside ==
  ASSUME Shape, ScaleInv, Serving \/ Touching
  PROVE  ScaleInv'
<1> SUFFICES ASSUME form' = "default/token" => Calm'
             PROVE  /\ \A id \in Records' : store'[id].scale = 0
                    /\ \A m \in made' : m.cols.scale = 0
                    /\ \A r \in net' : Rescaled(r)'
                    /\ form' # "default/token" \/ Unsaved' => inputs'.scale = FormScale'
                    /\ initial'.scale = FormScale'
  BY DEF ScaleInv
<1>1. /\ form' = form /\ FormScale' = FormScale
      /\ form = "default/token" => Calm
      /\ timers' = timers /\ inputs' = inputs /\ initial' = initial
      /\ Records' = Records
  BY CalmBefore, Outside, SameForm DEF StaysOf, Records
<1>2. /\ \A id \in Records : store[id].scale = 0
      /\ \A m \in made : m.cols.scale = 0
      /\ \A r \in net : Rescaled(r)
      /\ form # "default/token" \/ Unsaved => inputs.scale = FormScale
      /\ initial.scale = FormScale
  BY <1>1 DEF ScaleInv
<1>3. CASE Touching
  BY <1>1, <1>2, <1>3 DEF Touching, Rescaled, Saves, Unsaved
<1>4. CASE Serving
  <2>1. PICK r, q :
           /\ Served(r, q)
           /\ \/ ServingLoad(r, q) \/ ServingGroup(r, q) \/ ServingPut(r, q)
              \/ ServingPost(r, q) \/ Failing(r, q)
    BY <1>4 DEF Serving
  <2>2. /\ r \in net /\ q.do = r.do /\ q.body = r.body /\ Rescaled(r)
        /\ r.do = "load" => r.id \in Records
    BY <1>2, <2>1 DEF Served, Shape, Request
  <2>3. Rescaled(q)'
    BY <1>2, <2>1, <2>2
    DEF Rescaled, Saves, ServingLoad, ServingGroup, ServingPut, ServingPost, Failing
  <2>4. \A p \in net' : Rescaled(p)'
    BY <1>2, <2>1, <2>3 DEF Served, Rescaled, Saves
  <2>5. Columns(r.body).scale = r.body.scale
    BY DEF Columns
  <2>6. \A id \in Records : store'[id].scale = 0
    <3>1. CASE ServingPut(r, q)
      BY <1>2, <2>2, <2>5, <3>1 DEF ServingPut, Shape, Rescaled, Saves
    <3>2. CASE ~ServingPut(r, q)
      BY <1>2, <2>1, <3>2 DEF ServingLoad, ServingGroup, ServingPost, Failing, server
    <3> QED
      BY <3>1, <3>2
  <2>7. \A m \in made' : m.cols.scale = 0
    BY <1>2, <2>1, <2>2, <2>5
    DEF ServingLoad, ServingGroup, ServingPut, ServingPost, Failing, server, Rescaled, Saves
  <2>8. Unsaved' => Unsaved
    BY <1>1, <2>1, <2>2 DEF Unsaved, Served, Saves
  <2> QED
    BY <1>1, <1>2, <2>4, <2>6, <2>7, <2>8
<1> QED
  BY <1>3, <1>4

(***************************************************************************)
(* Keys                                                                    *)
(***************************************************************************)
LEMMA KeyParts ==
  /\ Blank.key \notin Special /\ Blank.config \subseteq {Blank.type}
  /\ \A r : Loaded(r).key \notin Special /\ Loaded(r).config \subseteq {Loaded(r).type}
  /\ form \in BerryForms => form \notin DefaultForms /\ form \notin AirForms /\ form # "default/user"
  /\ form \in DefaultForms => form \notin BerryForms /\ form \notin AirForms
  /\ form \in AirForms => form \notin DefaultForms /\ form \notin BerryForms /\ form # "default/user"
  /\ form = "default/user" => form \in DefaultForms
BY BlankIs, LoadedIs DEF Special, BerryForms, DefaultForms, AirForms

\* A key that fitted fits.
LEMMA KeyOn ==
  ASSUME Shape, KeyInv, UserStep \/ AnswerStep \/ Serving \/ Touching, NEW r, NEW q \in net,
         r.body = q.body, Saves(r) => Saves(q)
  PROVE  KeyFits(r)'
<1>1. (~failed' => ~failed) /\ (hasty' = 0 => hasty = 0) /\ form' = form
  BY CalmBefore DEF StaysOf
<1>2. KeyFits(q)
  BY DEF KeyInv
<1> QED
  BY <1>1, <1>2 DEF KeyFits, Saves

LEMMA KeyUser ==
  ASSUME Shape, KeyInv, UserStep
  PROVE  KeyInv'
<1>1. /\ ~failed' => ~failed
      /\ hasty' = 0 => hasty = 0
      /\ Calm' => Calm
      /\ form' = form
      /\ UserActs
  BY CalmBefore, UserKeeps DEF StaysOf
<1>2. Calm' => Unsaved
  BY <1>1, Patience DEF Calm, Unsaved
<1>3. ASSUME NEW r \in net'
      PROVE  KeyFits(r)'
  <2>1. CASE r \in net
    BY <2>1, KeyOn
  <2>2. CASE r \notin net
    <3> SUFFICES ASSUME Saves(r), ~failed', r.body.key \in Special,
                        form \in DefaultForms =>
                          hasty' = 0 /\ r.body.config \subseteq {r.body.type}
                 PROVE  r.body.key = r.body.type
      BY <1>1 DEF KeyFits, Saves
    <3>1. Submitting /\ Converts(r.body)
      BY <2>2, UserNet DEF Saves
    <3>2. /\ form \in DefaultForms \cup AirForms \cup BerryForms
          /\ form \in BerryForms => ~busy
      BY <3>1 DEF Submitting
    <3>3. /\ r.body.key \in Special \ {inputs.key} => r.body.key \in r.body.config
          /\ r.body.config = inputs.config /\ r.body.type = inputs.type
          /\ form \in AirForms => r.body.key = inputs.key
      BY <3>1 DEF Converts
    <3>4. CASE form \in DefaultForms
      BY <1>1, <1>2, <3>3, <3>4 DEF KeyInv, Calm
    <3>5. CASE form \in AirForms
      BY <3>3, <3>5 DEF KeyInv
    <3>6. CASE form \in BerryForms
      BY <1>1, <3>2, <3>3, <3>6 DEF KeyInv
    <3> QED
      BY <3>2, <3>4, <3>5, <3>6
  <2> QED
    BY <2>1, <2>2
<1>4. ASSUME form \in BerryForms
      PROVE  initial'.key \notin Special /\ initial'.config \subseteq {initial'.type}
  BY <1>4, KeyParts, UserInitial DEF KeyInv
<1>5. CASE Opening
  <2>1. /\ inputs' \in {inputs, initial, Blank}
        /\ form \in DefaultForms => inputs' = Blank
        /\ form \in BerryForms => inputs' = initial
        /\ form \in AirForms => inputs' \in {inputs, Blank}
    BY <1>5 DEF Opening
  <2> QED
    BY <1>1, <1>3, <1>4, <2>1, KeyParts DEF KeyInv
<1>6. CASE Writing
  <2>1. PICK v : Typing(v) /\ Rewritten(v)
    BY <1>6 DEF Writing
  <2>2. inputs' = v /\ busy' = busy
    BY <2>1 DEF Typing
  <2>3. /\ v.key \in Special => v.key = inputs.key
        /\ form \in BerryForms /\ inputs.config \subseteq {inputs.type} => v.config \subseteq {v.type}
    BY <2>1 DEF Rewritten
  <2> QED
    BY <1>1, <1>2, <1>3, <1>4, <2>2, <2>3 DEF KeyInv
<1>7. CASE Turning
  <2>1. PICK v, s : TurnedBack(v, s) /\ Turned(v, s) /\ busy' = busy
    BY <1>7 DEF Turning
  <2>2. inputs' = v /\ (Calm' => v = inputs)
    BY <2>1 DEF TurnedBack, Calm
  <2>3. \/ v \in {inputs, Blank}
        \/ form \in {"default/channel", "default/token"}
    BY <2>1 DEF Turned
  <2>4. form \in BerryForms => v = inputs
    BY <2>1 DEF Turned, BerryForms
  <2>5. form \in AirForms \cup {"default/user"} => v \in {inputs, Blank}
    BY <2>3 DEF AirForms
  <2> QED
    BY <1>1, <1>2, <1>3, <1>4, <2>1, <2>2, <2>4, <2>5, KeyParts DEF KeyInv
<1>8. CASE Submitting
  <2>1. PICK do, id, v : /\ Asked(do, id, v) /\ Converts(v) /\ do \in {"post", "put"}
                         /\ form \in BerryForms => busy'
    BY <1>8 DEF Submitting
  <2>2. PICK q \in net' : q.do = do
    BY <2>1, AskedIs
  <2>3. ~Unsaved'
    BY <2>1, <2>2 DEF Unsaved, Saves
  <2> QED
    BY <1>1, <1>3, <1>4, <2>1, <2>3 DEF KeyInv, Converts
<1>9. CASE Grouping
  BY <1>1, <1>2, <1>3, <1>4, <1>9 DEF KeyInv, Grouping, editor, DefaultForms
<1>10. CASE AirClosing
  BY <1>1, <1>3, <1>4, <1>10, KeyParts DEF KeyInv, AirClosing
<1>11. CASE BerryClosing
  BY <1>1, <1>3, <1>4, <1>11, KeyParts DEF KeyInv, BerryClosing, BerryClosed
<1> QED
  BY <1>5, <1>6, <1>7, <1>8, <1>9, <1>10, <1>11 DEF UserStep

LEMMA KeyAnswer ==
  ASSUME Shape, KeyInv, AnswerStep
  PROVE  KeyInv'
<1>1. /\ failed' = failed
      /\ Calm' => Calm
      /\ form' = form
  BY CalmBefore, AnswerKeeps DEF StaysOf
<1>2. ASSUME NEW r \in net'
      PROVE  KeyFits(r)'
  <2>1. PICK q \in net : r.body = q.body /\ (Saves(r) => Saves(q))
    BY AnswerNet DEF Saves
  <2> QED
    BY <2>1, KeyOn
<1>3. ASSUME form \in BerryForms
      PROVE  initial'.key \notin Special /\ initial'.config \subseteq {initial'.type}
  BY <1>3, KeyParts, AnswerInitial DEF KeyInv
<1>4. form \in AirForms \cup {"default/user"} => inputs'.key \notin Special
  BY AnswerInputs, KeyParts DEF KeyInv, GroupLoading, AirForms
<1>5. ASSUME form \in BerryForms
      PROVE  /\ inputs'.config \subseteq {inputs'.type}
             /\ ~failed' /\ ~busy' => inputs'.key \notin Special
  <2>1. inputs'.config \subseteq {inputs'.type}
    BY <1>3, <1>5, AnswerInputs, KeyParts DEF KeyInv, GroupLoading, DefaultForms
  <2>2. CASE Loading
    BY <1>1, <1>3, <1>5, <2>1, <2>2 DEF Loading, Reloaded, KeyInv
  <2>3. CASE BerrySaving
    <3>1. PICK r \in net : /\ r.ans # None
                           /\ r.ans.ok = "ok" => inputs' = Blank
      BY <2>3 DEF BerrySaving, Answer, BerryClosed
    <3>2. r.ans.ok # "ok" => failed
      BY <3>1 DEF Shape, Request
    <3> QED
      BY <1>1, <2>1, <3>1, <3>2, KeyParts
  <2>4. Loading \/ BerrySaving
    BY <1>5, KeyParts
    DEF AnswerStep, Unmounted, GroupLoading, DefaultSaving, AirSaving, AirTokenSaving,
        AirTokenResetting, AirUserSaving, BerryForms
  <2> QED
    BY <2>1, <2>2, <2>3, <2>4
<1>6. ASSUME form \in DefaultForms, Calm', Unsaved'
      PROVE  inputs'.key \notin Special
  <2>1. ASSUME NEW r \in net, ~Saves(r), Took(r), timers' = timers
        PROVE  inputs.key \notin Special
    <3>1. Unsaved
      BY <1>6, <2>1 DEF Unsaved, Took, Saves
    <3> QED
      BY <1>1, <1>6, <3>1 DEF KeyInv
  <2>2. CASE Unmounted
    BY <2>2, KeyParts DEF Unmounted
  <2>3. CASE Loading
    <3>1. PICK r \in net : r.do = "load" /\ Reloaded(r) /\ Took(r) /\ timers' = timers
      BY <2>3 DEF Loading
    <3> QED
      BY <1>6, <2>1, <3>1, KeyParts DEF Reloaded, Saves
  <2>4. CASE GroupLoading
    <3>1. PICK r \in net : r.do = "group" /\ Took(r) /\ inputs'.key = inputs.key
                           /\ timers' = timers
      BY <2>4 DEF GroupLoading
    <3> QED
      BY <2>1, <3>1 DEF Saves
  <2>5. CASE DefaultSaving
    <3>1. PICK r \in net : r.ans # None /\ (r.ans.ok = "ok" => form = "default/user")
                           /\ inputs' \in {inputs, Blank}
      BY <1>6, <2>5 DEF DefaultSaving, Answer, Unsaved
    <3>2. r.ans.ok # "ok" => failed
      BY <3>1 DEF Shape, Request
    <3> QED
      BY <1>1, <1>4, <1>6, <3>1, <3>2 DEF Calm
  <2> QED
    BY <1>6, <2>2, <2>3, <2>4, <2>5, KeyParts
    DEF AnswerStep, AirSaving, AirTokenSaving, AirTokenResetting, AirUserSaving, BerrySaving,
        BerryClosed, DefaultForms
<1> QED
  BY <1>1, <1>2, <1>3, <1>4, <1>5, <1>6 DEF KeyInv

LEMMA KeyOutside ==
  ASSUME Shape, KeyInv, Serving \/ Touching
  PROVE  KeyInv'
<1>1. /\ form' = form
      /\ Calm' => Calm
      /\ ~failed' => ~failed
      /\ timers' = timers /\ inputs' = inputs /\ initial' = initial /\ busy' = busy
  BY CalmBefore, Outside, SameForm DEF StaysOf
<1>2. ASSUME NEW r \in net'
      PROVE  \E q \in net : r.body = q.body /\ (Saves(r) => Saves(q))
  BY DEF Serving, Served, Touching, Saves
<1>3. \A r \in net' : KeyFits(r)'
  BY <1>2, KeyOn
<1>4. ASSUME NEW r \in net
      PROVE  \E q \in net' : Saves(r) => Saves(q)
  BY DEF Serving, Served, Touching, Saves
<1>5. Unsaved' => Unsaved
  BY <1>1, <1>4 DEF Unsaved, Saves
<1> QED
  BY <1>1, <1>3, <1>5 DEF KeyInv

(***************************************************************************)
(* The forms of the default theme                                          *)
(***************************************************************************)
LEMMA DefaultThemes ==
  ASSUME form \in DefaultForms
  PROVE  form \notin AirForms /\ form \notin BerryForms
BY DEF DefaultForms, AirForms, BerryForms

\* A request goes on as long as its form is not opened again.
LEMMA DefaultOn ==
  ASSUME NEW r, DefaultRequest(r), failed => failed',
         r.do = "load" => (open => open') /\ target' = target,
         r.do = "post" => (open' /\ r.sess = sess' => open /\ r.sess = sess /\ target' = target)
  PROVE  DefaultRequest(r)'
BY DEF DefaultRequest, New

LEMMA DefaultUser ==
  ASSUME Shape, DefaultInv, UserStep
  PROVE  DefaultInv'
<1>1. form' = form /\ (failed => failed') /\ UNCHANGED server
  BY UserKeeps DEF StaysOf
<1>2. \A r \in net : r.sess \in Nat /\ r.sess <= sess /\ sess \in Nat
  BY DEF Shape, Request
<1> SUFFICES ASSUME form \in DefaultForms
             PROVE  /\ \A r \in net' : DefaultRequest(r)'
                    /\ inputs'.of \in {New, target'}
                    /\ open' /\ ~failed' /\ ~spin' => inputs'.of = target'
                    /\ \A id \in Records : store'[id].of \in {New, id}
                                           /\ (~failed' => store'[id].of = id)
                    /\ form = "default/adduser" => target' = New
  BY <1>1 DEF DefaultInv, Records, New, DefaultForms
<1>3. /\ \A r \in net : DefaultRequest(r)
      /\ inputs.of \in {New, target}
      /\ open /\ ~failed /\ ~spin => inputs.of = target
      /\ \A id \in Records : store[id].of \in {New, id} /\ (~failed => store[id].of = id)
      /\ form = "default/adduser" => target = New
  BY DEF DefaultInv
<1>4. \A id \in Records : store'[id].of \in {New, id} /\ (~failed' => store'[id].of = id)
  BY <1>1, <1>3 DEF server
<1>5. CASE Opening
  <2>1. /\ ~open /\ open' /\ sess' = sess + 1
        /\ inputs' = Blank /\ spin' = (target' # New)
        /\ form = "default/adduser" => target' = New
    BY <1>5 DEF Opening, Appear
  <2>2. \A r \in net : DefaultRequest(r)'
    <3>1. \A r \in net : r.do # "load" /\ r.sess # sess'
      BY <1>2, <1>3, <2>1 DEF DefaultRequest
    <3> QED
      BY <1>1, <1>3, <3>1, DefaultOn
  <2>3. ASSUME NEW r \in net', r \notin net
        PROVE  DefaultRequest(r)'
    <3>1. r.do = "load" /\ r.id = target' /\ r.id # New /\ r.ans.ok # "ok"
      BY <1>5, <2>3, OpeningNet
    <3> QED
      BY <2>1, <3>1 DEF DefaultRequest, New
  <2> QED
    BY <1>4, <2>1, <2>2, <2>3, BlankIs
<1>6. ASSUME UNCHANGED <<open, sess, target>>, inputs'.of = inputs.of, spin' = spin \/ failed'
      PROVE  /\ \A r \in net : DefaultRequest(r)'
             /\ inputs'.of \in {New, target'}
             /\ open' /\ ~failed' /\ ~spin' => inputs'.of = target'
             /\ form = "default/adduser" => target' = New
  BY <1>1, <1>3, <1>6, DefaultOn
<1>7. CASE Writing
  <2>1. UNCHANGED <<open, sess, target>> /\ inputs'.of = inputs.of /\ spin' = spin /\ net' = net
    BY <1>7 DEF Writing, Typing, Rewritten, Same, SendNothing, wire
  <2> QED
    BY <1>4, <1>6, <2>1
<1>8. CASE Turning
  <2>1. UNCHANGED <<open, sess, target>> /\ inputs'.of = inputs.of /\ spin' = spin /\ net' = net
    BY <1>8, DefaultThemes
    DEF Turning, TurnedBack, Turned, Same, SendNothing, wire, AirForms
  <2> QED
    BY <1>4, <1>6, <2>1
<1>9. CASE Submitting
  <2>1. UNCHANGED <<open, sess, target>> /\ inputs'.of = inputs.of /\ spin' = spin /\ open
    BY <1>9 DEF Submitting, Converts, Same
  <2>2. ASSUME NEW r \in net', r \notin net
        PROVE  DefaultRequest(r)'
    <3>1. /\ r.body.of = inputs.of
          /\ \/ r.do = "post" /\ Adds(r.id, r.body)
             \/ r.do = "put" /\ Puts(r.id, r.body)
      BY <1>9, <2>2, SubmittingNet DEF Converts, Same
    <3>2. CASE r.do = "post"
      <4>1. target = New
        BY <1>3, <3>1, <3>2 DEF Adds
      <4> QED
        BY <1>3, <2>1, <3>1, <3>2, <4>1 DEF DefaultRequest, New
    <3>3. CASE r.do = "put"
      <4>1. r.id = target /\ ~spin
        BY <3>1, <3>3 DEF Puts
      <4> QED
        BY <1>1, <1>3, <2>1, <3>1, <3>3, <4>1 DEF DefaultRequest, New
    <3> QED
      BY <3>1, <3>2, <3>3
  <2> QED
    BY <1>4, <1>6, <2>1, <2>2
<1>10. CASE Grouping
  <2>1. UNCHANGED <<open, sess, target, inputs, spin>>
    BY <1>10 DEF Grouping, editor
  <2>2. ASSUME NEW r \in net', r \notin net
        PROVE  r.do = "group"
    BY <1>10, <2>1, <2>2, AskedIs DEF Grouping
  <2>3. \A r \in net' : DefaultRequest(r)'
    BY <1>6, <2>1, <2>2 DEF DefaultRequest
  <2> QED
    BY <1>4, <1>6, <2>1, <2>3
<1> QED
  BY <1>5, <1>7, <1>8, <1>9, <1>10, DefaultThemes
  DEF UserStep, AirClosing, BerryClosing, BerryClosed

LEMMA DefaultAnswer ==
  ASSUME Shape, DefaultInv, AnswerStep
  PROVE  DefaultInv'
<1>1. form' = form /\ failed' = failed /\ UNCHANGED <<server, sess>>
  BY AnswerKeeps DEF StaysOf
<1> SUFFICES ASSUME form \in DefaultForms
             PROVE  /\ \A r \in net' : DefaultRequest(r)'
                    /\ inputs'.of \in {New, target'}
                    /\ open' /\ ~failed' /\ ~spin' => inputs'.of = target'
                    /\ \A id \in Records : store'[id].of \in {New, id}
                                           /\ (~failed' => store'[id].of = id)
                    /\ form = "default/adduser" => target' = New
  BY <1>1 DEF DefaultInv, Records, New, DefaultForms
<1>2. /\ \A r \in net : DefaultRequest(r)
      /\ inputs.of \in {New, target}
      /\ open /\ ~failed /\ ~spin => inputs.of = target
      /\ \A id \in Records : store[id].of \in {New, id} /\ (~failed => store[id].of = id)
      /\ form = "default/adduser" => target = New
  BY DEF DefaultInv
<1>3. \A id \in Records : store'[id].of \in {New, id} /\ (~failed' => store'[id].of = id)
  BY <1>1, <1>2 DEF server
<1>4. net' \subseteq net
  BY AnswerNet, DefaultThemes DEF AirForms
<1>5. ASSUME UNCHANGED <<open, target>>
      PROVE  /\ \A r \in net' : DefaultRequest(r)'
             /\ form = "default/adduser" => target' = New
  BY <1>1, <1>2, <1>4, <1>5, DefaultOn DEF DefaultRequest
<1>6. CASE Unmounted
  <2>1. ~open' /\ target' = New /\ inputs' = Blank
    BY <1>6 DEF Unmounted
  <2>2. \A r \in net' : r.do # "load"
    BY <1>2, <1>4, <1>6 DEF Unmounted, Saves, DefaultRequest
  <2>3. \A r \in net' : DefaultRequest(r)'
    BY <1>1, <1>2, <1>4, <2>1, <2>2, DefaultOn
  <2> QED
    BY <1>3, <2>1, <2>3, BlankIs
<1>7. CASE Loading
  <2>1. PICK r \in net : /\ r.do = "load" /\ Reloaded(r) /\ r.ans # None
                         /\ UNCHANGED <<open, target>>
    BY <1>7 DEF Loading
  <2>2. inputs' = IF r.ans.ok = "ok" THEN Loaded(r) ELSE inputs
    BY <2>1, DefaultThemes DEF Reloaded
  <2>3. DefaultRequest(r) /\ Loaded(r).of = r.ans.cols.of
    BY <1>2, LoadedIs
  <2>4. r.ans.ok # "ok" => failed
    BY <2>1 DEF Shape, Request
  <2> QED
    BY <1>1, <1>2, <1>3, <1>5, <2>1, <2>2, <2>3, <2>4 DEF DefaultRequest
<1>8. CASE GroupLoading
  <2>1. UNCHANGED <<open, target>> /\ spin' = spin /\ inputs'.of = inputs.of
    BY <1>8 DEF GroupLoading, Same
  <2> QED
    BY <1>1, <1>2, <1>3, <1>5, <2>1
<1>9. CASE DefaultSaving
  <2>1. PICK r \in net : /\ UNCHANGED <<open, target>> /\ spin' = spin
                         /\ \/ inputs' = inputs
                            \/ inputs' = Blank /\ r.do = "post" /\ open /\ r.sess = sess
    BY <1>9 DEF DefaultSaving, Answer
  <2>2. r.do = "post" /\ open /\ r.sess = sess => target = New
    BY <1>2 DEF DefaultRequest
  <2> QED
    BY <1>1, <1>2, <1>3, <1>5, <2>1, <2>2, BlankIs
<1> QED
  BY <1>6, <1>7, <1>8, <1>9, DefaultThemes
  DEF AnswerStep, AirSaving, AirTokenSaving, AirTokenResetting, AirUserSaving, BerrySaving,
      AirForms

LEMMA DefaultOutside ==
  ASSUME Shape, DefaultInv, Serving \/ Touching
  PROVE  DefaultInv'
<1>1. form' = form /\ (failed => failed')
      /\ open' = open /\ target' = target /\ sess' = sess /\ inputs' = inputs /\ spin' = spin
  BY Outside, SameForm DEF StaysOf
<1> SUFFICES ASSUME form \in DefaultForms
             PROVE  /\ \A r \in net' : DefaultRequest(r)'
                    /\ inputs'.of \in {New, target'}
                    /\ open' /\ ~failed' /\ ~spin' => inputs'.of = target'
                    /\ \A id \in Records : store'[id].of \in {New, id}
                                           /\ (~failed' => store'[id].of = id)
                    /\ form = "default/adduser" => target' = New
  BY <1>1 DEF DefaultInv, Records, New, DefaultForms
<1>2. /\ \A r \in net : DefaultRequest(r)
      /\ inputs.of \in {New, target}
      /\ open /\ ~failed /\ ~spin => inputs.of = target
      /\ \A id \in Records : store[id].of \in {New, id} /\ (~failed => store[id].of = id)
      /\ form = "default/adduser" => target = New
  BY DEF DefaultInv
<1>3. \A r \in net : DefaultRequest(r)'
  BY <1>1, <1>2, DefaultOn
<1>4. CASE Touching
  BY <1>1, <1>2, <1>3, <1>4 DEF Touching
<1>5. CASE Serving
  <2>1. PICK r, q :
           /\ Served(r, q)
           /\ \/ ServingLoad(r, q) \/ ServingGroup(r, q) \/ ServingPut(r, q)
              \/ ServingPost(r, q) \/ Failing(r, q)
    BY <1>5 DEF Serving
  <2>2. /\ r \in net /\ q.do = r.do /\ q.body = r.body /\ q.id = r.id /\ q.sess = r.sess
        /\ DefaultRequest(r)' /\ DefaultRequest(r)
        /\ r.do = "load" => r.id \in Records
        /\ r.do = "put" => r.id \in Targets
    BY <1>2, <1>3, <2>1 DEF Served, Shape, Request
  <2>3. q.do = "load" /\ q.ans.ok = "ok" =>
          /\ q.ans.cols.of \in {New, q.id}
          /\ ~failed' => q.ans.cols.of = q.id
    BY <1>1, <1>2, <2>1, <2>2
    DEF ServingLoad, ServingGroup, ServingPut, ServingPost, Failing
  <2>4. DefaultRequest(q)'
    BY <2>2, <2>3 DEF DefaultRequest, New
  <2>5. \A p \in net' : DefaultRequest(p)'
    BY <1>3, <2>1, <2>4 DEF Served
  <2>6. \A id \in Records : store'[id].of \in {New, id} /\ (~failed' => store'[id].of = id)
    <3>1. CASE ServingPut(r, q)
      <4>1. Columns(r.body).of \in {New, r.id} /\ (~failed => Columns(r.body).of = r.id)
        BY <2>2, <3>1 DEF Columns, DefaultRequest, ServingPut
      <4> QED
        BY <1>1, <1>2, <3>1, <4>1 DEF ServingPut, Shape
    <3>2. CASE ~ServingPut(r, q)
      BY <1>1, <1>2, <2>1, <3>2 DEF ServingLoad, ServingGroup, ServingPost, Failing, server
    <3> QED
      BY <3>1, <3>2
  <2> QED
    BY <1>1, <1>2, <2>5, <2>6
<1> QED
  BY <1>4, <1>5

(***************************************************************************)
(* What is added                                                           *)
(***************************************************************************)
Typed == DefaultForms \cup ChannelForms \cup {"air/token"}

LEMMA AddUser ==
  ASSUME Shape, AddInv, UserStep
  PROVE  AddInv'
<1>1. form' = form /\ UNCHANGED made
  BY UserKeeps DEF StaysOf, server
<1>2. /\ form # "air/token" => \A m \in made : m.cols.of = New
      /\ form \notin Typed => \A r \in net : r.do = "post" => r.body.of = New
      /\ form = "air/user" /\ open => target # New
      /\ form = "air/adduser" => inputs.of = New /\ \A r \in net : r.do # "load"
  BY DEF AddInv, Typed
<1> SUFFICES /\ form \notin Typed => \A r \in net' : r.do = "post" => r.body.of = New
             /\ form = "air/user" /\ open' => target' # New
             /\ form = "air/adduser" => inputs'.of = New /\ \A r \in net' : r.do # "load"
  BY <1>1, <1>2 DEF AddInv, Typed, DefaultForms, ChannelForms, New
<1>3. CASE Opening
  <2>1. /\ form = "air/user" => target' # New
        /\ form = "air/adduser" => target' = New
        /\ form = "air/adduser" => inputs' \in {inputs, Blank}
    BY <1>3 DEF Opening, Appear, AirForms
  <2>2. \A r \in net' : r \in net \/ (r.do = "load" /\ target' # New)
    BY <1>3, OpeningNet
  <2> QED
    BY <1>2, <2>1, <2>2, BlankIs
<1>4. CASE Writing
  <2>1. UNCHANGED <<open, target, net>> /\ inputs'.of = inputs.of
    BY <1>4 DEF Writing, Typing, Rewritten, Same, SendNothing, wire
  <2> QED
    BY <1>2, <2>1
<1>5. CASE Turning
  <2>1. UNCHANGED <<open, target, net>>
    BY <1>5 DEF Turning, TurnedBack, SendNothing, wire
  <2>2. form = "air/adduser" => inputs' = inputs
    BY <1>5 DEF Turning, TurnedBack, Turned
  <2> QED
    BY <1>2, <2>1, <2>2
<1>6. CASE Submitting
  <2>1. /\ open /\ UNCHANGED <<open, target>> /\ inputs'.of = inputs.of
        /\ form \in DefaultForms \cup AirForms \cup BerryForms
    BY <1>6 DEF Submitting, Converts, Same
  <2>2. PICK r :
           /\ net' = net \cup {r}
           /\ r.body.of = inputs.of
           /\ \/ r.do = "post" /\ Adds(r.id, r.body)
              \/ r.do = "put"
    BY <1>6, SubmittingNet DEF Converts, Same
  <2>3. ASSUME form \notin Typed, r.do = "post"
        PROVE  r.body.of = New
    <3>1. form \in {"air/user", "air/adduser", "berry/token", "berry/user"}
      BY <2>1, <2>3 DEF Typed, DefaultForms, ChannelForms, AirForms, BerryForms
    <3> QED
      BY <1>2, <2>1, <2>2, <2>3, <3>1 DEF Adds
  <2> QED
    BY <1>2, <2>1, <2>2, <2>3
<1>7. CASE Grouping
  <2>1. form \in Typed /\ form # "air/user" /\ form # "air/adduser"
    BY <1>7 DEF Grouping, Typed, DefaultForms
  <2> QED
    BY <2>1
<1>8. CASE AirClosing
  <2>1. /\ inputs' = inputs /\ ~open'
        /\ \/ form = "air/user" /\ Asked("load", Self, Blank)
           \/ form # "air/user" /\ net' = net
    BY <1>8 DEF AirClosing
  <2>2. \A r \in net' : r \in net \/ (r.do = "load" /\ form = "air/user")
    BY <2>1, AskedIs
  <2> QED
    BY <1>2, <2>1, <2>2
<1>9. CASE BerryClosing
  <2>1. net' = net /\ ~open' /\ form # "air/adduser"
    BY <1>9 DEF BerryClosing, BerryClosed, BerryForms
  <2> QED
    BY <1>2, <2>1
<1> QED
  BY <1>3, <1>4, <1>5, <1>6, <1>7, <1>8, <1>9 DEF UserStep

LEMMA AddAnswer ==
  ASSUME Shape, AddInv, AnswerStep
  PROVE  AddInv'
<1>1. form' = form /\ UNCHANGED made
  BY AnswerKeeps DEF StaysOf, server
<1>2. /\ form # "air/token" => \A m \in made : m.cols.of = New
      /\ form \notin Typed => \A r \in net : r.do = "post" => r.body.of = New
      /\ form = "air/user" /\ open => target # New
      /\ form = "air/adduser" => inputs.of = New /\ \A r \in net : r.do # "load"
  BY DEF AddInv, Typed
<1>3. \A r \in net' : r \in net \/ form = "air/token" \/ (form = "air/user" /\ r.do = "load")
  BY AnswerNet
<1>4. form \notin Typed => \A r \in net' : r.do = "post" => r.body.of = New
  BY <1>2, <1>3 DEF Typed
<1>5. form = "air/user" /\ open' => target' # New
  <2>1. form = "air/user" => ~open' \/ UNCHANGED <<open, target>>
    BY DEF AnswerStep, Unmounted, Loading, GroupLoading, DefaultSaving, AirSaving,
           AirTokenSaving, AirTokenResetting, AirUserSaving, BerrySaving, BerryClosed,
           DefaultForms, BerryForms
  <2> QED
    BY <1>2, <2>1
<1>6. form = "air/adduser" => inputs'.of = New /\ \A r \in net' : r.do # "load"
  <2>1. form = "air/adduser" => inputs' \in {inputs, Blank}
    BY <1>2, AnswerInputs DEF GroupLoading, BerryForms
  <2> QED
    BY <1>2, <1>3, <2>1, BlankIs
<1> QED
  BY <1>1, <1>2, <1>4, <1>5, <1>6 DEF AddInv, Typed, DefaultForms, ChannelForms, New

LEMMA AddOutside ==
  ASSUME Shape, AddInv, DefaultInv, Serving \/ Touching
  PROVE  AddInv'
<1>1. form' = form /\ open' = open /\ target' = target /\ inputs' = inputs
  BY Outside, SameForm DEF StaysOf
<1>2. /\ form # "air/token" => \A m \in made : m.cols.of = New
      /\ form \notin Typed => \A r \in net : r.do = "post" => r.body.of = New
      /\ form = "air/user" /\ open => target # New
      /\ form = "air/adduser" => inputs.of = New /\ \A r \in net : r.do # "load"
  BY DEF AddInv, Typed
<1>3. ASSUME NEW q \in net'
      PROVE  \E r \in net : r.do = q.do /\ r.body = q.body
  BY DEF Serving, Served, Touching
<1>4. form # "air/token" => \A m \in made' : m.cols.of = New
  <2>1. CASE Touching
    BY <1>2, <2>1 DEF Touching
  <2>2. CASE Serving
    <3>1. PICK r, q :
             /\ Served(r, q)
             /\ \/ ServingLoad(r, q) \/ ServingGroup(r, q) \/ ServingPut(r, q)
                \/ ServingPost(r, q) \/ Failing(r, q)
      BY <2>2 DEF Serving
    <3>2. CASE ServingPost(r, q)
      <4>1. r \in net /\ r.do = "post" /\ PostFits(r)
        BY <3>1, <3>2 DEF Served, ServingPost
      <4>2. form # "air/token" => r.body.of = New
        <5>1. CASE form \in ChannelForms
          BY <4>1, <5>1 DEF PostFits
        <5>2. CASE form \in DefaultForms
          BY <4>1, <5>2 DEF DefaultInv, DefaultRequest
        <5> QED
          BY <1>2, <4>1, <5>1, <5>2 DEF Typed
      <4> QED
        BY <1>2, <3>2, <4>2 DEF ServingPost, Columns
    <3>3. CASE ~ServingPost(r, q)
      BY <1>2, <3>1, <3>3 DEF ServingLoad, ServingGroup, ServingPut, Failing, server
    <3> QED
      BY <3>2, <3>3
  <2> QED
    BY <2>1, <2>2
<1> QED
  BY <1>1, <1>2, <1>3, <1>4 DEF AddInv, Typed, DefaultForms, ChannelForms, New

(***************************************************************************)
(* The button of a berry form                                              *)
(***************************************************************************)
\* Neither the requests that save nor the records change.
LEMMA BerryOn ==
  ASSUME Shape, BerryInv, form' = form, made' = made,
         \A r \in net' : Saves(r) => r \in net,
         \A r \in net : Saves(r) => r \in net',
         \/ open' = open /\ sess' = sess /\ busy' = busy
         \/ ~open'
         \/ sess' = sess + 1
  PROVE  BerryInv'
<1>1. \A r \in net : r.sess \in Nat /\ r.sess <= sess
  BY DEF Shape, Request
<1>2. \A m \in made : m.sess \in Nat /\ m.sess <= sess
  BY DEF Shape
<1>3. sess \in Nat
  BY DEF Shape
<1>4. sess' = sess + 1 => /\ \A r \in net : r.sess # sess'
                          /\ \A m \in made : m.sess # sess'
  BY <1>1, <1>2, <1>3
<1> QED
  BY <1>4 DEF BerryInv, Saves, BerryForms

LEMMA BerryUser ==
  ASSUME Shape, BerryInv, UserStep
  PROVE  BerryInv'
<1>1. form' = form /\ made' = made
  BY UserKeeps DEF StaysOf, server
<1>2. CASE form \notin BerryForms
  BY <1>1, <1>2 DEF BerryInv, BerryForms
<1>3. CASE Opening
  <2>1. sess' = sess + 1
    BY <1>3 DEF Opening, Appear
  <2>2. \A r \in net' : r \in net \/ r.do = "load"
    BY <1>3, OpeningNet
  <2>3. \A r \in net : r \in net'
    BY <1>3, OpeningNet, AskedIs DEF Opening, Kept
  <2> QED
    BY <1>1, <2>1, <2>2, <2>3, BerryOn DEF Saves
<1>4. CASE Writing \/ Turning
  <2>1. UNCHANGED <<open, sess, busy, net>>
    BY <1>4 DEF Writing, Typing, Turning, TurnedBack, SendNothing, wire
  <2> QED
    BY <1>1, <2>1, BerryOn
<1>5. CASE form \in BerryForms /\ Submitting
  <2>1. open /\ ~busy /\ busy' /\ UNCHANGED <<open, sess>>
    BY <1>5 DEF Submitting
  <2>2. PICK r \in net' : net' = net \cup {r} /\ r.sess = sess /\ Saves(r)
    BY <1>5, SubmittingNet DEF Saves
  <2>3. /\ \A p, q \in net : Saves(p) /\ Saves(q) /\ p.sess = q.sess => p = q
        /\ \A p \in net : Saves(p) => p.sess # sess
        /\ \A m \in made : m.sess # sess
        /\ \A m \in made, p \in net : Saves(p) /\ m.sess = p.sess => m.click = p.click
        /\ \A m, o \in made : m.sess = o.sess => m.click = o.click
    BY <1>5, <2>1 DEF BerryInv
  <2>4. \A p, q \in net' : Saves(p) /\ Saves(q) /\ p.sess = q.sess => p = q
    BY <2>2, <2>3
  <2>5. \A m \in made, p \in net' : Saves(p) /\ m.sess = p.sess => m.click = p.click
    BY <2>2, <2>3
  <2> QED
    BY <1>1, <2>1, <2>3, <2>4, <2>5 DEF BerryInv, Saves
<1>6. CASE BerryClosing
  BY <1>1, <1>6, BerryOn DEF BerryClosing, BerryClosed
<1>7. form \notin BerryForms \/ ~(Grouping \/ AirClosing)
  BY DEF Grouping, AirClosing, AirForms, BerryForms
<1> QED
  BY <1>2, <1>3, <1>4, <1>5, <1>6, <1>7 DEF UserStep

LEMMA BerryAnswer ==
  ASSUME Shape, BerryInv, AnswerStep
  PROVE  BerryInv'
<1>1. form' = form /\ made' = made /\ sess' = sess
  BY AnswerKeeps DEF StaysOf, server
<1>2. CASE form \notin BerryForms
  BY <1>1, <1>2 DEF BerryInv, BerryForms
<1>3. CASE Loading
  BY <1>1, <1>3, BerryOn DEF Loading, Took, Saves
<1>4. CASE form \in BerryForms /\ BerrySaving
  <2>1. PICK r \in net : /\ Saves(r) /\ net' = net \ {r}
                         /\ \/ ~open'
                            \/ /\ r.ans.ok # "ok" /\ busy' = (busy /\ r.sess # sess)
                               /\ open' = open
    BY <1>4 DEF BerrySaving, Answer, Took, BerryClosed
  <2>2. /\ \A p, q \in net : Saves(p) /\ Saves(q) /\ p.sess = q.sess => p = q
        /\ \A p \in net : Saves(p) /\ p.sess = sess /\ open => busy
        /\ \A m \in made, p \in net : Saves(p) /\ m.sess = p.sess => m.click = p.click
        /\ \A m, o \in made : m.sess = o.sess => m.click = o.click
        /\ \A m \in made : m.sess = sess /\ open =>
             \E p \in net : Saves(p) /\ p.sess = sess /\ p.ans.ok = "ok"
    BY <1>4 DEF BerryInv
  <2>3. \A p \in net' : Saves(p) /\ p.sess = sess /\ open' => busy'
    BY <2>1, <2>2
  <2>4. \A m \in made : m.sess = sess /\ open' =>
             \E p \in net' : Saves(p) /\ p.sess = sess /\ p.ans.ok = "ok"
    BY <2>1, <2>2
  <2>5. \A p \in net' : p \in net
    BY <2>1
  <2> QED
    BY <1>1, <2>2, <2>3, <2>4, <2>5 DEF BerryInv, Saves
<1>5. form \notin BerryForms \/ Loading \/ BerrySaving
  BY DEF AnswerStep, Unmounted, GroupLoading, DefaultSaving, AirSaving, AirTokenSaving,
         AirTokenResetting, AirUserSaving, BerryForms, DefaultForms
<1> QED
  BY <1>2, <1>3, <1>4, <1>5

LEMMA BerryOutside ==
  ASSUME Shape, BerryInv, Serving \/ Touching
  PROVE  BerryInv'
<1>1. form' = form /\ open' = open /\ sess' = sess /\ busy' = busy
  BY Outside, SameForm DEF StaysOf
<1>2. CASE form \notin BerryForms
  BY <1>1, <1>2 DEF BerryInv, BerryForms
<1>3. CASE Touching
  BY <1>1, <1>3, BerryOn DEF Touching
<1>4. CASE form \in BerryForms /\ Serving
  <2>1. PICK r, q :
           /\ Served(r, q)
           /\ \/ ServingLoad(r, q) \/ ServingGroup(r, q) \/ ServingPut(r, q)
              \/ ServingPost(r, q) \/ Failing(r, q)
    BY <1>4 DEF Serving
  <2>2. /\ r \in net /\ r.ans.ok = "none" /\ q.sess = r.sess /\ q.click = r.click
        /\ Saves(q) <=> Saves(r)
        /\ \A p : p \in net' <=> (p \in net /\ p # r) \/ p = q
    BY <2>1, NoneIs DEF Served, Saves
  <2>3. /\ \A p, o \in net : Saves(p) /\ Saves(o) /\ p.sess = o.sess => p = o
        /\ \A p \in net : Saves(p) /\ p.sess = sess /\ open => busy
        /\ \A m \in made, p \in net : Saves(p) /\ m.sess = p.sess => m.click = p.click
        /\ \A m, o \in made : m.sess = o.sess => m.click = o.click
        /\ \A m \in made : m.sess = sess /\ open =>
             \E p \in net : Saves(p) /\ p.sess = sess /\ p.ans.ok = "ok"
    BY <1>4 DEF BerryInv
  <2>4. \A m \in made' : m \in made \/ /\ Saves(r) /\ q.ans.ok = "ok"
                                       /\ m.sess = r.sess /\ m.click = r.click
    BY <2>1
    DEF ServingLoad, ServingGroup, ServingPut, ServingPost, Failing, server, Saves
  <2>5. \A p, o \in net' : Saves(p) /\ Saves(o) /\ p.sess = o.sess => p = o
    BY <2>2, <2>3
  <2>6. \A p \in net' : Saves(p) /\ p.sess = sess /\ open => busy
    BY <2>2, <2>3
  <2>7. \A m \in made', p \in net' : Saves(p) /\ m.sess = p.sess => m.click = p.click
    BY <2>2, <2>3, <2>4
  <2>8. \A m, o \in made' : m.sess = o.sess => m.click = o.click
    BY <2>2, <2>3, <2>4
  <2>9. \A m \in made' : m.sess = sess /\ open =>
             \E p \in net' : Saves(p) /\ p.sess = sess /\ p.ans.ok = "ok"
    BY <2>2, <2>3, <2>4
  <2> QED
    BY <1>1, <2>5, <2>6, <2>7, <2>8, <2>9 DEF BerryInv, Saves
<1> QED
  BY <1>2, <1>3, <1>4

(***************************************************************************)
(* A user who waits                                                        *)
(***************************************************************************)
LEMMA PatientUser ==
  ASSUME Shape, PatientInv, UserStep
  PROVE  PatientInv'
<1> SUFFICES ASSUME hasty' = 0
             PROVE  /\ \A r, q \in net' : r = q
                    /\ timers' # {} => net' = {}
                    /\ form \notin BerryForms => AddingOnce'
                    /\ form = "air/token" => TokenSheet'
  BY UserKeeps DEF PatientInv, StaysOf, BerryForms
<1>1. /\ form' = form /\ made' = made /\ UserActs
      /\ hasty = 0 /\ net = {} /\ timers = {}
  BY UserKeeps, Patience DEF StaysOf, server
<1>2. /\ form \notin BerryForms =>
           /\ \A m, o \in made : m.sess = o.sess => m.click = o.click
           /\ \A m \in made : m.sess = sess => ~open
      /\ form = "air/token" =>
           /\ made = {}
           /\ mode \in {"add", "edit"}
           /\ mode = "add" => inputs.of = New /\ inputs.models = "none"
           /\ open => mode = Editor(target)
           /\ ~open => target = New /\ mode = "add"
  BY <1>1 DEF PatientInv, AddingOnce, TokenSheet
<1>3. CASE Opening
  <2>1. PICK id \in Targets :
           /\ Appear(id)
           /\ form \in AirForms => inputs' \in {inputs, Blank}
           /\ form = "air/token" => mode' = Editor(id)
    BY <1>3 DEF Opening
  <2>2. ~open /\ open' /\ sess' = sess + 1 /\ target' = id /\ timers' = timers
    BY <2>1 DEF Appear
  <2>3. \A r \in net' : r.do = "load" /\ r.id = id /\ id # New
    BY <1>1, <1>3, <2>2, OpeningNet
  <2>4. \A r, q \in net' : r = q
    BY <1>1, <1>3, OpeningNet
  <2>5. \A m \in made : m.sess # sess'
    <3>1. \A m \in made : m.sess \in Nat /\ m.sess <= sess
      BY DEF Shape
    <3> QED
      BY <2>2, <3>1 DEF Shape
  <2>6. form \notin BerryForms => AddingOnce'
    BY <1>1, <1>2, <2>3, <2>5 DEF AddingOnce
  <2>7. form = "air/token" => TokenSheet'
    BY <1>1, <1>2, <2>1, <2>2, <2>3, BlankIs DEF TokenSheet, Editor, AirForms, New
  <2> QED
    BY <1>1, <2>2, <2>4, <2>6, <2>7
\* Nothing is sent, and the form stays.
<1>4. ASSUME net' = net, timers' = timers, UNCHANGED <<open, sess, target, mode>>,
             form = "air/token" =>
               \/ inputs' = Blank
               \/ inputs'.of = inputs.of /\ inputs'.models = inputs.models
      PROVE  /\ form \notin BerryForms => AddingOnce'
             /\ form = "air/token" => TokenSheet'
  <2>1. form \notin BerryForms => AddingOnce'
    BY <1>1, <1>2, <1>4 DEF AddingOnce
  <2>2. form = "air/token" => TokenSheet'
    BY <1>1, <1>2, <1>4, BlankIs DEF TokenSheet, Editor, New
  <2> QED
    BY <2>1, <2>2
<1>5. CASE Writing
  <2>1. PICK v : Typing(v) /\ Rewritten(v)
    BY <1>5 DEF Writing
  <2>2. net' = net /\ timers' = timers /\ UNCHANGED <<open, sess, target, mode>> /\ inputs' = v
    BY <2>1 DEF Typing, SendNothing, wire
  <2>3. form = "air/token" => v.of = inputs.of /\ v.models = inputs.models
    BY <2>1 DEF Rewritten, Same
  <2> QED
    BY <1>1, <1>4, <2>2, <2>3
<1>6. CASE Turning
  <2>1. PICK v, s : TurnedBack(v, s) /\ Turned(v, s)
    BY <1>6 DEF Turning
  <2>2. net' = net /\ timers' = timers /\ UNCHANGED <<open, sess, target, mode>> /\ inputs' = v
    BY <2>1 DEF TurnedBack, SendNothing, wire
  <2>3. form = "air/token" => v = Blank \/ v = inputs
    BY <2>1 DEF Turned
  <2> QED
    BY <1>1, <1>4, <2>2, <2>3
<1>7. CASE Submitting
  <2>1. open /\ timers' = timers /\ UNCHANGED <<open, sess, target, mode>>
    BY <1>7 DEF Submitting
  <2>2. PICK r :
           /\ r.ans.ok = "none" /\ r.sess = sess /\ net' = net \cup {r}
           /\ Converts(r.body)
           /\ \/ r.do = "post" /\ Adds(r.id, r.body)
              \/ r.do = "put"
    BY <1>7, SubmittingNet
  <2>3. net' = {r}
    BY <1>1, <2>2
  <2>4. form \notin BerryForms => AddingOnce'
    BY <1>1, <1>2, <2>1, <2>2, <2>3 DEF AddingOnce
  <2>5. form = "air/token" => TokenSheet'
    <3>1. form = "air/token" /\ r.do = "post" => mode = "add"
      BY <1>2, <2>1, <2>2 DEF Adds, Editor
    <3>2. form = "air/token" =>
            /\ r.body.models = inputs.models
            /\ inputs'.of = inputs.of /\ inputs'.models = inputs.models
      BY <2>2 DEF Converts, Same
    <3> QED
      BY <1>1, <1>2, <2>1, <2>2, <2>3, <3>1, <3>2 DEF TokenSheet, Editor, New
  <2> QED
    BY <1>1, <2>1, <2>3, <2>4, <2>5
<1>8. CASE Grouping
  <2>1. open /\ timers' = timers /\ UNCHANGED <<open, sess>> /\ form # "air/token"
    BY <1>8 DEF Grouping, editor
  <2>2. PICK r : r.do = "group" /\ net' = {r}
    BY <1>1, <1>8, AskedIs DEF Grouping
  <2>3. form \notin BerryForms => AddingOnce'
    BY <1>1, <1>2, <2>1, <2>2 DEF AddingOnce
  <2> QED
    BY <1>1, <2>1, <2>2, <2>3
<1>9. CASE AirClosing
  <2>1. /\ ~open' /\ UNCHANGED <<sess, mode, inputs>>
        /\ \/ form = "air/user" /\ Asked("load", Self, Blank) /\ timers' = timers
           \/ form # "air/user" /\ net' = net
        /\ form = "air/token" => \E t : timers' = timers \cup {t}
    BY <1>9 DEF AirClosing
  <2>2. \A r \in net' : form = "air/user" /\ r.do = "load"
    BY <1>1, <2>1, AskedIs
  <2>3. \A r, q \in net' : r = q
    BY <1>1, <2>1, AskedIs
  <2>4. form = "air/user" => timers' = {}
    BY <1>1, <2>1
  <2>5. AddingOnce'
    BY <1>1, <1>2, <1>9, <2>1, <2>2 DEF AddingOnce, AirClosing, AirForms, BerryForms
  <2>6. form = "air/token" => TokenSheet'
    BY <1>1, <1>2, <2>1, <2>2 DEF TokenSheet, Editor, New
  <2> QED
    BY <2>2, <2>3, <2>4, <2>5, <2>6
<1>10. CASE BerryClosing
  <2>1. net' = net /\ timers' = timers /\ form \in BerryForms
    BY <1>10 DEF BerryClosing, BerryClosed
  <2> QED
    BY <1>1, <2>1 DEF BerryForms
<1> QED
  BY <1>3, <1>5, <1>6, <1>7, <1>8, <1>9, <1>10 DEF UserStep

\* When an answer is dealt with nothing else is under way: the handler sends
\* once more, or everything comes to rest.
LEMMA Quiet ==
  ASSUME Shape, PatientInv, AnswerStep, hasty' = 0
  PROVE  /\ hasty = 0
         /\ \/ net' = {}
            \/ \E q, r : /\ net = {q} /\ net' = {r} /\ timers = {} /\ timers' = timers
                         /\ r.body = q.body /\ r.sess = q.sess /\ r.click = q.click
                         /\ r.ans = None /\ Answer(q)
                         /\ \/ form = "air/token" /\ q.do = "post" /\ q.ans.ok = "ok"
                            \/ form = "air/user" /\ r.do = "load" /\ r.id = Self /\ ~open'
<1>1. hasty = 0
  BY CalmBefore
<1>2. (\A r, q \in net : r = q) /\ (timers # {} => net = {})
  BY <1>1 DEF PatientInv
<1>3. ASSUME NEW q \in net, Took(q)
      PROVE  net' = {}
  BY <1>2, <1>3 DEF Took
<1>4. CASE Unmounted
  <2>1. net' \subseteq net
    BY <1>4 DEF Unmounted
  <2>2. UserActs => net = {}
    BY Patience
  <2> QED
    BY <1>1, <1>2, <1>3, <1>4, <2>1, <2>2 DEF Unmounted
<1>5. CASE Loading \/ GroupLoading \/ DefaultSaving \/ AirSaving \/ BerrySaving
  BY <1>1, <1>3, <1>5
  DEF Loading, GroupLoading, DefaultSaving, AirSaving, BerrySaving, Answer
<1>6. CASE AirTokenResetting
  BY <1>1, <1>2, <1>6 DEF AirTokenResetting
<1>7. CASE AirTokenSaving \/ AirUserSaving
  <2>1. CASE net' = {}
    BY <1>1, <2>1
  <2>2. CASE net' # {}
    <3>1. PICK q, do, id : /\ Answer(q) /\ Sent(q, do, id) /\ timers' = timers
      BY <1>3, <1>7, <2>2 DEF AirTokenSaving, AirUserSaving, Answer
    <3>2. net = {q} /\ timers = {} /\ IsRequest(q)
      BY <1>2, <3>1 DEF Answer, Shape, Request
    <3>3. PICK r : net' = (net \ {q}) \cup {r} /\ r.ans = None
      BY <3>1, <3>2, SentIs
    <3>4. net' = {r} /\ r # q
      BY <3>1, <3>2, <3>3 DEF Answer
    <3>5. \E p \in net :
            /\ r.body = p.body /\ r.sess = p.sess /\ r.click = p.click
            /\ \/ form = "air/token" /\ p.do = "post" /\ p.ans.ok = "ok"
               \/ form = "air/user" /\ r.do = "load" /\ r.id = Self /\ ~open'
      BY <3>2, <3>4, AnswerNet
    <3> QED
      BY <1>1, <3>1, <3>2, <3>3, <3>4, <3>5
  <2> QED
    BY <2>1, <2>2
<1> QED
  BY <1>4, <1>5, <1>6, <1>7 DEF AnswerStep

\* What a patient user sends one at a time never is air's second token.
LEMMA Rests ==
  ASSUME Shape, PatientInv, AnswerStep, hasty' = 0
  PROVE  /\ hasty = 0
         /\ \/ net' = {}
            \/ /\ form = "air/user" /\ timers' = {} /\ ~open'
               /\ \E r : net' = {r} /\ r.do = "load" /\ r.ans = None
<1>1. hasty = 0
  BY Quiet
<1>2. \A q \in net : ~(form = "air/token" /\ q.do = "post" /\ q.ans.ok = "ok")
  BY <1>1 DEF PatientInv, TokenSheet
<1> QED
  BY <1>1, <1>2, Quiet

LEMMA PatientAnswer ==
  ASSUME Shape, PatientInv, AnswerStep
  PROVE  PatientInv'
<1> SUFFICES ASSUME hasty' = 0
             PROVE  /\ \A r, q \in net' : r = q
                    /\ timers' # {} => net' = {}
                    /\ form \notin BerryForms => AddingOnce'
                    /\ form = "air/token" => TokenSheet'
  BY AnswerKeeps DEF PatientInv, StaysOf, BerryForms
<1>1. form' = form /\ made' = made /\ sess' = sess /\ hasty = 0
  BY AnswerKeeps, Quiet DEF StaysOf, server
<1>2. /\ \A r, q \in net : r = q
      /\ timers # {} => net = {}
      /\ form \notin BerryForms => AddingOnce
      /\ form = "air/token" => TokenSheet
  BY <1>1 DEF PatientInv
<1>3. \/ net' = {}
      \/ /\ form = "air/user" /\ timers' = {} /\ ~open'
         /\ \E r : net' = {r} /\ r.do = "load"
  BY Rests
<1>4. (\A r, q \in net' : r = q) /\ (timers' # {} => net' = {})
  BY <1>3
<1>5. ASSUME form \notin BerryForms
      PROVE  AddingOnce'
  <2>1. /\ \A m, o \in made : m.sess = o.sess => m.click = o.click
        /\ \A m \in made : m.sess = sess =>
             ~open \/ timers # {} \/ \E r \in net : r.do = "post" /\ r.ans.ok = "ok"
    BY <1>2, <1>5 DEF AddingOnce
  <2>2. ASSUME NEW m \in made, m.sess = sess, open'
        PROVE  timers' # {}
    <3>1. form # "air/token"
      BY <1>2 DEF TokenSheet
    <3>2. PICK q \in net : /\ open' = open /\ Took(q)
                           /\ \/ q.do \in {"load", "group"} /\ timers' = timers
                              \/ /\ Saves(q)
                                 /\ q.do = "post" /\ q.ans.ok = "ok" => timers' # {}
      <4>1. CASE Unmounted \/ AirTokenSaving \/ AirTokenResetting \/ BerrySaving
        BY <1>5, <2>2, <3>1, <4>1
        DEF Unmounted, AirTokenSaving, AirTokenResetting, BerrySaving
      <4>2. CASE Loading \/ GroupLoading
        BY <4>2 DEF Loading, GroupLoading
      <4>3. CASE DefaultSaving
        BY <4>3 DEF DefaultSaving, Answer
      <4>4. CASE AirSaving
        <5>1. PICK r \in net : Answer(r) /\ open' = (open /\ r.ans.ok # "ok") /\ Took(r)
          BY <4>4 DEF AirSaving
        <5>2. open' = open /\ r.ans.ok # "ok"
          <6>1. open /\ r.ans.ok # "ok"
            BY <2>2, <5>1
          <6> QED
            BY <5>1, <6>1
        <5> QED
          BY <5>1, <5>2 DEF Answer
      <4>5. CASE AirUserSaving
        BY <2>2, <4>5 DEF AirUserSaving, Answer
      <4> QED
        BY <4>1, <4>2, <4>3, <4>4, <4>5 DEF AnswerStep
    <3>3. timers = {} /\ net = {q} /\ open
      BY <1>2, <2>2, <3>2
    <3>4. q.do = "post" /\ q.ans.ok = "ok"
      BY <2>1, <2>2, <3>3
    <3> QED
      BY <3>2, <3>4
  <2>3. \A r \in net' : r.do # "post"
    BY <1>3
  <2> QED
    BY <1>1, <2>1, <2>2, <2>3 DEF AddingOnce
<1>6. ASSUME form = "air/token"
      PROVE  TokenSheet'
  <2>1. net' = {}
    BY <1>3, <1>6
  <2>2. TokenSheet /\ made' = {}
    BY <1>1, <1>2, <1>6 DEF TokenSheet
  <2>3. CASE Loading
    <3>1. PICK r \in net : /\ r.do = "load" /\ Reloaded(r)
                           /\ UNCHANGED <<open, sess, target, mode, timers>>
      BY <2>3 DEF Loading
    <3>2. mode = "edit" /\ timers = {} /\ open
      BY <1>2, <2>2, <3>1 DEF TokenSheet
    <3> QED
      BY <2>1, <2>2, <3>1, <3>2 DEF TokenSheet, Editor, New
  <2>4. CASE AirTokenSaving
    <3>1. PICK r \in net : /\ inputs' \in {inputs, Blank}
                           /\ \/ ~open' /\ timers' # {}
                              \/ UNCHANGED <<open, timers>>
                           /\ UNCHANGED <<target, mode>>
      BY <2>4 DEF AirTokenSaving, Answer
    <3>2. timers = {} /\ open
      BY <1>2, <2>2, <3>1 DEF TokenSheet
    <3> QED
      BY <2>1, <2>2, <3>1, <3>2, BlankIs DEF TokenSheet, Editor, New
  <2>5. CASE AirTokenResetting
    <3>1. /\ timers # {} /\ target' = New /\ mode' = "add" /\ open' = open
          /\ inputs' = IF mode = "add" THEN inputs ELSE Blank
      BY <2>5 DEF AirTokenResetting
    <3>2. ~open
      BY <2>2, <3>1 DEF TokenSheet
    <3> QED
      BY <2>1, <2>2, <3>1, <3>2, BlankIs DEF TokenSheet, New
  <2> QED
    BY <1>6, <2>3, <2>4, <2>5
    DEF AnswerStep, Unmounted, GroupLoading, DefaultSaving, AirSaving, AirUserSaving,
        BerrySaving, DefaultForms, BerryForms
<1> QED
  BY <1>4, <1>5, <1>6

LEMMA PatientOutside ==
  ASSUME Shape, PatientInv, Serving \/ Touching
  PROVE  PatientInv'
<1>1. /\ form' = form /\ open' = open /\ sess' = sess /\ timers' = timers /\ hasty' = hasty
      /\ inputs' = inputs /\ target' = target /\ mode' = mode
  BY Outside, SameForm DEF StaysOf
<1>2. CASE Touching
  BY <1>1, <1>2 DEF Touching, PatientInv, AddingOnce, TokenSheet, BerryForms, Editor, New
<1>3. CASE Serving
  <2> SUFFICES ASSUME hasty = 0
               PROVE  /\ \A r, q \in net' : r = q
                      /\ timers' # {} => net' = {}
                      /\ form \notin BerryForms => AddingOnce'
                      /\ form = "air/token" => TokenSheet'
    BY <1>1 DEF PatientInv, BerryForms
  <2>1. /\ \A r, q \in net : r = q
        /\ timers # {} => net = {}
        /\ form \notin BerryForms => AddingOnce
        /\ form = "air/token" => TokenSheet
    BY DEF PatientInv
  <2>2. PICK r, q :
           /\ Served(r, q)
           /\ \/ ServingLoad(r, q) \/ ServingGroup(r, q) \/ ServingPut(r, q)
              \/ ServingPost(r, q) \/ Failing(r, q)
    BY <1>3 DEF Serving
  <2>3. /\ net = {r} /\ net' = {q} /\ r.ans.ok = "none"
        /\ q.do = r.do /\ q.body = r.body /\ q.sess = r.sess /\ q.click = r.click
    BY <2>1, <2>2, NoneIs DEF Served
  <2>4. timers' = {}
    BY <1>1, <2>1, <2>3
  <2>5. ServingPost(r, q) \/ made' = made
    BY <2>2 DEF ServingLoad, ServingGroup, ServingPut, Failing, server
  <2>6. ASSUME form = "air/token"
        PROVE  ~ServingPost(r, q)
    BY <2>1, <2>3, <2>6
    DEF TokenSheet, ServingPost, PostFits, TokenForms
  <2>7. ASSUME form = "air/token"
        PROVE  TokenSheet'
    <3>1. q.do = "post" => q.ans.ok # "ok"
      BY <2>2, <2>3, <2>6, <2>7 DEF ServingLoad, ServingGroup, ServingPut, Failing
    <3> QED
      BY <1>1, <2>1, <2>3, <2>4, <2>5, <2>6, <2>7, <3>1 DEF TokenSheet, Editor, New
  <2>8. ASSUME form \notin BerryForms
        PROVE  AddingOnce'
    <3>1. /\ \A m, o \in made : m.sess = o.sess => m.click = o.click
          /\ r.do = "post" => r.sess = sess /\ open
          /\ open => \A m \in made : m.sess # sess
      BY <1>1, <2>1, <2>3, <2>4, <2>8 DEF AddingOnce
    <3>2. \A m \in made' :
            \/ m \in made
            \/ r.do = "post" /\ q.ans.ok = "ok" /\ m.sess = r.sess /\ m.click = r.click
      BY <2>5 DEF ServingPost
    <3>3. \A m, o \in made' : m.sess = o.sess => m.click = o.click
      BY <3>1, <3>2
    <3>4. \A p \in net' : p.do = "post" => p.sess = sess' /\ open'
      BY <1>1, <2>3, <3>1
    <3>5. \A m \in made' : m.sess = sess' =>
            ~open' \/ \E p \in net' : p.do = "post" /\ p.ans.ok = "ok"
      BY <1>1, <2>3, <3>1, <3>2
    <3> QED
      BY <3>3, <3>4, <3>5 DEF AddingOnce
  <2> QED
    BY <2>3, <2>4, <2>7, <2>8
<1> QED
  BY <1>2, <1>3

(***************************************************************************)
(* What the form shows                                                     *)
(***************************************************************************)
LEMMA CalmUser ==
  ASSUME Shape, DefaultInv, AddInv, PatientInv, CalmInv, UserStep
  PROVE  CalmInv'
<1> SUFFICES ASSUME Calm'
             PROVE  /\ \A id \in Records : store'[id].of = id
                    /\ \A r \in net' : CalmRequest(r)'
                    /\ Showing' /\ NoLoad' => Shown'
                    /\ form \in BerryForms => Dialog'
  BY UserKeeps DEF CalmInv, StaysOf, BerryForms, Records
<1>1. /\ form' = form /\ UNCHANGED <<store, made>> /\ UserActs
      /\ Calm /\ ~failed' /\ hasty = 0 /\ net = {} /\ timers = {}
  BY UserKeeps, CalmBefore, Patience DEF StaysOf, server, Calm
<1>2. /\ \A id \in Records : store[id].of = id
      /\ Showing => Shown
      /\ form \in BerryForms => initial.of = New \/ (open /\ target # New)
      /\ form \in BerryForms /\ ~open => target = New
  BY <1>1 DEF CalmInv, NoLoad, Dialog
<1>3. \A id \in Records : store'[id].of = id
  BY <1>1, <1>2
<1>4. form = "air/token" =>
        /\ mode = "add" => inputs.of = New
        /\ open => mode = Editor(target)
        /\ ~open => target = New /\ mode = "add"
  BY <1>1 DEF PatientInv, TokenSheet
<1>5. form = "air/adduser" => inputs.of = New
  BY DEF AddInv
<1>6. CASE Opening
  <2>1. PICK id \in Targets :
           /\ Appear(id)
           /\ initial' = initial
           /\ \/ id # New /\ Asked("load", id, Blank)
              \/ id = New /\ net' = net /\ (inputs' = Blank \/ form \in BerryForms)
              \/ Kept(id)
           /\ form \in BerryForms => inputs' = initial
           /\ form = "air/adduser" => id = New
    BY <1>6 DEF Opening
  <2>2. ~open /\ open' /\ target' = id /\ stale' = FALSE
    BY <2>1 DEF Appear
  <2>3. \A r \in net' : r.do = "load" /\ r.id = target' /\ r.ans.ok = "none"
    BY <1>1, <1>6, OpeningNet
  <2>4. \A r \in net' : CalmRequest(r)'
    BY <2>3 DEF CalmRequest
  <2>5. form \in BerryForms => initial.of = New
    BY <1>2, <2>2
  <2>6. form \in BerryForms => Dialog'
    BY <2>1, <2>2, <2>5 DEF Dialog, New
  <2>7. ASSUME NoLoad'
        PROVE  Shown'
    <3>1. net' = {}
      BY <2>3, <2>7 DEF NoLoad
    <3>2. CASE id = New /\ (inputs' = Blank \/ form \in BerryForms)
      BY <2>1, <2>2, <2>5, <3>2, BlankIs DEF Shown, New
    <3>3. CASE Kept(id)
      <4>1. CASE form = "air/channel" /\ id = target
        BY <1>1, <1>2, <2>2, <3>3, <4>1 DEF Shown, Showing, Kept
      <4>2. CASE form = "air/token" /\ mode = Editor(id)
        <5>1. id = New
          BY <1>4, <2>2, <4>2 DEF Editor
        <5> QED
          BY <1>4, <2>2, <3>3, <4>2, <5>1 DEF Shown, Kept, New
      <4>3. CASE form = "air/adduser"
        BY <1>5, <2>1, <2>2, <3>3, <4>3 DEF Shown, Kept, New
      <4> QED
        BY <3>3, <4>1, <4>2, <4>3 DEF Kept
    <3>4. ~Asked("load", id, Blank)
      BY <3>1, AskedIs
    <3> QED
      BY <2>1, <3>2, <3>3, <3>4
  <2> QED
    BY <1>3, <2>4, <2>6, <2>7
\* The form goes on showing what it shows.
<1>7. ASSUME open, open' = open, target' = target, stale' = stale,
             initial' = initial, inputs'.of = inputs.of, inputs'.ver = inputs.ver, NoLoad'
      PROVE  Shown' /\ (form \in BerryForms => Dialog')
  <2>1. Shown
    BY <1>2, <1>7 DEF Showing
  <2>2. Shown'
    BY <1>1, <1>7, <2>1 DEF Shown, New
  <2> QED
    BY <1>2, <1>7, <2>2 DEF Dialog, New
<1>8. CASE Writing
  <2>1. /\ open /\ UNCHANGED <<open, target, stale, initial>> /\ net' = net
        /\ inputs'.of = inputs.of /\ inputs'.ver = inputs.ver
    BY <1>8 DEF Writing, Typing, Rewritten, Same, SendNothing, wire
  <2> QED
    BY <1>1, <1>3, <1>7, <2>1 DEF NoLoad
<1>9. CASE Turning
  <2>1. PICK v, s : open /\ TurnedBack(v, s)
    BY <1>9 DEF Turning
  <2>2. UNCHANGED <<open, target, stale, initial>> /\ net' = net /\ inputs' = inputs
    BY <1>1, <2>1 DEF TurnedBack, SendNothing, wire
  <2> QED
    BY <1>1, <1>3, <1>7, <2>1, <2>2 DEF NoLoad
<1>10. CASE Submitting
  <2>1. /\ open /\ UNCHANGED <<open, target, stale, initial>>
        /\ form \in DefaultForms \cup AirForms \cup BerryForms
    BY <1>10 DEF Submitting
  <2>2. PICK r :
           /\ r.ans.ok = "none" /\ net' = net \cup {r}
           /\ Converts(r.body)
           /\ \/ r.do = "post" /\ Adds(r.id, r.body)
              \/ r.do = "put" /\ Puts(r.id, r.body)
    BY <1>10, SubmittingNet
  <2>3. /\ inputs'.of = inputs.of /\ inputs'.ver = inputs.ver
        /\ r.body.of = inputs.of /\ r.body.ver = inputs.ver
    BY <2>2 DEF Converts, Same
  <2>4. Shown
    BY <1>2, <2>1 DEF Showing
  <2>5. net' = {r} /\ r.do # "load"
    BY <1>1, <2>2
  <2>6. r.do = "post" => target = New
    <3>1. r.do = "post" => Adds(r.id, r.body)
      BY <2>2
    <3>2. inputs.of = New => target = New
      BY <2>4 DEF Shown
    <3>3. CASE form \in DefaultForms
      BY <3>1, <3>3 DEF Adds, DefaultInv
    <3>4. CASE form \in AirForms
      BY <1>4, <1>5, <2>1, <3>1, <3>2, <3>4 DEF Adds, AirForms, Editor
    <3>5. CASE form \in BerryForms
      BY <3>1, <3>2, <3>5 DEF Adds, BerryForms
    <3> QED
      BY <2>1, <3>3, <3>4, <3>5
  <2>7. r.do = "put" => r.id = target
    BY <2>2 DEF Puts
  <2>8. CalmRequest(r)'
    BY <1>1, <2>1, <2>3, <2>4, <2>5, <2>6, <2>7 DEF CalmRequest, Shown, New
  <2> QED
    BY <1>3, <1>7, <2>1, <2>3, <2>5, <2>8 DEF NoLoad
<1>11. CASE Grouping
  <2>1. open /\ UNCHANGED <<open, target, stale, initial, inputs>>
    BY <1>11 DEF Grouping, editor
  <2>2. PICK r : r.do = "group" /\ net' = {r}
    BY <1>1, <1>11, AskedIs DEF Grouping
  <2> QED
    BY <1>3, <1>7, <2>1, <2>2 DEF NoLoad, CalmRequest
<1>12. CASE AirClosing
  <2>1. /\ ~open' /\ UNCHANGED <<inputs, stale>> /\ form \notin BerryForms
        /\ \/ form = "air/user" /\ Asked("load", Self, Blank)
           \/ form # "air/user" /\ target' = target /\ net' = net
    BY <1>12 DEF AirClosing, AirForms, BerryForms
  <2>2. \A r \in net' : form = "air/user" /\ r.do = "load" /\ r.ans.ok = "none"
    BY <1>1, <2>1, AskedIs, NoneIs
  <2>3. \A r \in net' : CalmRequest(r)'
    BY <1>1, <2>1, <2>2 DEF CalmRequest, Showing
  <2>4. Showing' => Shown'
    BY <1>1, <1>2, <2>1 DEF Showing, Shown
  <2> QED
    BY <1>3, <2>1, <2>3, <2>4
<1>13. CASE BerryClosing
  <2>1. /\ ~open' /\ target' = New /\ net' = {} /\ form \in BerryForms
        /\ initial' = IF target = New THEN initial ELSE Blank
    BY <1>1, <1>13 DEF BerryClosing, BerryClosed
  <2>2. initial'.of = New
    BY <1>2, <2>1, BlankIs
  <2>3. Dialog'
    BY <2>1, <2>2 DEF Dialog, NoLoad, New
  <2>4. ~Showing'
    BY <1>1, <2>1 DEF Showing, BerryForms
  <2> QED
    BY <1>3, <2>1, <2>3, <2>4
<1> QED
  BY <1>6, <1>8, <1>9, <1>10, <1>11, <1>12, <1>13 DEF UserStep

LEMMA CalmAnswer ==
  ASSUME Shape, PatientInv, CalmInv, AnswerStep
  PROVE  CalmInv'
<1> SUFFICES ASSUME Calm'
             PROVE  /\ \A id \in Records : store'[id].of = id
                    /\ \A r \in net' : CalmRequest(r)'
                    /\ Showing' /\ NoLoad' => Shown'
                    /\ form \in BerryForms => Dialog'
  BY AnswerKeeps DEF CalmInv, StaysOf, BerryForms, Records
<1>1. /\ form' = form /\ UNCHANGED <<store, stale, sess>>
      /\ Calm /\ ~failed /\ hasty = 0 /\ hasty' = 0
  BY AnswerKeeps, CalmBefore DEF StaysOf, server, Calm
<1>2. /\ \A id \in Records : store[id].of = id
      /\ \A r \in net : CalmRequest(r)
      /\ Showing /\ NoLoad => Shown
      /\ form \in BerryForms => Dialog
  BY <1>1 DEF CalmInv
<1>3. \A id \in Records : store'[id].of = id
  BY <1>1, <1>2
<1>4. (\A r, q \in net : r = q) /\ (timers # {} => net = {})
      /\ (form = "air/token" => TokenSheet)
  BY <1>1 DEF PatientInv
<1>5. \/ net' = {}
      \/ /\ form = "air/user" /\ ~open'
         /\ \E r : net' = {r} /\ r.do = "load" /\ r.ans = None
  BY <1>1, Rests
<1>6. \A r \in net' : CalmRequest(r)'
  <2>1. form = "air/user" /\ ~open' => ~Showing'
    BY <1>1 DEF Showing
  <2> QED
    BY <1>5, <2>1, NoneIs DEF CalmRequest
<1>7. \A r \in net : r.ans # None => r.ans.ok = "ok"
  BY <1>1 DEF Shape, Request
\* The form goes on showing what it shows.
<1>8. ASSUME NoLoad, UNCHANGED <<open, target, initial>>,
             inputs'.of = inputs.of, inputs'.ver = inputs.ver
      PROVE  /\ Showing' => Shown'
             /\ form \in BerryForms => Dialog'
  <2>1. Showing' => Shown'
    BY <1>1, <1>2, <1>8 DEF Showing, Shown, New
  <2>2. form \in BerryForms => NoLoad'
    BY <1>5 DEF NoLoad, BerryForms
  <2> QED
    BY <1>2, <1>8, <2>1, <2>2 DEF Dialog, New
<1>9. ASSUME ~open', form # "air/channel", form \notin BerryForms
      PROVE  ~Showing'
  BY <1>1, <1>9 DEF Showing
<1>10. CASE Unmounted
  <2>1. ~open' /\ form # "air/channel" /\ form \notin BerryForms
    BY <1>10 DEF Unmounted, DefaultForms, BerryForms
  <2> QED
    BY <1>3, <1>6, <1>9, <2>1
<1>11. CASE Loading
  <2>1. PICK r \in net : /\ r.do = "load" /\ r.ans # None /\ Reloaded(r)
                         /\ UNCHANGED <<open, target>> /\ Took(r)
    BY <1>11 DEF Loading
  <2>2. r.ans.ok = "ok" /\ ~NoLoad
    BY <1>7, <2>1 DEF NoLoad
  <2>3. r.id \in Records /\ r.id # New
    BY <2>1, FormAssumption DEF Shape, Request, Records, New
  <2>4. /\ Showing => r.id = target
        /\ Loaded(r).of = r.id
        /\ open /\ ~stale => Loaded(r).ver = store[r.id].ver
    BY <1>2, <2>1, <2>2, LoadedIs DEF CalmRequest
  <2>5. net' = {}
    BY <1>4, <2>1 DEF Took
  <2>6. CASE form \notin BerryForms
    <3>1. inputs' = Loaded(r)
      BY <2>1, <2>2, <2>6 DEF Reloaded
    <3>2. Showing' => Shown'
      BY <1>1, <2>1, <2>4, <3>1 DEF Showing, Shown, New
    <3> QED
      BY <1>3, <1>6, <2>6, <3>2
  <2>7. CASE form \in BerryForms
    <3>1. open /\ r.id = target /\ initial.of = New
      BY <1>2, <2>2, <2>4, <2>7 DEF Dialog, Showing
    <3>2. initial' = Loaded(r) /\ initial' # initial
      BY <2>1, <2>2, <2>3, <2>4, <2>7, <3>1 DEF Reloaded
    <3>3. inputs' = Loaded(r)
      BY <2>1, <2>7, <3>1, <3>2 DEF Reloaded
    <3>4. Shown'
      BY <1>1, <2>1, <2>4, <3>1, <3>3 DEF Shown, New
    <3>5. Dialog'
      BY <2>1, <2>3, <2>5, <3>1 DEF Dialog, NoLoad, New
    <3> QED
      BY <1>3, <1>6, <3>4, <3>5
  <2> QED
    BY <2>6, <2>7
<1>12. CASE GroupLoading
  <2>1. PICK r \in net : r.do = "group"
    BY <1>12 DEF GroupLoading
  <2>2. NoLoad
    BY <1>4, <2>1 DEF NoLoad
  <2> QED
    BY <1>3, <1>6, <1>8, <1>12, <2>2 DEF GroupLoading, Same
<1>13. CASE DefaultSaving \/ AirSaving
  <2>1. PICK r \in net : /\ Answer(r)
                         /\ inputs' = inputs \/ (inputs' = Blank /\ r.do = "post")
                         /\ target' = target /\ initial' = initial
                         /\ open' = open \/ ~open'
    BY <1>13 DEF DefaultSaving, AirSaving
  <2>2. NoLoad
    BY <1>4, <2>1 DEF NoLoad, Answer, Saves
  <2>3. form \notin BerryForms
    BY <1>13 DEF DefaultSaving, AirSaving, DefaultForms, BerryForms
  <2>4. r.do = "post" => target = New
    BY <1>2, <2>1 DEF CalmRequest
  <2>5. Showing' => Showing
    BY <1>1, <2>1 DEF Showing
  <2>6. Showing' => Shown'
    BY <1>1, <1>2, <2>1, <2>2, <2>4, <2>5, BlankIs DEF Shown, New
  <2> QED
    BY <1>3, <1>6, <2>3, <2>6
<1>14. CASE AirTokenSaving \/ AirUserSaving
  <2>1. form \in {"air/token", "air/user"} /\ form \notin BerryForms
    BY <1>14 DEF AirTokenSaving, AirUserSaving, BerryForms
  <2>2. ~open'
    <3>1. ASSUME NEW r \in net, NEW id, Sent(r, "post", id)
          PROVE  net' # {}
      BY <3>1 DEF Sent
    <3> QED
      BY <1>5, <1>7, <1>14, <3>1 DEF AirTokenSaving, AirUserSaving, Answer
  <2> QED
    BY <1>3, <1>6, <1>9, <2>1, <2>2
<1>15. CASE AirTokenResetting
  <2>1. ~open' /\ form = "air/token"
    BY <1>4, <1>15 DEF AirTokenResetting, TokenSheet
  <2> QED
    BY <1>3, <1>6, <1>9, <2>1 DEF BerryForms
<1>16. CASE BerrySaving
  <2>1. /\ ~open' /\ target' = New /\ form \in BerryForms
        /\ initial' = IF target = New THEN initial ELSE Blank
    BY <1>7, <1>16 DEF BerrySaving, Answer, BerryClosed
  <2>2. initial'.of = New
    BY <1>2, <2>1, BlankIs DEF Dialog
  <2>3. net' = {}
    BY <1>5, <2>1 DEF BerryForms
  <2>4. Dialog'
    BY <2>1, <2>2, <2>3 DEF Dialog, NoLoad, New
  <2>5. ~Showing'
    BY <1>1, <2>1 DEF Showing, BerryForms
  <2> QED
    BY <1>3, <1>6, <2>4, <2>5
<1> QED
  BY <1>10, <1>11, <1>12, <1>13, <1>14, <1>15, <1>16 DEF AnswerStep

LEMMA CalmOutside ==
  ASSUME Shape, PatientInv, CalmInv, Serving \/ Touching
  PROVE  CalmInv'
<1> SUFFICES ASSUME Calm'
             PROVE  /\ \A id \in Records : store'[id].of = id
                    /\ \A r \in net' : CalmRequest(r)'
                    /\ Showing' /\ NoLoad' => Shown'
                    /\ form \in BerryForms => Dialog'
  BY Outside DEF CalmInv, StaysOf, BerryForms, Records
<1>1. /\ form' = form /\ Calm /\ hasty = 0 /\ ~failed'
      /\ open' = open /\ target' = target /\ inputs' = inputs /\ initial' = initial
  BY Outside, CalmBefore, SameForm DEF StaysOf, Calm
<1>2. /\ \A id \in Records : store[id].of = id
      /\ \A r \in net : CalmRequest(r)
      /\ Showing /\ NoLoad => Shown
      /\ form \in BerryForms => Dialog
  BY <1>1 DEF CalmInv
<1>3. Showing' <=> Showing
  BY <1>1 DEF Showing
<1>4. CASE Touching
  <2>1. stale' /\ net' = net /\ \A id \in Records : store'[id].of = id
    BY <1>2, <1>4 DEF Touching
  <2>2. \A r \in net' : CalmRequest(r)'
    BY <1>1, <1>2, <1>3, <2>1 DEF CalmRequest, New
  <2>3. NoLoad' <=> NoLoad
    BY <2>1 DEF NoLoad
  <2>4. Shown => Shown'
    BY <1>1, <2>1 DEF Shown
  <2>5. Dialog => Dialog'
    BY <1>1, <2>3 DEF Dialog, New
  <2> QED
    BY <1>2, <1>3, <2>1, <2>2, <2>3, <2>4, <2>5
<1>5. CASE Serving
  <2>1. PICK r, q :
           /\ Served(r, q)
           /\ \/ ServingLoad(r, q) \/ ServingGroup(r, q) \/ ServingPut(r, q)
              \/ ServingPost(r, q)
    BY <1>1, <1>5 DEF Serving, Failing
  <2>2. \A p, o \in net : p = o
    BY <1>1 DEF PatientInv
  <2>3. /\ net = {r} /\ net' = {q} /\ stale' = stale
        /\ q.do = r.do /\ q.id = r.id /\ q.body = r.body
    BY <1>5, <2>1, <2>2 DEF Served, Serving
  <2>4. CalmRequest(r) /\ (NoLoad' <=> NoLoad) /\ (NoLoad <=> r.do # "load")
        /\ (r.do = "load" => r.id \in Records)
    BY <1>2, <2>3 DEF NoLoad, Shape, Request
  <2>5. Dialog => Dialog'
    BY <1>1, <2>4 DEF Dialog, New
  <2>6. CASE ServingPut(r, q)
    <3>1. /\ open /\ r.id = target /\ r.body.of = r.id /\ r.do = "put"
          /\ target # New /\ ~stale /\ form # "air/channel" => r.body.ver = store[target].ver
      BY <2>4, <2>6 DEF CalmRequest, ServingPut
    <3>2. Columns(r.body).of = r.body.of /\ Columns(r.body).ver = r.body.ver
      BY DEF Columns
    <3>3. \A id \in Records : store'[id].of = id
      BY <1>2, <2>6, <3>1, <3>2 DEF ServingPut, Shape
    <3>4. target # New /\ ~stale /\ form # "air/channel" => store'[target].ver = store[target].ver
      <4>1. target \in Targets /\ (target # New => target \in Records)
        BY DEF Shape, Targets, Records
      <4> QED
        BY <2>6, <3>1, <3>2, <4>1 DEF ServingPut, Shape
    <3>5. CalmRequest(q)'
      BY <1>1, <2>3, <3>1, <3>4 DEF CalmRequest, New
    <3>6. Showing /\ NoLoad => Shown'
      BY <1>1, <1>2, <2>3, <3>4 DEF Shown, New
    <3> QED
      BY <1>2, <1>3, <2>3, <2>4, <2>5, <3>3, <3>5, <3>6
  <2>7. CASE ~ServingPut(r, q)
    <3>1. store' = store
      BY <2>1, <2>7 DEF ServingLoad, ServingGroup, ServingPost, server
    <3>2. q.do = "load" => q.ans.cols = store[q.id]
      BY <2>1, <2>3, <2>7 DEF ServingLoad, ServingGroup, ServingPost
    <3>3. CalmRequest(q)'
      BY <1>1, <1>2, <1>3, <2>3, <2>4, <3>1, <3>2 DEF CalmRequest, New
    <3>4. Shown => Shown'
      BY <1>1, <2>3, <3>1 DEF Shown, New
    <3> QED
      BY <1>2, <1>3, <2>3, <2>4, <2>5, <3>1, <3>3, <3>4
  <2> QED
    BY <2>6, <2>7
<1> QED
  BY <1>4, <1>5

(***************************************************************************)
(* The invariant, and what it says                                         *)
(***************************************************************************)
LEMMA Still ==
  ASSUME Inv, UNCHANGED vars
  PROVE  Inv'
<1>1. /\ form' = form /\ UNCHANGED editor /\ store' = store /\ made' = made /\ net' = net
      /\ timers' = timers /\ hasty' = hasty /\ failed' = failed /\ stale' = stale
  BY DEF vars, server, wire, past
<1>2. FormScale' = FormScale /\ Records' = Records
  BY <1>1 DEF FormScale, Records
<1>3. Shape'
  BY <1>1, SameForm DEF Inv, Shape, Request
<1>4. ScaleInv' /\ KeyInv'
  BY <1>1, <1>2, SameForm
  DEF Inv, ScaleInv, Rescaled, KeyInv, KeyFits, Calm, Unsaved, Saves
<1>5. DefaultInv' /\ AddInv' /\ BerryInv'
  BY <1>1, SameForm DEF Inv, DefaultInv, DefaultRequest, AddInv, BerryInv, Saves
<1>6. PatientInv'
  BY <1>1, SameForm DEF Inv, PatientInv, AddingOnce, TokenSheet, Editor
<1>7. CalmInv'
  BY <1>1, SameForm
  DEF Inv, CalmInv, Calm, CalmRequest, Showing, Shown, NoLoad, Dialog
<1> QED
  BY <1>3, <1>4, <1>5, <1>6, <1>7 DEF Inv

LEMMA InvStep ==
  ASSUME Inv, Next
  PROVE  Inv'
<1>1. /\ Shape /\ ScaleInv /\ KeyInv /\ DefaultInv /\ AddInv /\ BerryInv /\ PatientInv
      /\ CalmInv
  BY DEF Inv
<1>2. CASE UserStep
  BY <1>1, <1>2, UserShape, ScaleUser, KeyUser, DefaultUser, AddUser, BerryUser, PatientUser,
     CalmUser
  DEF Inv
<1>3. CASE AnswerStep
  BY <1>1, <1>3, AnswerShape, ScaleAnswer, KeyAnswer, DefaultAnswer, AddAnswer, BerryAnswer,
     PatientAnswer, CalmAnswer
  DEF Inv
<1>4. CASE Serving \/ Touching
  BY <1>1, <1>4, ServerShape, ScaleOutside, KeyOutside, DefaultOutside, AddOutside,
     BerryOutside, PatientOutside, CalmOutside
  DEF Inv
<1>5. UserStep \/ AnswerStep \/ Serving \/ Touching
  BY <1>1, Steps, Serves, Touches DEF Shape
<1> QED
  BY <1>2, <1>3, <1>4, <1>5

\* The parts of the invariant hold in every reachable state of every editor.
THEOREM Invariant == Spec => []Inv
<1>1. Init => Inv
  BY InitInv
<1>2. Inv /\ [Next]_vars => Inv'
  BY InvStep, Still
<1> QED
  BY <1>1, <1>2, PTL DEF Spec

\* No editor writes one record's values over another record's, as long as
\* nothing failed and the user waits; the default theme needs no waiting.  What
\* is added comes from an empty form.  (EditToken.js, EditChannel.js and the
\* other editors, with the server's handlers.)
THEOREM KeepsColumns == Spec => []OwnColumns
<1>1. Inv => OwnColumns
  <2> SUFFICES ASSUME Inv
               PROVE  OwnColumns
    OBVIOUS
  <2>1. ~failed /\ (hasty = 0 \/ form \in DefaultForms) => \A id \in Records : store[id].of = id
    BY DEF Inv, DefaultInv, CalmInv, Calm
  <2>2. (form = "air/token" => hasty = 0) => \A m \in made : m.cols.of = New
    BY DEF Inv, AddInv, PatientInv, TokenSheet
  <2> QED
    BY <2>1, <2>2 DEF OwnColumns
<1> QED
  BY <1>1, Invariant, PTL

\* Quotas reach the database in its unit, and a key made of a config is the
\* one of the channel's type (the submit handlers of EditToken.js, EditChannel.js
\* and EditModal.js; the default theme's in place, so for a patient user only).
THEOREM ConvertsOnce == Spec => []ConvertedOnce
<1>1. Inv => ConvertedOnce
  BY DEF Inv, ScaleInv, KeyInv, KeyFits, ConvertedOnce, Saving, Saves
<1> QED
  BY <1>1, Invariant, PTL

\* A form that was opened once adds what one click asked for: berry's forms by
\* their disabled button, the others when the user waits.
THEOREM AddsOnce == Spec => []OneAddition
<1>1. Inv => OneAddition
  BY DEF Inv, BerryInv, PatientInv, AddingOnce, OneAddition
<1> QED
  BY <1>1, Invariant, PTL

\* At rest the open form is about its record and shows it as it is stored.
THEOREM ShowsRecord == Spec => []FormShowsRecord
<1>1. Inv => FormShowsRecord
  BY DEF Inv, CalmInv, Showing, NoLoad, Shown, FormShowsRecord
<1> QED
  BY <1>1, Invariant, PTL
=============================================================================
