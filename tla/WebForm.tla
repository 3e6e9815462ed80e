------------------------------ MODULE WebForm ------------------------------
(***************************************************************************)
(* What the editors of the three front ends have in common: a form that is *)
(* opened on one of the server's records, or on none to add one, loads the *)
(* record, takes what the user types and submits all of its fields.        *)
(*                                                                         *)
(* The values in a form are told apart by where they come from: the record *)
(* that was loaded (New: the form's defaults), what was typed, and in which*)
(* unit the quota is.  Handlers run until their first `await', continue    *)
(* when the answer is there, and use what they captured.                   *)
(***************************************************************************)
EXTENDS Integers, FiniteSets, TLC

CONSTANTS
  Forms,           \* the editors that may be open, "<theme>/<record>"
  Ids,             \* ids of the records that are edited
  Self,            \* id of the administrator's own account
  TokenCount,      \* tokens that the air theme adds by one submission
  MaxOpens,        \* editors that are opened one after the other
  MaxRequests,     \* requests that are modelled
  MaxOutstanding,  \* requests that are under way at once
  MaxHasty,        \* times that the user does not wait for an answer
  MaxFaults,       \* refused or lost answers
  MaxChanges       \* changes of the records by others

ASSUME FormAssumption ==
  /\ Ids \subseteq Nat \ {0}
  /\ Self \in Nat \ {0}
  /\ Self \notin Ids
  /\ TokenCount \in Nat \ {0}
  /\ MaxOpens \in Nat
  /\ MaxRequests \in Nat
  /\ MaxOutstanding \in Nat
  /\ MaxHasty \in Nat
  /\ MaxFaults \in Nat
  /\ MaxChanges \in Nat

VARIABLES
  form,            \* the component
  open,            \* the editor is on the screen
  sess,            \* how often it was opened
  target,          \* the record it is open on, New for none
  mode,            \* isEdit of the air theme's token editor; whether a group was
                   \* chosen in the default theme's
  initial,         \* the values a berry form starts from
  inputs,          \* the values in the fields
  spin,            \* the fields are covered by a spinner
  busy,            \* the submit button of a berry form is disabled
  store,           \* the server's records
  made,            \* the records that were added
  net,             \* requests under way
  issued,          \* number of requests so far
  timers,          \* timeouts that are pending
  faults,          \* refused or lost answers so far
  changes,         \* changes by others so far
  hasty,           \* history: how often the user did not wait for an answer
  failed,          \* history: something was refused, lost or turned back
  stale            \* history: the record changed since the editor was opened

editor == <<open, sess, target, mode, initial, inputs, spin, busy>>
server == <<store, made>>
wire == <<net, issued>>
past == <<hasty, failed, stale>>
vars == <<form, editor, server, wire, timers, faults, changes, past>>

New == 0
\* The records are alike, so the first one that is opened may be any of them.
FirstId == CHOOSE id \in Ids : TRUE
Records == Ids \cup {Self}
None == [ok |-> "none"]
Special == {"aws", "vertex"}    \* channel types whose key is made of a config
Types == Special \cup {"plain", "proxy"}

DefaultForms == {"default/channel", "default/token", "default/user", "default/adduser"}
AirForms == {"air/channel", "air/token", "air/user", "air/adduser"}
BerryForms == {"berry/channel", "berry/token", "berry/user"}
TokenForms == {"default/token", "air/token", "berry/token"}
UserForms == {"default/user", "air/user", "air/adduser", "default/adduser", "berry/user"}
ChannelForms == {"default/channel", "air/channel", "berry/channel"}

(***************************************************************************)
(* The values in a form                                                    *)
(***************************************************************************)
\* The default theme shows quotas of tokens and users in millions: a quota on
\* the screen has the scale -1, one in the database 0.
FormScale == IF form \in DefaultForms \ ChannelForms THEN -1 ELSE 0

Blank == [of |-> New, ver |-> 0, text |-> FALSE, wrong |-> FALSE, scale |-> FormScale,
          models |-> "none", type |-> "plain", config |-> {}, key |-> "none"]

\* the values that are made of an answer; the types that editors save are not
\* kept, a channel is loaded with the one it had at the start
TypeOf(id) == IF id = FirstId THEN "plain" ELSE "aws"
Loaded(r) ==
  [Blank EXCEPT !.of = r.ans.cols.of, !.ver = r.ans.cols.ver,
                !.scale = r.ans.cols.scale + FormScale, !.models = "list",
                !.type = TypeOf(r.ans.cols.of), !.config = {TypeOf(r.ans.cols.of)} \cap Special]

\* A field is typed: "text" stands for those that must not be empty and for the
\* quota, "wrong" makes a date or a JSON text invalid, or valid again.
Write(v, f) ==
  [v EXCEPT !.text = @ \/ f = "text",
            !.scale = IF f = "text" THEN FormScale ELSE @,
            !.models = IF f = "models" THEN "list" ELSE @,
            !.config = IF f = "config" THEN @ \cup {v.type} ELSE @,
            !.key = IF f = "key" THEN "typed" ELSE @,
            !.wrong = IF f = "wrong" THEN ~@ ELSE @]
\* Typing that makes a difference (a new channel is turned back alike for what
\* is missing and for what is wrong)
Writable(v, f) ==
  CASE f = "text" -> (v.of = New /\ ~v.text) \/ v.scale # FormScale
    [] f = "models" -> v.models # "list"
    [] f = "config" -> v.key = "none" /\ v.type \in Special /\ v.type \notin v.config
    [] f = "key" -> v.type \notin Special /\ v.key # "typed"
    [] f = "wrong" -> form \in TokenForms \/ v.of # New

(***************************************************************************)
(* Sending and waiting                                                     *)
(***************************************************************************)
\* Whatever the user does before everything has come to rest is hasty.
Acts ==
  \/ net = {} /\ timers = {} /\ UNCHANGED hasty
  \/ (net # {} \/ timers # {}) /\ hasty < MaxHasty /\ hasty' = hasty + 1

Req(do, id, body) ==
  [n |-> issued + 1, click |-> issued + 1, do |-> do, id |-> id, body |-> body,
   sess |-> sess', ans |-> None]
Sends(do, id, body) ==
  /\ Cardinality(net) < MaxOutstanding
  /\ net' = net \cup {Req(do, id, body)}
  /\ issued' = issued + 1
Send(do, id, body) == issued < MaxRequests /\ Sends(do, id, body)
SendNothing == UNCHANGED wire
\* A handler goes on to send another request.
SendNext(r, do, id) ==
  /\ net' = (net \ {r}) \cup {[r EXCEPT !.n = issued + 1, !.do = do, !.id = id, !.ans = None]}
  /\ issued' = issued + 1

Answers(dos) == {r \in net : r.do \in dos /\ r.ans # None}
Received(r) == net' = net \ {r} /\ UNCHANGED issued

\* A handler that goes on, as opposed to the user
Goes == UNCHANGED <<form, server, faults, changes, hasty, stale>>
\* An action of the user
UserActs == Acts /\ UNCHANGED <<form, server, faults, changes>>

(***************************************************************************)
(* The user and the form                                                   *)
(***************************************************************************)
Appear(id) ==
  /\ ~open
  /\ sess < MaxOpens
  /\ sess = 0 => id \in {New, FirstId}
  /\ open' = TRUE
  /\ sess' = sess + 1
  /\ target' = id
  /\ stale' = FALSE
  /\ UserActs
  /\ UNCHANGED <<timers, failed>>

Typing(v) ==
  /\ open /\ ~spin
  /\ inputs' = v
  /\ UserActs
  /\ SendNothing
  /\ UNCHANGED <<open, sess, target, mode, initial, spin, busy, timers, failed, stale>>
TypeFields(fs) ==
  \E f \in fs : Writable(inputs, f) /\ Typing(Write(inputs, f))

\* A new type of channel: the models are filled in when there are none.
FillModels(v) ==
  [v EXCEPT !.models = IF v.models = "none" /\ v.type # "proxy" THEN "list" ELSE @]

\* submit turns back, or dies, before it sends anything, and leaves the form
\* with other values or its spinner on.
TurnedBack(v, s) ==
  /\ inputs' = v
  /\ spin' = s
  /\ failed' = (failed \/ v # inputs \/ s # spin)
  /\ UserActs
  /\ SendNothing
  /\ UNCHANGED <<open, sess, target, mode, initial, timers, stale>>

\* An existing record is written, a new one is added.
SaveBy(do, id, v) ==
  /\ sess' = sess
  /\ Send(do, id, v)
  /\ UserActs
  /\ UNCHANGED <<open, target, mode, initial, timers, failed, stale>>
Save(id, v) == SaveBy(IF id = New THEN "post" ELSE "put", id, v)

(***************************************************************************)
(* The server                                                              *)
(***************************************************************************)
Columns(v) == [of |-> v.of, ver |-> v.ver, scale |-> v.scale]

Answered(r, ans) == net' = (net \ {r}) \cup {[r EXCEPT !.ans = ans]}
Accepted == [ok |-> "ok"]
Refused == [ok |-> "refused"]

ServeLoad(r) ==
  /\ r.do = "load"
  /\ Answered(r, [ok |-> "ok", cols |-> store[r.id]])
  /\ UNCHANGED <<server, failed>>
ServeGroup(r) ==
  /\ r.do = "group"
  /\ Answered(r, Accepted)
  /\ UNCHANGED <<server, failed>>

\* A token is looked up first, a user's name is unique; what is empty leaves a
\* user as it was.
PutFits(r) ==
  /\ r.id # New
  /\ form \in UserForms => r.body.of \in {New, r.id}
ServePut(r) ==
  /\ r.do = "put"
  /\ IF PutFits(r)
     THEN /\ Answered(r, Accepted)
          /\ store' = [store EXCEPT ![r.id] =
               IF form \in UserForms /\ r.body.of = New THEN @
               ELSE Columns(r.body)]
          /\ UNCHANGED failed
     ELSE /\ Answered(r, Refused)
          /\ failed' = TRUE
          /\ UNCHANGED store
  /\ UNCHANGED made

\* AddChannel makes a channel per line of the key, and keeps the id it is sent;
\* AddToken wants models and a quota, CreateUser a name and a password.
PostFits(r) ==
  /\ form \in ChannelForms => r.body.key # "none" /\ r.body.of = New
  /\ form \in TokenForms => /\ r.body.models # "none"
                            /\ form = "air/token" \/ r.body.text \/ r.body.of # New
  /\ form \in UserForms => r.body.text
ServePost(r) ==
  /\ r.do = "post"
  /\ IF PostFits(r)
     THEN /\ Answered(r, Accepted)
          /\ made' = made \cup {[click |-> r.click, sess |-> r.sess, cols |-> Columns(r.body)]}
          /\ UNCHANGED failed
     ELSE /\ Answered(r, Refused)
          /\ failed' = TRUE
          /\ UNCHANGED made
  /\ UNCHANGED store

Serve ==
  \E r \in net :
    /\ r.ans = None
    /\ ServeLoad(r) \/ ServeGroup(r) \/ ServePut(r) \/ ServePost(r)
    /\ UNCHANGED <<form, editor, issued, timers, faults, changes, hasty, stale>>

\* The server answers success = false, or no answer comes at all.
Fault ==
  \E r \in net, a \in {"refused", "lost"} :
    /\ r.ans = None
    /\ faults < MaxFaults
    /\ faults' = faults + 1
    /\ Answered(r, [ok |-> a])
    /\ failed' = TRUE
    /\ UNCHANGED <<form, editor, server, issued, timers, changes, hasty, stale>>

\* The relay, or another administrator, changes the record.
Others ==
  /\ open /\ target # New
  /\ changes < MaxChanges
  /\ changes' = changes + 1
  /\ store' = [store EXCEPT ![target].ver = @ + 1]
  /\ stale' = TRUE
  /\ UNCHANGED <<form, editor, made, wire, timers, faults, hasty, failed>>

Init ==
  /\ form \in Forms
  /\ open = FALSE
  /\ sess = 0
  /\ target = New
  /\ mode = "add"
  /\ initial = Blank
  /\ inputs = Blank
  /\ spin = (form = "air/user")
  /\ busy = FALSE
  /\ store = [id \in Records |-> [of |-> id, ver |-> 0, scale |-> 0]]
  /\ made = {}
  /\ issued = 0
  /\ net = IF form = "air/user"
           THEN {[n |-> 0, click |-> 0, do |-> "load", id |-> Self, body |-> Blank,
                  sess |-> 0, ans |-> None]}
           ELSE {}
  /\ timers = {}
  /\ faults = 0
  /\ changes = 0
  /\ hasty = 0
  /\ failed = FALSE
  /\ stale = FALSE
=============================================================================
