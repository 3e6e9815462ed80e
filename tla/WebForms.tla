------------------------------ MODULE WebForms ------------------------------
(***************************************************************************)
(* One of the editors of the three themes, the server behind it, and those *)
(* who change the same records.                                            *)
(***************************************************************************)
EXTENDS WebForm

Default == INSTANCE FormsDefault
AirTheme == INSTANCE FormsAir
BerryTheme == INSTANCE FormsBerry

DefaultEditors == Default!DefaultStep
AirEditors == AirTheme!AirStep
BerryEditors == BerryTheme!BerryStep

Next == DefaultEditors \/ AirEditors \/ BerryEditors \/ Serve \/ Fault \/ Others

\* A request is answered or its loss is noticed, and the browser's event loop
\* goes on with what was answered and with timeouts that ran out.
GoesOn == Default!DefaultGoesOn \/ AirTheme!AirGoesOn \/ BerryTheme!BerryGoesOn
Spec == Init /\ [][Next]_vars /\ WF_vars(Serve \/ Fault \/ GoesOn)

(***************************************************************************)
(* Properties                                                              *)
(***************************************************************************)
\* The user waited for every answer, and nothing failed.
Calm == hasty = 0 /\ ~failed
Saving == {r \in net : r.do \in {"put", "post"}}

\* An editor never writes one record's values over another record's, nor the
\* defaults of an empty form, unless something had failed; in the default theme
\* this holds however fast the user clicks.  And what is added was typed into
\* an empty form and not taken from a record that was open before (air's token
\* editor mixes them when it is opened again before an answer or its 500 ms
\* timeout came).
OwnColumns ==
  /\ (~failed /\ (hasty = 0 \/ form \in DefaultForms)) =>
       \A id \in Records : store[id].of = id
  /\ (form = "air/token" => hasty = 0) => \A m \in made : m.cols.of = New

\* What an editor converts before it saves is converted once, from the values
\* that are saved: quotas arrive in the unit of the database, whatever unit the
\* form shows, and the key composed of a channel's config is the one of its
\* type.  (The default theme converts in place, and once more when the form is
\* submitted again; its config must hold no values of another type.)
ConvertedOnce ==
  /\ (form = "default/token" => Calm) =>
       /\ \A id \in Records : store[id].scale = 0
       /\ \A m \in made : m.cols.scale = 0
  /\ \A r \in Saving :
       (/\ ~failed
        /\ form \in DefaultForms => hasty = 0 /\ r.body.config \subseteq {r.body.type}
        /\ r.body.key \in Special)
         => r.body.key = r.body.type

\* An editor that was opened once adds what one click asked for: in the berry
\* theme however often the button is clicked, elsewhere for a patient user.
OneAddition ==
  (form \in BerryForms \/ hasty = 0) =>
    \A m, o \in made : m.sess = o.sess => m.click = o.click

\* When everything has come to rest the open form is about the record it was
\* opened on, and shows it as it is on the server (air's channel editor shows
\* the values it had when the same channel was opened before).
FormShowsRecord ==
  (Calm /\ open /\ net = {} /\ timers = {}) =>
    /\ inputs.of = target
    /\ target # New /\ ~stale /\ form # "air/channel" => inputs.ver = store[target].ver

\* A spinner goes away unless something failed, and berry's button returns.
EditorReturns ==
  /\ spin ~> (~spin \/ failed)
  /\ busy ~> ~busy
=============================================================================
