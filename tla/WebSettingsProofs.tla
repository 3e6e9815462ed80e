-------------------------- MODULE WebSettingsProofs --------------------------
(***************************************************************************)
(* What TLAPS proves of the settings pages, for any options and bounds: no *)
(* secret is blanked, password sign-in is not switched off without the     *)
(* warning, a patient user changes only what was typed or switched, and    *)
(* sees it as it is stored.                                                *)
(***************************************************************************)
EXTENDS WebSettings, WellFoundedInduction, TLAPS

PasswordLogin == "PasswordLoginEnabled"
Whitelist == "EmailDomainWhitelist"

(***************************************************************************)
(* However fast the user is and whatever fails                             *)
(***************************************************************************)
\* A form has a value for every option of the section.
IsForm(f) == f = [k \in Keys |-> f[k]]

\* The shapes of requests.
IsLoad(r) == r = [n |-> r.n, do |-> "options", ans |-> r.ans]
IsPut(r) == r = [n |-> r.n, do |-> "put", writes |-> r.writes, ans |-> r.ans]
IsFetch(r) ==
  r = [n |-> r.n, do |-> "fetch", snap |-> r.snap, org |-> r.org, obj |-> r.obj, ans |-> r.ans]

\* No secret is blank, and password sign-in not off unless that is confirmed.
Guarded == ~(section = "Pusher" /\ page = "air/system")
Harmless(k, v) ==
  /\ Guarded /\ k \in Secrets => v # ""
  /\ k = PasswordLogin /\ v = "false" => confirmed

\* Writes of the section's options, one at least, in an order.
Fitting(writes) ==
  /\ writes # {}
  /\ \A w \in writes : w.at \in Nat /\ w.key \in Keys /\ Harmless(w.key, w.value)
Fits(r) ==
  \/ r.do = "options" /\ IsLoad(r) /\ (r.ans.ok = "ok" => IsForm(r.ans.options))
  \/ r.do = "put" /\ IsPut(r) /\ Fitting(r.writes)
  \/ r.do = "fetch" /\ IsFetch(r) /\ section = "Oidc"

Placed == <<page, section>> \in AllSections /\ (warning => PasswordLogin \in Keys)
Stored == IsForm(store) /\ \A k \in Keys : Harmless(k, store[k])
SafeInv == Placed /\ IsForm(inputs) /\ Stored /\ \A r \in net : Fits(r)

(***************************************************************************)
(* What a button writes                                                    *)
(***************************************************************************)
LEMMA FirstOf ==
  ASSUME NEW writes, writes # {}, \A w \in writes : w.at \in Nat
  PROVE  First(writes) \in writes
<1> DEFINE R == OpToRel(<, Nat)
           Places == {w.at : w \in writes}
<1>1. IsWellFoundedOn(R, Nat)
  BY NatLessThanWellFounded
<1>2. \A m, n \in Nat : m < n => <<m, n>> \in R
  BY DEF OpToRel
<1>3. Places \subseteq Nat /\ Places # {}
  OBVIOUS
<1> HIDE DEF R
<1>4. PICK m \in Places : \A n \in Places : ~ (<<n, m>> \in R)
  <2> HIDE DEF Places
  <2> QED
    BY <1>1, <1>3, WFMin
<1>5. PICK w \in writes : w.at = m
  OBVIOUS
<1>6. \A v \in writes : w.at <= v.at
  <2> SUFFICES ASSUME NEW v \in writes PROVE w.at <= v.at
    OBVIOUS
  <2>1. v.at \in Places /\ m \in Nat /\ v.at \in Nat
    BY <1>3
  <2>2. ~(v.at < m)
    BY <1>2, <1>4, <2>1
  <2> QED
    BY <1>5, <2>1, <2>2
<1> QED
  BY <1>5, <1>6 DEF First

\* A handler writes options of its own; of secrets only what is there.
GoodStep(step) ==
  /\ step.key \notin Switches
  /\ step.when \in {"always", "changed", "filled", "listed", "json"}
  /\ step.when = "always" => step.key \in Unconditional
  /\ step.when = "filled" <=> step.key \in Secrets \cup {"SMTPPort"}
  /\ step.when = "listed" => step.key = Whitelist /\ page # "berry/system"
  /\ step.when = "json" => section = "Ratio" /\ step.key \in Ratios
GoodSteps(steps) ==
  /\ DOMAIN steps \subseteq Nat
  /\ \A j \in DOMAIN steps : steps[j].key \in Keys => GoodStep(steps[j])

LEMMA WritesAre ==
  ASSUME NEW steps, NEW snap, NEW org, NEW w \in Writes(steps, snap, org)
  PROVE  \E j \in DOMAIN steps :
           /\ w.at = j
           /\ w.key = steps[j].key
           /\ w.value = Written(w.key, snap[w.key])
           /\ w.key \in Keys
           /\ Due(steps[j], snap, org)
BY DEF Writes

LEMMA FilledSecrets ==
  ASSUME NEW k \in Secrets, NEW v
  PROVE  Written(k, v) = v /\ k # PasswordLogin
BY DEF Secrets, Written, Addresses, PasswordLogin

\* What a button writes is fitting.
LEMMA WritesFit ==
  ASSUME NEW steps, GoodSteps(steps), NEW snap, NEW org, Writes(steps, snap, org) # {}
  PROVE  Fitting(Writes(steps, snap, org))
<1> SUFFICES ASSUME NEW w \in Writes(steps, snap, org)
             PROVE  w.at \in Nat /\ w.key \in Keys /\ Harmless(w.key, w.value)
  BY DEF Fitting
<1>1. PICK j \in DOMAIN steps :
           /\ w.at = j
           /\ w.key = steps[j].key
           /\ w.value = Written(w.key, snap[w.key])
           /\ w.key \in Keys
           /\ Due(steps[j], snap, org)
  BY WritesAre
<1>2. GoodStep(steps[j]) /\ j \in Nat
  BY <1>1 DEF GoodSteps
<1>3. w.key # PasswordLogin
  BY <1>1, <1>2 DEF GoodStep, Switches, Logins, PasswordLogin
<1>4. w.key \in Secrets => w.value # ""
  <2> SUFFICES ASSUME w.key \in Secrets PROVE w.value # ""
    OBVIOUS
  <2>1. steps[j].when = "filled"
    BY <1>1, <1>2 DEF GoodStep
  <2>2. snap[w.key] # ""
    BY <1>1, <2>1 DEF Due
  <2> QED
    BY <1>1, <2>2, FilledSecrets
<1> QED
  BY <1>1, <1>2, <1>3, <1>4 DEF Harmless

\* So is what a switch writes.
LEMMA AloneIs ==
  ASSUME NEW k, NEW v
  PROVE  /\ Alone(k, v) # {}
         /\ \A w \in Alone(k, v) : w.at \in Nat /\ w.key = k /\ w.value = v
BY DEF Alone

LEMMA AloneFits ==
  ASSUME NEW k \in Keys, NEW v, Harmless(k, v)
  PROVE  Fitting(Alone(k, v))
<1>1. Alone(k, v) # {}
  BY AloneIs
<1>2. ASSUME NEW w \in Alone(k, v)
      PROVE  w.at \in Nat /\ w.key \in Keys /\ Harmless(w.key, w.value)
  <2>1. w.at \in Nat /\ w.key = k /\ w.value = v
    BY AloneIs
  <2> QED
    BY <2>1
<1> QED
  BY <1>1, <1>2 DEF Fitting

LEMMA PutIs ==
  ASSUME NEW n, NEW writes
  PROVE  LET r == Put(n, writes)
         IN  r.do = "put" /\ IsPut(r) /\ r.writes = writes /\ r.ans = None
BY DEF Put, IsPut

(***************************************************************************)
(* What keeps the invariant                                                *)
(***************************************************************************)
LEMMA SamePage ==
  ASSUME UNCHANGED place
  PROVE  page' = page /\ section' = section /\ Keys' = Keys
BY DEF place, Keys

LEMMA HarmlessOn ==
  ASSUME UNCHANGED place, confirmed => confirmed'
  PROVE  \A k, v : Harmless(k, v) => Harmless(k, v)'
BY SamePage DEF Harmless, Guarded

LEMMA FitsOn ==
  ASSUME UNCHANGED place, confirmed => confirmed'
  PROVE  \A r : Fits(r) => Fits(r)'
BY SamePage, HarmlessOn DEF Fits, Fitting, IsForm, IsLoad, IsPut, IsFetch

LEMMA SafeStep ==
  ASSUME SafeInv, UNCHANGED place, confirmed => confirmed',
         warning' => warning \/ PasswordLogin \in Keys, IsForm(inputs)', Stored',
         NEW Q, net' \subseteq net \cup Q, \A q \in Q : Fits(q)'
  PROVE  SafeInv'
<1>1. \A r \in net' : Fits(r)'
  BY FitsOn DEF SafeInv
<1>2. Placed'
  BY SamePage DEF SafeInv, Placed
<1> QED
  BY <1>1, <1>2 DEF SafeInv

\* The user writes nothing himself.
LEMMA StoredOn ==
  ASSUME SafeInv, UNCHANGED <<place, store>>, confirmed => confirmed'
  PROVE  Stored'
BY SamePage, HarmlessOn DEF SafeInv, Stored, IsForm

(***************************************************************************)
(* The steps of a page, in the words that the themes share                 *)
(***************************************************************************)
\* The dropdown of domains: what is chosen is not in the form.
Dropdown ==
  /\ section = "Domains"
  /\ Typed(Whitelist)
  /\ \E v : Expect({Whitelist}, v)
  /\ Acts
  /\ UNCHANGED <<inputs, obj, origin, warning, wire, confirmed>>
\* What is typed is written at once.
Eager ==
  /\ ~Guarded
  /\ \E k \in Keys :
       /\ Typed(k)
       /\ \E v : Asks(Put(issued + 1, Alone(k, v))) /\ Expect({k}, v)
  /\ Acts
  /\ UNCHANGED <<inputs, obj, origin, warning, confirmed>>
\* The provider is asked for its endpoints before they are written.
Asking ==
  /\ section = "Oidc"
  /\ Asks([n |-> issued + 1, do |-> "fetch", snap |-> inputs, org |-> origin, obj |-> obj,
           ans |-> None])
  /\ Expect(Endpoints, "fetched")
  /\ saved' = saved \cup Keys
  /\ Acts
  /\ UNCHANGED <<inputs, obj, origin, warning, confirmed>>
Button == \E steps : GoodSteps(steps) /\ Saves(steps)
UserStep ==
  \/ Button
  \/ \E k \in Keys : TypeInto(k)
  \/ \E ks : ks \cap Keys \subseteq Switches /\ Clicks(ks)
  \/ PasswordWarning
  \/ Dropdown
  \/ Eager
  \/ Asking

Fetched(r, form_) ==
  [k \in Keys |-> IF k \in Endpoints /\ r.ans.ok = "ok" THEN "fetched" ELSE form_[k]]
FetchEnds ==
  \E r \in Answers("fetch") :
    LET writes == Writes(BerryTheme!OidcSteps, Fetched(r, r.snap), r.org)
    IN  /\ inputs' = IF r.obj = obj THEN Fetched(r, inputs) ELSE inputs
        /\ IF writes = {}
           THEN net' = net \ {r} /\ UNCHANGED <<issued, loading>>
           ELSE /\ net' = (net \ {r}) \cup {Put(issued + 1, writes)}
                /\ issued' = issued + 1
                /\ loading' = TRUE
        /\ UNCHANGED <<obj, origin, domains, warning>>
        /\ Goes
AnswerStep == LoadEnds \/ UpdateEnds \/ FetchEnds

(***************************************************************************)
(* Each of them keeps the invariant                                        *)
(***************************************************************************)
LEMMA PutFits ==
  ASSUME NEW n, NEW writes, Fitting(writes)
  PROVE  Fits(Put(n, writes))
BY PutIs DEF Fits

\* A request of the user is added.
LEMMA UserAdds ==
  ASSUME SafeInv, Acts, confirmed => confirmed', warning' => warning \/ PasswordLogin \in Keys,
         IsForm(inputs)', NEW q, net' = net \cup {q}, Fits(q)'
  PROVE  SafeInv'
<1>1. UNCHANGED <<place, store>>
  BY DEF Acts
<1>2. Stored'
  BY <1>1, StoredOn
<1>3. PICK Q : Q = {q}
  OBVIOUS
<1>4. net' \subseteq net \cup Q /\ \A p \in Q : Fits(p)'
  BY <1>3
<1> QED
  BY <1>1, <1>2, <1>4, SafeStep

\* Or none.
LEMMA UserIdle ==
  ASSUME SafeInv, Acts, confirmed => confirmed', warning' => warning \/ PasswordLogin \in Keys,
         IsForm(inputs)', net' = net
  PROVE  SafeInv'
<1>1. UNCHANGED <<place, store>>
  BY DEF Acts
<1>2. Stored'
  BY <1>1, StoredOn
<1>3. PICK Q : Q = {}
  OBVIOUS
<1>4. net' \subseteq net \cup Q /\ \A p \in Q : Fits(p)'
  BY <1>3
<1> QED
  BY <1>1, <1>2, <1>4, SafeStep

LEMMA SavesSafe ==
  ASSUME SafeInv, NEW steps, GoodSteps(steps), Saves(steps)
  PROVE  SafeInv'
<1> DEFINE writes == Writes(steps, inputs, origin)
<1>1. Acts /\ UNCHANGED <<inputs, warning, confirmed>>
  BY DEF Saves
<1>2. UNCHANGED place
  BY <1>1 DEF Acts
<1>3. IsForm(inputs)'
  BY <1>1, <1>2, SamePage DEF SafeInv, IsForm
<1>4. CASE writes = {}
  <2>1. net' = net
    BY <1>4 DEF Saves, wire
  <2> QED
    BY <1>1, <1>3, <2>1, UserIdle
<1>5. CASE writes # {}
  <2>1. PICK q : q = Put(issued + 1, writes)
    OBVIOUS
  <2>2. net' = net \cup {q}
    BY <1>5, <2>1 DEF Saves, Asks
  <2>3. Fits(q)
    BY <1>5, <2>1, WritesFit, PutFits
  <2>4. Fits(q)'
    BY <1>1, <1>2, <2>3, FitsOn
  <2> QED
    BY <1>1, <1>3, <2>2, <2>4, UserAdds
<1> QED
  BY <1>4, <1>5

LEMMA TypeSafe ==
  ASSUME SafeInv, NEW k \in Keys, TypeInto(k)
  PROVE  SafeInv'
<1>1. Acts /\ UNCHANGED <<net, warning, confirmed>>
  BY DEF TypeInto, wire
<1>2. PICK v : inputs' = [inputs EXCEPT ![k] = v]
  BY DEF TypeInto, SetInput
<1>3. Keys' = Keys
  BY <1>1, SamePage DEF Acts
<1>4. IsForm(inputs)'
  BY <1>2, <1>3 DEF SafeInv, IsForm
<1> QED
  BY <1>1, <1>4, UserIdle

LEMMA SetsSafe ==
  ASSUME SafeInv, NEW k \in Keys, NEW v, Sets(k, v), UNCHANGED inputs, v # "",
         confirmed => confirmed', k = PasswordLogin /\ v = "false" => confirmed',
         warning' => warning
  PROVE  SafeInv'
<1>1. Acts
  BY DEF Sets
<1>2. UNCHANGED place
  BY <1>1 DEF Acts
<1>3. IsForm(inputs)'
  BY <1>2, SamePage DEF SafeInv, IsForm
<1>4. PICK q : q = Put(issued + 1, Alone(k, v))
  OBVIOUS
<1>5. net' = net \cup {q}
  BY <1>4 DEF Sets, Asks
<1>6. Harmless(k, v)' /\ k \in Keys'
  BY <1>2, SamePage DEF Harmless
<1>7. Fits(q)'
  <2>1. (k \in Keys /\ Harmless(k, v) => Fitting(Alone(k, v)))'
    BY AloneFits, PTL
  <2>2. Fitting(Alone(k, v))'
    BY <1>6, <2>1
  <2>3. q.do = "put" /\ q.writes = Alone(k, v) /\ IsPut(q)
    BY <1>4, PutIs
  <2> QED
    BY <2>2, <2>3 DEF Fits, IsPut
<1> QED
  BY <1>1, <1>3, <1>5, <1>7, UserAdds

LEMMA ClicksSafe ==
  ASSUME SafeInv, NEW ks, Clicks(ks)
  PROVE  SafeInv'
<1>1. UNCHANGED <<inputs, confirmed>>
  BY DEF Clicks
<1>2. PICK k \in ks \cap Keys :
        IF k = PasswordLogin /\ inputs[k] = "true"
        THEN /\ warning' = TRUE
             /\ Acts
             /\ UNCHANGED <<loading, wire, wrote, expected, saved>>
        ELSE Sets(k, Opposite(inputs[k])) /\ UNCHANGED warning
  BY DEF Clicks, PasswordLogin
<1>3. CASE k = PasswordLogin /\ inputs[k] = "true"
  <2>1. Acts /\ net' = net /\ PasswordLogin \in Keys
    BY <1>2, <1>3 DEF wire
  <2>2. IsForm(inputs)'
    BY <1>1, <2>1, SamePage DEF SafeInv, IsForm, Acts
  <2> QED
    BY <1>1, <2>1, <2>2, UserIdle
<1>4. CASE ~(k = PasswordLogin /\ inputs[k] = "true")
  <2>1. ~(k = PasswordLogin /\ Opposite(inputs[k]) = "false") /\ Opposite(inputs[k]) # ""
    BY <1>4 DEF Opposite
  <2>2. Sets(k, Opposite(inputs[k])) /\ UNCHANGED warning
    BY <1>2, <1>4
  <2> QED
    BY <1>1, <2>1, <2>2, SetsSafe
<1> QED
  BY <1>3, <1>4

LEMMA WarningSafe ==
  ASSUME SafeInv, PasswordWarning
  PROVE  SafeInv'
<1>0. PasswordLogin \in Keys
  BY DEF PasswordWarning, Confirms, Cancels, SafeInv, Placed
<1>1. CASE Confirms
  <2>1. /\ confirmed'
        /\ Sets(PasswordLogin, Opposite(inputs[PasswordLogin]))
        /\ UNCHANGED inputs
        /\ ~warning'
    BY <1>1 DEF Confirms, PasswordLogin
  <2>2. Opposite(inputs[PasswordLogin]) # ""
    BY DEF Opposite
  <2> QED
    BY <1>0, <2>1, <2>2, SetsSafe
<1>2. CASE Cancels
  <2>1. Acts /\ UNCHANGED <<net, inputs, confirmed>> /\ ~warning'
    BY <1>2 DEF Cancels, wire
  <2>2. IsForm(inputs)'
    BY <2>1, SamePage DEF SafeInv, IsForm, Acts
  <2> QED
    BY <2>1, <2>2, UserIdle
<1> QED
  BY <1>1, <1>2 DEF PasswordWarning

LEMMA DropdownSafe ==
  ASSUME SafeInv, Dropdown
  PROVE  SafeInv'
<1>1. Acts /\ UNCHANGED <<net, inputs, warning, confirmed>>
  BY DEF Dropdown, wire
<1>2. IsForm(inputs)'
  BY <1>1, SamePage DEF SafeInv, IsForm, Acts
<1> QED
  BY <1>1, <1>2, UserIdle

LEMMA EagerSafe ==
  ASSUME SafeInv, Eager
  PROVE  SafeInv'
<1>1. Acts /\ UNCHANGED <<inputs, warning, confirmed>> /\ ~Guarded
  BY DEF Eager
<1>2. UNCHANGED place
  BY <1>1 DEF Acts
<1>3. IsForm(inputs)'
  BY <1>1, <1>2, SamePage DEF SafeInv, IsForm
<1>4. PICK k \in Keys : \E v : Asks(Put(issued + 1, Alone(k, v)))
  BY DEF Eager
<1>5. PICK v : Asks(Put(issued + 1, Alone(k, v)))
  BY <1>4
<1>6. PICK q : q = Put(issued + 1, Alone(k, v))
  OBVIOUS
<1>7. k # PasswordLogin
  BY <1>1 DEF Guarded, Keys, KeysOf, PasswordLogin
<1>8. Fitting(Alone(k, v))
  BY <1>1, <1>7, AloneFits DEF Harmless
<1>9. Fits(q)
  BY <1>6, <1>8, PutFits
<1>10. Fits(q)'
  BY <1>1, <1>2, <1>9, FitsOn
<1>11. net' = net \cup {q}
  BY <1>5, <1>6 DEF Asks
<1> QED
  BY <1>1, <1>3, <1>10, <1>11, UserAdds

LEMMA AskingSafe ==
  ASSUME SafeInv, Asking
  PROVE  SafeInv'
<1>1. Acts /\ UNCHANGED <<inputs, warning, confirmed>> /\ section = "Oidc"
  BY DEF Asking
<1>2. UNCHANGED place
  BY <1>1 DEF Acts
<1>3. IsForm(inputs)'
  BY <1>1, <1>2, SamePage DEF SafeInv, IsForm
<1>4. PICK q : q = [n |-> issued + 1, do |-> "fetch", snap |-> inputs, org |-> origin,
                    obj |-> obj, ans |-> None]
  OBVIOUS
<1>5. net' = net \cup {q}
  BY <1>4 DEF Asking, Asks
<1>6. Fits(q)
  BY <1>1, <1>4 DEF Fits, IsFetch
<1>7. Fits(q)'
  BY <1>1, <1>2, <1>6, FitsOn
<1> QED
  BY <1>1, <1>3, <1>5, <1>7, UserAdds

(***************************************************************************)
(* The server and the answers                                              *)
(***************************************************************************)
\* What the form holds is put into it, and one request makes place for another.
LEMMA AnswerSafe ==
  ASSUME SafeInv, Goes, UNCHANGED warning, IsForm(inputs)',
         net' \subseteq net \/ (\E q : net' \subseteq net \cup {q} /\ Fits(q))
  PROVE  SafeInv'
<1>1. UNCHANGED place /\ UNCHANGED <<store, confirmed>>
  BY DEF Goes, past
<1>2. Stored'
  BY <1>1, StoredOn
<1>3. PICK Q : net' \subseteq net \cup Q /\ \A q \in Q : Fits(q)
  <2>1. CASE net' \subseteq net
    <3>1. PICK Q : Q = {}
      OBVIOUS
    <3> QED
      BY <2>1, <3>1
  <2>2. CASE \E q : net' \subseteq net \cup {q} /\ Fits(q)
    <3>1. PICK q : net' \subseteq net \cup {q} /\ Fits(q)
      BY <2>2
    <3>2. PICK Q : Q = {q}
      OBVIOUS
    <3> QED
      BY <3>1, <3>2
  <2> QED
    BY <2>1, <2>2
<1>4. \A q \in Q : Fits(q)'
  BY <1>1, <1>3, FitsOn
<1> QED
  BY <1>1, <1>2, <1>3, <1>4, SafeStep

LEMMA FormOn ==
  ASSUME UNCHANGED place
  PROVE  \A f : IsForm(f) => IsForm(f)'
BY SamePage DEF IsForm

LEMMA LoadSafe ==
  ASSUME SafeInv, LoadEnds
  PROVE  SafeInv'
<1>1. Goes /\ UNCHANGED warning
  BY DEF LoadEnds
<1>2. PICK r \in Answers("options") :
           /\ IF r.ans.ok = "ok" THEN inputs' = r.ans.options ELSE inputs' = inputs
           /\ net' = net \ {r}
  BY DEF LoadEnds
<1>3. r.ans.ok = "ok" => IsForm(r.ans.options)
  BY DEF SafeInv, Fits, Answers
<1>4. PICK f : f = inputs' /\ IsForm(f)
  BY <1>2, <1>3 DEF SafeInv
<1>5. IsForm(f)'
  BY <1>1, <1>4, FormOn DEF Goes
<1>6. IsForm(inputs)'
  BY <1>4, <1>5 DEF IsForm
<1> QED
  BY <1>1, <1>2, <1>6, AnswerSafe

LEMMA PutOf ==
  ASSUME SafeInv, NEW r \in Answers("put")
  PROVE  IsPut(r) /\ Fitting(r.writes) /\ Now(r) \in r.writes
<1>1. IsPut(r) /\ Fitting(r.writes)
  BY DEF SafeInv, Fits, Answers
<1> QED
  BY <1>1, FirstOf DEF Fitting, Now

\* The handler's next write is one of those that were left.
LEMMA GoesOnTo ==
  ASSUME SafeInv, NEW r \in Answers("put"), GoesOn(r)
  PROVE  \/ net' = net \ {r} /\ r.writes = {Now(r)}
         \/ /\ r.writes \ {Now(r)} # {}
            /\ net' = (net \ {r}) \cup {Put(issued + 1, r.writes \ {Now(r)})}
            /\ Fits(Put(issued + 1, r.writes \ {Now(r)}))
<1>1. Fitting(r.writes) /\ Now(r) \in r.writes
  BY PutOf
<1>2. CASE r.writes \ {Now(r)} = {}
  BY <1>1, <1>2 DEF GoesOn
<1>3. CASE r.writes \ {Now(r)} # {}
  <2>1. Fitting(r.writes \ {Now(r)})
    BY <1>1, <1>3 DEF Fitting
  <2> QED
    BY <1>3, <2>1, PutFits DEF GoesOn
<1> QED
  BY <1>2, <1>3

LEMMA SetInputForm ==
  ASSUME IsForm(inputs), UNCHANGED place, NEW k, NEW v, SetInput(k, v)
  PROVE  IsForm(inputs)'
BY SamePage DEF IsForm, SetInput

LEMMA UpdateSafe ==
  ASSUME SafeInv, UpdateEnds
  PROVE  SafeInv'
<1>1. Goes /\ UNCHANGED warning
  BY DEF UpdateEnds
<1>2. UNCHANGED place
  BY <1>1 DEF Goes
<1>3. PICK r \in Answers("put") :
           /\ GoesOn(r) \/ net' = net \ {r}
           /\ SetInput(Now(r).key, Now(r).value) \/ UNCHANGED inputs
  BY DEF UpdateEnds
<1>4. IsForm(inputs)'
  BY <1>2, <1>3, SetInputForm, SamePage DEF SafeInv, IsForm
<1>5. net' \subseteq net \/ (\E q : net' \subseteq net \cup {q} /\ Fits(q))
  <2>1. CASE net' = net \ {r}
    BY <2>1
  <2>2. CASE GoesOn(r)
    <3>1. PICK q : q = Put(issued + 1, r.writes \ {Now(r)})
      OBVIOUS
    <3>2. net' = net \ {r} \/ (net' = (net \ {r}) \cup {q} /\ Fits(q))
      BY <2>2, <3>1, GoesOnTo
    <3> QED
      BY <3>2
  <2> QED
    BY <1>3, <2>1, <2>2
<1> QED
  BY <1>1, <1>4, <1>5, AnswerSafe

LEMMA OidcIsGood ==
  ASSUME section = "Oidc"
  PROVE  GoodSteps(BerryTheme!OidcSteps)
<1> DEFINE steps == BerryTheme!OidcSteps
<1>1. /\ DOMAIN steps = 1 .. 6
      /\ steps[1] = [key |-> "OidcWellKnown", when |-> "changed"]
      /\ steps[2] = [key |-> "OidcClientId", when |-> "changed"]
      /\ steps[3] = [key |-> "OidcClientSecret", when |-> "filled"]
      /\ steps[4] = [key |-> "OidcAuthorizationEndpoint", when |-> "changed"]
      /\ steps[5] = [key |-> "OidcTokenEndpoint", when |-> "changed"]
      /\ steps[6] = [key |-> "OidcUserinfoEndpoint", when |-> "changed"]
  BY DEF BerryTheme!OidcSteps, BerryTheme!Changed, BerryTheme!Filled
<1> HIDE DEF steps
<1>2. ASSUME NEW j \in DOMAIN steps PROVE GoodStep(steps[j])
  BY <1>1 DEF GoodStep, Switches, Logins, Secrets
<1>3. GoodSteps(steps)
  BY <1>1, <1>2 DEF GoodSteps
<1> QED
  BY <1>3 DEF steps

LEMMA FetchSafe ==
  ASSUME SafeInv, FetchEnds
  PROVE  SafeInv'
<1>1. Goes /\ UNCHANGED warning
  BY DEF FetchEnds
<1>2. UNCHANGED place
  BY <1>1 DEF Goes
<1>3. PICK r \in Answers("fetch") :
        LET writes == Writes(BerryTheme!OidcSteps, Fetched(r, r.snap), r.org)
        IN  /\ inputs' = IF r.obj = obj THEN Fetched(r, inputs) ELSE inputs
            /\ IF writes = {}
               THEN net' = net \ {r}
               ELSE net' = (net \ {r}) \cup {Put(issued + 1, writes)}
  BY DEF FetchEnds
<1>4. section = "Oidc"
  BY DEF SafeInv, Fits, Answers
<1>5. IsForm(inputs)'
  BY <1>2, <1>3, SamePage DEF SafeInv, IsForm, Fetched
<1>6. PICK writes : writes = Writes(BerryTheme!OidcSteps, Fetched(r, r.snap), r.org)
  OBVIOUS
<1>7. CASE writes = {}
  <2>1. net' \subseteq net
    BY <1>3, <1>6, <1>7
  <2> QED
    BY <1>1, <1>5, <2>1, AnswerSafe
<1>8. CASE writes # {}
  <2>1. Fitting(writes)
    BY <1>4, <1>6, <1>8, OidcIsGood, WritesFit
  <2>2. PICK q : q = Put(issued + 1, writes)
    OBVIOUS
  <2>3. net' \subseteq net \cup {q} /\ Fits(q)
    BY <1>3, <1>6, <1>8, <2>1, <2>2, PutFits
  <2> QED
    BY <1>1, <1>5, <2>3, AnswerSafe
<1> QED
  BY <1>7, <1>8

\* A request that is answered is the request it was.
LEMMA AnsweredFits ==
  ASSUME NEW r, Fits(r), NEW a, r.do = "options" /\ a.ok = "ok" => IsForm(a.options)
  PROVE  Fits([r EXCEPT !.ans = a])
BY DEF Fits, IsLoad, IsPut, IsFetch

LEMMA ServerSafe ==
  ASSUME SafeInv, Elsewhere, Stored', NEW r \in net, NEW a, Answered(r, a),
         r.do = "options" /\ a.ok = "ok" => IsForm(a.options)
  PROVE  SafeInv'
<1>1. UNCHANGED place /\ UNCHANGED <<inputs, warning, confirmed>>
  BY DEF Elsewhere, form
<1>2. PICK Q : Q = {[r EXCEPT !.ans = a]}
  OBVIOUS
<1>3. net' \subseteq net \cup Q
  BY <1>2 DEF Answered
<1>4. \A q \in Q : Fits(q)'
  BY <1>1, <1>2, AnsweredFits, FitsOn DEF SafeInv
<1>5. IsForm(inputs)'
  BY <1>1, SamePage DEF SafeInv, IsForm
<1> QED
  BY <1>1, <1>3, <1>4, <1>5, SafeStep

\* An option is written.
LEMMA StoredAgain ==
  ASSUME Stored, UNCHANGED place, UNCHANGED confirmed, NEW k \in Keys, NEW v, Harmless(k, v),
         store' = [store EXCEPT ![k] = v]
  PROVE  Stored'
<1>1. IsForm(store)'
  BY SamePage DEF Stored, IsForm
<1>2. ASSUME NEW j \in Keys PROVE Harmless(j, store'[j])
  BY DEF Stored, IsForm
<1>3. \A j \in Keys : Harmless(j, store[j])'
  BY <1>2, SamePage DEF Harmless, Guarded
<1> QED
  BY <1>1, <1>3, SamePage DEF Stored

LEMMA ServeSafe ==
  ASSUME SafeInv, Serve
  PROVE  SafeInv'
<1>1. Elsewhere
  BY DEF Serve
<1>2. UNCHANGED place /\ UNCHANGED confirmed
  BY <1>1 DEF Elsewhere
<1>3. PICK r \in net : ServeOptions(r) \/ ServeUpdate(r) \/ ServeWellKnown(r)
  BY DEF Serve
<1>4. CASE ServeOptions(r)
  <2>1. PICK a : a = [ok |-> "ok", options |-> [k \in Keys |->
                        IF k \in Secrets THEN Undefined ELSE store[k]]]
    OBVIOUS
  <2>2. Answered(r, a) /\ IsForm(a.options)
    BY <1>4, <2>1 DEF ServeOptions, IsForm
  <2>3. Stored'
    BY <1>2, <1>4, StoredOn DEF ServeOptions
  <2> QED
    BY <1>1, <2>2, <2>3, ServerSafe
<1>5. CASE ServeUpdate(r)
  <2>1. r.do = "put" /\ Fitting(r.writes)
    BY <1>5 DEF ServeUpdate, SafeInv, Fits
  <2>2. Now(r) \in r.writes
    BY <2>1, FirstOf DEF Now, Fitting
  <2>3. Harmless(Now(r).key, Now(r).value) /\ Now(r).key \in Keys
    BY <2>1, <2>2 DEF Fitting
  <2>4. PICK a : Answered(r, a)
    BY <1>5 DEF ServeUpdate
  <2>5. store' = store \/ store' = [store EXCEPT ![Now(r).key] = Now(r).value]
    BY <1>5 DEF ServeUpdate
  <2>6. Stored'
    BY <1>2, <2>3, <2>5, StoredOn, StoredAgain DEF SafeInv
  <2> QED
    BY <1>1, <2>1, <2>4, <2>6, ServerSafe
<1>6. CASE ServeWellKnown(r)
  <2>1. PICK a : Answered(r, a)
    BY <1>6 DEF ServeWellKnown
  <2>2. Stored' /\ r.do # "options"
    BY <1>2, <1>6, StoredOn DEF ServeWellKnown
  <2> QED
    BY <1>1, <2>1, <2>2, ServerSafe
<1> QED
  BY <1>3, <1>4, <1>5, <1>6

LEMMA FaultSafe ==
  ASSUME SafeInv, Fault
  PROVE  SafeInv'
<1>1. Elsewhere /\ UNCHANGED store
  BY DEF Fault
<1>2. Stored'
  BY <1>1, StoredOn DEF Elsewhere
<1>3. PICK r \in net : \E how \in {"refused", "lost"} : Answered(r, [ok |-> how])
  BY DEF Fault
<1>4. PICK a : a.ok # "ok" /\ Answered(r, a)
  BY <1>3
<1> QED
  BY <1>1, <1>2, <1>4, ServerSafe

LEMMA OthersSafe ==
  ASSUME SafeInv, Others
  PROVE  SafeInv'
<1>1. Elsewhere /\ net' = net
  BY DEF Others
<1>2. UNCHANGED place /\ UNCHANGED <<inputs, warning, confirmed>>
  BY <1>1 DEF Elsewhere, form
<1>3. PICK k \in Keys \ {PasswordLogin} :
        store' = [store EXCEPT ![k] = IF k \in Switches THEN Opposite(store[k]) ELSE "other"]
  BY DEF Others, PasswordLogin
<1>4. PICK v : v = IF k \in Switches THEN Opposite(store[k]) ELSE "other"
  OBVIOUS
<1>5. Stored'
  <2>1. v # ""
    BY <1>4 DEF Opposite
  <2>2. Harmless(k, v)
    BY <2>1 DEF Harmless
  <2> QED
    BY <1>2, <1>3, <1>4, <2>2, StoredAgain DEF SafeInv
<1>6. IsForm(inputs)'
  BY <1>2, SamePage DEF SafeInv, IsForm
<1>7. PICK Q : Q = {}
  OBVIOUS
<1>8. net' \subseteq net \cup Q /\ \A q \in Q : Fits(q)'
  BY <1>1, <1>7
<1> QED
  BY <1>2, <1>5, <1>6, <1>8, SafeStep

(***************************************************************************)
(* The handlers of the themes                                              *)
(***************************************************************************)
\* Each of them writes what it should.
Good(step) == step.key \in Keys => GoodStep(step)
Plain(k) == k \notin Switches \cup Secrets \cup {"SMTPPort"}

LEMMA Good1 == \A a : Good(a) => GoodSteps(<<a>>)
BY DEF GoodSteps, Good

LEMMA Good2 == \A a, b : Good(a) /\ Good(b) => GoodSteps(<<a, b>>)
BY DEF GoodSteps, Good

LEMMA Good3 == \A a, b, c : Good(a) /\ Good(b) /\ Good(c) => GoodSteps(<<a, b, c>>)
BY DEF GoodSteps, Good

LEMMA Good4 ==
  \A a, b, c, d : Good(a) /\ Good(b) /\ Good(c) /\ Good(d) => GoodSteps(<<a, b, c, d>>)
BY DEF GoodSteps, Good

LEMMA Good5 ==
  \A a, b, c, d, e : Good(a) /\ Good(b) /\ Good(c) /\ Good(d) /\ Good(e) =>
                       GoodSteps(<<a, b, c, d, e>>)
BY DEF GoodSteps, Good

LEMMA AlwaysGood == \A k : Plain(k) /\ (k \in Keys => k \in Unconditional) => Good(Always(k))
BY DEF Good, GoodStep, Always, Plain

LEMMA ChangedGood == \A k : Plain(k) => Good(Changed(k))
BY DEF Good, GoodStep, Changed, Plain

LEMMA FilledGood == \A k \in Secrets \cup {"SMTPPort"} : Good(Filled(k))
BY DEF Good, GoodStep, Filled, Secrets, Switches, Logins

LEMMA ListedGood == page # "berry/system" => Good(Listed(Whitelist))
BY DEF Good, GoodStep, Listed, Secrets, Switches, Logins, Whitelist

LEMMA JsonGood == section = "Ratio" => \A k \in Ratios : Good(Json(k))
BY DEF Good, GoodStep, Json, Secrets, Switches, Logins, Ratios

\* The pages of the texts show these only.
LEMMA OtherSection ==
  ASSUME Placed, page \in {"default/other", "air/other", "berry/other"}
  PROVE  section = "Other" /\ Unconditional = Keys /\ \A k \in Keys : Plain(k)
<1>1. section = "Other"
  BY DEF Placed, AllSections
<1>2. Keys \subseteq {"Notice", "SystemName", "Theme", "Logo", "HomePageContent", "About",
                      "Footer"}
  BY <1>1 DEF Keys, KeysOf
<1> QED
  BY <1>1, <1>2 DEF Unconditional, Plain, Switches, Logins, Secrets

(***************************************************************************)
(* The pages of the default theme                                          *)
(***************************************************************************)
\* The theme is a copy of the common pages, whose definitions mean the same.
LEMMA DefaultWords ==
  /\ Default!Keys = Keys
  /\ Default!Acts <=> Acts
  /\ Default!Goes <=> Goes
  /\ Default!Clickable <=> Clickable
  /\ Default!None = None
  /\ \A v : Default!Opposite(v) = Opposite(v)
  /\ \A k, v : Default!Written(k, v) = Written(k, v)
  /\ \A k, v : Default!SetInput(k, v) <=> SetInput(k, v)
  /\ \A ks, v : Default!Expect(ks, v) <=> Expect(ks, v)
  /\ \A k : Default!Typed(k) <=> Typed(k)
  /\ \A r : Default!Asks(r) <=> Asks(r)
  /\ \A n, w : Default!Put(n, w) = Put(n, w)
  /\ \A k, v : Default!Alone(k, v) = Alone(k, v)
  /\ \A do : Default!Answers(do) = Answers(do)
<1>1. Default!KeysOf = KeysOf
  BY DEF Default!KeysOf, KeysOf, Default!Logins, Logins, Default!Endpoints, Endpoints,
         Default!Ratios, Ratios
<1>2. Default!Keys = Keys
  BY <1>1 DEF Default!Keys, Keys
<1>3. Default!Acts <=> Acts
  BY DEF Default!Acts, Acts, Default!place, place
<1>4. Default!Goes <=> Goes
  BY DEF Default!Goes, Goes, Default!past, past, Default!place, place
<1>5. Default!Clickable <=> Clickable
  BY DEF Default!Clickable, Clickable, Default!BerryPages, BerryPages
<1>6. Default!None = None
  BY DEF Default!None, None
<1>7. \A v : Default!Opposite(v) = Opposite(v)
  BY DEF Default!Opposite, Opposite
<1>8. \A k, v : Default!Written(k, v) = Written(k, v)
  BY DEF Default!Written, Written, Default!Addresses, Addresses, Default!Stripped,
         Stripped
<1>9. \A k, v : Default!SetInput(k, v) <=> SetInput(k, v)
  BY DEF Default!SetInput, SetInput, Default!NewObject, NewObject
<1>10. \A ks, v : Default!Expect(ks, v) <=> Expect(ks, v)
  BY <1>2 DEF Default!Expect, Expect
<1>11. \A k : Default!Typed(k) <=> Typed(k)
  BY DEF Default!Typed, Typed, Default!Together, Together
<1>12. \A r : Default!Asks(r) <=> Asks(r)
  BY DEF Default!Asks, Asks, Default!CanAsk, CanAsk, Default!Cardinality, Cardinality
<1>13. \A n, w : Default!Put(n, w) = Put(n, w)
  BY <1>6 DEF Default!Put, Put
<1>14. \A k, v : Default!Alone(k, v) = Alone(k, v)
  BY DEF Default!Alone, Alone
<1>15. \A do : Default!Answers(do) = Answers(do)
  BY <1>6 DEF Default!Answers, Answers
<1> QED
  BY <1>2, <1>3, <1>4, <1>5, <1>6, <1>7, <1>8, <1>9, <1>10, <1>11, <1>12, <1>13, <1>14,
     <1>15

LEMMA DefaultWrites ==
  \A steps, snap, org : Default!Writes(steps, snap, org) = Writes(steps, snap, org)
<1>1. \A s, a, b : Default!Due(s, a, b) <=> Due(s, a, b)
  BY DEF Default!Due, Due, Default!Undefined, Undefined
<1>2. \A s, a : Default!Invalid(s, a) <=> Invalid(s, a)
  BY DEF Default!Invalid, Invalid
<1> QED
  BY <1>1, <1>2, DefaultWords DEF Default!Writes, Writes

\* What the user does on its pages, and what the answers do.
LEMMA DefaultActs ==
  /\ \A steps : Default!Saves(steps) => Saves(steps)
  /\ \A k : Default!TypeInto(k) => TypeInto(k)
  /\ \A ks : Default!Fields(ks) => \E k \in Keys : TypeInto(k)
  /\ \A ks : Default!Clicks(ks) => Clicks(ks)
  /\ Default!PasswordWarning => PasswordWarning
  /\ Default!LoadEnds => LoadEnds
  /\ Default!UpdateEnds => UpdateEnds
<1>1. \A steps : Default!Saves(steps) => Saves(steps)
  BY DefaultWords, DefaultWrites DEF Default!Saves, Saves, Default!wire, wire
<1>2. \A k : Default!TypeInto(k) => TypeInto(k)
  BY DefaultWords
  DEF Default!TypeInto, TypeInto, Default!Typable, Typable, Default!Stripped, Stripped,
      Default!Addresses, Addresses, Default!Ratios, Ratios, Default!wire, wire
<1>3. \A ks : Default!Fields(ks) => \E k \in Keys : TypeInto(k)
  BY <1>2, DefaultWords DEF Default!Fields
<1>4. \A k, v : Default!Sets(k, v) => Sets(k, v)
  BY DefaultWords DEF Default!Sets, Sets
<1>5. \A ks : Default!Clicks(ks) => Clicks(ks)
  BY <1>4, DefaultWords DEF Default!Clicks, Clicks, Default!wire, wire
<1>6. Default!PasswordWarning => PasswordWarning
  <2>1. Default!Confirms => Confirms
    BY <1>4, DefaultWords DEF Default!Confirms, Confirms
  <2>2. Default!Cancels => Cancels
    BY DefaultWords DEF Default!Cancels, Cancels, Default!wire, wire
  <2> QED
    BY <2>1, <2>2 DEF Default!PasswordWarning, PasswordWarning
<1>7. Default!LoadEnds => LoadEnds
  BY DefaultWords DEF Default!LoadEnds, LoadEnds, Default!NewObject, NewObject
<1>8. Default!UpdateEnds => UpdateEnds
  <2>1. \A r : Default!Now(r) = Now(r)
    BY DEF Default!Now, Now, Default!First, First
  <2>2. \A r : Default!GoesOn(r) <=> GoesOn(r)
    BY <2>1, DefaultWords DEF Default!GoesOn, GoesOn
  <2> QED
    BY <2>1, <2>2, DefaultWords DEF Default!UpdateEnds, UpdateEnds
<1> QED
  BY <1>1, <1>2, <1>3, <1>5, <1>6, <1>7, <1>8

\* Its buttons write what they should, its switches are switches.
LEMMA DefaultSteps ==
  ASSUME Placed, Default!DefaultUser
  PROVE  UserStep
<1>1. CASE Default!General
  <2>1. section = "General"
    BY <1>1 DEF Default!General, Default!System, Default!At
  <2>2. Good(Always("ServerAddress"))
    BY <2>1, AlwaysGood DEF Unconditional, Plain, Switches, Logins, Secrets
  <2>3. Default!SubmitServerAddress => Button
    BY DefaultActs, Good1, <2>2
    DEF Button, Default!SubmitServerAddress, Default!Always, Always
  <2> QED
    BY <1>1, <2>3, DefaultActs DEF Default!General, UserStep
<1>2. CASE Default!LoginSwitches
  <2>1. section = "Login" /\ \E ks : Clicks(ks)
    BY <1>2, DefaultActs DEF Default!LoginSwitches, Default!System, Default!At
  <2>2. Keys \subseteq Switches
    BY <2>1 DEF Keys, KeysOf, Switches
  <2> QED
    BY <2>1, <2>2 DEF UserStep
<1>3. CASE Default!LoginWarning
  BY <1>3, DefaultActs DEF Default!LoginWarning, UserStep
<1>4. CASE Default!Domains
  <2>1. section = "Domains" /\ page = "default/system"
    BY <1>4 DEF Default!Domains, Default!System, Default!At
  <2>2. {"EmailDomainRestrictionEnabled"} \subseteq Switches
    BY DEF Switches
  <2>3. Good(Listed(Whitelist))
    BY <2>1, ListedGood
  <2>4. Default!SubmitEmailDomainWhitelist => Button
    BY DefaultActs, Good1, <2>3
    DEF Button, Default!SubmitEmailDomainWhitelist, Default!Listed, Listed, Whitelist
  <2>5. Default!EditDropdown => Dropdown
    BY <2>1, DefaultWords
    DEF Default!EditDropdown, Dropdown, Whitelist, Default!wire, wire
  <2>6. Default!Clicks({"EmailDomainRestrictionEnabled"}) => UserStep
    BY <2>2, DefaultActs DEF UserStep
  <2> QED
    BY <1>4, <2>4, <2>5, <2>6 DEF Default!Domains, UserStep
<1>5. CASE Default!SMTP
  <2>1. Default!SubmitSMTP => Button
    BY <1>5, DefaultActs, Good5, ChangedGood, FilledGood
    DEF Button, Default!SubmitSMTP, Default!Changed, Changed, Default!Filled, Filled,
        Plain, Switches, Logins, Secrets
  <2> QED
    BY <1>5, <2>1, DefaultActs DEF Default!SMTP, UserStep
<1>6. CASE Default!GitHub
  <2>1. Default!SubmitGitHubOAuth => Button
    BY <1>6, DefaultActs, Good2, ChangedGood, FilledGood
    DEF Button, Default!SubmitGitHubOAuth, Default!Changed, Changed, Default!Filled,
        Filled, Plain, Switches, Logins, Secrets
  <2> QED
    BY <1>6, <2>1, DefaultActs DEF Default!GitHub, UserStep
<1>7. CASE Default!Lark
  <2>1. Default!SubmitLarkOAuth => Button
    BY <1>7, DefaultActs, Good2, ChangedGood, FilledGood
    DEF Button, Default!SubmitLarkOAuth, Default!Changed, Changed, Default!Filled, Filled,
        Plain, Switches, Logins, Secrets
  <2> QED
    BY <1>7, <2>1, DefaultActs DEF Default!Lark, UserStep
<1>8. CASE Default!WeChat
  <2>1. Default!SubmitWeChat => Button
    BY <1>8, DefaultActs, Good3, ChangedGood, FilledGood
    DEF Button, Default!SubmitWeChat, Default!Changed, Changed, Default!Filled, Filled,
        Plain, Switches, Logins, Secrets
  <2> QED
    BY <1>8, <2>1, DefaultActs DEF Default!WeChat, UserStep
<1>9. CASE Default!Turnstile
  <2>1. Default!SubmitTurnstile => Button
    BY <1>9, DefaultActs, Good2, ChangedGood, FilledGood
    DEF Button, Default!SubmitTurnstile, Default!Changed, Changed, Default!Filled, Filled,
        Plain, Switches, Logins, Secrets
  <2> QED
    BY <1>9, <2>1, DefaultActs DEF Default!Turnstile, UserStep
<1>10. CASE Default!Quota
  <2>1. section = "Quota"
    BY <1>10 DEF Default!Quota, Default!Operation, Default!At
  <2>2. Default!SubmitConfig => Button
    BY <2>1, DefaultActs, Good2, ChangedGood
    DEF Button, Default!SubmitConfig, Default!Changed, Changed, Plain, Switches, Logins,
        Secrets
  <2> QED
    BY <1>10, <2>2, DefaultActs DEF Default!Quota, UserStep
<1>11. CASE Default!Logs
  <2>1. section = "Logs" /\ \E ks : Clicks(ks)
    BY <1>11, DefaultActs DEF Default!Logs, Default!Operation, Default!At
  <2>2. Keys \subseteq Switches
    BY <2>1 DEF Keys, KeysOf, Switches
  <2> QED
    BY <2>1, <2>2 DEF UserStep
<1>12. CASE Default!Monitor
  <2>1. section = "Monitor"
    BY <1>12 DEF Default!Monitor, Default!Operation, Default!At
  <2>2. Default!SubmitConfig => Button
    BY <2>1, DefaultActs, Good2, ChangedGood
    DEF Button, Default!SubmitConfig, Default!Changed, Changed, Plain, Switches, Logins,
        Secrets
  <2>3. Default!Clicks(Default!Keys \cap Default!Switches) => UserStep
    BY DefaultWords, DefaultActs
    DEF UserStep, Default!Switches, Switches, Default!Logins, Logins
  <2> QED
    BY <1>12, <2>2, <2>3, DefaultActs DEF Default!Monitor, UserStep
<1>13. CASE Default!Basics
  <2>1. section = "Basics"
    BY <1>13 DEF Default!Basics, Default!Operation, Default!At
  <2>2. Default!SubmitConfig => Button
    BY <2>1, DefaultActs, Good4, ChangedGood
    DEF Button, Default!SubmitConfig, Default!Changed, Changed, Plain, Switches, Logins,
        Secrets
  <2>3. Default!Clicks(Default!Keys \cap Default!Switches) => UserStep
    BY DefaultWords, DefaultActs
    DEF UserStep, Default!Switches, Switches, Default!Logins, Logins
  <2> QED
    BY <1>13, <2>2, <2>3, DefaultActs DEF Default!Basics, UserStep
<1>14. CASE Default!Other
  <2>1. Unconditional = Keys /\ \A k \in Keys : Plain(k)
    BY <1>14, OtherSection DEF Default!Other
  <2>2. Default!SubmitOther => Button
    BY <2>1, DefaultWords, DefaultActs, Good1, AlwaysGood
    DEF Button, Default!SubmitOther, Default!Always, Always
  <2> QED
    BY <1>14, <2>2, DefaultActs DEF Default!Other, UserStep
<1> QED
  BY <1>1, <1>2, <1>3, <1>4, <1>5, <1>6, <1>7, <1>8, <1>9, <1>10, <1>11, <1>12, <1>13,
     <1>14
  DEF Default!DefaultUser

LEMMA DefaultAnswers == Default!DefaultGoesOn => AnswerStep
BY DefaultActs
DEF Default!DefaultGoesOn, Default!GetSystemOptions, Default!UpdateSystem,
    Default!GetOperationOptions, Default!UpdateOperation, Default!GetOtherOptions,
    Default!UpdateOther, AnswerStep

(***************************************************************************)
(* The pages of the air theme                                              *)
(***************************************************************************)
\* The theme is a copy of the common pages, whose definitions mean the same.
LEMMA AirWords ==
  /\ AirTheme!Keys = Keys
  /\ AirTheme!Acts <=> Acts
  /\ AirTheme!Goes <=> Goes
  /\ AirTheme!Clickable <=> Clickable
  /\ AirTheme!None = None
  /\ \A v : AirTheme!Opposite(v) = Opposite(v)
  /\ \A k, v : AirTheme!Written(k, v) = Written(k, v)
  /\ \A k, v : AirTheme!SetInput(k, v) <=> SetInput(k, v)
  /\ \A ks, v : AirTheme!Expect(ks, v) <=> Expect(ks, v)
  /\ \A k : AirTheme!Typed(k) <=> Typed(k)
  /\ \A r : AirTheme!Asks(r) <=> Asks(r)
  /\ \A n, w : AirTheme!Put(n, w) = Put(n, w)
  /\ \A k, v : AirTheme!Alone(k, v) = Alone(k, v)
  /\ \A do : AirTheme!Answers(do) = Answers(do)
<1>1. AirTheme!KeysOf = KeysOf
  BY DEF AirTheme!KeysOf, KeysOf, AirTheme!Logins, Logins, AirTheme!Endpoints, Endpoints,
         AirTheme!Ratios, Ratios
<1>2. AirTheme!Keys = Keys
  BY <1>1 DEF AirTheme!Keys, Keys
<1>3. AirTheme!Acts <=> Acts
  BY DEF AirTheme!Acts, Acts, AirTheme!place, place
<1>4. AirTheme!Goes <=> Goes
  BY DEF AirTheme!Goes, Goes, AirTheme!past, past, AirTheme!place, place
<1>5. AirTheme!Clickable <=> Clickable
  BY DEF AirTheme!Clickable, Clickable, AirTheme!BerryPages, BerryPages
<1>6. AirTheme!None = None
  BY DEF AirTheme!None, None
<1>7. \A v : AirTheme!Opposite(v) = Opposite(v)
  BY DEF AirTheme!Opposite, Opposite
<1>8. \A k, v : AirTheme!Written(k, v) = Written(k, v)
  BY DEF AirTheme!Written, Written, AirTheme!Addresses, Addresses, AirTheme!Stripped,
         Stripped
<1>9. \A k, v : AirTheme!SetInput(k, v) <=> SetInput(k, v)
  BY DEF AirTheme!SetInput, SetInput, AirTheme!NewObject, NewObject
<1>10. \A ks, v : AirTheme!Expect(ks, v) <=> Expect(ks, v)
  BY <1>2 DEF AirTheme!Expect, Expect
<1>11. \A k : AirTheme!Typed(k) <=> Typed(k)
  BY DEF AirTheme!Typed, Typed, AirTheme!Together, Together
<1>12. \A r : AirTheme!Asks(r) <=> Asks(r)
  BY DEF AirTheme!Asks, Asks, AirTheme!CanAsk, CanAsk, AirTheme!Cardinality, Cardinality
<1>13. \A n, w : AirTheme!Put(n, w) = Put(n, w)
  BY <1>6 DEF AirTheme!Put, Put
<1>14. \A k, v : AirTheme!Alone(k, v) = Alone(k, v)
  BY DEF AirTheme!Alone, Alone
<1>15. \A do : AirTheme!Answers(do) = Answers(do)
  BY <1>6 DEF AirTheme!Answers, Answers
<1> QED
  BY <1>2, <1>3, <1>4, <1>5, <1>6, <1>7, <1>8, <1>9, <1>10, <1>11, <1>12, <1>13, <1>14,
     <1>15

LEMMA AirWrites ==
  \A steps, snap, org : AirTheme!Writes(steps, snap, org) = Writes(steps, snap, org)
<1>1. \A s, a, b : AirTheme!Due(s, a, b) <=> Due(s, a, b)
  BY DEF AirTheme!Due, Due, AirTheme!Undefined, Undefined
<1>2. \A s, a : AirTheme!Invalid(s, a) <=> Invalid(s, a)
  BY DEF AirTheme!Invalid, Invalid
<1> QED
  BY <1>1, <1>2, AirWords DEF AirTheme!Writes, Writes

\* What the user does on its pages, and what the answers do.
LEMMA AirActs ==
  /\ \A steps : AirTheme!Saves(steps) => Saves(steps)
  /\ \A k : AirTheme!TypeInto(k) => TypeInto(k)
  /\ \A ks : AirTheme!Fields(ks) => \E k \in Keys : TypeInto(k)
  /\ \A ks : AirTheme!Clicks(ks) => Clicks(ks)
  /\ AirTheme!PasswordWarning => PasswordWarning
  /\ AirTheme!LoadEnds => LoadEnds
  /\ AirTheme!UpdateEnds => UpdateEnds
<1>1. \A steps : AirTheme!Saves(steps) => Saves(steps)
  BY AirWords, AirWrites DEF AirTheme!Saves, Saves, AirTheme!wire, wire
<1>2. \A k : AirTheme!TypeInto(k) => TypeInto(k)
  BY AirWords
  DEF AirTheme!TypeInto, TypeInto, AirTheme!Typable, Typable, AirTheme!Stripped, Stripped,
      AirTheme!Addresses, Addresses, AirTheme!Ratios, Ratios, AirTheme!wire, wire
<1>3. \A ks : AirTheme!Fields(ks) => \E k \in Keys : TypeInto(k)
  BY <1>2, AirWords DEF AirTheme!Fields
<1>4. \A k, v : AirTheme!Sets(k, v) => Sets(k, v)
  BY AirWords DEF AirTheme!Sets, Sets
<1>5. \A ks : AirTheme!Clicks(ks) => Clicks(ks)
  BY <1>4, AirWords DEF AirTheme!Clicks, Clicks, AirTheme!wire, wire
<1>6. AirTheme!PasswordWarning => PasswordWarning
  <2>1. AirTheme!Confirms => Confirms
    BY <1>4, AirWords DEF AirTheme!Confirms, Confirms
  <2>2. AirTheme!Cancels => Cancels
    BY AirWords DEF AirTheme!Cancels, Cancels, AirTheme!wire, wire
  <2> QED
    BY <2>1, <2>2 DEF AirTheme!PasswordWarning, PasswordWarning
<1>7. AirTheme!LoadEnds => LoadEnds
  BY AirWords DEF AirTheme!LoadEnds, LoadEnds, AirTheme!NewObject, NewObject
<1>8. AirTheme!UpdateEnds => UpdateEnds
  <2>1. \A r : AirTheme!Now(r) = Now(r)
    BY DEF AirTheme!Now, Now, AirTheme!First, First
  <2>2. \A r : AirTheme!GoesOn(r) <=> GoesOn(r)
    BY <2>1, AirWords DEF AirTheme!GoesOn, GoesOn
  <2> QED
    BY <2>1, <2>2, AirWords DEF AirTheme!UpdateEnds, UpdateEnds
<1> QED
  BY <1>1, <1>2, <1>3, <1>5, <1>6, <1>7, <1>8

\* Its buttons write what they should, its switches are switches.
LEMMA AirSteps ==
  ASSUME Placed, AirTheme!AirUser
  PROVE  UserStep
<1>1. CASE AirTheme!General
  <2>1. section = "General"
    BY <1>1 DEF AirTheme!General, AirTheme!System, AirTheme!At
  <2>2. Good(Always("ServerAddress"))
    BY <2>1, AlwaysGood DEF Unconditional, Plain, Switches, Logins, Secrets
  <2>3. AirTheme!SubmitServerAddress => Button
    BY AirActs, Good1, <2>2
    DEF Button, AirTheme!SubmitServerAddress, AirTheme!Always, Always
  <2> QED
    BY <1>1, <2>3, AirActs DEF AirTheme!General, UserStep
<1>2. CASE AirTheme!LoginSwitches
  <2>1. section = "Login" /\ \E ks : Clicks(ks)
    BY <1>2, AirActs DEF AirTheme!LoginSwitches, AirTheme!System, AirTheme!At
  <2>2. Keys \subseteq Switches
    BY <2>1 DEF Keys, KeysOf, Switches
  <2> QED
    BY <2>1, <2>2 DEF UserStep
<1>3. CASE AirTheme!LoginWarning
  BY <1>3, AirActs DEF AirTheme!LoginWarning, UserStep
<1>4. CASE AirTheme!Domains
  <2>1. section = "Domains" /\ page = "air/system"
    BY <1>4 DEF AirTheme!Domains, AirTheme!System, AirTheme!At
  <2>2. {"EmailDomainRestrictionEnabled"} \subseteq Switches
    BY DEF Switches
  <2>3. Good(Listed(Whitelist))
    BY <2>1, ListedGood
  <2>4. AirTheme!SubmitEmailDomainWhitelist => Button
    BY AirActs, Good1, <2>3
    DEF Button, AirTheme!SubmitEmailDomainWhitelist, AirTheme!Listed, Listed, Whitelist
  <2>5. AirTheme!EditDomains => \E k \in Keys : TypeInto(k)
    BY AirActs DEF AirTheme!EditDomains
  <2>6. AirTheme!Clicks({"EmailDomainRestrictionEnabled"}) => UserStep
    BY <2>2, AirActs DEF UserStep
  <2> QED
    BY <1>4, <2>4, <2>5, <2>6 DEF AirTheme!Domains, UserStep
<1>5. CASE AirTheme!SMTP
  <2>1. AirTheme!SubmitSMTP => Button
    BY <1>5, AirActs, Good5, ChangedGood, FilledGood
    DEF Button, AirTheme!SubmitSMTP, AirTheme!Changed, Changed, AirTheme!Filled, Filled,
        Plain, Switches, Logins, Secrets
  <2> QED
    BY <1>5, <2>1, AirActs DEF AirTheme!SMTP, UserStep
<1>6. CASE AirTheme!GitHub
  <2>1. AirTheme!SubmitGitHubOAuth => Button
    BY <1>6, AirActs, Good2, ChangedGood, FilledGood
    DEF Button, AirTheme!SubmitGitHubOAuth, AirTheme!Changed, Changed, AirTheme!Filled,
        Filled, Plain, Switches, Logins, Secrets
  <2> QED
    BY <1>6, <2>1, AirActs DEF AirTheme!GitHub, UserStep
<1>7. CASE AirTheme!WeChat
  <2>1. AirTheme!SubmitWeChat => Button
    BY <1>7, AirActs, Good3, ChangedGood, FilledGood
    DEF Button, AirTheme!SubmitWeChat, AirTheme!Changed, Changed, AirTheme!Filled, Filled,
        Plain, Switches, Logins, Secrets
  <2> QED
    BY <1>7, <2>1, AirActs DEF AirTheme!WeChat, UserStep
<1>8. CASE AirTheme!Pusher
  <2>1. section = "Pusher" /\ page = "air/system"
    BY <1>8 DEF AirTheme!Pusher, AirTheme!System, AirTheme!At
  <2>2. AirTheme!SubmitMessagePusher => Button
    BY AirActs, Good2, ChangedGood, FilledGood
    DEF Button, AirTheme!SubmitMessagePusher, AirTheme!Changed, Changed, AirTheme!Filled,
        Filled, Plain, Switches, Logins, Secrets
  <2>3. AirTheme!TypeEagerly => Eager
    BY <2>1, AirWords DEF AirTheme!TypeEagerly, Eager, Guarded
  <2> QED
    BY <1>8, <2>2, <2>3 DEF AirTheme!Pusher, UserStep
<1>9. CASE AirTheme!Turnstile
  <2>1. AirTheme!SubmitTurnstile => Button
    BY <1>9, AirActs, Good2, ChangedGood, FilledGood
    DEF Button, AirTheme!SubmitTurnstile, AirTheme!Changed, Changed, AirTheme!Filled,
        Filled, Plain, Switches, Logins, Secrets
  <2> QED
    BY <1>9, <2>1, AirActs DEF AirTheme!Turnstile, UserStep
<1>10. CASE AirTheme!Quota
  <2>1. section = "Quota"
    BY <1>10 DEF AirTheme!Quota, AirTheme!Operation, AirTheme!At
  <2>2. AirTheme!SubmitConfig => Button
    BY <2>1, AirActs, Good4, ChangedGood
    DEF Button, AirTheme!SubmitConfig, AirTheme!Changed, Changed, Plain, Switches, Logins,
        Secrets
  <2> QED
    BY <1>10, <2>2, AirActs DEF AirTheme!Quota, UserStep
<1>11. CASE AirTheme!Logs
  <2>1. section = "Logs" /\ \E ks : Clicks(ks)
    BY <1>11, AirActs DEF AirTheme!Logs, AirTheme!Operation, AirTheme!At
  <2>2. Keys \subseteq Switches
    BY <2>1 DEF Keys, KeysOf, Switches
  <2> QED
    BY <2>1, <2>2 DEF UserStep
<1>12. CASE AirTheme!Monitor
  <2>1. section = "Monitor"
    BY <1>12 DEF AirTheme!Monitor, AirTheme!Operation, AirTheme!At
  <2>2. AirTheme!SubmitConfig => Button
    BY <2>1, AirActs, Good2, ChangedGood
    DEF Button, AirTheme!SubmitConfig, AirTheme!Changed, Changed, Plain, Switches, Logins,
        Secrets
  <2>3. AirTheme!Clicks(AirTheme!Keys \cap AirTheme!Switches) => UserStep
    BY AirWords, AirActs
    DEF UserStep, AirTheme!Switches, Switches, AirTheme!Logins, Logins
  <2> QED
    BY <1>12, <2>2, <2>3, AirActs DEF AirTheme!Monitor, UserStep
<1>13. CASE AirTheme!Basics
  <2>1. section = "Basics"
    BY <1>13 DEF AirTheme!Basics, AirTheme!Operation, AirTheme!At
  <2>2. AirTheme!SubmitConfig => Button
    BY <2>1, AirActs, Good4, ChangedGood
    DEF Button, AirTheme!SubmitConfig, AirTheme!Changed, Changed, Plain, Switches, Logins,
        Secrets
  <2>3. AirTheme!Clicks(AirTheme!Keys \cap AirTheme!Switches) => UserStep
    BY AirWords, AirActs
    DEF UserStep, AirTheme!Switches, Switches, AirTheme!Logins, Logins
  <2> QED
    BY <1>13, <2>2, <2>3, AirActs DEF AirTheme!Basics, UserStep
<1>14. CASE AirTheme!Ratio
  <2>1. section = "Ratio"
    BY <1>14 DEF AirTheme!Ratio, AirTheme!Operation, AirTheme!At
  <2>2. AirTheme!SubmitConfig => Button
    BY <2>1, AirActs, Good3, JsonGood
    DEF Button, AirTheme!SubmitConfig, AirTheme!Json, Json, Plain, Switches, Logins,
        Secrets, Ratios
  <2> QED
    BY <1>14, <2>2, AirActs DEF AirTheme!Ratio, UserStep
<1>15. CASE AirTheme!Other
  <2>1. Unconditional = Keys /\ \A k \in Keys : Plain(k)
    BY <1>15, OtherSection DEF AirTheme!Other
  <2>2. AirTheme!SubmitOther => Button
    BY <2>1, AirWords, AirActs, Good1, AlwaysGood
    DEF Button, AirTheme!SubmitOther, AirTheme!Always, Always
  <2> QED
    BY <1>15, <2>2, AirActs DEF AirTheme!Other, UserStep
<1> QED
  BY <1>1, <1>2, <1>3, <1>4, <1>5, <1>6, <1>7, <1>8, <1>9, <1>10, <1>11, <1>12, <1>13,
     <1>14, <1>15
  DEF AirTheme!AirUser

LEMMA AirAnswers == AirTheme!AirGoesOn => AnswerStep
BY AirActs
DEF AirTheme!AirGoesOn, AirTheme!GetSystemOptions, AirTheme!UpdateSystem,
    AirTheme!GetOperationOptions, AirTheme!UpdateOperation, AirTheme!GetOtherOptions,
    AirTheme!UpdateOther, AnswerStep

(***************************************************************************)
(* The pages of the berry theme                                            *)
(***************************************************************************)
\* The theme is a copy of the common pages, whose definitions mean the same.
LEMMA BerryWords ==
  /\ BerryTheme!Keys = Keys
  /\ BerryTheme!Acts <=> Acts
  /\ BerryTheme!Goes <=> Goes
  /\ BerryTheme!Clickable <=> Clickable
  /\ BerryTheme!None = None
  /\ \A v : BerryTheme!Opposite(v) = Opposite(v)
  /\ \A k, v : BerryTheme!Written(k, v) = Written(k, v)
  /\ \A k, v : BerryTheme!SetInput(k, v) <=> SetInput(k, v)
  /\ \A ks, v : BerryTheme!Expect(ks, v) <=> Expect(ks, v)
  /\ \A k : BerryTheme!Typed(k) <=> Typed(k)
  /\ \A r : BerryTheme!Asks(r) <=> Asks(r)
  /\ \A n, w : BerryTheme!Put(n, w) = Put(n, w)
  /\ \A k, v : BerryTheme!Alone(k, v) = Alone(k, v)
  /\ \A do : BerryTheme!Answers(do) = Answers(do)
<1>1. BerryTheme!KeysOf = KeysOf
  BY DEF BerryTheme!KeysOf, KeysOf, BerryTheme!Logins, Logins, BerryTheme!Endpoints,
         Endpoints, BerryTheme!Ratios, Ratios
<1>2. BerryTheme!Keys = Keys
  BY <1>1 DEF BerryTheme!Keys, Keys
<1>3. BerryTheme!Acts <=> Acts
  BY DEF BerryTheme!Acts, Acts, BerryTheme!place, place
<1>4. BerryTheme!Goes <=> Goes
  BY DEF BerryTheme!Goes, Goes, BerryTheme!past, past, BerryTheme!place, place
<1>5. BerryTheme!Clickable <=> Clickable
  BY DEF BerryTheme!Clickable, Clickable, BerryTheme!BerryPages, BerryPages
<1>6. BerryTheme!None = None
  BY DEF BerryTheme!None, None
<1>7. \A v : BerryTheme!Opposite(v) = Opposite(v)
  BY DEF BerryTheme!Opposite, Opposite
<1>8. \A k, v : BerryTheme!Written(k, v) = Written(k, v)
  BY DEF BerryTheme!Written, Written, BerryTheme!Addresses, Addresses,
         BerryTheme!Stripped, Stripped
<1>9. \A k, v : BerryTheme!SetInput(k, v) <=> SetInput(k, v)
  BY DEF BerryTheme!SetInput, SetInput, BerryTheme!NewObject, NewObject
<1>10. \A ks, v : BerryTheme!Expect(ks, v) <=> Expect(ks, v)
  BY <1>2 DEF BerryTheme!Expect, Expect
<1>11. \A k : BerryTheme!Typed(k) <=> Typed(k)
  BY DEF BerryTheme!Typed, Typed, BerryTheme!Together, Together
<1>12. \A r : BerryTheme!Asks(r) <=> Asks(r)
  BY DEF BerryTheme!Asks, Asks, BerryTheme!CanAsk, CanAsk, BerryTheme!Cardinality,
         Cardinality
<1>13. \A n, w : BerryTheme!Put(n, w) = Put(n, w)
  BY <1>6 DEF BerryTheme!Put, Put
<1>14. \A k, v : BerryTheme!Alone(k, v) = Alone(k, v)
  BY DEF BerryTheme!Alone, Alone
<1>15. \A do : BerryTheme!Answers(do) = Answers(do)
  BY <1>6 DEF BerryTheme!Answers, Answers
<1> QED
  BY <1>2, <1>3, <1>4, <1>5, <1>6, <1>7, <1>8, <1>9, <1>10, <1>11, <1>12, <1>13, <1>14,
     <1>15

LEMMA BerryWrites ==
  \A steps, snap, org : BerryTheme!Writes(steps, snap, org) = Writes(steps, snap, org)
<1>1. \A s, a, b : BerryTheme!Due(s, a, b) <=> Due(s, a, b)
  BY DEF BerryTheme!Due, Due, BerryTheme!Undefined, Undefined
<1>2. \A s, a : BerryTheme!Invalid(s, a) <=> Invalid(s, a)
  BY DEF BerryTheme!Invalid, Invalid
<1> QED
  BY <1>1, <1>2, BerryWords DEF BerryTheme!Writes, Writes

\* What the user does on its pages, and what the answers do.
LEMMA BerryActs ==
  /\ \A steps : BerryTheme!Saves(steps) => Saves(steps)
  /\ \A k : BerryTheme!TypeInto(k) => TypeInto(k)
  /\ \A ks : BerryTheme!Fields(ks) => \E k \in Keys : TypeInto(k)
  /\ \A ks : BerryTheme!Clicks(ks) => Clicks(ks)
  /\ BerryTheme!PasswordWarning => PasswordWarning
  /\ BerryTheme!LoadEnds => LoadEnds
  /\ BerryTheme!UpdateEnds => UpdateEnds
<1>1. \A steps : BerryTheme!Saves(steps) => Saves(steps)
  BY BerryWords, BerryWrites DEF BerryTheme!Saves, Saves, BerryTheme!wire, wire
<1>2. \A k : BerryTheme!TypeInto(k) => TypeInto(k)
  BY BerryWords
  DEF BerryTheme!TypeInto, TypeInto, BerryTheme!Typable, Typable, BerryTheme!Stripped,
      Stripped, BerryTheme!Addresses, Addresses, BerryTheme!Ratios, Ratios,
      BerryTheme!wire, wire
<1>3. \A ks : BerryTheme!Fields(ks) => \E k \in Keys : TypeInto(k)
  BY <1>2, BerryWords DEF BerryTheme!Fields
<1>4. \A k, v : BerryTheme!Sets(k, v) => Sets(k, v)
  BY BerryWords DEF BerryTheme!Sets, Sets
<1>5. \A ks : BerryTheme!Clicks(ks) => Clicks(ks)
  BY <1>4, BerryWords DEF BerryTheme!Clicks, Clicks, BerryTheme!wire, wire
<1>6. BerryTheme!PasswordWarning => PasswordWarning
  <2>1. BerryTheme!Confirms => Confirms
    BY <1>4, BerryWords DEF BerryTheme!Confirms, Confirms
  <2>2. BerryTheme!Cancels => Cancels
    BY BerryWords DEF BerryTheme!Cancels, Cancels, BerryTheme!wire, wire
  <2> QED
    BY <2>1, <2>2 DEF BerryTheme!PasswordWarning, PasswordWarning
<1>7. BerryTheme!LoadEnds => LoadEnds
  BY BerryWords DEF BerryTheme!LoadEnds, LoadEnds, BerryTheme!NewObject, NewObject
<1>8. BerryTheme!UpdateEnds => UpdateEnds
  <2>1. \A r : BerryTheme!Now(r) = Now(r)
    BY DEF BerryTheme!Now, Now, BerryTheme!First, First
  <2>2. \A r : BerryTheme!GoesOn(r) <=> GoesOn(r)
    BY <2>1, BerryWords DEF BerryTheme!GoesOn, GoesOn
  <2> QED
    BY <2>1, <2>2, BerryWords DEF BerryTheme!UpdateEnds, UpdateEnds
<1> QED
  BY <1>1, <1>2, <1>3, <1>5, <1>6, <1>7, <1>8

\* Its buttons write what they should, its switches are switches.
LEMMA BerrySteps ==
  ASSUME Placed, BerryTheme!BerryUser
  PROVE  UserStep
<1>1. CASE BerryTheme!General
  <2>1. section = "General"
    BY <1>1 DEF BerryTheme!General, BerryTheme!System, BerryTheme!At
  <2>2. Good(Always("ServerAddress"))
    BY <2>1, AlwaysGood DEF Unconditional, Plain, Switches, Logins, Secrets
  <2>3. BerryTheme!SubmitServerAddress => Button
    BY BerryActs, Good1, <2>2
    DEF Button, BerryTheme!SubmitServerAddress, BerryTheme!Always, Always
  <2> QED
    BY <1>1, <2>3, BerryActs DEF BerryTheme!General, UserStep
<1>2. CASE BerryTheme!LoginSwitches
  <2>1. section = "Login" /\ \E ks : Clicks(ks)
    BY <1>2, BerryActs DEF BerryTheme!LoginSwitches, BerryTheme!System, BerryTheme!At
  <2>2. Keys \subseteq Switches
    BY <2>1 DEF Keys, KeysOf, Switches
  <2> QED
    BY <2>1, <2>2 DEF UserStep
<1>3. CASE BerryTheme!LoginWarning
  BY <1>3, BerryActs DEF BerryTheme!LoginWarning, UserStep
<1>4. CASE BerryTheme!Domains
  <2>1. section = "Domains" /\ page = "berry/system"
    BY <1>4 DEF BerryTheme!Domains, BerryTheme!System, BerryTheme!At
  <2>2. {"EmailDomainRestrictionEnabled"} \subseteq Switches
    BY DEF Switches
  <2>3. Good(Always(Whitelist))
    BY <2>1, AlwaysGood DEF Unconditional, Whitelist, Plain, Switches, Logins, Secrets
  <2>4. BerryTheme!SubmitEmailDomainWhitelist => Button
    BY BerryActs, Good1, <2>3
    DEF Button, BerryTheme!SubmitEmailDomainWhitelist, BerryTheme!Always, Always,
        Whitelist
  <2>5. \A ks : BerryTheme!OpenFields(ks) => \E k \in Keys : TypeInto(k)
    BY BerryActs, BerryWords DEF BerryTheme!OpenFields
  <2>6. BerryTheme!Clicks({"EmailDomainRestrictionEnabled"}) => UserStep
    BY <2>2, BerryActs DEF UserStep
  <2> QED
    BY <1>4, <2>4, <2>5, <2>6 DEF BerryTheme!Domains, UserStep
<1>5. CASE BerryTheme!SMTP
  <2>1. BerryTheme!SubmitSMTP => Button
    BY <1>5, BerryActs, Good5, ChangedGood, FilledGood
    DEF Button, BerryTheme!SubmitSMTP, BerryTheme!Changed, Changed, BerryTheme!Filled,
        Filled, Plain, Switches, Logins, Secrets
  <2> QED
    BY <1>5, <2>1, BerryActs DEF BerryTheme!SMTP, UserStep
<1>6. CASE BerryTheme!GitHub
  <2>1. BerryTheme!SubmitGitHubOAuth => Button
    BY <1>6, BerryActs, Good2, ChangedGood, FilledGood
    DEF Button, BerryTheme!SubmitGitHubOAuth, BerryTheme!Changed, Changed,
        BerryTheme!Filled, Filled, Plain, Switches, Logins, Secrets
  <2> QED
    BY <1>6, <2>1, BerryActs DEF BerryTheme!GitHub, UserStep
<1>7. CASE BerryTheme!Lark
  <2>1. BerryTheme!SubmitLarkOAuth => Button
    BY <1>7, BerryActs, Good2, ChangedGood, FilledGood
    DEF Button, BerryTheme!SubmitLarkOAuth, BerryTheme!Changed, Changed,
        BerryTheme!Filled, Filled, Plain, Switches, Logins, Secrets
  <2> QED
    BY <1>7, <2>1, BerryActs DEF BerryTheme!Lark, UserStep
<1>8. CASE BerryTheme!WeChat
  <2>1. BerryTheme!SubmitWeChat => Button
    BY <1>8, BerryActs, Good3, ChangedGood, FilledGood
    DEF Button, BerryTheme!SubmitWeChat, BerryTheme!Changed, Changed, BerryTheme!Filled,
        Filled, Plain, Switches, Logins, Secrets
  <2> QED
    BY <1>8, <2>1, BerryActs DEF BerryTheme!WeChat, UserStep
<1>9. CASE BerryTheme!Oidc
  <2>1. section = "Oidc"
    BY <1>9 DEF BerryTheme!Oidc, BerryTheme!System, BerryTheme!At
  <2>2. BerryTheme!SubmitOidc => Button \/ Asking
    <3>1. BerryTheme!Saves(BerryTheme!OidcSteps) => Button
      BY <2>1, BerryActs, OidcIsGood DEF Button
    <3>2. BerryTheme!Endpoints = Endpoints
      BY DEF BerryTheme!Endpoints, Endpoints
    <3> QED
      BY <2>1, <3>1, <3>2, BerryWords DEF BerryTheme!SubmitOidc, Asking
  <2> QED
    BY <1>9, <2>2, BerryActs DEF BerryTheme!Oidc, UserStep
<1>10. CASE BerryTheme!Pusher
  <2>1. BerryTheme!SubmitMessagePusher => Button
    BY <1>10, BerryActs, Good2, ChangedGood, FilledGood
    DEF Button, BerryTheme!SubmitMessagePusher, BerryTheme!Changed, Changed,
        BerryTheme!Filled, Filled, Plain, Switches, Logins, Secrets
  <2> QED
    BY <1>10, <2>1, BerryActs DEF BerryTheme!Pusher, UserStep
<1>11. CASE BerryTheme!Turnstile
  <2>1. BerryTheme!SubmitTurnstile => Button
    BY <1>11, BerryActs, Good2, ChangedGood, FilledGood
    DEF Button, BerryTheme!SubmitTurnstile, BerryTheme!Changed, Changed,
        BerryTheme!Filled, Filled, Plain, Switches, Logins, Secrets
  <2> QED
    BY <1>11, <2>1, BerryActs DEF BerryTheme!Turnstile, UserStep
<1>12. CASE BerryTheme!Quota
  <2>1. section = "Quota"
    BY <1>12 DEF BerryTheme!Quota, BerryTheme!Operation, BerryTheme!At
  <2>2. BerryTheme!SubmitConfig => Button
    BY <2>1, BerryActs, Good4, ChangedGood
    DEF Button, BerryTheme!SubmitConfig, BerryTheme!Changed, Changed, Plain, Switches,
        Logins, Secrets
  <2> QED
    BY <1>12, <2>2, BerryActs DEF BerryTheme!Quota, UserStep
<1>13. CASE BerryTheme!Logs
  <2>1. section = "Logs" /\ \E ks : Clicks(ks)
    BY <1>13, BerryActs DEF BerryTheme!Logs, BerryTheme!Operation, BerryTheme!At
  <2>2. Keys \subseteq Switches
    BY <2>1 DEF Keys, KeysOf, Switches
  <2> QED
    BY <2>1, <2>2 DEF UserStep
<1>14. CASE BerryTheme!Monitor
  <2>1. section = "Monitor"
    BY <1>14 DEF BerryTheme!Monitor, BerryTheme!Operation, BerryTheme!At
  <2>2. BerryTheme!SubmitConfig => Button
    BY <2>1, BerryActs, Good2, ChangedGood
    DEF Button, BerryTheme!SubmitConfig, BerryTheme!Changed, Changed, Plain, Switches,
        Logins, Secrets
  <2>3. BerryTheme!Clicks(BerryTheme!Keys \cap BerryTheme!Switches) => UserStep
    BY BerryWords, BerryActs
    DEF UserStep, BerryTheme!Switches, Switches, BerryTheme!Logins, Logins
  <2> QED
    BY <1>14, <2>2, <2>3, BerryActs DEF BerryTheme!Monitor, UserStep
<1>15. CASE BerryTheme!Basics
  <2>1. section = "Basics"
    BY <1>15 DEF BerryTheme!Basics, BerryTheme!Operation, BerryTheme!At
  <2>2. BerryTheme!SubmitConfig => Button
    BY <2>1, BerryActs, Good4, ChangedGood
    DEF Button, BerryTheme!SubmitConfig, BerryTheme!Changed, Changed, Plain, Switches,
        Logins, Secrets
  <2>3. BerryTheme!Clicks(BerryTheme!Keys \cap BerryTheme!Switches) => UserStep
    BY BerryWords, BerryActs
    DEF UserStep, BerryTheme!Switches, Switches, BerryTheme!Logins, Logins
  <2> QED
    BY <1>15, <2>2, <2>3, BerryActs DEF BerryTheme!Basics, UserStep
<1>16. CASE BerryTheme!Ratio
  <2>1. section = "Ratio"
    BY <1>16 DEF BerryTheme!Ratio, BerryTheme!Operation, BerryTheme!At
  <2>2. BerryTheme!SubmitConfig => Button
    BY <2>1, BerryActs, Good3, JsonGood
    DEF Button, BerryTheme!SubmitConfig, BerryTheme!Json, Json, Plain, Switches, Logins,
        Secrets, Ratios
  <2>3. \A ks : BerryTheme!OpenFields(ks) => \E k \in Keys : TypeInto(k)
    BY BerryActs, BerryWords DEF BerryTheme!OpenFields
  <2> QED
    BY <1>16, <2>2, <2>3 DEF BerryTheme!Ratio, UserStep
<1>17. CASE BerryTheme!Other
  <2>1. Unconditional = Keys /\ \A k \in Keys : Plain(k)
    BY <1>17, OtherSection DEF BerryTheme!Other
  <2>2. BerryTheme!SubmitOther => Button
    BY <2>1, BerryWords, BerryActs, Good1, AlwaysGood
    DEF Button, BerryTheme!SubmitOther, BerryTheme!Always, Always
  <2>3. \A ks : BerryTheme!OpenFields(ks) => \E k \in Keys : TypeInto(k)
    BY BerryActs, BerryWords DEF BerryTheme!OpenFields
  <2> QED
    BY <1>17, <2>2, <2>3, BerryActs DEF BerryTheme!Other, UserStep
<1> QED
  BY <1>1, <1>2, <1>3, <1>4, <1>5, <1>6, <1>7, <1>8, <1>9, <1>10, <1>11, <1>12, <1>13,
     <1>14, <1>15, <1>16, <1>17
  DEF BerryTheme!BerryUser

LEMMA BerryAnswers == BerryTheme!BerryGoesOn /\ SafeInv => AnswerStep
<1> SUFFICES ASSUME BerryTheme!BerryGoesOn, SafeInv PROVE AnswerStep
  OBVIOUS
<1>1. BerryTheme!OidcEnds => FetchEnds
  <2>1. BerryTheme!Endpoints = Endpoints
    BY DEF BerryTheme!Endpoints, Endpoints
  <2> QED
    <3>1. /\ BerryTheme!Keys = Keys /\ (BerryTheme!Goes <=> Goes)
          /\ BerryTheme!Answers("fetch") = Answers("fetch")
          /\ \A n, w : BerryTheme!Put(n, w) = Put(n, w)
      BY BerryWords
    <3> QED BY <2>1, <3>1, BerryWrites DEF BerryTheme!OidcEnds, FetchEnds, Fetched
<1> QED
  BY <1>1, BerryActs
  DEF BerryTheme!BerryGoesOn, BerryTheme!GetSystemOptions, BerryTheme!UpdateSystem,
      BerryTheme!GetOperationOptions, BerryTheme!UpdateOperation,
      BerryTheme!GetOtherOptions, BerryTheme!UpdateOther, AnswerStep

(***************************************************************************)
(* No secret is blanked, and nobody signed out unwarned                    *)
(***************************************************************************)
\* What any step of the pages is.
LEMMA PageSteps ==
  ASSUME SafeInv, DefaultPages \/ AirPages \/ BerryPagesStep
  PROVE  UserStep \/ AnswerStep
<1>1. Placed
  BY DEF SafeInv
<1> QED
  BY <1>1, DefaultSteps, DefaultAnswers, AirSteps, AirAnswers, BerrySteps, BerryAnswers
  DEF DefaultPages, AirPages, BerryPagesStep

LEMMA SafeInit == Init => SafeInv
<1> SUFFICES ASSUME Init PROVE SafeInv
  OBVIOUS
<1>1. Placed
  <2>1. PICK s \in Sections : page = s[1] /\ section = s[2]
    BY DEF Init
  <2>2. s \in AllSections
    BY SettingAssumption
  <2>3. s = <<s[1], s[2]>>
    BY <2>2 DEF AllSections
  <2> QED
    BY <2>1, <2>2, <2>3 DEF Placed, Init
<1>2. IsForm(inputs)
  BY DEF Init, IsForm
<1>3. Stored
  <2>1. store = [k \in Keys |-> IF k \in Switches
                                THEN IF k = PasswordLogin THEN "true" ELSE "false"
                                ELSE IF k \in Ratios THEN Undefined ELSE "old"]
    BY DEF Init, PasswordLogin
  <2>2. PasswordLogin \in Switches
    BY DEF Switches, Logins, PasswordLogin
  <2>3. IsForm(store)
    BY <2>1 DEF IsForm
  <2>4. ASSUME NEW k \in Keys PROVE Harmless(k, store[k])
    BY <2>1, <2>2 DEF Harmless, Undefined
  <2> QED
    BY <2>3, <2>4 DEF Stored
<1>4. PICK r : r = [n |-> 1, do |-> "options", ans |-> None]
  OBVIOUS
<1>5. Fits(r)
  BY <1>4 DEF Fits, IsLoad, None
<1>6. net = {r}
  BY <1>4 DEF Init
<1> QED
  BY <1>1, <1>2, <1>3, <1>5, <1>6 DEF SafeInv

LEMMA SafeNext == ASSUME SafeInv, [Next]_vars PROVE SafeInv'
<1>1. CASE UserStep
  <2>1. CASE Button
    BY <2>1, SavesSafe DEF Button
  <2>2. CASE \E k \in Keys : TypeInto(k)
    BY <2>2, TypeSafe
  <2>3. CASE \E ks : Clicks(ks)
    BY <2>3, ClicksSafe
  <2> QED
    BY <1>1, <2>1, <2>2, <2>3, WarningSafe, DropdownSafe, EagerSafe, AskingSafe DEF UserStep
<1>2. CASE AnswerStep
  BY <1>2, LoadSafe, UpdateSafe, FetchSafe DEF AnswerStep
<1>3. CASE Serve \/ Fault \/ Others
  BY <1>3, ServeSafe, FaultSafe, OthersSafe
<1>4. CASE UNCHANGED vars
  <2>1. UNCHANGED place /\ UNCHANGED <<inputs, warning, store, net, confirmed>>
    BY <1>4 DEF vars, form, wire, past
  <2>2. Stored' /\ IsForm(inputs)'
    BY <2>1, StoredOn, FormOn DEF SafeInv, IsForm
  <2>3. PICK Q : Q = {}
    OBVIOUS
  <2>4. net' \subseteq net \cup Q /\ \A q \in Q : Fits(q)'
    BY <2>1, <2>3
  <2> QED
    BY <2>1, <2>2, <2>4, SafeStep
<1> QED
  BY <1>1, <1>2, <1>3, <1>4, PageSteps DEF Next

LEMMA AlwaysSafe == Spec => []SafeInv
BY SafeInit, SafeNext, PTL DEF Spec

\* A secret that the server keeps is never overwritten with nothing, whatever
\* page is open, however many saves overlap, are lost or refused: a handler
\* writes a secret only when its field is filled, also when the form was never
\* loaded, and what it will write is fixed when it begins.
THEOREM SecretsStay == Spec => []SecretsKept
<1>1. SafeInv => SecretsKept
  BY DEF SafeInv, Stored, Harmless, Guarded, SecretsKept
<1> QED
  BY <1>1, AlwaysSafe, PTL

\* Password sign-in is never switched off without the confirmation of the
\* warning, whatever page is open, however many requests overlap, are lost or
\* refused, and whatever other administrators write: a switch is sent as the
\* opposite of what it showed, so that "false" is only sent after "true" was
\* shown, which opens the warning instead.
THEOREM OffIsWarned ==
  ASSUME PasswordLogin \in Options
  PROVE  Spec => []WarnedBeforeOff
<1>1. SafeInv => WarnedBeforeOff
  <2> SUFFICES ASSUME SafeInv, section = "Login", store[PasswordLogin] = "false"
               PROVE  confirmed
    BY DEF WarnedBeforeOff, PasswordLogin
  <2>1. PasswordLogin \in Keys
    BY DEF Keys, KeysOf, Logins, PasswordLogin
  <2> QED
    BY <2>1 DEF SafeInv, Stored, Harmless
<1> QED
  BY <1>1, AlwaysSafe, PTL

(***************************************************************************)
(* A patient user                                                          *)
(***************************************************************************)
\* What the user asked for, be it stripped or not.
Rightly(k) == expected[k] \cup {Stripped(v) : v \in expected[k]}
Asked(k, v) == k \in wrote /\ v \in Rightly(k)
AllAsked(writes) == \A w \in writes : w.key \notin Unconditional => Asked(w.key, w.value)
\* What differs from what was loaded was asked for.
Edited(snap, org) ==
  \A k \in Keys \ Unconditional : snap[k] # org[k] => Asked(k, Written(k, snap[k]))

Loading == \E r \in net : r.do = "options"
Quiet == (\A r, q \in net : r = q) /\ (\A r \in net : r.ans = None \/ r.ans.ok = "ok")

AskedInv ==
  /\ wrote \subseteq Keys
  /\ IsForm(expected)
  /\ \A k \in Keys \ Unconditional : store[k] \in Rightly(k)
  /\ ~Loading => Edited(inputs, origin)
  /\ \A r \in net : r.do = "put" => AllAsked(r.writes)
  /\ \A r \in net : r.do = "fetch" =>
       Edited(r.snap, r.org) /\ \A k \in Endpoints \cap Keys : Asked(k, "fetched")

\* The options on which it depends what a button sends.
Watched == Ratios \cup {"OidcWellKnown", "SMTPToken", Whitelist}
AsShown(writes) ==
  \A w \in writes : /\ w.key \in saved => Written(w.key, w.value) = w.value
                    /\ w.key \in Watched => w.value = inputs[w.key]
Pending(k) ==
  \E r \in net : r.do = "fetch" \/ (r.do = "put" /\ \E w \in r.writes : w.key = k)
Settled(k) == NotSent(k) \/ store[k] = Written(k, inputs[k]) \/ Pending(k)
\* The list of domains is a list, once it is loaded.
Listing ==
  Whitelist \in Keys =>
    /\ store[Whitelist] # Undefined
    /\ ~Loading => inputs[Whitelist] # Undefined
    /\ \A r \in net : r.do = "options" /\ r.ans # None => r.ans.options[Whitelist] # Undefined
SavedInv ==
  /\ saved \subseteq Keys
  /\ Loading => saved = {}
  /\ Listing
  /\ \A r \in net : r.do = "put" =>
       /\ AsShown(r.writes)
       /\ r.ans # None => Now(r).key \in others \/ store[Now(r).key] = Now(r).value
  /\ \A r \in net : r.do = "fetch" => r.snap = inputs /\ r.org = origin /\ r.obj = obj
  /\ \A k \in saved \ others : Settled(k)

Patient == Quiet /\ AskedInv /\ SavedInv
PatientInv == hasty \in Nat /\ (Calm => Patient)

(***************************************************************************)
(* What was asked for                                                      *)
(***************************************************************************)
LEMMA ExpectDoes ==
  ASSUME UNCHANGED place, wrote \subseteq Keys, IsForm(expected), NEW ks, NEW v, Expect(ks, v)
  PROVE  /\ (wrote \subseteq Keys)'
         /\ IsForm(expected)'
         /\ \A k, u : Asked(k, u) => Asked(k, u)'
         /\ \A k \in ks \cap Keys : Asked(k, v)'
         /\ \A k \in Keys : \A u \in Rightly(k) : u \in Rightly(k)'
<1>1. /\ wrote' = wrote \cup (ks \cap Keys)
      /\ expected' = [k \in Keys |-> IF k \in ks THEN expected[k] \cup {v} ELSE expected[k]]
  BY DEF Expect
<1>2. (wrote \subseteq Keys)' /\ IsForm(expected)'
  BY <1>1, SamePage DEF IsForm
<1>3. \A k \in Keys : expected[k] \subseteq expected'[k]
  BY <1>1
<1>4. \A k \in Keys : \A u \in Rightly(k) : u \in Rightly(k)'
  BY <1>3 DEF Rightly
<1>5. \A k, u : Asked(k, u) => Asked(k, u)'
  BY <1>1, <1>4 DEF Asked
<1>6. \A k \in ks \cap Keys : v \in expected'[k] /\ k \in wrote'
  BY <1>1
<1>7. \A k \in ks \cap Keys : Asked(k, v)'
  BY <1>6 DEF Asked, Rightly
<1> QED
  BY <1>2, <1>4, <1>5, <1>7

\* Nothing is asked for.
LEMMA AskedSame ==
  ASSUME UNCHANGED <<wrote, expected>>
  PROVE  /\ \A k, u : Asked(k, u) <=> Asked(k, u)'
         /\ \A k : Rightly(k)' = Rightly(k)
BY DEF Asked, Rightly

LEMMA UnconditionalSame ==
  ASSUME UNCHANGED place
  PROVE  Unconditional' = Unconditional
BY SamePage DEF Unconditional

LEMMA EditedOn ==
  ASSUME UNCHANGED place, \A k, u : Asked(k, u) => Asked(k, u)'
  PROVE  \A snap, org : Edited(snap, org) => Edited(snap, org)'
BY SamePage, UnconditionalSame DEF Edited

LEMMA AllAskedOn ==
  ASSUME UNCHANGED place, \A k, u : Asked(k, u) => Asked(k, u)'
  PROVE  \A writes : AllAsked(writes) => AllAsked(writes)'
BY UnconditionalSame DEF AllAsked

\* A button writes what was asked for.
LEMMA WritesAsked ==
  ASSUME NEW steps, GoodSteps(steps), NEW snap, NEW org, Edited(snap, org)
  PROVE  AllAsked(Writes(steps, snap, org))
<1> SUFFICES ASSUME NEW w \in Writes(steps, snap, org), w.key \notin Unconditional
             PROVE  Asked(w.key, w.value)
  BY DEF AllAsked
<1>1. PICK j \in DOMAIN steps :
           /\ w.at = j
           /\ w.key = steps[j].key
           /\ w.value = Written(w.key, snap[w.key])
           /\ w.key \in Keys
           /\ Due(steps[j], snap, org)
  BY WritesAre
<1>2. steps[j].when # "always"
  BY <1>1 DEF GoodSteps, GoodStep
<1>3. snap[w.key] # org[w.key]
  BY <1>1, <1>2 DEF Due
<1> QED
  BY <1>1, <1>3 DEF Edited

\* What is stripped remains what was asked for.
LEMMA StillRight ==
  ASSUME NEW k, NEW v, Asked(k, v)
  PROVE  Asked(k, Written(k, v))
<1>1. \A u : Stripped(Stripped(u)) = Stripped(u)
  BY DEF Stripped
<1>2. Stripped(v) \in Rightly(k)
  BY <1>1 DEF Asked, Rightly
<1> QED
  BY <1>2 DEF Asked, Written

(***************************************************************************)
(* What is saved                                                           *)
(***************************************************************************)
LEMMA WritesShown ==
  ASSUME NEW steps, NEW snap, NEW org, NEW w \in Writes(steps, snap, org)
  PROVE  /\ Written(w.key, w.value) = w.value
         /\ w.key \in Watched => w.value = snap[w.key]
<1>1. w.value = Written(w.key, snap[w.key])
  BY WritesAre
<1>2. \A u : Stripped(Stripped(u)) = Stripped(u)
  BY DEF Stripped
<1>3. w.key \in Watched => w.key \notin Addresses
  BY DEF Watched, Ratios, Addresses, Whitelist
<1> QED
  BY <1>1, <1>2, <1>3 DEF Written

\* NotSent, of any form
Unsent(k, snap, org) ==
  \/ snap[k] = org[k] /\ k \notin Switches
  \/ k \in Secrets \cup {"SMTPPort"} /\ snap[k] = ""
  \/ section = "Ratio" /\ \E j \in Ratios \cap Keys : snap[j] \in {"", "bad"}
  \/ section = "Oidc" /\ snap["OidcWellKnown"] = "bad"
  \/ k = Whitelist /\ (page = "default/system" \/ snap["SMTPToken"] = "")

LEMMA UnsentIs == \A k : NotSent(k) <=> Unsent(k, inputs, origin)
BY DEF NotSent, Unsent, Whitelist

LEMMA WritesAll ==
  ASSUME NEW steps, NEW snap, NEW org, NEW j \in DOMAIN steps,
         steps[j].key \in Keys, Due(steps[j], snap, org),
         \A i \in DOMAIN steps : steps[i].key \in Keys => ~Invalid(steps[i], snap)
  PROVE  \E w \in Writes(steps, snap, org) : w.key = steps[j].key
<1>1. PICK w : w = [at |-> j, key |-> steps[j].key,
                    value |-> Written(steps[j].key, snap[steps[j].key])]
  OBVIOUS
<1>2. w \in Writes(steps, snap, org)
  BY <1>1 DEF Writes
<1> QED
  BY <1>1, <1>2

\* A button sends all but what is known not to be sent.
LEMMA SentOrNot ==
  ASSUME NEW steps, GoodSteps(steps), NEW snap, NEW org, NEW j \in DOMAIN steps,
         steps[j].key \in Keys,
         steps[j].key = Whitelist => snap[Whitelist] # Undefined
  PROVE  \/ \E w \in Writes(steps, snap, org) : w.key = steps[j].key
         \/ Unsent(steps[j].key, snap, org)
<1>1. GoodStep(steps[j])
  BY DEF GoodSteps
<1>2. CASE \E i \in DOMAIN steps : steps[i].key \in Keys /\ Invalid(steps[i], snap)
  <2>1. PICK i \in DOMAIN steps : steps[i].key \in Keys /\ Invalid(steps[i], snap)
    BY <1>2
  <2>2. section = "Ratio" /\ steps[i].key \in Ratios /\ snap[steps[i].key] \in {"", "bad"}
    BY <2>1 DEF GoodSteps, GoodStep, Invalid
  <2> QED
    BY <2>1, <2>2 DEF Unsent
<1>3. CASE ~Due(steps[j], snap, org)
  BY <1>1, <1>3 DEF GoodStep, Due, Unsent
<1> QED
  BY <1>2, <1>3, WritesAll

(***************************************************************************)
(* What a patient user does                                                *)
(***************************************************************************)
LEMMA SettledAgain ==
  ASSUME UNCHANGED place, NEW k,
         \/ Unsent(k, inputs', origin')
         \/ store'[k] = Written(k, inputs'[k])
         \/ Pending(k)'
  PROVE  Settled(k)'
<1>1. NotSent(k)' <=> Unsent(k, inputs', origin')
  BY SamePage DEF NotSent, Unsent, Whitelist
<1> QED
  BY <1>1 DEF Settled

\* Nothing is under way.
LEMMA Rested ==
  ASSUME Patient, net = {}
  PROVE  /\ Edited(inputs, origin)
         /\ Whitelist \in Keys => inputs[Whitelist] # Undefined
         /\ \A k \in saved \ others :
              Unsent(k, inputs, origin) \/ store[k] = Written(k, inputs[k])
<1>1. ~Loading /\ \A k : ~Pending(k)
  BY DEF Loading, Pending
<1> QED
  BY <1>1, UnsentIs DEF Patient, AskedInv, SavedInv, Listing, Settled

LEMMA UserPatient ==
  ASSUME Patient, Acts, net = {},
         \A q, p \in net' : q = p,
         \A q \in net' : q.ans = None /\ q.do # "options",
         (wrote \subseteq Keys)', IsForm(expected)',
         \A k \in Keys : \A u \in Rightly(k) : u \in Rightly(k)',
         Edited(inputs, origin)',
         \A q \in net' : q.do = "put" => AllAsked(q.writes)' /\ AsShown(q.writes)',
         \A q \in net' : q.do = "fetch" =>
           /\ Edited(q.snap, q.org)'
           /\ (\A k \in Endpoints \cap Keys : Asked(k, "fetched"))'
           /\ q.snap = inputs' /\ q.org = origin' /\ q.obj = obj',
         (saved \subseteq Keys)',
         Whitelist \in Keys => inputs'[Whitelist] # Undefined,
         \A k \in saved' \ others : Settled(k)'
  PROVE  Patient'
<1>1. UNCHANGED place /\ UNCHANGED <<store, others>>
  BY DEF Acts
<1>2. Keys' = Keys /\ Unconditional' = Unconditional
  BY <1>1, SamePage, UnconditionalSame
<1>3. ~Loading'
  BY DEF Loading
<1>4. Quiet'
  BY DEF Quiet
<1>5. AskedInv'
  <2>1. (\A k \in Keys \ Unconditional : store[k] \in Rightly(k))'
    BY <1>1, <1>2 DEF Patient, AskedInv
  <2> QED
    BY <1>3, <2>1 DEF AskedInv
<1>6. SavedInv'
  <2>1. Listing'
    BY <1>1, <1>2 DEF Listing, Patient, SavedInv
  <2> QED
    BY <1>1, <1>3, <2>1 DEF SavedInv
<1> QED
  BY <1>4, <1>5, <1>6 DEF Patient

LEMMA SavesPatient ==
  ASSUME Patient, net = {}, NEW steps, GoodSteps(steps), Saves(steps)
  PROVE  Patient'
<1>1. Acts /\ UNCHANGED <<inputs, obj, origin, wrote, expected>>
  BY DEF Saves
<1>2. UNCHANGED place /\ UNCHANGED <<store, others>>
  BY <1>1 DEF Acts
<1>3. Keys' = Keys
  BY <1>2, SamePage
<1>4. /\ Edited(inputs, origin)
      /\ Whitelist \in Keys => inputs[Whitelist] # Undefined
      /\ \A k \in saved \ others :
           Unsent(k, inputs, origin) \/ store[k] = Written(k, inputs[k])
  BY Rested
<1>5. /\ \A k, u : Asked(k, u) => Asked(k, u)'
      /\ \A k : Rightly(k)' = Rightly(k)
  BY <1>1, AskedSame
<1>6. PICK writes : writes = Writes(steps, inputs, origin)
  OBVIOUS
<1>7. PICK q : q = Put(issued + 1, writes)
  OBVIOUS
<1>8. /\ net' = IF writes = {} THEN {} ELSE {q}
      /\ saved' = saved \cup ({steps[j].key : j \in DOMAIN steps} \cap Keys)
  BY <1>6, <1>7 DEF Saves, Asks, wire
<1>9. q.do = "put" /\ q.writes = writes /\ q.ans = None
  BY <1>7, PutIs
<1>10. Edited(inputs, origin)'
  <2>1. PICK snap, org : snap = inputs /\ org = origin
    OBVIOUS
  <2>2. Edited(snap, org)'
    BY <1>2, <1>4, <1>5, <2>1, EditedOn
  <2> QED
    BY <1>1, <2>1, <2>2 DEF Edited
<1>11. AllAsked(writes)'
  BY <1>2, <1>4, <1>5, <1>6, WritesAsked, AllAskedOn
<1>12. AsShown(writes)'
  BY <1>1, <1>6, WritesShown DEF AsShown
<1>13. ASSUME NEW k \in saved' \ others PROVE Settled(k)'
  <2>1. CASE \E w \in writes : w.key = k
    <3>1. Pending(k)'
      BY <1>8, <1>9, <2>1 DEF Pending
    <3> QED
      BY <1>2, <3>1, SettledAgain
  <2>2. CASE ~\E w \in writes : w.key = k
    <3>1. CASE \E j \in DOMAIN steps : steps[j].key = k /\ k \in Keys
      <4>1. PICK j \in DOMAIN steps : steps[j].key = k /\ k \in Keys
        BY <3>1
      <4>2. Unsent(k, inputs, origin)
        BY <1>4, <1>6, <2>2, <4>1, SentOrNot
      <4> QED
        BY <1>1, <1>2, <4>2, SettledAgain
    <3>2. CASE k \in saved
      BY <1>1, <1>2, <1>4, <3>2, SettledAgain
    <3> QED
      BY <1>8, <3>1, <3>2
  <2> QED
    BY <2>1, <2>2
<1>14. (saved \subseteq Keys)'
  BY <1>3, <1>8 DEF Patient, SavedInv
<1>15. (wrote \subseteq Keys)' /\ IsForm(expected)'
  BY <1>1, <1>3 DEF Patient, AskedInv, IsForm
<1>16. \A p \in net' : p = q
  BY <1>8
<1> QED
  BY <1>1, <1>4, <1>5, <1>9, <1>10, <1>11, <1>12, <1>13, <1>14, <1>15, <1>16, UserPatient

LEMMA SectionKnown ==
  ASSUME Placed
  PROVE  section \in {"General", "Login", "Domains", "SMTP", "GitHub", "Lark", "Oidc", "WeChat",
                      "Pusher", "Turnstile", "Quota", "Logs", "Monitor", "Basics", "Ratio",
                      "Other"}
BY DEF Placed, AllSections, SystemSections, OperationSections

\* Where the options are on which it depends what is sent.
LEMMA WhereWatched ==
  ASSUME Placed
  PROVE  /\ Whitelist \in Keys => section = "Domains" /\ "SMTPToken" \in Keys
         /\ section = "Oidc" => "OidcWellKnown" \in Keys
         /\ section = "Pusher" => Keys \cap Watched = {}
<1>1. Whitelist \in Keys => section = "Domains"
  BY SectionKnown DEF Keys, KeysOf, Whitelist, Logins, Ratios, Endpoints
<1>2. section = "Domains" => "SMTPToken" \in Keys
  BY SettingAssumption DEF Keys, KeysOf, Consulted
<1>3. section = "Oidc" => "OidcWellKnown" \in Keys
  BY SettingAssumption DEF Keys, KeysOf, Consulted
<1>4. section = "Pusher" => Keys \cap Watched = {}
  BY DEF Keys, KeysOf, Watched, Ratios, Whitelist
<1> QED
  BY <1>1, <1>2, <1>3, <1>4

\* What is typed is no longer saved; the sections whose options depend on each
\* other are saved together.
LEMMA TypedSaved ==
  ASSUME NEW k, Typed(k)
  PROVE  \/ section \in Together /\ saved' = {}
         \/ section \notin Together /\ saved' = saved \ {k}
BY DEF Typed

LEMMA TypePatient ==
  ASSUME SafeInv, Patient, net = {}, NEW k \in Keys, TypeInto(k)
  PROVE  Patient'
<1>1. Acts /\ net' = {} /\ origin' = origin /\ Typed(k)
  BY DEF TypeInto, wire
<1>2. UNCHANGED place /\ UNCHANGED <<store, others>>
  BY <1>1 DEF Acts
<1>3. Keys' = Keys /\ Unconditional' = Unconditional
  BY <1>2, SamePage, UnconditionalSame
<1>4. /\ Edited(inputs, origin)
      /\ Whitelist \in Keys => inputs[Whitelist] # Undefined
      /\ \A j \in saved \ others :
           Unsent(j, inputs, origin) \/ store[j] = Written(j, inputs[j])
  BY Rested
<1>5. PICK v \in Typable(k) :
           inputs' = [inputs EXCEPT ![k] = v] /\ Expect({k}, Stripped(v))
  BY DEF TypeInto, SetInput
<1>6. wrote \subseteq Keys /\ IsForm(expected) /\ saved \subseteq Keys
  BY DEF Patient, AskedInv, SavedInv
<1>7. /\ (wrote \subseteq Keys)'
      /\ IsForm(expected)'
      /\ \A j, u : Asked(j, u) => Asked(j, u)'
      /\ Asked(k, Stripped(v))'
      /\ \A j \in Keys : \A u \in Rightly(j) : u \in Rightly(j)'
  BY <1>2, <1>5, <1>6, ExpectDoes
<1>8. v # Undefined /\ Written(k, v) = Stripped(v)
  BY <1>5 DEF Typable, Undefined, Written, Stripped
<1>9. inputs'[k] = v /\ \A j \in Keys : j # k => inputs'[j] = inputs[j]
  BY <1>5 DEF SafeInv, IsForm
<1>10. Edited(inputs, origin)'
  <2>1. PICK snap, org : snap = inputs' /\ org = origin
    OBVIOUS
  <2>2. ASSUME NEW j \in Keys \ Unconditional, snap[j] # org[j]
        PROVE  Asked(j, Written(j, snap[j]))'
    <3>1. PICK u : u = Written(j, snap[j])
      OBVIOUS
    <3>2. CASE j = k
      <4>1. u = Stripped(v)
        BY <1>8, <1>9, <2>1, <3>1, <3>2
      <4>2. Asked(j, u)'
        BY <1>7, <3>2, <4>1
      <4> QED
        BY <3>1, <4>2
    <3>3. CASE j # k
      <4>1. Asked(j, u)
        BY <1>4, <1>9, <2>1, <2>2, <3>1, <3>3 DEF Edited
      <4>2. Asked(j, u)'
        BY <1>7, <4>1
      <4> QED
        BY <3>1, <4>2
    <3> QED
      BY <3>2, <3>3
  <2>3. Edited(snap, org)'
    BY <1>3, <2>2 DEF Edited
  <2> QED
    BY <1>1, <2>1, <2>3 DEF Edited
<1>11. ASSUME NEW j \in saved' \ others PROVE Settled(j)'
  <2>1. section \notin Together /\ j \in saved /\ j # k
    BY <1>1, TypedSaved
  <2>2. inputs'[j] = inputs[j]
    BY <1>6, <1>9, <2>1
  <2>3. section # "Domains" => j # Whitelist
    BY <1>6, <2>1, WhereWatched DEF SafeInv
  <2>4. Unsent(j, inputs, origin) => Unsent(j, inputs', origin')
    BY <1>1, <2>1, <2>2, <2>3 DEF Unsent, Together
  <2> QED
    BY <1>2, <1>4, <2>1, <2>2, <2>4, SettledAgain
<1>12. (saved \subseteq Keys)'
  BY <1>1, <1>3, <1>6, TypedSaved
<1>13. Whitelist \in Keys => inputs'[Whitelist] # Undefined
  BY <1>4, <1>8, <1>9
<1> QED
  BY <1>1, <1>7, <1>10, <1>11, <1>12, <1>13, UserPatient

\* A switch is sent, or what is written while it is typed.
LEMMA SendsPatient ==
  ASSUME SafeInv, Patient, net = {}, NEW k \in Keys \ Watched, NEW v, Acts,
         UNCHANGED <<inputs, origin>>, Asks(Put(issued + 1, Alone(k, v))), Expect({k}, v),
         saved' \subseteq saved \cup {k}, k \in saved' => Written(k, v) = v
  PROVE  Patient'
<1>1. UNCHANGED place /\ UNCHANGED <<store, others>>
  BY DEF Acts
<1>2. Keys' = Keys
  BY <1>1, SamePage
<1>3. /\ Edited(inputs, origin)
      /\ Whitelist \in Keys => inputs[Whitelist] # Undefined
      /\ \A j \in saved \ others :
           Unsent(j, inputs, origin) \/ store[j] = Written(j, inputs[j])
  BY Rested
<1>4. wrote \subseteq Keys /\ IsForm(expected) /\ saved \subseteq Keys
  BY DEF Patient, AskedInv, SavedInv
<1>5. /\ (wrote \subseteq Keys)'
      /\ IsForm(expected)'
      /\ \A j, u : Asked(j, u) => Asked(j, u)'
      /\ Asked(k, v)'
      /\ \A j \in Keys : \A u \in Rightly(j) : u \in Rightly(j)'
  BY <1>1, <1>4, ExpectDoes
<1>6. PICK writes : writes = Alone(k, v)
  OBVIOUS
<1>7. writes # {} /\ \A w \in writes : w.key = k /\ w.value = v
  BY <1>6, AloneIs
<1>8. PICK q : q = Put(issued + 1, writes)
  OBVIOUS
<1>9. net' = {q} /\ q.do = "put" /\ q.writes = writes /\ q.ans = None
  BY <1>6, <1>8, PutIs DEF Asks
<1>10. Edited(inputs, origin)'
  <2>1. PICK snap, org : snap = inputs /\ org = origin
    OBVIOUS
  <2>2. Edited(snap, org)'
    BY <1>1, <1>3, <1>5, <2>1, EditedOn
  <2> QED
    BY <2>1, <2>2 DEF Edited
<1>11. AllAsked(writes)'
  BY <1>5, <1>7 DEF AllAsked, Asked
<1>12. AsShown(writes)'
  BY <1>7 DEF AsShown
<1>13. ASSUME NEW j \in saved' \ others PROVE Settled(j)'
  <2>1. CASE j = k
    <3>1. Pending(j)'
      BY <1>7, <1>9, <2>1 DEF Pending
    <3> QED
      BY <1>1, <3>1, SettledAgain
  <2>2. CASE j # k
    BY <1>1, <1>3, <2>2, SettledAgain
  <2> QED
    BY <2>1, <2>2
<1>14. (saved \subseteq Keys)'
  BY <1>2, <1>4
<1> QED
  BY <1>3, <1>5, <1>9, <1>10, <1>11, <1>12, <1>13, <1>14, UserPatient

LEMMA IdlePatient ==
  ASSUME Patient, Acts, net = {}, UNCHANGED <<inputs, origin, net, wrote, expected, saved>>
  PROVE  Patient'
<1>1. UNCHANGED place /\ UNCHANGED <<store, others>>
  BY DEF Acts
<1>2. Keys' = Keys
  BY <1>1, SamePage
<1>3. /\ Edited(inputs, origin)
      /\ Whitelist \in Keys => inputs[Whitelist] # Undefined
      /\ \A k \in saved \ others :
           Unsent(k, inputs, origin) \/ store[k] = Written(k, inputs[k])
  BY Rested
<1>4. /\ \A k, u : Asked(k, u) => Asked(k, u)'
      /\ \A k : Rightly(k)' = Rightly(k)
  BY AskedSame
<1>5. Edited(inputs, origin)'
  <2>1. PICK snap, org : snap = inputs /\ org = origin
    OBVIOUS
  <2>2. Edited(snap, org)'
    BY <1>1, <1>3, <1>4, <2>1, EditedOn
  <2> QED
    BY <2>1, <2>2 DEF Edited
<1>6. (wrote \subseteq Keys)' /\ IsForm(expected)' /\ (saved \subseteq Keys)'
  BY <1>2 DEF Patient, AskedInv, SavedInv, IsForm
<1>7. ASSUME NEW k \in saved' \ others PROVE Settled(k)'
  BY <1>1, <1>3, SettledAgain
<1> QED
  BY <1>3, <1>4, <1>5, <1>6, <1>7, UserPatient

\* Switches hold no addresses, and nothing depends on them.
LEMMA SwitchIs ==
  ASSUME NEW k \in Switches
  PROVE  k \notin Watched /\ \A v : Written(k, v) = v
BY DEF Switches, Logins, Watched, Ratios, Whitelist, Written, Addresses

LEMMA SetsPatient ==
  ASSUME SafeInv, Patient, net = {}, NEW k \in Keys \cap Switches, NEW v, Sets(k, v),
         UNCHANGED <<inputs, origin>>
  PROVE  Patient'
<1>1. k \in Keys \ Watched /\ Written(k, v) = v
  BY SwitchIs
<1>2. /\ Acts /\ Asks(Put(issued + 1, Alone(k, v))) /\ Expect({k}, v)
      /\ saved' \subseteq saved \cup {k}
  BY DEF Sets
<1> QED
  BY <1>1, <1>2, SendsPatient

LEMMA ClicksPatient ==
  ASSUME SafeInv, Patient, net = {}, NEW ks, ks \cap Keys \subseteq Switches, Clicks(ks)
  PROVE  Patient'
<1>1. UNCHANGED <<inputs, origin>>
  BY DEF Clicks
<1>2. PICK k \in ks \cap Keys :
        \/ Acts /\ UNCHANGED <<wire, wrote, expected, saved>>
        \/ Sets(k, Opposite(inputs[k]))
  BY DEF Clicks
<1>3. CASE Acts /\ UNCHANGED <<wire, wrote, expected, saved>>
  BY <1>1, <1>3, IdlePatient DEF wire
<1>4. CASE Sets(k, Opposite(inputs[k]))
  <2>1. k \in Keys \cap Switches
    OBVIOUS
  <2> QED
    BY <1>1, <1>4, <2>1, SetsPatient
<1> QED
  BY <1>2, <1>3, <1>4

LEMMA WarningPatient ==
  ASSUME SafeInv, Patient, net = {}, PasswordWarning
  PROVE  Patient'
<1>1. CASE Confirms
  <2>1. /\ Sets(PasswordLogin, Opposite(inputs[PasswordLogin]))
        /\ UNCHANGED <<inputs, origin>>
    BY <1>1 DEF Confirms, PasswordLogin
  <2>2. PasswordLogin \in Keys \cap Switches
    BY <1>1 DEF Confirms, SafeInv, Placed, Switches, Logins, PasswordLogin
  <2> QED
    BY <2>1, <2>2, SetsPatient
<1>2. CASE Cancels
  BY <1>2, IdlePatient DEF Cancels, wire
<1> QED
  BY <1>1, <1>2 DEF PasswordWarning

LEMMA DropdownPatient ==
  ASSUME Patient, net = {}, Dropdown
  PROVE  Patient'
<1>1. Acts /\ net' = {} /\ UNCHANGED <<inputs, origin>>
  BY DEF Dropdown, wire
<1>2. UNCHANGED place
  BY <1>1 DEF Acts
<1>3. PICK v : Expect({Whitelist}, v)
  BY DEF Dropdown
<1>4. wrote \subseteq Keys /\ IsForm(expected)
  BY DEF Patient, AskedInv
<1>5. /\ (wrote \subseteq Keys)'
      /\ IsForm(expected)'
      /\ \A k, u : Asked(k, u) => Asked(k, u)'
      /\ \A k \in Keys : \A u \in Rightly(k) : u \in Rightly(k)'
  BY <1>2, <1>3, <1>4, ExpectDoes
<1>6. Edited(inputs, origin)'
  <2>1. PICK snap, org : snap = inputs /\ org = origin
    OBVIOUS
  <2>2. Edited(snap, org)'
    BY <1>2, <1>5, <2>1, EditedOn, Rested
  <2> QED
    BY <1>1, <2>1, <2>2 DEF Edited
<1>7. saved' = {}
  BY DEF Dropdown, Typed, Together
<1> QED
  BY <1>1, <1>5, <1>6, <1>7, Rested, UserPatient

LEMMA EagerPatient ==
  ASSUME SafeInv, Patient, net = {}, Eager
  PROVE  Patient'
<1>1. Acts /\ UNCHANGED <<inputs, origin>> /\ section = "Pusher"
  BY DEF Eager, Guarded
<1>2. PICK k \in Keys :
        Typed(k) /\ \E v : Asks(Put(issued + 1, Alone(k, v))) /\ Expect({k}, v)
  BY DEF Eager
<1>3. PICK v : Asks(Put(issued + 1, Alone(k, v))) /\ Expect({k}, v)
  BY <1>2
<1>4. saved' = saved \ {k}
  BY <1>1, <1>2, TypedSaved DEF Together
<1>5. k \in Keys \ Watched
  BY <1>1, WhereWatched DEF SafeInv
<1>6. saved' \subseteq saved \cup {k} /\ k \notin saved'
  BY <1>4
<1> QED
  BY <1>1, <1>3, <1>5, <1>6, SendsPatient

LEMMA AskingPatient ==
  ASSUME Patient, net = {}, Asking
  PROVE  Patient'
<1>1. Acts /\ UNCHANGED <<inputs, obj, origin>>
  BY DEF Asking
<1>2. UNCHANGED place
  BY <1>1 DEF Acts
<1>3. Keys' = Keys
  BY <1>2, SamePage
<1>4. PICK q : q = [n |-> issued + 1, do |-> "fetch", snap |-> inputs, org |-> origin,
                    obj |-> obj, ans |-> None]
  OBVIOUS
<1>5. net' = {q}
  BY <1>4 DEF Asking, Asks
<1>6. wrote \subseteq Keys /\ IsForm(expected) /\ saved \subseteq Keys
  BY DEF Patient, AskedInv, SavedInv
<1>7. PICK fetched : fetched = "fetched"
  OBVIOUS
<1>8. Expect(Endpoints, fetched)
  BY <1>7 DEF Asking
<1>9. /\ (wrote \subseteq Keys)'
      /\ IsForm(expected)'
      /\ \A k, u : Asked(k, u) => Asked(k, u)'
      /\ \A k \in Endpoints \cap Keys : Asked(k, fetched)'
      /\ \A k \in Keys : \A u \in Rightly(k) : u \in Rightly(k)'
  BY <1>2, <1>6, <1>8, ExpectDoes
<1>10. (\A k \in Endpoints \cap Keys : Asked(k, "fetched"))'
  BY <1>3, <1>7, <1>9
<1>11. Edited(q.snap, q.org)'
  <2>1. PICK snap, org : snap = inputs /\ org = origin
    OBVIOUS
  <2>2. Edited(snap, org)'
    BY <1>2, <1>9, <2>1, EditedOn, Rested
  <2> QED
    BY <1>4, <2>1, <2>2
<1>12. Edited(inputs, origin)'
  BY <1>1, <1>4, <1>11 DEF Edited
<1>13. (saved \subseteq Keys)'
  BY <1>3, <1>6 DEF Asking
<1>14. ASSUME NEW k \in saved' \ others PROVE Settled(k)'
  <2>1. Pending(k)'
    BY <1>4, <1>5 DEF Pending
  <2> QED
    BY <1>2, <2>1, SettledAgain
<1>15. Whitelist \in Keys => inputs'[Whitelist] # Undefined
  BY <1>1, Rested
<1> QED
  BY <1>1, <1>4, <1>5, <1>9, <1>10, <1>11, <1>12, <1>13, <1>14, <1>15, UserPatient

(***************************************************************************)
(* What the handlers and the server do for a patient user                  *)
(***************************************************************************)
\* There is one request, and nothing is answered but with success.
LEMMA OneRequest ==
  ASSUME Patient, NEW r \in net
  PROVE  net = {r} /\ (r.ans = None \/ r.ans.ok = "ok")
BY DEF Patient, Quiet

LEMMA AnswerPatient ==
  ASSUME Patient, Goes,
         \A q, p \in net' : q = p,
         \A q \in net' : /\ q.do = "put" /\ q.ans = None
                         /\ AllAsked(q.writes) /\ AsShown(q.writes)',
         Edited(inputs, origin)',
         Whitelist \in Keys => inputs'[Whitelist] # Undefined,
         \A k \in saved \ others : Settled(k)'
  PROVE  Patient'
<1>1. UNCHANGED place /\ UNCHANGED <<store, wrote, expected, saved, others>>
  BY DEF Goes, past
<1>2. Keys' = Keys /\ Unconditional' = Unconditional
  BY <1>1, SamePage, UnconditionalSame
<1>3. ~Loading'
  BY DEF Loading
<1>4. Quiet'
  BY DEF Quiet
<1>5. /\ \A k, u : Asked(k, u) => Asked(k, u)'
      /\ \A k : Rightly(k)' = Rightly(k)
  BY <1>1, AskedSame
<1>6. AskedInv'
  <2>1. (wrote \subseteq Keys)' /\ IsForm(expected)'
    BY <1>1, <1>2 DEF Patient, AskedInv, IsForm
  <2>2. (\A k \in Keys \ Unconditional : store[k] \in Rightly(k))'
    BY <1>1, <1>2, <1>5 DEF Patient, AskedInv
  <2>3. \A q \in net' : AllAsked(q.writes)'
    BY <1>1, <1>5, AllAskedOn
  <2> QED
    BY <2>1, <2>2, <2>3 DEF AskedInv
<1>7. SavedInv'
  <2>1. Listing'
    BY <1>1, <1>2 DEF Listing, Patient, SavedInv
  <2>2. (saved \subseteq Keys)'
    BY <1>1, <1>2 DEF Patient, SavedInv
  <2> QED
    BY <1>1, <1>3, <2>1, <2>2 DEF SavedInv
<1> QED
  BY <1>4, <1>6, <1>7 DEF Patient

LEMMA LoadPatient ==
  ASSUME Patient, LoadEnds
  PROVE  Patient'
<1>1. Goes
  BY DEF LoadEnds
<1>2. PICK r \in Answers("options") :
        /\ r.ans.ok = "ok" => inputs' = r.ans.options /\ origin' = r.ans.options
        /\ net' = net \ {r}
  BY DEF LoadEnds
<1>3. r \in net /\ r.do = "options" /\ r.ans # None
  BY DEF Answers
<1>4. net = {r} /\ r.ans.ok = "ok"
  BY <1>3, OneRequest
<1>5. saved = {}
  BY <1>3 DEF Patient, SavedInv, Loading
<1>6. Whitelist \in Keys => r.ans.options[Whitelist] # Undefined
  BY <1>3 DEF Patient, SavedInv, Listing
<1>7. inputs' = origin'
  BY <1>2, <1>4
<1>8. Edited(inputs, origin)'
  BY <1>7 DEF Edited
<1>9. net' = {}
  BY <1>2, <1>4
<1> QED
  BY <1>1, <1>2, <1>4, <1>5, <1>6, <1>8, <1>9, AnswerPatient

LEMMA UpdatePatient ==
  ASSUME SafeInv, Patient, UpdateEnds
  PROVE  Patient'
<1>1. Goes /\ origin' = origin
  BY DEF UpdateEnds
<1>2. UNCHANGED place /\ UNCHANGED <<store, wrote, expected, saved, others>>
  BY <1>1 DEF Goes, past
<1>3. Keys' = Keys /\ Unconditional' = Unconditional
  BY <1>2, SamePage, UnconditionalSame
<1>4. PICK r \in Answers("put") :
        r.ans.ok = "ok" => SetInput(Now(r).key, Now(r).value) /\ GoesOn(r)
  BY DEF UpdateEnds
<1>5. r \in net /\ r.do = "put" /\ r.ans # None
  BY DEF Answers
<1>6. net = {r} /\ r.ans.ok = "ok"
  BY <1>5, OneRequest
<1>7. PICK w : w = Now(r)
  OBVIOUS
<1>8. inputs' = [inputs EXCEPT ![w.key] = w.value]
  BY <1>4, <1>6, <1>7 DEF SetInput
<1>9. w \in r.writes /\ w.key \in Keys
  BY <1>7, PutOf DEF Fitting
<1>10. /\ w.key \notin Unconditional => Asked(w.key, w.value)
       /\ AllAsked(r.writes) /\ AsShown(r.writes)
       /\ w.key \in others \/ store[w.key] = w.value
       /\ saved \subseteq Keys
  BY <1>5, <1>7, <1>9 DEF Patient, AskedInv, SavedInv, AllAsked
<1>11. /\ inputs'[w.key] = w.value
       /\ \A k \in Keys : k # w.key => inputs'[k] = inputs[k]
  BY <1>8, <1>9 DEF SafeInv, IsForm
<1>12. \A k \in Keys \cap Watched : inputs'[k] = inputs[k]
  BY <1>9, <1>10, <1>11 DEF AsShown
<1>13. ~Loading
  BY <1>5, <1>6 DEF Loading
<1>14. PICK rest : rest = r.writes \ {w}
  OBVIOUS
<1>15. PICK q : q = Put(issued + 1, rest)
  OBVIOUS
<1>16. net' = IF rest = {} THEN {} ELSE {q}
  BY <1>4, <1>6, <1>7, <1>14, <1>15 DEF GoesOn
<1>17. q.do = "put" /\ q.writes = rest /\ q.ans = None
  BY <1>15, PutIs
<1>18. AllAsked(rest)
  BY <1>10, <1>14 DEF AllAsked
<1>19. AsShown(rest)'
  <2>1. ASSUME NEW v \in rest
        PROVE  /\ v.key \in saved' => Written(v.key, v.value) = v.value
               /\ v.key \in Watched => v.value = inputs'[v.key]
    <3>1. v.key \in Keys
      BY <1>14, PutOf DEF Fitting
    <3> QED
      BY <1>2, <1>10, <1>12, <1>14, <3>1 DEF AsShown
  <2> QED
    BY <2>1 DEF AsShown
<1>20. Edited(inputs, origin)'
  <2>1. PICK snap, org : snap = inputs' /\ org = origin
    OBVIOUS
  <2>2. \A k, u : Asked(k, u) => Asked(k, u)'
    BY <1>2, AskedSame
  <2>3. Edited(snap, org)
    <3>1. ASSUME NEW k \in Keys \ Unconditional, snap[k] # org[k]
          PROVE  Asked(k, Written(k, snap[k]))
      <4>1. CASE k = w.key
        BY <1>10, <1>11, <2>1, <4>1, StillRight
      <4>2. CASE k # w.key
        BY <1>11, <1>13, <2>1, <3>1, <4>2 DEF Patient, AskedInv, Edited
      <4> QED
        BY <4>1, <4>2
    <3> QED
      BY <3>1 DEF Edited
  <2>4. Edited(snap, org)'
    BY <1>2, <2>2, <2>3, EditedOn
  <2> QED
    BY <1>1, <2>1, <2>4 DEF Edited
<1>21. Whitelist \in Keys => inputs'[Whitelist] # Undefined
  BY <1>12, <1>13 DEF Patient, SavedInv, Listing, Watched
<1>22. ASSUME NEW k \in saved \ others PROVE Settled(k)'
  <2>1. CASE k = w.key
    <3>1. store'[k] = Written(k, inputs'[k])
      BY <1>2, <1>9, <1>10, <1>11, <2>1 DEF AsShown
    <3> QED
      BY <1>2, <3>1, SettledAgain
  <2>2. CASE k # w.key
    <3>1. Unsent(k, inputs, origin) \/ store[k] = Written(k, inputs[k]) \/ Pending(k)
      BY UnsentIs DEF Patient, SavedInv, Settled
    <3>2. CASE Pending(k)
      <4>1. PICK v \in r.writes : v.key = k
        BY <1>5, <1>6, <3>2 DEF Pending
      <4>2. v \in rest
        BY <1>14, <2>2, <4>1
      <4>3. Pending(k)'
        BY <1>16, <1>17, <4>1, <4>2 DEF Pending
      <4> QED
        BY <1>2, <4>3, SettledAgain
    <3>3. CASE store[k] = Written(k, inputs[k])
      BY <1>2, <1>10, <1>11, <2>2, <3>3, SettledAgain
    <3>4. CASE Unsent(k, inputs, origin)
      <4>1. k \in Keys /\ inputs'[k] = inputs[k]
        BY <1>10, <1>11, <2>2
      <4>2. section = "Oidc" => inputs'["OidcWellKnown"] = inputs["OidcWellKnown"]
        BY <1>12, WhereWatched DEF SafeInv, Watched
      <4>3. k = Whitelist => inputs'["SMTPToken"] = inputs["SMTPToken"]
        BY <1>12, <4>1, WhereWatched DEF SafeInv, Watched
      <4>4. \A j \in Ratios \cap Keys : inputs'[j] = inputs[j]
        BY <1>12 DEF Watched
      <4>5. Unsent(k, inputs', origin')
        BY <1>1, <3>4, <4>1, <4>2, <4>3, <4>4 DEF Unsent
      <4> QED
        BY <1>2, <4>5, SettledAgain
    <3> QED
      BY <3>1, <3>2, <3>3, <3>4
  <2> QED
    BY <2>1, <2>2
<1>23. \A p \in net' : p = q
  BY <1>16
<1> QED
  BY <1>1, <1>17, <1>18, <1>19, <1>20, <1>21, <1>22, <1>23, AnswerPatient

\* The button of this section knows all of its options.
LEMMA OidcKeys ==
  ASSUME section = "Oidc", NEW k \in Keys
  PROVE  /\ \E j \in DOMAIN BerryTheme!OidcSteps : BerryTheme!OidcSteps[j].key = k
         /\ k # Whitelist
<1> DEFINE steps == BerryTheme!OidcSteps
<1>1. /\ DOMAIN steps = 1 .. 6
      /\ steps[1] = [key |-> "OidcWellKnown", when |-> "changed"]
      /\ steps[2] = [key |-> "OidcClientId", when |-> "changed"]
      /\ steps[3] = [key |-> "OidcClientSecret", when |-> "filled"]
      /\ steps[4] = [key |-> "OidcAuthorizationEndpoint", when |-> "changed"]
      /\ steps[5] = [key |-> "OidcTokenEndpoint", when |-> "changed"]
      /\ steps[6] = [key |-> "OidcUserinfoEndpoint", when |-> "changed"]
  BY DEF BerryTheme!OidcSteps, BerryTheme!Changed, BerryTheme!Filled
<1> HIDE DEF steps
<1>2. k \in {"OidcWellKnown", "OidcClientId", "OidcClientSecret", "OidcAuthorizationEndpoint",
             "OidcTokenEndpoint", "OidcUserinfoEndpoint"}
  BY DEF Keys, KeysOf, Endpoints
<1>3. \E j \in DOMAIN steps : steps[j].key = k
  BY <1>1, <1>2
<1>4. k # Whitelist
  BY <1>2 DEF Whitelist
<1> QED
  BY <1>3, <1>4 DEF steps

LEMMA FetchPatient ==
  ASSUME SafeInv, Patient, FetchEnds
  PROVE  Patient'
<1>1. Goes /\ origin' = origin
  BY DEF FetchEnds
<1>2. UNCHANGED place /\ UNCHANGED <<store, wrote, expected, saved, others>>
  BY <1>1 DEF Goes, past
<1>3. Keys' = Keys /\ Unconditional' = Unconditional
  BY <1>2, SamePage, UnconditionalSame
<1>4. PICK r \in Answers("fetch") :
        LET writes == Writes(BerryTheme!OidcSteps, Fetched(r, r.snap), r.org)
        IN  /\ inputs' = IF r.obj = obj THEN Fetched(r, inputs) ELSE inputs
            /\ IF writes = {}
               THEN net' = net \ {r}
               ELSE net' = (net \ {r}) \cup {Put(issued + 1, writes)}
  BY DEF FetchEnds
<1>5. r \in net /\ r.do = "fetch" /\ r.ans # None
  BY DEF Answers
<1>6. net = {r} /\ r.ans.ok = "ok"
  BY <1>5, OneRequest
<1>7. r.snap = inputs /\ r.org = origin /\ r.obj = obj
  BY <1>5 DEF Patient, SavedInv
<1>8. /\ Edited(inputs, origin)
      /\ \A k \in Endpoints \cap Keys : Asked(k, "fetched")
      /\ saved \subseteq Keys
  BY <1>5, <1>7 DEF Patient, AskedInv, SavedInv
<1>9. section = "Oidc"
  BY <1>5 DEF SafeInv, Fits
<1>10. PICK snap, org : snap = Fetched(r, inputs) /\ org = origin
  OBVIOUS
<1>11. PICK steps : steps = BerryTheme!OidcSteps
  OBVIOUS
<1>12. GoodSteps(steps)
  BY <1>9, <1>11, OidcIsGood
<1>13. PICK writes : writes = Writes(steps, snap, org)
  OBVIOUS
<1>14. PICK q : q = Put(issued + 1, writes)
  OBVIOUS
<1>15. inputs' = snap /\ net' = IF writes = {} THEN {} ELSE {q}
  BY <1>4, <1>6, <1>7, <1>10, <1>11, <1>13, <1>14
<1>16. q.do = "put" /\ q.writes = writes /\ q.ans = None
  BY <1>14, PutIs
<1>17. \A k \in Keys : snap[k] = IF k \in Endpoints THEN "fetched" ELSE inputs[k]
  BY <1>6, <1>10 DEF Fetched
<1>18. Edited(snap, org)
  <2>1. ASSUME NEW k \in Keys \ Unconditional, snap[k] # org[k]
        PROVE  Asked(k, Written(k, snap[k]))
    <3>1. CASE k \in Endpoints
      BY <1>8, <1>17, <3>1, StillRight
    <3>2. CASE k \notin Endpoints
      BY <1>8, <1>10, <1>17, <2>1, <3>2 DEF Edited
    <3> QED
      BY <3>1, <3>2
  <2> QED
    BY <2>1 DEF Edited
<1>19. Edited(inputs, origin)'
  <2>1. \A k, u : Asked(k, u) => Asked(k, u)'
    BY <1>2, AskedSame
  <2>2. Edited(snap, org)'
    BY <1>2, <1>18, <2>1, EditedOn
  <2> QED
    BY <1>1, <1>10, <1>15, <2>2 DEF Edited
<1>20. AllAsked(writes)
  BY <1>12, <1>13, <1>18, WritesAsked
<1>21. AsShown(writes)'
  BY <1>13, <1>15, WritesShown DEF AsShown
<1>22. ASSUME NEW k \in saved \ others PROVE Settled(k)'
  <2>1. k \in Keys /\ k # Whitelist
    BY <1>8, <1>9, OidcKeys
  <2>2. PICK j \in DOMAIN steps : steps[j].key = k
    BY <1>9, <1>11, <2>1, OidcKeys
  <2>3. (\E w \in writes : w.key = k) \/ Unsent(k, snap, org)
    BY <1>12, <1>13, <2>1, <2>2, SentOrNot
  <2>4. CASE \E w \in writes : w.key = k
    <3>1. Pending(k)'
      BY <1>15, <1>16, <2>4 DEF Pending
    <3> QED
      BY <1>2, <3>1, SettledAgain
  <2>5. CASE Unsent(k, snap, org)
    BY <1>1, <1>2, <1>10, <1>15, <2>5, SettledAgain
  <2> QED
    BY <2>3, <2>4, <2>5
<1>23. Whitelist \notin Keys
  BY <1>9, OidcKeys
<1>24. \A p \in net' : p = q
  BY <1>15
<1> QED
  BY <1>1, <1>16, <1>19, <1>20, <1>21, <1>22, <1>23, <1>24, AnswerPatient

\* A request that is answered, but for the answer.
Alike(q, r) ==
  /\ q.do = r.do
  /\ r.do = "put" => q.writes = r.writes
  /\ r.do = "fetch" => q.snap = r.snap /\ q.org = r.org /\ q.obj = r.obj

LEMMA AnsweredAlike ==
  ASSUME NEW r, Fits(r), NEW a
  PROVE  Alike([r EXCEPT !.ans = a], r) /\ [r EXCEPT !.ans = a].ans = a
BY DEF Alike, Fits, IsLoad, IsPut, IsFetch

LEMMA ServerPatient ==
  ASSUME Patient, Elsewhere, UNCHANGED <<expected, others>>,
         NEW r, net = {r}, NEW q, net' = {q}, Alike(q, r), q.ans = None \/ q.ans.ok = "ok",
         \A k \in Keys \ Unconditional : store'[k] \in Rightly(k),
         Whitelist \in Keys => store'[Whitelist] # Undefined,
         Whitelist \in Keys /\ q.do = "options" => q.ans.options[Whitelist] # Undefined,
         q.do = "put" => store'[Now(q).key] = Now(q).value,
         \A k \in Keys :
           store'[k] = store[k] \/ (q.do = "put" /\ \E w \in q.writes : w.key = k)
  PROVE  Patient'
<1>1. UNCHANGED place /\ UNCHANGED <<inputs, obj, origin, wrote, saved>>
  BY DEF Elsewhere, form
<1>2. Keys' = Keys /\ Unconditional' = Unconditional
  BY <1>1, SamePage, UnconditionalSame
<1>3. Loading' <=> Loading
  BY DEF Loading, Alike
<1>4. Quiet'
  BY DEF Quiet
<1>5. /\ \A k, u : Asked(k, u) => Asked(k, u)'
      /\ \A k : Rightly(k)' = Rightly(k)
  BY <1>1, AskedSame
<1>6. \A snap, org : Edited(snap, org) => Edited(snap, org)'
  BY <1>1, <1>5, EditedOn
<1>7. AskedInv'
  <2>1. (wrote \subseteq Keys)' /\ IsForm(expected)'
    BY <1>1, <1>2 DEF Patient, AskedInv, IsForm
  <2>2. (\A k \in Keys \ Unconditional : store[k] \in Rightly(k))'
    BY <1>1, <1>2, <1>5
  <2>3. q.do = "put" => AllAsked(q.writes)'
    BY <1>1, <1>5, AllAskedOn DEF Patient, AskedInv, Alike
  <2>4. q.do = "fetch" =>
          Edited(q.snap, q.org)' /\ (\A k \in Endpoints \cap Keys : Asked(k, "fetched"))'
    <3> SUFFICES ASSUME q.do = "fetch"
                 PROVE  Edited(q.snap, q.org)' /\ (\A k \in Endpoints \cap Keys : Asked(k, "fetched"))'
      OBVIOUS
    <3>1. Edited(q.snap, q.org) /\ \A k \in Endpoints \cap Keys : Asked(k, "fetched")
      BY DEF Patient, AskedInv, Alike
    <3>2. PICK fetched : fetched = "fetched"
      OBVIOUS
    <3>3. \A k \in Endpoints \cap Keys : Asked(k, fetched)'
      BY <1>5, <3>1, <3>2
    <3> QED
      BY <1>2, <1>6, <3>1, <3>2, <3>3
  <2>5. ~Loading' => Edited(inputs, origin)'
    <3>1. PICK snap, org : snap = inputs /\ org = origin
      OBVIOUS
    <3>2. ~Loading' => Edited(snap, org)'
      BY <1>3, <1>6, <3>1 DEF Patient, AskedInv
    <3> QED
      BY <1>1, <3>1, <3>2 DEF Edited
  <2> QED
    BY <2>1, <2>2, <2>3, <2>4, <2>5 DEF AskedInv
<1>8. SavedInv'
  <2>1. Listing'
    BY <1>1, <1>2, <1>3 DEF Listing, Patient, SavedInv
  <2>2. q.do = "put" => AsShown(q.writes)'
    BY <1>1 DEF Patient, SavedInv, AsShown, Alike
  <2>3. q.do = "fetch" => q.snap = inputs' /\ q.org = origin' /\ q.obj = obj'
    BY <1>1 DEF Patient, SavedInv, Alike
  <2>4. (\A k \in saved \ others : Settled(k))'
    <3> SUFFICES ASSUME NEW k \in saved \ others PROVE Settled(k)'
      BY <1>1
    <3>1. Unsent(k, inputs, origin) \/ store[k] = Written(k, inputs[k]) \/ Pending(k)
      BY UnsentIs DEF Patient, SavedInv, Settled
    <3>2. CASE q.do = "put" /\ \E w \in q.writes : w.key = k
      <4>1. Pending(k)'
        BY <3>2 DEF Pending
      <4> QED
        BY <1>1, <4>1, SettledAgain
    <3>3. CASE Pending(k)
      <4>1. Pending(k)'
        BY <3>3 DEF Pending, Alike
      <4> QED
        BY <1>1, <4>1, SettledAgain
    <3>4. CASE store'[k] = store[k]
      BY <1>1, <3>1, <3>3, <3>4, SettledAgain
    <3>5. k \in Keys
      BY DEF Patient, SavedInv
    <3> QED
      BY <3>2, <3>4, <3>5
  <2>5. (saved \subseteq Keys)' /\ (Loading' => saved' = {})
    BY <1>1, <1>2, <1>3 DEF Patient, SavedInv
  <2> QED
    BY <2>1, <2>2, <2>3, <2>4, <2>5 DEF SavedInv
<1> QED
  BY <1>4, <1>7, <1>8 DEF Patient

LEMMA ServePatient ==
  ASSUME SafeInv, Patient, Serve, failed' = "no"
  PROVE  Patient'
<1>1. Elsewhere /\ UNCHANGED <<expected, others>>
  BY DEF Serve
<1>2. PICK r \in net : ServeOptions(r) \/ ServeUpdate(r) \/ ServeWellKnown(r)
  BY DEF Serve
<1>3. net = {r}
  BY OneRequest
<1>4. Fits(r)
  BY DEF SafeInv
<1>5. /\ \A k \in Keys \ Unconditional : store[k] \in Rightly(k)
      /\ Whitelist \in Keys => store[Whitelist] # Undefined
  BY DEF Patient, AskedInv, SavedInv, Listing
<1>6. CASE ServeOptions(r)
  <2>1. PICK a : a = [ok |-> "ok", options |-> [k \in Keys |->
                        IF k \in Secrets THEN Undefined ELSE store[k]]]
    OBVIOUS
  <2>2. PICK q : q = [r EXCEPT !.ans = a]
    OBVIOUS
  <2>3. Alike(q, r) /\ q.ans = a
    BY <1>4, <2>2, AnsweredAlike
  <2>4. /\ net' = {q} /\ store' = store /\ r.do = "options"
    BY <1>3, <1>6, <2>1, <2>2 DEF ServeOptions, Answered
  <2>5. Whitelist \in Keys => a.options[Whitelist] # Undefined
    BY <1>5, <2>1 DEF Secrets, Whitelist
  <2>6. q.do = "options" /\ q.ans.ok = "ok"
    BY <2>1, <2>3, <2>4 DEF Alike
  <2> QED
    BY <1>1, <1>3, <1>5, <2>3, <2>4, <2>5, <2>6, ServerPatient
<1>7. CASE ServeUpdate(r)
  <2>1. PICK w : w = Now(r)
    OBVIOUS
  <2>2. /\ Answered(r, [ok |-> "ok"])
        /\ store' = [store EXCEPT ![w.key] = w.value]
        /\ r.do = "put"
    BY <1>7, <2>1 DEF ServeUpdate, Fails
  <2>3. PICK a : a = [ok |-> "ok"]
    OBVIOUS
  <2>4. PICK q : q = [r EXCEPT !.ans = a]
    OBVIOUS
  <2>5. Alike(q, r) /\ q.ans = a
    BY <1>4, <2>4, AnsweredAlike
  <2>6. net' = {q} /\ q.do = "put" /\ q.writes = r.writes /\ q.ans.ok = "ok"
    BY <1>3, <2>2, <2>3, <2>4, <2>5 DEF Answered, Alike
  <2>7. w \in r.writes /\ w.key \in Keys
    BY <1>4, <2>1, <2>2, FirstOf DEF Fits, Fitting, Now
  <2>8. AllAsked(r.writes) /\ AsShown(r.writes)
    BY <2>2 DEF Patient, AskedInv, SavedInv
  <2>9. /\ store'[w.key] = w.value
        /\ \A k \in Keys : k # w.key => store'[k] = store[k]
    BY <2>2, <2>7 DEF SafeInv, Stored, IsForm
  <2>10. \A k \in Keys \ Unconditional : store'[k] \in Rightly(k)
    BY <1>5, <2>7, <2>8, <2>9 DEF AllAsked, Asked
  <2>11. Whitelist \in Keys => store'[Whitelist] # Undefined
    <3>1. ~Loading
      BY <1>3, <2>2 DEF Loading
    <3>2. w.key = Whitelist => w.value = inputs[Whitelist]
      BY <2>7, <2>8 DEF AsShown, Watched
    <3> QED
      BY <1>5, <2>7, <2>9, <3>1, <3>2 DEF Patient, SavedInv, Listing
  <2>12. Now(q) = w
    BY <2>1, <2>6 DEF Now
  <2> QED
    BY <1>1, <1>3, <2>5, <2>6, <2>7, <2>9, <2>10, <2>11, <2>12, ServerPatient
<1>8. CASE ServeWellKnown(r)
  <2>1. PICK a : a = [ok |-> "ok"]
    OBVIOUS
  <2>2. PICK q : q = [r EXCEPT !.ans = a]
    OBVIOUS
  <2>3. Alike(q, r) /\ q.ans = a
    BY <1>4, <2>2, AnsweredAlike
  <2>4. /\ net' = {q} /\ store' = store /\ q.do = "fetch" /\ q.ans.ok = "ok"
    BY <1>3, <1>8, <2>1, <2>2, <2>3 DEF ServeWellKnown, Answered, Alike
  <2> QED
    BY <1>1, <1>3, <1>5, <2>3, <2>4, ServerPatient
<1> QED
  BY <1>2, <1>6, <1>7, <1>8

\* What another administrator writes is right as well.
LEMMA OthersPatient ==
  ASSUME SafeInv, Patient, Others
  PROVE  Patient'
<1>0. PICK k \in Keys : \E v :
        /\ v = IF k \in Switches THEN Opposite(store[k]) ELSE "other"
        /\ store' = [store EXCEPT ![k] = v]
        /\ expected' = [expected EXCEPT ![k] = IF k \in wrote THEN @ \cup {v} ELSE {v}]
        /\ others' = others \cup {k}
  BY DEF Others
<1>1. Elsewhere /\ net' = net
  BY DEF Others
<1>2. UNCHANGED place /\ UNCHANGED <<inputs, obj, origin, wrote, saved>>
  BY <1>1 DEF Elsewhere, form
<1>3. Keys' = Keys /\ Unconditional' = Unconditional
  BY <1>2, SamePage, UnconditionalSame
<1>4. PICK v :
        /\ v = IF k \in Switches THEN Opposite(store[k]) ELSE "other"
        /\ store' = [store EXCEPT ![k] = v]
        /\ expected' = [expected EXCEPT ![k] = IF k \in wrote THEN @ \cup {v} ELSE {v}]
        /\ others' = others \cup {k}
  BY <1>0
<1>5. v # Undefined
  BY <1>4 DEF Opposite, Undefined
<1>6. /\ expected'[k] = IF k \in wrote THEN expected[k] \cup {v} ELSE {v}
      /\ store'[k] = v
      /\ \A j \in Keys : j # k => expected'[j] = expected[j] /\ store'[j] = store[j]
  BY <1>4 DEF SafeInv, Stored, Patient, AskedInv, IsForm
<1>7. \A j \in wrote : expected[j] \subseteq expected'[j]
  BY <1>6 DEF Patient, AskedInv
<1>8. \A j, u : Asked(j, u) => Asked(j, u)'
  BY <1>2, <1>7 DEF Asked, Rightly
<1>9. \A snap, org : Edited(snap, org) => Edited(snap, org)'
  BY <1>2, <1>8, EditedOn
<1>10. Loading' <=> Loading
  BY <1>1 DEF Loading
<1>11. Quiet'
  BY <1>1 DEF Patient, Quiet
<1>12. AskedInv'
  <2>1. (wrote \subseteq Keys)' /\ IsForm(expected)'
    BY <1>2, <1>3, <1>4 DEF Patient, AskedInv, IsForm
  <2>2. ASSUME NEW j \in Keys \ Unconditional PROVE store'[j] \in Rightly(j)'
    BY <1>6 DEF Patient, AskedInv, Rightly
  <2>3. ASSUME NEW r \in net PROVE r.do = "put" => AllAsked(r.writes)'
    BY <1>2, <1>8, AllAskedOn DEF Patient, AskedInv
  <2>4. ASSUME NEW r \in net, r.do = "fetch"
        PROVE  Edited(r.snap, r.org)' /\ (\A j \in Endpoints \cap Keys : Asked(j, "fetched"))'
    <3>1. Edited(r.snap, r.org) /\ \A j \in Endpoints \cap Keys : Asked(j, "fetched")
      BY <2>4 DEF Patient, AskedInv
    <3>2. PICK fetched : fetched = "fetched"
      OBVIOUS
    <3>3. \A j \in Endpoints \cap Keys : Asked(j, fetched)'
      BY <1>8, <3>1, <3>2
    <3> QED
      BY <1>3, <1>9, <3>1, <3>2, <3>3
  <2>5. ~Loading' => Edited(inputs, origin)'
    <3>1. PICK snap, org : snap = inputs /\ org = origin
      OBVIOUS
    <3>2. ~Loading' => Edited(snap, org)'
      BY <1>9, <1>10, <3>1 DEF Patient, AskedInv
    <3> QED
      BY <1>2, <3>1, <3>2 DEF Edited
  <2> QED
    BY <1>1, <1>3, <2>1, <2>2, <2>3, <2>4, <2>5 DEF AskedInv
<1>13. SavedInv'
  <2>1. Listing'
    BY <1>1, <1>2, <1>3, <1>5, <1>6, <1>10 DEF Listing, Patient, SavedInv
  <2>2. ASSUME NEW r \in net, r.do = "put"
        PROVE  /\ AsShown(r.writes)'
               /\ r.ans # None => Now(r).key \in others' \/ store'[Now(r).key] = Now(r).value
    <3>1. /\ AsShown(r.writes)
          /\ r.ans # None => Now(r).key \in others \/ store[Now(r).key] = Now(r).value
      BY <2>2 DEF Patient, SavedInv
    <3>2. AsShown(r.writes)'
      BY <1>2, <3>1 DEF AsShown
    <3>3. Now(r).key \in Keys
      BY <2>2, FirstOf DEF SafeInv, Fits, Fitting, Now
    <3> QED
      BY <1>4, <1>6, <3>1, <3>2, <3>3
  <2>3. ASSUME NEW r \in net, r.do = "fetch"
        PROVE  r.snap = inputs' /\ r.org = origin' /\ r.obj = obj'
    BY <1>2, <2>3 DEF Patient, SavedInv
  <2>4. ASSUME NEW j \in saved' \ others' PROVE Settled(j)'
    <3>1. j \in saved \ others /\ j # k /\ j \in Keys
      BY <1>2, <1>4 DEF Patient, SavedInv
    <3>2. Unsent(j, inputs, origin) \/ store[j] = Written(j, inputs[j]) \/ Pending(j)
      BY <3>1, UnsentIs DEF Patient, SavedInv, Settled
    <3>3. Pending(j) => Pending(j)'
      BY <1>1 DEF Pending
    <3> QED
      BY <1>2, <1>6, <3>1, <3>2, <3>3, SettledAgain
  <2>5. (saved \subseteq Keys)' /\ (Loading' => saved' = {})
    BY <1>2, <1>3, <1>10 DEF Patient, SavedInv
  <2> QED
    BY <1>1, <2>1, <2>2, <2>3, <2>4, <2>5 DEF SavedInv
<1> QED
  BY <1>11, <1>12, <1>13 DEF Patient

(***************************************************************************)
(* A patient user changes what he asked for, and sees what is stored       *)
(***************************************************************************)
\* The user waited, and nothing failed before either.
LEMMA CalmUser ==
  ASSUME hasty \in Nat, Acts
  PROVE  hasty' \in Nat /\ (Calm' => Calm /\ net = {})
BY DEF Acts, Calm

LEMMA UserActs == UserStep => Acts
<1>1. Button => Acts
  BY DEF Button, Saves
<1>2. (\E k \in Keys : TypeInto(k)) => Acts
  BY DEF TypeInto
<1>3. (\E ks : Clicks(ks)) => Acts
  BY DEF Clicks, Sets
<1>4. PasswordWarning => Acts
  BY DEF PasswordWarning, Confirms, Cancels, Sets
<1>5. Dropdown \/ Eager \/ Asking => Acts
  BY DEF Dropdown, Eager, Asking
<1> QED
  BY <1>1, <1>2, <1>3, <1>4, <1>5 DEF UserStep

LEMMA UserKeeps ==
  ASSUME SafeInv, PatientInv, UserStep
  PROVE  PatientInv'
<1>1. hasty' \in Nat /\ (Calm' => Calm /\ net = {})
  BY UserActs, CalmUser DEF PatientInv
<1> SUFFICES ASSUME Calm' PROVE Patient'
  BY <1>1 DEF PatientInv
<1>2. Patient /\ net = {}
  BY <1>1 DEF PatientInv
<1>3. CASE Button
  BY <1>2, <1>3, SavesPatient DEF Button
<1>4. CASE \E k \in Keys : TypeInto(k)
  BY <1>2, <1>4, TypePatient
<1>5. CASE \E ks : ks \cap Keys \subseteq Switches /\ Clicks(ks)
  BY <1>2, <1>5, ClicksPatient
<1> QED
  BY <1>2, <1>3, <1>4, <1>5, WarningPatient, DropdownPatient, EagerPatient, AskingPatient
  DEF UserStep

LEMMA AnswerKeeps ==
  ASSUME SafeInv, PatientInv, AnswerStep
  PROVE  PatientInv'
<1>1. Goes
  BY DEF AnswerStep, LoadEnds, UpdateEnds, FetchEnds
<1>2. hasty' = hasty /\ failed' = failed
  BY <1>1 DEF Goes, past
<1>3. Calm => Patient'
  BY LoadPatient, UpdatePatient, FetchPatient DEF AnswerStep, PatientInv
<1> QED
  BY <1>2, <1>3 DEF PatientInv, Calm

LEMMA ServerKeeps ==
  ASSUME SafeInv, PatientInv, Serve \/ Fault \/ Others
  PROVE  PatientInv'
<1>1. hasty' = hasty
  BY DEF Serve, Fault, Others, Elsewhere
<1> SUFFICES ASSUME Calm' PROVE Patient'
  BY <1>1 DEF PatientInv
<1>2. failed' = "no" /\ hasty = 0
  BY <1>1 DEF Calm
<1>3. CASE Serve
  <2>1. failed = "no"
    BY <1>2, <1>3 DEF Serve, ServeOptions, ServeUpdate, ServeWellKnown, Fails
  <2> QED
    BY <1>2, <1>3, <2>1, ServePatient DEF PatientInv, Calm
<1>4. CASE Fault
  BY <1>2, <1>4 DEF Fault, Fails
<1>5. CASE Others
  <2>1. failed = "no"
    BY <1>2, <1>5 DEF Others
  <2> QED
    BY <1>2, <1>5, <2>1, OthersPatient DEF PatientInv, Calm
<1> QED
  BY <1>3, <1>4, <1>5

LEMMA PatientInit == Init => PatientInv
<1> SUFFICES ASSUME Init PROVE PatientInv
  OBVIOUS
<1>1. PICK r : r = [n |-> 1, do |-> "options", ans |-> None]
  OBVIOUS
<1>2. net = {r} /\ r.do = "options" /\ r.ans = None /\ wrote = {} /\ saved = {}
  BY <1>1 DEF Init
<1>3. Loading
  BY <1>2 DEF Loading
<1>4. Quiet
  BY <1>2 DEF Quiet
<1>5. AskedInv
  <2>1. IsForm(expected) /\ \A k \in Keys : store[k] \in expected[k]
    BY DEF Init, IsForm
  <2> QED
    BY <1>2, <1>3, <2>1 DEF AskedInv, Rightly
<1>6. SavedInv
  <2>1. Whitelist \in Keys => store[Whitelist] = "old"
    BY DEF Init, Switches, Logins, Ratios, Whitelist
  <2>2. Listing
    BY <1>2, <1>3, <2>1 DEF Listing, Undefined
  <2> QED
    BY <1>2, <2>2 DEF SavedInv
<1>7. hasty \in Nat
  BY DEF Init
<1> QED
  BY <1>4, <1>5, <1>6, <1>7 DEF Patient, PatientInv

LEMMA PatientSame ==
  ASSUME PatientInv, UNCHANGED vars
  PROVE  PatientInv'
<1>1. /\ UNCHANGED place
      /\ UNCHANGED <<inputs, obj, origin, store, net, hasty, failed, wrote, expected, saved, others>>
  BY DEF vars, form, wire, past
<1>2. Keys' = Keys /\ Unconditional' = Unconditional
  BY <1>1, SamePage, UnconditionalSame
<1>3. Calm' <=> Calm
  BY <1>1 DEF Calm
<1>4. Quiet' <=> Quiet
  BY <1>1 DEF Quiet
<1>5. \A k, u : Asked(k, u)' <=> Asked(k, u)
  BY <1>1, AskedSame
<1>6. AskedInv => AskedInv'
  <2>1. \A snap, org : Edited(snap, org) => Edited(snap, org)'
    BY <1>1, <1>5, EditedOn
  <2>2. \A writes : AllAsked(writes) => AllAsked(writes)'
    BY <1>1, <1>5, AllAskedOn
  <2>3. Edited(inputs, origin) => Edited(inputs, origin)'
    <3>1. PICK snap, org : snap = inputs /\ org = origin
      OBVIOUS
    <3>2. Edited(snap, org) => Edited(snap, org)'
      BY <2>1
    <3> QED
      BY <1>1, <3>1, <3>2 DEF Edited
  <2>4. PICK fetched : fetched = "fetched"
    OBVIOUS
  <2>5. \A k : Asked(k, fetched) => Asked(k, fetched)'
    BY <1>5
  <2>6. (\A k \in Endpoints \cap Keys : Asked(k, "fetched"))
          => (\A k \in Endpoints \cap Keys : Asked(k, "fetched"))'
    BY <1>2, <2>4, <2>5
  <2>7. IsForm(expected) => IsForm(expected)'
    BY <1>1, <1>2 DEF IsForm
  <2>8. \A k : Rightly(k)' = Rightly(k)
    BY <1>1, AskedSame
  <2>9. Loading' <=> Loading
    BY <1>1 DEF Loading
  <2> QED
    BY <1>1, <1>2, <2>1, <2>2, <2>3, <2>6, <2>7, <2>8, <2>9 DEF AskedInv
<1>7. SavedInv => SavedInv'
  <2>1. Loading' = Loading /\ Listing' = Listing
    BY <1>1, <1>2 DEF Loading, Listing
  <2>2. \A writes : AsShown(writes)' = AsShown(writes)
    BY <1>1 DEF AsShown
  <2>3. \A k : NotSent(k)' <=> NotSent(k)
    BY <1>1, <1>2, SamePage DEF NotSent
  <2>4. \A k : Pending(k)' <=> Pending(k)
    BY <1>1 DEF Pending
  <2>5. \A k : Settled(k)' <=> Settled(k)
    BY <1>1, <2>3, <2>4 DEF Settled
  <2> QED
    BY <1>1, <1>2, <2>1, <2>2, <2>5 DEF SavedInv
<1> QED
  BY <1>1, <1>3, <1>4, <1>6, <1>7 DEF PatientInv, Patient

LEMMA PatientNext == ASSUME SafeInv, PatientInv, [Next]_vars PROVE PatientInv'
<1>1. CASE UserStep \/ AnswerStep
  BY <1>1, UserKeeps, AnswerKeeps
<1>2. CASE Serve \/ Fault \/ Others
  BY <1>2, ServerKeeps
<1>3. CASE UNCHANGED vars
  BY <1>3, PatientSame
<1> QED
  BY <1>1, <1>2, <1>3, PageSteps DEF Next

LEMMA AlwaysPatient == Spec => []PatientInv
BY AlwaysSafe, PatientInit, PatientNext, PTL DEF Spec

\* While the user waits for every answer and nothing fails, an option only ever
\* has a value that the user typed, switched or fetched, or another
\* administrator wrote: a button writes what differs from what was loaded, and
\* that is what was asked for, whatever others wrote meanwhile.
THEOREM NothingElseChanges == Spec => []NothingUnasked
<1>1. PatientInv => NothingUnasked
  BY DEF PatientInv, Patient, AskedInv, Rightly, NothingUnasked
<1> QED
  BY <1>1, AlwaysPatient, PTL

\* When nothing is under way, what such a user saved is stored as it is shown,
\* but for what no button sends: the writes that are left, one after the other,
\* are always those that the form shows, or the provider will still answer.
THEOREM SavedIsShown == Spec => []ShownIsStored
<1>1. PatientInv => ShownIsStored
  <2> SUFFICES ASSUME Patient, net = {}, NEW k \in saved \ others
               PROVE  NotSent(k) \/ store[k] = Written(k, inputs[k])
    BY DEF PatientInv, ShownIsStored
  <2> QED
    BY Rested, UnsentIs
<1> QED
  BY <1>1, AlwaysPatient, PTL
=============================================================================
