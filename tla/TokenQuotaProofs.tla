--------------------------- MODULE TokenQuotaProofs ---------------------------
(***************************************************************************)
(* Theorems about TokenQuota, for any number of handlers, tokens and quota *)
(* requests, any amounts, and any number of debits and faults.             *)
(***************************************************************************)
EXTENDS TokenQuota, TLAPS

(* A handler's copy of a row that it is going to write back.                *)
CopyInv(h) ==
    /\ pc[h] \in {"credit", "save"} => mem[h].tok = TokenOf[mem[h].req]
    /\ pc[h] = "credit" => ~mem[h].edited
    /\ pc[h] \in {"credit", "update"} /\ ~mem[h].edited =>
          mem[h].remain + mem[h].held <= ceiling[mem[h].tok] + erased[mem[h].tok]
    /\ pc[h] = "update" /\ mem[h].edited => mem[h].remain \in Nat
    /\ pc[h] = "save" => \/ credits[mem[h].req] > 0
                         \/ status[mem[h].tok] = "deleted"

(* What is inductive: a copy held, with what was reserved beside it, no     *)
(* more than was granted and written over when it was taken, hence no more  *)
(* than that when it is written; and a request about to be saved as         *)
(* approved has been credited.                                              *)
Inv ==
    /\ TypeOK
    /\ NothingBeyondGrants
    /\ UsedIsConsumed
    /\ ApprovedWasCredited
    /\ \A h \in Handlers : CopyInv(h)

LEMMA BlankRow == Blank \in Rows /\ Blank.req \in Reqs
<1> DEFINE t == CHOOSE x \in Tokens : TRUE
<1> DEFINE r == CHOOSE x \in Reqs : TRUE
<1>1. t \in Tokens /\ r \in Reqs
  BY TokenAssumption
<1>2. Blank = [tok |-> t, req |-> r, remain |-> 0, held |-> 0, used |-> 0,
               status |-> "disabled", edited |-> FALSE]
  BY DEF Blank, Row
<1> HIDE DEF t, r
<1> QED BY <1>1, <1>2 DEF Rows, Statuses

LEMMA InitInv == Init => Inv
<1> SUFFICES ASSUME Init PROVE Inv
  OBVIOUS
<1>1. TypeOK
  BY TokenAssumption, BlankRow DEF Init, TypeOK, Statuses
<1>2. NothingBeyondGrants /\ UsedIsConsumed /\ ApprovedWasCredited
  BY TokenAssumption DEF Init, NothingBeyondGrants, UsedIsConsumed, ApprovedWasCredited
<1>3. \A h \in Handlers : CopyInv(h)
  BY DEF Init, CopyInv
<1> QED BY <1>1, <1>2, <1>3 DEF Inv

(* A handler moves with a row that is one: types survive.                   *)
LEMMA GotoTypes ==
    ASSUME TypeOK, NEW h \in Handlers, NEW row \in Rows,
           NEW l \in {"idle", "reject", "findToken", "credit", "save", "update", "exhaust"},
           Goto(h, l, row)
    PROVE  /\ pc' \in [Handlers -> {"idle", "reject", "findToken", "credit", "save",
                                    "update", "exhaust"}]
           /\ mem' \in [Handlers -> Rows]
           /\ pc'[h] = l /\ mem'[h] = row
           /\ \A g \in Handlers \ {h} : pc'[g] = pc[g] /\ mem'[g] = mem[g]
  BY DEF TypeOK, Goto

LEMMA SelectRow ==
    ASSUME TypeOK, NEW t \in Tokens, NEW r \in Reqs
    PROVE  /\ Select(t, r) \in Rows
           /\ Select(t, r).tok = t /\ Select(t, r).req = r
           /\ Select(t, r).remain = remain[t] /\ Select(t, r).held = reserved[t]
           /\ ~Select(t, r).edited
<1>1. Select(t, r) = [tok |-> t, req |-> r, remain |-> remain[t], held |-> reserved[t],
                      used |-> used[t], status |-> status[t], edited |-> FALSE]
  BY DEF Select, Row
<1> QED BY <1>1 DEF TypeOK, Rows

(* While the rows only change in harmless ways, the copies of the handlers  *)
(* that do not move stay good.                                              *)
LEMMA CopiesKept ==
    ASSUME Inv, NEW g \in Handlers,
           pc'[g] = pc[g], mem'[g] = mem[g],
           ceiling' \in [Tokens -> Nat], credits' \in [Reqs -> Nat],
           erased' \in [Tokens -> Nat],
           \A t \in Tokens : ceiling'[t] + erased'[t] >= ceiling[t] + erased[t],
           \A r \in Reqs : credits'[r] >= credits[r],
           \A t \in Tokens : status[t] = "deleted" => status'[t] = "deleted"
    PROVE  CopyInv(g)'
<1>1. /\ mem[g] \in Rows /\ mem[g].tok \in Tokens /\ mem[g].req \in Reqs
      /\ mem[g].remain \in Int /\ mem[g].held \in Int
  BY DEF Inv, TypeOK, Rows
<1>2. /\ ceiling[mem[g].tok] \in Int /\ ceiling'[mem[g].tok] \in Int
      /\ erased[mem[g].tok] \in Int /\ erased'[mem[g].tok] \in Int
      /\ credits[mem[g].req] \in Int /\ credits'[mem[g].req] \in Int
  BY <1>1 DEF Inv, TypeOK
<1>3. CopyInv(g)
  BY DEF Inv
<1> QED BY <1>1, <1>2, <1>3 DEF CopyInv

(* A handler that only moves.                                               *)
LEMMA JustMoves ==
    ASSUME Inv, NEW h \in Handlers, NEW row \in Rows,
           NEW l \in {"idle", "reject", "findToken", "credit", "save", "update", "exhaust"},
           Goto(h, l, row), UNCHANGED <<rows, relay, history>>, faults' \in 0..MaxFaults,
           CopyInv(h)'
    PROVE  Inv'
<1>1. /\ TypeOK /\ UNCHANGED <<remain, used, status, request, ceiling, erased, credits>>
      /\ UNCHANGED <<reserved, consumed, calls>>
  BY DEF Inv, rows, relay, relay, history
<1>2. TypeOK'
  BY <1>1, GotoTypes DEF TypeOK
<1>3. NothingBeyondGrants' /\ UsedIsConsumed' /\ ApprovedWasCredited'
  BY <1>1 DEF Inv, NothingBeyondGrants, UsedIsConsumed, ApprovedWasCredited
<1>4. ASSUME NEW g \in Handlers PROVE CopyInv(g)'
  <2>1. CASE g = h
    BY <2>1
  <2>2. CASE g # h
    <3>1. pc'[g] = pc[g] /\ mem'[g] = mem[g]
      BY <1>1, <2>2, GotoTypes
    <3> QED BY <1>1, <3>1, CopiesKept DEF TypeOK
  <2> QED BY <2>1, <2>2
<1> QED BY <1>2, <1>3, <1>4 DEF Inv

(* A handler that returns takes no copy with it.                            *)
LEMMA Returned ==
    ASSUME TypeOK, NEW h \in Handlers, Return(h)
    PROVE  /\ Goto(h, "idle", Blank) /\ Blank \in Rows
           /\ pc'[h] = "idle" /\ CopyInv(h)'
  BY BlankRow, GotoTypes DEF Return, CopyInv

LEMMA BeginInv ==
    ASSUME Inv, NEW h \in Handlers, Begin(h)
    PROVE  Inv'
<1>0. TypeOK /\ faults \in 0..MaxFaults /\ NothingBeyondGrants
  BY DEF Inv, TypeOK
<1>1. ASSUME NEW r \in Reqs, Approve(h, r) \/ Reject(h, r) PROVE Inv'
  <2> DEFINE row == [Blank EXCEPT !.req = r]
  <2>1. row \in Rows
    BY BlankRow DEF Rows
  <2>2. \E l \in {"findToken", "reject"} : Goto(h, l, row)
    BY <1>1 DEF Approve, Reject
  <2> HIDE DEF row
  <2>3. CopyInv(h)'
    BY <1>0, <2>1, <2>2, GotoTypes DEF CopyInv
  <2> QED BY <1>0, <1>1, <2>1, <2>2, <2>3, JustMoves DEF Approve, Reject
<1>2. ASSUME NEW t \in Tokens, NEW s \in {"enabled", "disabled"}, Switch(h, t, s) PROVE Inv'
  <2> DEFINE old == Select(t, Blank.req)
  <2> DEFINE row == [old EXCEPT !.status = s]
  <2>1. /\ old \in Rows /\ old.tok = t /\ old.remain = remain[t]
        /\ old.held = reserved[t] /\ ~old.edited
    BY <1>0, BlankRow, SelectRow
  <2>2. Goto(h, "update", row)
    BY <1>2 DEF Switch
  <2> HIDE DEF old
  <2>3. /\ row \in Rows /\ row.tok = t /\ row.remain = remain[t]
        /\ row.held = reserved[t] /\ ~row.edited
    BY <2>1 DEF Rows, Statuses
  <2> HIDE DEF row
  <2>4. pc'[h] = "update" /\ mem'[h] = row /\ UNCHANGED <<ceiling, erased>>
    BY <1>0, <1>2, <2>2, <2>3, GotoTypes DEF Switch, relay, history
  <2>5. CopyInv(h)'
    BY <1>0, <2>3, <2>4 DEF CopyInv, NothingBeyondGrants
  <2> QED BY <1>0, <1>2, <2>2, <2>3, <2>5, JustMoves DEF Switch
<1>3. ASSUME NEW t \in Tokens, NEW q \in Edits, Edit(h, t, q) PROVE Inv'
  <2> DEFINE row == Row(t, Blank.req, q, 0, used[t], status[t], TRUE)
  <2>1. Goto(h, "update", row)
    BY <1>3 DEF Edit
  <2>2. row \in Rows /\ row.edited /\ row.remain \in Nat
    BY <1>0, BlankRow, TokenAssumption DEF Row, Rows, TypeOK
  <2> HIDE DEF row
  <2>3. pc'[h] = "update" /\ mem'[h] = row
    BY <1>0, <2>1, <2>2, GotoTypes
  <2>4. CopyInv(h)'
    BY <2>2, <2>3 DEF CopyInv
  <2> QED BY <1>0, <1>3, <2>1, <2>2, <2>4, JustMoves DEF Edit
<1>4. ASSUME NEW t \in Tokens, Validate(h, t) PROVE Inv'
  <2> DEFINE row == Select(t, Blank.req)
  <2>1. row \in Rows
    BY <1>0, BlankRow, SelectRow
  <2>2. Goto(h, "exhaust", row)
    BY <1>4 DEF Validate
  <2> HIDE DEF row
  <2>3. CopyInv(h)'
    BY <1>0, <2>1, <2>2, GotoTypes DEF CopyInv
  <2> QED BY <1>0, <1>4, <2>1, <2>2, <2>3, JustMoves DEF Validate
<1> QED BY <1>1, <1>2, <1>3, <1>4 DEF Begin

LEMMA OthersKept ==
    ASSUME Inv, NEW h \in Handlers, NEW row \in Rows,
           NEW l \in {"idle", "save"}, Goto(h, l, row),
           CopyInv(h)',
           ceiling' \in [Tokens -> Nat], credits' \in [Reqs -> Nat],
           erased' \in [Tokens -> Nat],
           \A t \in Tokens : ceiling'[t] + erased'[t] >= ceiling[t] + erased[t],
           \A r \in Reqs : credits'[r] >= credits[r],
           \A t \in Tokens : status[t] = "deleted" => status'[t] = "deleted"
    PROVE  \A g \in Handlers : CopyInv(g)'
<1> SUFFICES ASSUME NEW g \in Handlers PROVE CopyInv(g)'
  OBVIOUS
<1>1. CASE g = h
  BY <1>1
<1>2. CASE g # h
  <2>1. pc'[g] = pc[g] /\ mem'[g] = mem[g]
    BY <1>2, GotoTypes DEF Inv
  <2> QED BY <2>1, CopiesKept
<1> QED BY <1>1, <1>2

LEMMA CreditInv ==
    ASSUME Inv, NEW h \in Handlers, Credit(h)
    PROVE  Inv'
<1> DEFINE t == mem[h].tok
<1> DEFINE r == mem[h].req
<1> DEFINE w == mem[h].held
<1> DEFINE sum == mem[h].remain + Amount[r]
<1> DEFINE over == Excess(reserved[t], w)
<1>0. /\ TypeOK /\ mem[h] \in Rows /\ t \in Tokens /\ r \in Reqs /\ t = TokenOf[r]
      /\ ~mem[h].edited /\ mem[h].remain + w <= ceiling[t] + erased[t]
  BY DEF Inv, TypeOK, Rows, Credit, CopyInv
<1>1. /\ Amount[r] \in Nat /\ sum \in Int /\ ceiling[t] \in Nat /\ credits[r] \in Nat
      /\ w \in Nat /\ erased[t] \in Nat /\ reserved[t] \in Nat
      /\ over \in Nat /\ reserved[t] - w <= over
      /\ sum + w <= ceiling[t] + Amount[r] + erased[t]
  BY <1>0, TokenAssumption DEF TypeOK, Rows, Excess
<1>2. /\ Goto(h, "save", mem[h])
      /\ UNCHANGED <<used, status, request, reserved, consumed, calls, faults>>
      /\ \/ status[t] = "deleted" /\ UNCHANGED <<remain, ceiling, erased, credits>>
         \/ /\ remain' = [remain EXCEPT ![t] = sum]
            /\ ceiling' = [ceiling EXCEPT ![t] = @ + Amount[r]]
            /\ erased' = [erased EXCEPT ![t] = @ + over]
            /\ credits' = [credits EXCEPT ![r] = @ + 1]
  BY <1>0 DEF Credit, WritesOver, relay, relay, history
<1> HIDE DEF t, r, w, sum, over
<1>3. /\ remain' \in [Tokens -> Int]
      /\ ceiling' \in [Tokens -> Nat] /\ erased' \in [Tokens -> Nat]
      /\ \A x \in Tokens : ceiling'[x] + erased'[x] >= ceiling[x] + erased[x]
      /\ credits' \in [Reqs -> Nat] /\ \A x \in Reqs : credits'[x] >= credits[x]
      /\ credits'[r] > 0 \/ status'[t] = "deleted"
  BY <1>0, <1>1, <1>2 DEF TypeOK
<1>4. TypeOK'
  BY <1>0, <1>2, <1>3, GotoTypes DEF TypeOK
<1>5. NothingBeyondGrants'
  BY <1>0, <1>1, <1>2 DEF Inv, TypeOK, NothingBeyondGrants
<1>6. UsedIsConsumed'
  BY <1>2 DEF Inv, UsedIsConsumed
<1>7. ApprovedWasCredited'
  <2> SUFFICES ASSUME NEW x \in Reqs, request'[x] = "approved", status'[TokenOf[x]] # "deleted"
               PROVE  credits'[x] > 0
    BY DEF ApprovedWasCredited
  <2>1. credits[x] > 0 /\ credits[x] \in Nat /\ credits'[x] \in Nat /\ credits'[x] >= credits[x]
    BY <1>2, <1>3 DEF Inv, TypeOK, ApprovedWasCredited
  <2> QED BY <2>1
<1>8. CopyInv(h)'
  <2>1. pc'[h] = "save" /\ mem'[h] = mem[h]
    BY <1>0, <1>2, GotoTypes
  <2> QED BY <1>0, <1>3, <2>1 DEF CopyInv, t, r
<1>9. \A g \in Handlers : CopyInv(g)'
  BY <1>0, <1>2, <1>3, <1>8, OthersKept
<1> QED BY <1>4, <1>5, <1>6, <1>7, <1>9 DEF Inv

LEMMA UpdateInv ==
    ASSUME Inv, NEW h \in Handlers, Update(h)
    PROVE  Inv'
<1> DEFINE t == mem[h].tok
<1> DEFINE n == mem[h].remain
<1> DEFINE w == mem[h].held
<1> DEFINE e == mem[h].edited
<1>0. /\ TypeOK /\ mem[h] \in Rows /\ t \in Tokens /\ n \in Int /\ e \in BOOLEAN
      /\ mem[h].status \in Statuses
      /\ e => n \in Nat
      /\ w \in Nat /\ erased[t] \in Nat /\ reserved[t] \in Nat /\ ceiling[t] \in Nat
      /\ ~e => n + w <= ceiling[t] + erased[t]
  BY DEF Inv, TypeOK, Rows, Update, CopyInv
<1>1. /\ Return(h)
      /\ UNCHANGED <<used, request, reserved, consumed, calls, credits, faults>>
      /\ \/ status[t] = "deleted" /\ UNCHANGED <<remain, status, ceiling, erased>>
         \/ /\ status[t] # "deleted"
            /\ remain' = [remain EXCEPT ![t] = n]
            /\ status' = [status EXCEPT ![t] = mem[h].status]
            /\ ceiling' = [ceiling EXCEPT ![t] = IF e THEN Larger(@, n) ELSE @]
            /\ erased' = [erased EXCEPT ![t] = IF e THEN Larger(@, reserved[t])
                                               ELSE @ + Excess(reserved[t], w)]
  BY DEF Update, WritesOver, relay
<1> HIDE DEF t, n, w, e
<1>2. /\ remain' \in [Tokens -> Int] /\ status' \in [Tokens -> Statuses]
      /\ ceiling' \in [Tokens -> Nat] /\ erased' \in [Tokens -> Nat]
      /\ \A x \in Tokens : ceiling'[x] + erased'[x] >= ceiling[x] + erased[x]
      /\ NothingBeyondGrants'
  <2>1. CASE status[t] = "deleted" /\ UNCHANGED <<remain, status, ceiling, erased>>
    BY <2>1, <1>0, <1>1 DEF Inv, TypeOK, NothingBeyondGrants
  <2>2. CASE /\ remain' = [remain EXCEPT ![t] = n]
             /\ status' = [status EXCEPT ![t] = mem[h].status]
             /\ ceiling' = [ceiling EXCEPT ![t] = IF e THEN Larger(@, n) ELSE @]
             /\ erased' = [erased EXCEPT ![t] = IF e THEN Larger(@, reserved[t])
                                                ELSE @ + Excess(reserved[t], w)]
    <3>1. CASE e
      BY <2>2, <3>1, <1>0, <1>1 DEF Inv, TypeOK, NothingBeyondGrants, Larger
    <3>2. CASE ~e
      BY <2>2, <3>2, <1>0, <1>1 DEF Inv, TypeOK, NothingBeyondGrants, Excess
    <3> QED BY <3>1, <3>2
  <2> QED BY <1>1, <2>1, <2>2
<1>3. \A x \in Tokens : status[x] = "deleted" => status'[x] = "deleted"
  BY <1>0, <1>1 DEF TypeOK
<1>4. TypeOK'
  BY <1>0, <1>1, <1>2, Returned, GotoTypes DEF TypeOK
<1>5. UsedIsConsumed'
  BY <1>1 DEF Inv, UsedIsConsumed
<1>6. ApprovedWasCredited'
  BY <1>1, <1>3, TokenAssumption DEF Inv, ApprovedWasCredited
<1>7. \A g \in Handlers : CopyInv(g)'
  BY <1>0, <1>1, <1>2, <1>3, Returned, OthersKept DEF TypeOK
<1> QED BY <1>2, <1>4, <1>5, <1>6, <1>7 DEF Inv

LEMMA StepInv ==
    ASSUME Inv, NEW h \in Handlers, Step(h)
    PROVE  Inv'
<1>0. /\ TypeOK /\ mem[h] \in Rows /\ mem[h].tok \in Tokens /\ mem[h].req \in Reqs
      /\ faults \in 0..MaxFaults /\ CopyInv(h)
      /\ ceiling \in [Tokens -> Nat] /\ credits \in [Reqs -> Nat]
      /\ erased \in [Tokens -> Nat]
      /\ \A t \in Tokens : ceiling[t] + erased[t] >= ceiling[t] + erased[t]
      /\ \A r \in Reqs : credits[r] >= credits[r]
  BY DEF Inv, TypeOK, Rows
<1>1. CASE RejectQuotaRequest(h)
  <2>1. TypeOK'
    BY <1>0, <1>1, Returned, GotoTypes DEF RejectQuotaRequest, TypeOK, relay, history
  <2>2. NothingBeyondGrants' /\ UsedIsConsumed' /\ ApprovedWasCredited'
    BY <1>0, <1>1
       DEF RejectQuotaRequest, Inv, TypeOK, NothingBeyondGrants, UsedIsConsumed,
           ApprovedWasCredited, relay, history
  <2>3. \A g \in Handlers : CopyInv(g)'
    BY <1>0, <1>1, Returned, OthersKept DEF RejectQuotaRequest, relay, history
  <2> QED BY <2>1, <2>2, <2>3 DEF Inv
<1>2. CASE FindToken(h)
  <2> DEFINE r == mem[h].req
  <2> DEFINE row == Select(TokenOf[r], r)
  <2>1. r \in Reqs /\ TokenOf[r] \in Tokens
    BY <1>0, TokenAssumption
  <2>2. /\ row \in Rows /\ row.tok = TokenOf[r] /\ row.req = r
        /\ row.remain = remain[TokenOf[r]] /\ row.held = reserved[TokenOf[r]] /\ ~row.edited
    BY <1>0, <2>1, SelectRow
  <2>3. /\ UNCHANGED <<rows, relay, history, faults>>
        /\ Return(h) \/ Goto(h, "credit", row)
    BY <1>2 DEF FindToken
  <2> HIDE DEF row, r
  <2>4. CASE Return(h)
    BY <1>0, <2>3, <2>4, Returned, JustMoves
  <2>5. CASE Goto(h, "credit", row)
    <3>1. pc'[h] = "credit" /\ mem'[h] = row /\ UNCHANGED <<ceiling, erased>>
      BY <1>0, <2>2, <2>3, <2>5, GotoTypes DEF history
    <3>2. row.remain + row.held <= ceiling[row.tok] + erased[row.tok]
      BY <2>1, <2>2 DEF Inv, NothingBeyondGrants
    <3>3. CopyInv(h)'
      BY <2>2, <3>1, <3>2 DEF CopyInv
    <3> QED BY <1>0, <2>2, <2>3, <2>5, <3>3, JustMoves
  <2> QED BY <2>3, <2>4, <2>5
<1>3. CASE Credit(h)
  BY <1>3, CreditInv
<1>4. CASE SaveRequest(h)
  <2>1. TypeOK'
    BY <1>0, <1>4, Returned, GotoTypes DEF SaveRequest, TypeOK, relay, history
  <2>2. NothingBeyondGrants' /\ UsedIsConsumed'
    BY <1>4 DEF SaveRequest, Inv, NothingBeyondGrants, UsedIsConsumed, relay, history
  <2>3. ApprovedWasCredited'
    BY <1>0, <1>4 DEF SaveRequest, Inv, TypeOK, CopyInv, ApprovedWasCredited, relay, history
  <2>4. \A g \in Handlers : CopyInv(g)'
    BY <1>0, <1>4, Returned, OthersKept DEF SaveRequest, relay, history
  <2> QED BY <2>1, <2>2, <2>3, <2>4 DEF Inv
<1>5. CASE Update(h)
  BY <1>5, UpdateInv
<1>6. CASE SelectUpdate(h)
  <2>1. \A t \in Tokens : status[t] = "deleted" => status'[t] = "deleted"
    BY <1>0, <1>6 DEF SelectUpdate, TypeOK
  <2>2. TypeOK'
    BY <1>0, <1>6, Returned, GotoTypes DEF SelectUpdate, TypeOK, Statuses, relay, history
  <2>3. NothingBeyondGrants' /\ UsedIsConsumed'
    BY <1>6 DEF SelectUpdate, Inv, NothingBeyondGrants, UsedIsConsumed, relay, history
  <2>4. ApprovedWasCredited'
    BY <1>6, <2>1, TokenAssumption DEF SelectUpdate, Inv, ApprovedWasCredited, relay, history
  <2>5. \A g \in Handlers : CopyInv(g)'
    BY <1>0, <1>6, <2>1, Returned, OthersKept DEF SelectUpdate, relay, history
  <2> QED BY <2>2, <2>3, <2>4, <2>5 DEF Inv
<1> QED BY <1>1, <1>2, <1>3, <1>4, <1>5, <1>6 DEF Step

(* What happens beside the handlers.                                        *)
LEMMA StillInv ==
    ASSUME Inv, UNCHANGED <<pc, mem>>, TypeOK', NothingBeyondGrants', UsedIsConsumed',
           credits' = credits,
           \A t \in Tokens : ceiling'[t] + erased'[t] >= ceiling[t] + erased[t],
           \A t \in Tokens : status[t] = "deleted" => status'[t] = "deleted",
           \A r \in Reqs : request'[r] = "approved" => request[r] = "approved"
    PROVE  Inv'
<1>1. ceiling' \in [Tokens -> Nat] /\ erased' \in [Tokens -> Nat] /\ credits \in [Reqs -> Nat]
  BY DEF Inv, TypeOK
<1>2. \A r \in Reqs : credits'[r] >= credits[r]
  BY <1>1
<1>3. \A h \in Handlers : CopyInv(h)'
  BY <1>1, <1>2, CopiesKept
<1>4. ApprovedWasCredited'
  BY TokenAssumption DEF Inv, ApprovedWasCredited
<1> QED BY <1>3, <1>4 DEF Inv

LEMMA NextInv == Inv /\ [Next]_vars => Inv'
<1> SUFFICES ASSUME Inv, [Next]_vars PROVE Inv'
  OBVIOUS
<1>0. TypeOK /\ NothingBeyondGrants /\ UsedIsConsumed
  BY DEF Inv
<1>00. \A t \in Tokens : ceiling[t] + erased[t] >= ceiling[t] + erased[t]
  BY DEF Inv, TypeOK
<1>1. ASSUME NEW h \in Handlers, Begin(h) PROVE Inv'
  BY <1>1, BeginInv
<1>2. ASSUME NEW h \in Handlers, Step(h) PROVE Inv'
  BY <1>2, StepInv
<1>3. ASSUME NEW h \in Handlers, StatementFails(h) PROVE Inv'
  <2>1. faults' \in 0..MaxFaults
    BY <1>0, <1>3, TokenAssumption DEF StatementFails, Fault, TypeOK
  <2> QED BY <1>0, <1>3, <2>1, Returned, JustMoves DEF StatementFails
<1>4. ASSUME NEW t \in Tokens, NEW v \in Prices, PreConsume(t, v) PROVE Inv'
  <2>1. TypeOK' /\ NothingBeyondGrants' /\ UsedIsConsumed'
    BY <1>0, <1>4, TokenAssumption
       DEF PreConsume, Charge, Call, TypeOK, NothingBeyondGrants, UsedIsConsumed, history
  <2> QED BY <1>4, <1>00, <2>1, StillInv DEF PreConsume, history
<1>10. ASSUME NEW t \in Tokens, NEW v \in Prices \cup {0}, NEW q \in Prices \cup {0},
              Settle(t, v, q)
       PROVE  Inv'
  <2>1. v \in Nat /\ q \in Nat /\ reserved[t] \in Nat /\ v <= reserved[t]
    BY <1>0, <1>10, TokenAssumption DEF Settle, TypeOK
  <2>2. /\ calls' \in 0..MaxCalls
        /\ reserved' = [reserved EXCEPT ![t] = @ - v]
        /\ UNCHANGED <<status, request, pc, mem, ceiling, erased, credits, faults>>
        /\ \/ UNCHANGED <<remain, used, consumed>>
           \/ /\ remain' = [remain EXCEPT ![t] = @ - (q - v)]
              /\ used' = [used EXCEPT ![t] = @ + (q - v)]
              /\ consumed' = [consumed EXCEPT ![t] = @ + (q - v)]
    BY <1>0, <1>10, TokenAssumption DEF Settle, Charge, Call, TypeOK, history
  <2>3. TypeOK' /\ NothingBeyondGrants' /\ UsedIsConsumed'
    BY <1>0, <2>1, <2>2 DEF TypeOK, NothingBeyondGrants, UsedIsConsumed
  <2> QED BY <1>00, <2>2, <2>3, StillInv
<1>11. ASSUME NEW t \in Tokens, NEW v \in Prices, SettleFails(t, v) PROVE Inv'
  <2>1. TypeOK' /\ NothingBeyondGrants' /\ UsedIsConsumed'
    BY <1>0, <1>11, TokenAssumption
       DEF SettleFails, Fault, TypeOK, NothingBeyondGrants, UsedIsConsumed, rows, history
  <2> QED BY <1>11, <1>00, <2>1, StillInv DEF SettleFails, rows, history
<1>5. ASSUME NEW t \in Tokens, DeleteToken(t) PROVE Inv'
  <2>1. TypeOK' /\ NothingBeyondGrants' /\ UsedIsConsumed'
    BY <1>0, <1>5
       DEF DeleteToken, TypeOK, NothingBeyondGrants, UsedIsConsumed, Statuses, relay, history
  <2>2. \A x \in Tokens : status[x] = "deleted" => status'[x] = "deleted"
    BY <1>0, <1>5 DEF DeleteToken, TypeOK
  <2> QED BY <1>5, <1>00, <2>1, <2>2, StillInv DEF DeleteToken, relay, history
<1>6. ASSUME NEW r \in Reqs, CreateQuotaRequest(r) PROVE Inv'
  <2>1. TypeOK' /\ NothingBeyondGrants' /\ UsedIsConsumed'
    BY <1>0, <1>6
       DEF CreateQuotaRequest, TypeOK, NothingBeyondGrants, UsedIsConsumed, relay, history
  <2>2. \A x \in Reqs : request'[x] = "approved" => request[x] = "approved"
    BY <1>0, <1>6 DEF CreateQuotaRequest, TypeOK
  <2> QED BY <1>6, <1>00, <2>1, <2>2, StillInv DEF CreateQuotaRequest, relay, history
<1>7. CASE ResetMonthlyQuotas
  <2> DEFINE reset == {t \in Tokens : Monthly[t] > 0 /\ status[t] # "deleted"}
  <2>1. /\ remain' = [t \in Tokens |-> IF t \in reset THEN Monthly[t] ELSE remain[t]]
        /\ ceiling' = [t \in Tokens |->
                         IF t \in reset THEN Larger(ceiling[t], Monthly[t]) ELSE ceiling[t]]
        /\ erased' = [t \in Tokens |->
                        IF t \in reset THEN Larger(erased[t], reserved[t]) ELSE erased[t]]
        /\ UNCHANGED <<used, status, request, pc, mem, reserved, consumed, calls, credits, faults>>
    BY <1>7 DEF ResetMonthlyQuotas, relay
  <2> HIDE DEF reset
  <2>2. ASSUME NEW t \in Tokens
        PROVE  /\ remain'[t] \in Int /\ ceiling'[t] \in Nat /\ erased'[t] \in Nat
               /\ ceiling'[t] + erased'[t] >= ceiling[t] + erased[t]
               /\ remain'[t] + reserved[t] <= ceiling'[t] + erased'[t]
    BY <1>0, <2>1, TokenAssumption DEF TypeOK, NothingBeyondGrants, Larger
  <2>3. remain' \in [Tokens -> Int] /\ ceiling' \in [Tokens -> Nat] /\ erased' \in [Tokens -> Nat]
    BY <2>1, <2>2
  <2>4. TypeOK' /\ NothingBeyondGrants' /\ UsedIsConsumed'
    BY <1>0, <2>1, <2>2, <2>3 DEF TypeOK, NothingBeyondGrants, UsedIsConsumed
  <2> QED BY <2>1, <2>2, <2>4, StillInv
<1>8. CASE Crash
  <2>1. /\ UNCHANGED <<remain, used, status, request, ceiling, erased, consumed, calls, credits>>
        /\ reserved' = [t \in Tokens |-> 0]
        /\ pc' = [h \in Handlers |-> "idle"] /\ mem' = [h \in Handlers |-> Blank]
        /\ faults' \in 0..MaxFaults
    BY <1>0, <1>8, TokenAssumption DEF Crash, Fault, rows, history, TypeOK
  <2>2. TypeOK'
    BY <1>0, <2>1, BlankRow DEF TypeOK
  <2>3. NothingBeyondGrants' /\ UsedIsConsumed' /\ ApprovedWasCredited'
    BY <1>0, <2>1 DEF TypeOK, Inv, NothingBeyondGrants, UsedIsConsumed, ApprovedWasCredited
  <2>4. \A h \in Handlers : CopyInv(h)'
    BY <2>1 DEF CopyInv
  <2> QED BY <2>2, <2>3, <2>4 DEF Inv
<1>9. CASE UNCHANGED vars
  BY <1>9 DEF vars, rows, relay, history, Inv, TypeOK, NothingBeyondGrants, UsedIsConsumed,
              ApprovedWasCredited, CopyInv
<1> QED BY <1>1, <1>2, <1>3, <1>4, <1>5, <1>6, <1>7, <1>8, <1>9, <1>10, <1>11 DEF Next

LEMMA InvIsInvariant == Spec => []Inv
<1>1. Init => Inv
  BY InitInv
<1>2. Inv /\ [Next]_vars => Inv'
  BY NextInv
<1> QED BY <1>1, <1>2, PTL DEF Spec

(* Every handler, whatever fails under it, keeps the variables typed.       *)
THEOREM TokenTypeCorrect == Spec => []TypeOK
<1>1. Inv => TypeOK
  BY DEF Inv
<1> QED BY <1>1, InvIsInvariant, PTL

(* No editor, approval or reset loses a debit from used_quota.              *)
THEOREM UsedCountsDebits == Spec => []UsedIsConsumed
<1>1. Inv => UsedIsConsumed
  BY DEF Inv
<1> QED BY <1>1, InvIsInvariant, PTL

(* Approvals, edits, status switches and resets write remain_quota from     *)
(* copies that may be old, while the relay reserves quota, settles and gives*)
(* back: what is left and what is reserved never exceed what was granted    *)
(* and the reservations that those writers wrote over.                      *)
THEOREM GrantsBoundQuota == Spec => []NothingBeyondGrants
<1>1. Inv => NothingBeyondGrants
  BY DEF Inv
<1> QED BY <1>1, InvIsInvariant, PTL

(* No request is ever saved as approved without its amount having been      *)
(* added to the token, failures and crashes included.                       *)
THEOREM ApprovalIsCredited == Spec => []ApprovedWasCredited
<1>1. Inv => ApprovedWasCredited
  BY DEF Inv
<1> QED BY <1>1, InvIsInvariant, PTL
===============================================================================
