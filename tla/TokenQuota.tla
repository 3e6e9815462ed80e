----------------------------- MODULE TokenQuota -------------------------------
(***************************************************************************)
(* Everything that writes tokens.remain_quota and tokens.status besides    *)
(* the batch updater: the relay, which reserves quota and settles or gives *)
(* it back later, each with one relative UPDATE (model/token.go), the      *)
(* approval of quota requests (model/quota_request.go), the token editor   *)
(* and its status switch (controller/token.go, Token.Update), the token    *)
(* validation that marks a token exhausted, the monthly reset, deletion.   *)
(*                                                                         *)
(* A handler is a goroutine serving one of the HTTP requests that first    *)
(* SELECT a row and write it later; each of its SQL statements is a step.  *)
(* The relay's requests are not told apart: what they have reserved of a   *)
(* token is one sum, and any of them may settle next.                      *)
(***************************************************************************)
EXTENDS Integers, FiniteSetsExt

CONSTANTS
    Handlers,       \* goroutines serving administrators and relay requests
    Tokens, Reqs,   \* rows of tokens and of quota_requests
    TokenOf,        \* TokenOf[r]: quota_requests.token_id
    Amount,         \* Amount[r]: quota_requests.amount
    Start,          \* initial remain_quota
    Monthly,        \* tokens.monthly_quota, 0 for none
    Prices,         \* what relayed requests reserve and cost
    Edits,          \* remain_quota values submitted with the token editor
    RedisEnabled,   \* common.RedisEnabled
    MaxCalls,       \* bound: relayed requests that take quota in a behaviour
    MaxFaults       \* bound: crashes and failed statements in a behaviour

ASSUME TokenAssumption ==
    /\ TokenOf \in [Reqs -> Tokens]
    /\ Amount \in [Reqs -> Nat]
    /\ Start \in [Tokens -> Nat] /\ Monthly \in [Tokens -> Nat]
    /\ Prices \subseteq Nat /\ Edits \subseteq Nat
    /\ RedisEnabled \in BOOLEAN
    /\ MaxCalls \in Nat /\ MaxFaults \in Nat
    /\ Tokens # {} /\ Reqs # {}

VARIABLES
    remain,    \* remain[t]: tokens.remain_quota
    used,      \* used[t]: tokens.used_quota
    status,    \* status[t]: tokens.status, "deleted" when the row is gone
    request,   \* request[r]: quota_requests.status, "none" before it is created
    pc,        \* pc[h]: the statement handler h is about to execute
    mem,       \* mem[h]: its copy of a row, the request and what it was asked for
    reserved,  \* reserved[t]: what relayed requests have taken and not settled yet
    ceiling,   \* ceiling[t]: the most an administrator has granted so far (history)
    erased,    \* erased[t]: what was reserved and still out when an absolute UPDATE
               \* wrote over it (history)
    consumed,  \* consumed[t]: total of the debits, less what was given back (history)
    credits,   \* credits[r]: UPDATEs that added Amount[r] to the token (history)
    calls,     \* (history, bounded by MaxCalls)
    faults     \* (history, bounded by MaxFaults)

relay   == <<reserved, consumed, calls>>
history == <<ceiling, erased, credits>>
rows    == <<remain, used, status, request>>
vars    == <<rows, pc, mem, relay, history, faults>>

Statuses == {"enabled", "disabled", "exhausted", "deleted"}

(* A copy of a row; held is what was reserved of it when it was read.       *)
Row(t, r, n, w, u, s, e) ==
    [tok |-> t, req |-> r, remain |-> n, held |-> w, used |-> u, status |-> s, edited |-> e]

Blank == Row(CHOOSE t \in Tokens : TRUE, CHOOSE r \in Reqs : TRUE, 0, 0, 0, "disabled", FALSE)

(* SELECT * FROM tokens WHERE id = t.                                       *)
Select(t, r) == Row(t, r, remain[t], reserved[t], used[t], status[t], FALSE)

Init ==
    /\ remain = Start
    /\ used = [t \in Tokens |-> 0]
    /\ status = [t \in Tokens |-> "enabled"]
    /\ request = [r \in Reqs |-> "none"]
    /\ pc = [h \in Handlers |-> "idle"]
    /\ mem = [h \in Handlers |-> Blank]
    /\ reserved = [t \in Tokens |-> 0]
    /\ ceiling = Start
    /\ erased = [t \in Tokens |-> 0]
    /\ consumed = [t \in Tokens |-> 0]
    /\ credits = [r \in Reqs |-> 0]
    /\ calls = 0
    /\ faults = 0

Larger(m, n) == IF m >= n THEN m ELSE n
Excess(m, n) == IF m >= n THEN m - n ELSE 0

Goto(h, l, row) == pc' = [pc EXCEPT ![h] = l] /\ mem' = [mem EXCEPT ![h] = row]
Return(h)       == Goto(h, "idle", Blank)

-----------------------------------------------------------------------------
(* One relative UPDATE of both columns, by what the row holds by then:      *)
(* decreaseTokenQuota, and increaseTokenQuota for a negative v.             *)
Charge(t, v) ==
    /\ remain' = [remain EXCEPT ![t] = @ - v]
    /\ used' = [used EXCEPT ![t] = @ + v]
    /\ consumed' = [consumed EXCEPT ![t] = @ + v]

Call == calls < MaxCalls /\ calls' = calls + 1

(* PreConsumeTokenQuota: the balance was enough when it was read, before    *)
(* the SELECT of the user's; it need not be any more.                       *)
PreConsume(t, v) ==
    /\ status[t] # "deleted"
    /\ Call
    /\ Charge(t, v)
    /\ reserved' = [reserved EXCEPT ![t] = @ + v]
    /\ UNCHANGED <<status, request, pc, mem, history, faults>>

(* PostConsumeTokenQuota(t, q - v): a request that has reserved v costs q,  *)
(* nothing if it failed; or it has reserved nothing and is charged at once. *)
(* A token that is gone is not charged.                                     *)
Settle(t, v, q) ==
    /\ v <= reserved[t]
    /\ IF v > 0 THEN UNCHANGED calls ELSE q > 0 /\ status[t] # "deleted" /\ Call
    /\ IF status[t] # "deleted" THEN Charge(t, q - v) ELSE UNCHANGED <<remain, used, consumed>>
    /\ reserved' = [reserved EXCEPT ![t] = @ - v]
    /\ UNCHANGED <<status, request, pc, mem, history, faults>>

(* ResetMonthlyQuotas: remain_quota = monthly_quota where there is one.     *)
ResetMonthlyQuotas ==
    /\ \E t \in Tokens : Monthly[t] > 0
    /\ LET reset == {t \in Tokens : Monthly[t] > 0 /\ status[t] # "deleted"} IN
       /\ remain' = [t \in Tokens |-> IF t \in reset THEN Monthly[t] ELSE remain[t]]
       /\ ceiling' = [t \in Tokens |->
                         IF t \in reset THEN Larger(ceiling[t], Monthly[t]) ELSE ceiling[t]]
       /\ erased' = [t \in Tokens |->
                        IF t \in reset THEN Larger(erased[t], reserved[t]) ELSE erased[t]]
    /\ UNCHANGED <<used, status, request, pc, mem, relay, credits, faults>>

DeleteToken(t) ==
    /\ status[t] # "deleted"
    /\ status' = [status EXCEPT ![t] = "deleted"]
    /\ UNCHANGED <<remain, used, request, pc, mem, relay, history, faults>>

-----------------------------------------------------------------------------
(* CreateQuotaRequest: a user asks for more.                                *)
CreateQuotaRequest(r) ==
    /\ request[r] = "none"
    /\ request' = [request EXCEPT ![r] = "pending"]
    /\ UNCHANGED <<remain, used, status, pc, mem, relay, history, faults>>

(* An administrator picks a request from the list of the pending ones and   *)
(* approves or rejects it; the handler does not look at its status again.   *)
Approve(h, r) ==
    /\ pc[h] = "idle"
    /\ request[r] = "pending"
    /\ Goto(h, "findToken", [Blank EXCEPT !.req = r])
    /\ UNCHANGED <<rows, relay, history, faults>>

Reject(h, r) ==
    /\ pc[h] = "idle"
    /\ request[r] = "pending"
    /\ Goto(h, "reject", [Blank EXCEPT !.req = r])
    /\ UNCHANGED <<rows, relay, history, faults>>

RejectQuotaRequest(h) ==
    /\ pc[h] = "reject"
    /\ request' = [request EXCEPT ![mem[h].req] = "rejected"]
    /\ Return(h)
    /\ UNCHANGED <<remain, used, status, relay, history, faults>>

(* ApproveQuotaRequest: SELECT the token (a deleted one is an error) ...    *)
FindToken(h) ==
    /\ pc[h] = "findToken"
    /\ LET r == mem[h].req IN
       IF status[TokenOf[r]] = "deleted"
       THEN Return(h)
       ELSE Goto(h, "credit", Select(TokenOf[r], r))
    /\ UNCHANGED <<rows, relay, history, faults>>

(* An UPDATE sets remain_quota to what was computed from a copy: what has   *)
(* been reserved since is written over, and yet given back later.  A value  *)
(* submitted with the editor, or the monthly quota, writes over all of it.  *)
WritesOver(t, row) ==
    erased' = [erased EXCEPT ![t] = IF row.edited THEN Larger(@, reserved[t])
                                    ELSE @ + Excess(reserved[t], row.held)]

(* Slip for the runs to catch: both branches of the type test add the       *)
(* amount.                                                                  *)
CreditTwice(h) ==
    /\ pc[h] = "credit"
    /\ LET t == mem[h].tok  r == mem[h].req IN
       /\ remain' = [remain EXCEPT ![t] = mem[h].remain + 2 * Amount[r]]
       /\ ceiling' = [ceiling EXCEPT ![t] = @ + Amount[r]]
       /\ credits' = [credits EXCEPT ![r] = @ + 1]
       /\ WritesOver(t, mem[h])
       /\ Goto(h, "save", mem[h])
    /\ UNCHANGED <<used, status, request, relay, faults>>

(* ... add the amount to the copy, and UPDATE remain_quota to the sum; no   *)
(* row is changed, and no error returned, if the token has been deleted ... *)
Credit(h) ==
    /\ pc[h] = "credit"
    /\ LET t == mem[h].tok  r == mem[h].req IN
       IF status[t] = "deleted"
       THEN UNCHANGED <<remain, history>>
       ELSE /\ remain' = [remain EXCEPT ![t] = mem[h].remain + Amount[r]]
            /\ ceiling' = [ceiling EXCEPT ![t] = @ + Amount[r]]
            /\ credits' = [credits EXCEPT ![r] = @ + 1]
            /\ WritesOver(t, mem[h])
    /\ Goto(h, "save", mem[h])
    /\ UNCHANGED <<used, status, request, relay, faults>>

(* ... and Save the request.                                                *)
SaveRequest(h) ==
    /\ pc[h] = "save"
    /\ request' = [request EXCEPT ![mem[h].req] = "approved"]
    /\ Return(h)
    /\ UNCHANGED <<remain, used, status, relay, history, faults>>

-----------------------------------------------------------------------------
(* UpdateToken: SELECT the token, refuse to enable an exhausted one, and    *)
(* set its status (the status_only form) or its remain_quota in the copy;   *)
(* the editor's form may leave the status out, and nothing is refused ...   *)
Switch(h, t, s) ==
    /\ pc[h] = "idle"
    /\ status[t] # "deleted"
    /\ ~(s = "enabled" /\ status[t] = "exhausted" /\ remain[t] <= 0)
    /\ Goto(h, "update", [Select(t, Blank.req) EXCEPT !.status = s])
    /\ UNCHANGED <<rows, relay, history, faults>>

Edit(h, t, q) ==
    /\ pc[h] = "idle"
    /\ status[t] # "deleted"
    /\ Goto(h, "update", Row(t, Blank.req, q, 0, used[t], status[t], TRUE))
    /\ UNCHANGED <<rows, relay, history, faults>>

(* Slip for the runs to catch: used_quota among the columns of the UPDATE.  *)
UpdateAllColumns(h) ==
    /\ pc[h] = "update"
    /\ LET t == mem[h].tok IN
       /\ remain' = [remain EXCEPT ![t] = mem[h].remain]
       /\ used' = [used EXCEPT ![t] = mem[h].used]
       /\ status' = [status EXCEPT ![t] = IF @ = "deleted" THEN @ ELSE mem[h].status]
       /\ ceiling' = [ceiling EXCEPT ![t] = Larger(@, mem[h].remain)]
       /\ WritesOver(t, mem[h])
    /\ Return(h)
    /\ UNCHANGED <<request, relay, credits, faults>>

(* ... and UPDATE the columns of Token.Update from the copy: remain_quota   *)
(* and status always, used_quota never.                                     *)
Update(h) ==
    /\ pc[h] = "update"
    /\ LET t == mem[h].tok IN
       IF status[t] = "deleted"
       THEN UNCHANGED <<remain, status, ceiling, erased>>
       ELSE /\ remain' = [remain EXCEPT ![t] = mem[h].remain]
            /\ status' = [status EXCEPT ![t] = mem[h].status]
            /\ ceiling' = [ceiling EXCEPT ![t] =
                              IF mem[h].edited THEN Larger(@, mem[h].remain) ELSE @]
            /\ WritesOver(t, mem[h])
    /\ Return(h)
    /\ UNCHANGED <<used, request, relay, credits, faults>>

-----------------------------------------------------------------------------
(* ValidateUserToken, without Redis: an enabled token read with nothing     *)
(* left is then marked exhausted.                                           *)
Validate(h, t) ==
    /\ ~RedisEnabled
    /\ pc[h] = "idle"
    /\ status[t] = "enabled" /\ remain[t] <= 0
    /\ Goto(h, "exhaust", Select(t, Blank.req))
    /\ UNCHANGED <<rows, relay, history, faults>>

(* Slip for the runs to catch: the next constant, TokenStatusExpired, which *)
(* is for tokens whose time is over.                                        *)
SelectUpdateUnknown(h) ==
    /\ pc[h] = "exhaust"
    /\ status' = [status EXCEPT ![mem[h].tok] = IF @ = "deleted" THEN @ ELSE "expired"]
    /\ Return(h)
    /\ UNCHANGED <<remain, used, request, relay, history, faults>>

SelectUpdate(h) ==
    /\ pc[h] = "exhaust"
    /\ status' = [status EXCEPT ![mem[h].tok] = IF @ = "deleted" THEN @ ELSE "exhausted"]
    /\ Return(h)
    /\ UNCHANGED <<remain, used, request, relay, history, faults>>

-----------------------------------------------------------------------------
(* A statement fails and its handler reports the error; or the relay does   *)
(* not get to give back what it has reserved; or all die with the process.  *)
Fault == faults < MaxFaults /\ faults' = faults + 1

(* (Slip for the runs to catch: a failed credit is saved as approved.)      *)
StatementIgnored(h) ==
    /\ pc[h] # "idle"
    /\ Fault
    /\ IF pc[h] = "credit" THEN Goto(h, "save", mem[h]) ELSE Return(h)
    /\ UNCHANGED <<rows, relay, history>>

StatementFails(h) ==
    /\ pc[h] # "idle"
    /\ Fault
    /\ Return(h)
    /\ UNCHANGED <<rows, relay, history>>

SettleFails(t, v) ==
    /\ v <= reserved[t]
    /\ Fault
    /\ reserved' = [reserved EXCEPT ![t] = @ - v]
    /\ UNCHANGED <<rows, pc, mem, consumed, calls, history>>

Crash ==
    /\ Fault
    /\ pc' = [h \in Handlers |-> "idle"]
    /\ mem' = [h \in Handlers |-> Blank]
    /\ reserved' = [t \in Tokens |-> 0]
    /\ UNCHANGED <<rows, consumed, calls, history>>

Step(h) ==
    \/ RejectQuotaRequest(h) \/ FindToken(h) \/ Credit(h) \/ SaveRequest(h)
    \/ Update(h) \/ SelectUpdate(h)

Begin(h) ==
    \/ \E r \in Reqs : Approve(h, r) \/ Reject(h, r)
    \/ \E t \in Tokens :
          \/ \E s \in {"enabled", "disabled"} : Switch(h, t, s)
          \/ \E q \in Edits : Edit(h, t, q)
          \/ Validate(h, t)

Next ==
    \/ \E h \in Handlers : Begin(h) \/ Step(h) \/ StatementFails(h)
    \/ \E t \in Tokens, v \in Prices : PreConsume(t, v) \/ SettleFails(t, v)
    \/ \E t \in Tokens, v, q \in Prices \cup {0} : Settle(t, v, q)
    \/ \E t \in Tokens : DeleteToken(t)
    \/ \E r \in Reqs : CreateQuotaRequest(r)
    \/ ResetMonthlyQuotas
    \/ Crash

Spec == Init /\ [][Next]_vars

-----------------------------------------------------------------------------
Rows == [tok : Tokens, req : Reqs, remain : Int, held : Nat, used : Int,
         status : Statuses, edited : BOOLEAN]

TypeOK ==
    /\ remain \in [Tokens -> Int] /\ used \in [Tokens -> Int]
    /\ status \in [Tokens -> Statuses]
    /\ request \in [Reqs -> {"none", "pending", "approved", "rejected"}]
    /\ pc \in [Handlers -> {"idle", "reject", "findToken", "credit", "save", "update", "exhaust"}]
    /\ mem \in [Handlers -> Rows]
    /\ reserved \in [Tokens -> Nat]
    /\ ceiling \in [Tokens -> Nat]
    /\ erased \in [Tokens -> Nat]
    /\ consumed \in [Tokens -> Int]
    /\ credits \in [Reqs -> Nat]
    /\ calls \in 0..MaxCalls
    /\ faults \in 0..MaxFaults

(* The writers that set remain_quota from an old copy undo what the relay   *)
(* has taken since, and what it had reserved is given back on top.  That is *)
(* all they create: what is left and what is reserved never exceed what was *)
(* ever granted by more than the reservations that were written over.       *)
NothingBeyondGrants ==
    \A t \in Tokens : remain[t] + reserved[t] <= ceiling[t] + erased[t]

(* used_quota is only ever changed relatively: no editor, approval or reset *)
(* loses a debit from it.                                                   *)
UsedIsConsumed == \A t \in Tokens : used[t] = consumed[t]

(* An approved request has been credited, whatever failed in between, if    *)
(* its token is still there.                                                *)
ApprovedWasCredited ==
    \A r \in Reqs :
        request[r] = "approved" /\ status[TokenOf[r]] # "deleted" => credits[r] > 0

-----------------------------------------------------------------------------
(* What docs/TEST_CASES.md says, and the code does not keep.                *)

Quiet == \A h \in Handlers : pc[h] = "idle"

(* TC-QR-06: approving adds the amount to remain_quota.  On a token that has*)
(* been approved something, that nobody edits or resets and no handler is   *)
(* busy with, the start and the approved amounts less the debits are left.  *)
ApprovalAddsAmount ==
    Quiet => \A t \in Tokens :
        LET approved == {r \in Reqs : TokenOf[r] = t /\ request[r] = "approved"} IN
        approved # {} /\ status[t] # "deleted" =>
          remain[t] = Start[t] + MapThenSumSet(LAMBDA r : Amount[r], approved) - consumed[t]
===============================================================================
