------------------------------ MODULE Accounts ------------------------------
(***************************************************************************)
(* The row of a user and all who write it: verification codes and password *)
(* resets by mail (common/verification.go, controller/misc.go), binding of *)
(* an address, registration, the user's own settings, the administrator's  *)
(* editor and switches (controller/user.go), the ban list                  *)
(* (common/blacklist) and the relay, which reserves quota and settles or   *)
(* gives it back later (model/token.go, model/user.go).                    *)
(*                                                                         *)
(* A handler is a goroutine serving one request; each of its SQL           *)
(* statements, and each call on a map in memory, is a step.  Most handlers *)
(* read the row, change the copy, and write all its columns back that are  *)
(* not zero (gorm's Updates).                                              *)
(***************************************************************************)
EXTENDS Integers, FiniteSets

CONSTANTS
    Users,        \* rows of users
    Emails,       \* addresses
    Handlers,     \* goroutines serving requests
    NoUser,       \* no user
    Starts,       \* who is registered at the start, and with which address
    Start,        \* users.quota at the start
    NewUserQuota, \* config.QuotaForNewUser
    Forms,        \* quotas that an administrator types into the user editor
    Prices,       \* what relayed requests reserve and cost
    TopUps,       \* amounts credited with AdminTopUp
    MaxRequests,  \* bound: requests served in a behaviour
    MaxDebits,    \* bound: relayed requests that take quota, and credits, in a behaviour
    MaxFaults     \* bound: crashes, failed statements and undelivered mails

ASSUME AccountAssumption ==
    /\ NoUser \notin Users /\ IsFiniteSet(Users)
    /\ Starts \subseteq [Users -> Emails \cup {"", "absent"}]
    /\ \A f \in Starts : \A u, v \in Users : f[u] \in Emails /\ f[u] = f[v] => u = v
    /\ {"", "absent"} \cap Emails = {}
    /\ Start \in Nat /\ NewUserQuota \in Nat
    /\ Forms \subseteq Nat /\ Prices \subseteq Nat /\ TopUps \subseteq Nat
    /\ MaxRequests \in Nat /\ MaxDebits \in Nat /\ MaxFaults \in Nat

VARIABLES
    row,       \* row[u]: status, email, password and quota of a user
    banned,    \* blackList
    code,      \* code[p][e]: verificationMap, 0 without a code that is valid
    mail,      \* what has been mailed: a code or a link with one
    minted,    \* codes and passwords generated so far
    pc,        \* pc[h]: the step handler h is about to take
    job,       \* job[h]: its request, its copy of a row, and the answer
    ceiling,   \* ceiling[u]: the most quota that was ever granted (history)
    reserved,  \* reserved[u]: what relayed requests have taken and not settled yet (history)
    erased,    \* erased[u]: what was reserved and still out when a whole row, or the
               \* editor, wrote over it (history)
    setBy,     \* setBy[u]: who set the password last, "page" or "other" (history)
    torn,      \* users whose writers overlapped or failed (history)
    spent,     \* codes that have been verified (history)
    mixed,     \* addresses with overlapping requests, a code used again, or a failed
               \* check of who has them (history)
    restarted, \* the process has ended once (history)
    served, debits, faults \* (history, bounded)

stored  == <<row, banned, code, mail, minted>>
history == <<ceiling, reserved, erased, setBy, torn, spent, mixed, restarted>>
bounds  == <<served, debits, faults>>
vars    == <<stored, pc, job, history, bounds>>

Verify_  == "v"  \* EmailVerificationPurpose
Reset_   == "r"  \* PasswordResetPurpose
Purposes == {Verify_, Reset_}
Statuses == {"enabled", "disabled", "deleted"}

Row(s, e, p, q) == [status |-> s, email |-> e, password |-> p, quota |-> q]
Absent  == Row("", "", 0, 0)
Of(op, by, u, e, c) ==
    [op |-> op, by |-> by, user |-> u, email |-> e, code |-> c,
     copy |-> Absent, held |-> 0, old |-> FALSE, ok |-> FALSE, password |-> 0]
NoJob == Of("", "other", NoUser, "", 0)
Answer(op, ok, p) ==
    [op |-> op, by |-> "page", user |-> NoUser, email |-> "", code |-> 0,
     copy |-> Absent, held |-> 0, old |-> FALSE, ok |-> ok, password |-> p]

Init ==
    /\ \E f \in Starts :
         row = [u \in Users |-> IF f[u] = "absent" THEN Absent
                                ELSE Row("enabled", f[u], 1, Start)]
    /\ banned = {}
    /\ code = [p \in Purposes |-> [e \in Emails |-> 0]]
    /\ mail = {} /\ minted = 1
    /\ pc = [h \in Handlers |-> "idle"] /\ job = [h \in Handlers |-> NoJob]
    /\ ceiling = [u \in Users |-> row[u].quota]
    /\ reserved = [u \in Users |-> 0] /\ erased = [u \in Users |-> 0]
    /\ setBy = [u \in Users |-> "other"]
    /\ torn = {} /\ spent = {} /\ mixed = {} /\ restarted = FALSE
    /\ served = 0 /\ debits = 0 /\ faults = 0

Larger(m, n) == IF m >= n THEN m ELSE n
Excess(m, n) == IF m >= n THEN m - n ELSE 0
Fault == faults < MaxFaults /\ faults' = faults + 1

-----------------------------------------------------------------------------
(* Where a handler goes                                                     *)
Goto(h, l, j) == pc' = [pc EXCEPT ![h] = l] /\ job' = [job EXCEPT ![h] = j]

(* An answer to a page waits for it; nobody looks at the others.            *)
After(h, ok, p) ==
    IF job[h].by = "page"
    THEN [pc |-> "done", job |-> Answer(job[h].op, ok, p)]
    ELSE [pc |-> "idle", job |-> NoJob]
Done(h, ok, p) == Goto(h, After(h, ok, p).pc, After(h, ok, p).job)
Refuse(h) == Done(h, FALSE, 0)

(* Handlers on their way to write the row of u.                             *)
Writing(h, u) == pc[h] \in {"form", "ban", "write", "rewrite", "insert"} /\ job[h].user = u

(* Once h has written the rows of us, others are about to overwrite it.     *)
Overtake(h, us, l, j) ==
    /\ pc' = [pc EXCEPT ![h] = l]
    /\ job' = [g \in Handlers |->
                 IF g = h THEN j
                 ELSE [job[g] EXCEPT !.old = @ \/ \E u \in us : Writing(g, u)]]

(* Handlers that have verified a code for an address, and those about to    *)
(* send one because they found it free.                                     *)
Claiming(h, e) == /\ job[h].op \in {"bind", "register"} /\ job[h].email = e
                  /\ pc[h] \in {"read", "ban", "write", "insert"}
Sending(h, e)  == job[h].op = "sendCode" /\ job[h].email = e /\ pc[h] = "mint"
Owners(e)      == {u \in Users : row[u].email = e}
Mix(e, on)     == mixed' = IF on THEN mixed \cup {e} ELSE mixed

-----------------------------------------------------------------------------
(* Requests.  The user's own need a session, which a banned user's is not;  *)
(* a session outlives the status it was opened with.                        *)
Begin(h, l, j) ==
    /\ pc[h] = "idle" /\ served < MaxRequests
    /\ served' = served + 1
    /\ Goto(h, l, j)
    /\ UNCHANGED <<row, banned, code, mail, history, debits, faults>>
Session(u) == row[u].status # "" /\ u \notin banned
Mailed(p)  == {m \in mail : m.purpose = p}

SendEmailVerification(h, by, e) ==
    Begin(h, "check", Of("sendCode", by, NoUser, e, 0)) /\ UNCHANGED minted
SendPasswordResetEmail(h, by, e) ==
    Begin(h, "check", Of("sendReset", by, NoUser, e, 0)) /\ UNCHANGED minted
ResetPassword(h, by, m) ==
    Begin(h, "verify", Of("reset", by, NoUser, m.email, m.code)) /\ UNCHANGED minted
Register(h, by, u, m) ==
    Begin(h, "verify", Of("register", by, u, m.email, m.code)) /\ UNCHANGED minted
EmailBind(h, by, u, m) ==
    /\ Session(u)
    /\ Begin(h, "verify", Of("bind", by, u, m.email, m.code)) /\ UNCHANGED minted
CreateUser(h, u) ==
    Begin(h, "insert", Of("create", "other", u, "", 0)) /\ UNCHANGED minted
GenerateAccessToken(h, u) ==
    /\ Session(u)
    /\ Begin(h, "read", Of("token", "other", u, "", 0)) /\ UNCHANGED minted
ChangePassword(h, u) ==
    /\ Session(u)
    /\ Begin(h, "read", Of("password", "other", u, "", 0)) /\ UNCHANGED minted
UpdateSelf(h, u) ==
    /\ Session(u)
    /\ minted' = minted + 1
    /\ Begin(h, "ban", [Of("self", "other", u, "", 0) EXCEPT
                          !.copy = [Absent EXCEPT !.password = minted + 1]])
ManageUser(h, u, op) ==
    /\ row[u].status # ""
    /\ Begin(h, "read", Of(op, "other", u, "", 0)) /\ UNCHANGED minted
DeleteUser(h, u) ==
    /\ row[u].status # ""
    /\ Begin(h, "ban", [Of("delete", "other", u, "", 0) EXCEPT
                          !.copy = [Absent EXCEPT !.status = "deleted"]])
    /\ UNCHANGED minted

(* IsEmailAlreadyTaken: a Find into one struct, which scans one row, however*)
(* many there are.  An error counts as no.                                  *)
\* Slip: one owner is not seen.
IsEmailAlreadyTakenByMany(e) == Cardinality(Owners(e)) > 1
IsEmailAlreadyTaken(e) == Cardinality(Owners(e)) >= 1
Checked(h, taken, blind) ==
    LET e == job[h].email IN
    /\ pc[h] = "check"
    /\ IF taken = (job[h].op = "sendReset") THEN Goto(h, "mint", job[h]) ELSE Refuse(h)
    /\ Mix(e, job[h].op = "sendCode" /\ (blind \/ \E g \in Handlers : Claiming(g, e)))
    /\ UNCHANGED <<stored, ceiling, reserved, erased, setBy, torn, spent, restarted, served, debits>>
Check(h) == Checked(h, IsEmailAlreadyTaken(job[h].email), FALSE) /\ UNCHANGED faults
CheckFails(h) == Checked(h, FALSE, Owners(job[h].email) # {}) /\ Fault

(* RegisterVerificationCodeWithKey replaces the address' code; then the     *)
(* mail, which may not go out.                                              *)
Mint(h) ==
    LET e == job[h].email
        p == IF job[h].op = "sendCode" THEN Verify_ ELSE Reset_ IN
    /\ pc[h] = "mint"
    /\ minted' = minted + 1
    /\ code' = [code EXCEPT ![p][e] = minted + 1]
    /\ \/ /\ mail' = mail \cup {[purpose |-> p, email |-> e, code |-> minted + 1]}
          /\ Done(h, TRUE, 0) /\ UNCHANGED faults
       \/ Fault /\ Refuse(h) /\ UNCHANGED mail
    /\ UNCHANGED <<row, banned, history, served, debits>>

CodeExpires(p, e) ==
    /\ code[p][e] # 0
    /\ code' = [code EXCEPT ![p][e] = 0]
    /\ UNCHANGED <<row, banned, mail, minted, pc, job, history, bounds>>

(* VerifyCodeWithKey; a code for an address is not deleted once it is used. *)
VerifyCode(h) ==
    LET op == job[h].op
        e == job[h].email
        c == job[h].code IN
    /\ pc[h] = "verify"
    /\ IF code[IF op = "reset" THEN Reset_ ELSE Verify_][e] = c
       THEN /\ Goto(h, IF op = "reset" THEN "setPassword"
                       ELSE IF op = "bind" THEN "read" ELSE "insert", job[h])
            /\ spent' = spent \cup {c}
            /\ Mix(e, op # "reset" /\ (c \in spent \/ \E g \in Handlers \ {h} :
                                          Claiming(g, e) \/ Sending(g, e)))
       ELSE Refuse(h) /\ UNCHANGED <<spent, mixed>>
    /\ UNCHANGED <<stored, ceiling, reserved, erased, setBy, torn, restarted, bounds>>

(* ResetUserPasswordByEmail: whoever has the address.                       *)
SetPassword(h) ==
    LET us == Owners(job[h].email) IN
    /\ pc[h] = "setPassword"
    /\ minted' = minted + 1
    /\ row' = [u \in Users |-> IF u \in us THEN [row[u] EXCEPT !.password = minted + 1]
                               ELSE row[u]]
    /\ setBy' = [u \in Users |-> IF u \in us THEN job[h].by ELSE setBy[u]]
    /\ Overtake(h, us, "deleteKey", [job[h] EXCEPT !.password = minted + 1])
    /\ UNCHANGED <<banned, code, mail, ceiling, reserved, erased, torn, spent, mixed,
                   restarted, bounds>>
DeleteKey(h) ==
    /\ pc[h] = "deleteKey"
    /\ code' = [code EXCEPT ![Reset_][job[h].email] = 0]
    /\ Done(h, TRUE, job[h].password)
    /\ UNCHANGED <<row, banned, mail, minted, history, bounds>>

(* User.Insert: the database refuses a name that exists.                    *)
Insert(h, q) ==
    LET u == job[h].user IN
    /\ pc[h] = "insert"
    /\ IF row[u].status = ""
       THEN /\ row' = [row EXCEPT ![u] = Row("enabled", job[h].email, minted + 1, q)]
            /\ minted' = minted + 1
            /\ ceiling' = [ceiling EXCEPT ![u] = Larger(@, q)]
            /\ setBy' = [setBy EXCEPT ![u] = "other"]
            /\ Overtake(h, {u}, After(h, TRUE, 0).pc, After(h, TRUE, 0).job)
       ELSE Refuse(h) /\ UNCHANGED <<row, minted, ceiling, setBy>>
    /\ UNCHANGED <<banned, code, mail, reserved, erased, torn, spent, mixed, restarted, bounds>>

-----------------------------------------------------------------------------
(* What a handler makes of the row it has read: its copy; held is what was  *)
(* reserved of the quota by then.                                           *)
Changed(h, r) ==
    LET op == job[h].op IN
    CASE op = "bind"     -> [r EXCEPT !.email = job[h].email]
      [] op = "token"    -> r
      [] op = "password" -> [Absent EXCEPT !.password = minted + 1]
      [] op = "disable"  -> [r EXCEPT !.status = "disabled"]
      [] op = "enable"   -> [r EXCEPT !.status = "enabled"]
      [] op = "remove"   -> [r EXCEPT !.status = "deleted"]
      [] op = "edit"     -> [r EXCEPT !.password = 0]
Copied(h, r) ==
    /\ pc[h] = "read"
    /\ Goto(h, IF job[h].op = "edit" THEN "form" ELSE "ban",
            [job[h] EXCEPT !.copy = Changed(h, r), !.held = reserved[job[h].user], !.old = FALSE])
    /\ minted' = IF job[h].op = "password" THEN minted + 1 ELSE minted
    /\ UNCHANGED <<row, banned, code, mail, history, served, debits>>
Read(h) == Copied(h, row[job[h].user]) /\ UNCHANGED faults

(* FillUserById forgets the error of its query; the others give up.         *)
ReadFails(h) ==
    /\ pc[h] = "read" /\ Fault
    /\ IF job[h].op = "bind" THEN Copied(h, Absent)
       ELSE Refuse(h) /\ UNCHANGED <<stored, history, served, debits>>

(* UpdateUser: the editor's form comes back, perhaps much later.            *)
Submit(h, q) ==
    /\ pc[h] = "form"
    /\ Goto(h, "ban", [job[h] EXCEPT !.copy = [@ EXCEPT !.quota = q]])
    /\ UNCHANGED <<stored, history, bounds>>

(* User.Update and User.Delete: first the ban list, ...                     *)
\* Slip: who is enabled again stays banned.
BanForever(h) ==
    LET u == job[h].user
        s == job[h].copy.status IN
    /\ pc[h] = "ban"
    /\ banned' = IF s = "disabled" \/ job[h].op \in {"delete", "remove"} THEN banned \cup {u}
                 ELSE banned
    /\ Goto(h, "write", job[h])
    /\ UNCHANGED <<row, code, mail, minted, history, bounds>>
Ban(h) ==
    LET u == job[h].user
        s == job[h].copy.status IN
    /\ pc[h] = "ban"
    /\ banned' = IF s = "disabled" \/ job[h].op \in {"delete", "remove"} THEN banned \cup {u}
                 ELSE IF s = "enabled" THEN banned \ {u} ELSE banned
    /\ Goto(h, "write", job[h])
    /\ UNCHANGED <<row, code, mail, minted, history, bounds>>

(* ... then the row's columns, as far as those of the copy are not zero.    *)
\* Slip: the quota is added, as in the relay's UPDATE.
UpdatesByQuota(r, c) ==
    Row(IF c.status = "" THEN r.status ELSE c.status,
        IF c.email = "" THEN r.email ELSE c.email,
        IF c.password = 0 THEN r.password ELSE c.password,
        r.quota + c.quota)
Updates(r, c) ==
    Row(IF c.status = "" THEN r.status ELSE c.status,
        IF c.email = "" THEN r.email ELSE c.email,
        IF c.password = 0 THEN r.password ELSE c.password,
        IF c.quota = 0 THEN r.quota ELSE c.quota)
(* A quota that is written covers what has been reserved since it was read, *)
(* and that is given back later all the same; the editor's covers all.      *)
WritesOver(j) ==
    erased' = [erased EXCEPT ![j.user] =
                 IF j.op = "edit" THEN Larger(@, reserved[j.user])
                 ELSE IF j.copy.quota # 0 THEN @ + Excess(reserved[j.user], j.held) ELSE @]
Write(h) ==
    LET u == job[h].user IN
    /\ pc[h] \in {"write", "rewrite"}
    /\ row' = [row EXCEPT ![u] = Updates(@, job[h].copy)]
    /\ ceiling' = [ceiling EXCEPT ![u] = IF job[h].op = "edit"
                                         THEN Larger(@, job[h].copy.quota) ELSE @]
    /\ WritesOver(job[h])
    /\ setBy' = [setBy EXCEPT ![u] = IF job[h].op \in {"password", "self"} THEN "other" ELSE @]
    /\ torn' = IF job[h].old THEN torn \cup {u} ELSE torn
    /\ IF job[h].op = "remove" /\ pc[h] = "write"
       THEN Overtake(h, {u}, "rewrite", job[h])
       ELSE Overtake(h, {u}, After(h, TRUE, 0).pc, After(h, TRUE, 0).job)
    /\ UNCHANGED <<banned, code, mail, minted, reserved, spent, mixed, restarted, bounds>>

(* An error of the database ends the handler with an error.                 *)
\* Slip: the error is not looked at.
StatementFailsUnseen(h) ==
    /\ pc[h] \in {"setPassword", "insert", "write", "rewrite"} /\ Fault
    /\ torn' = IF pc[h] = "write" THEN torn \cup {job[h].user} ELSE torn
    /\ Done(h, TRUE, 0)
    /\ UNCHANGED <<stored, ceiling, reserved, erased, setBy, spent, mixed, restarted, served, debits>>
StatementFails(h) ==
    /\ pc[h] \in {"setPassword", "insert", "write", "rewrite"} /\ Fault
    /\ torn' = IF pc[h] = "write" THEN torn \cup {job[h].user} ELSE torn
    /\ Refuse(h)
    /\ UNCHANGED <<stored, ceiling, reserved, erased, setBy, spent, mixed, restarted, served, debits>>

-----------------------------------------------------------------------------
(* decreaseUserQuota and increaseUserQuota: one relative UPDATE each.  The  *)
(* relay reserves what a request may cost (PreConsumeTokenQuota), and later *)
(* charges or gives back the rest (PostConsumeTokenQuota): one that failed  *)
(* costs nothing, one that reserved nothing is charged at once.             *)
PreConsume(u, v) ==
    /\ row[u].status # "" /\ debits < MaxDebits
    /\ debits' = debits + 1
    /\ row' = [row EXCEPT ![u].quota = @ - v]
    /\ reserved' = [reserved EXCEPT ![u] = @ + v]
    /\ UNCHANGED <<banned, code, mail, minted, pc, job, ceiling, erased, setBy, torn, spent,
                   mixed, restarted, served, faults>>
Settle(u, v, q) ==
    /\ v <= reserved[u] /\ row[u].status # ""
    /\ IF v > 0 THEN UNCHANGED debits ELSE debits < MaxDebits /\ debits' = debits + 1
    /\ row' = [row EXCEPT ![u].quota = @ - (q - v)]
    /\ reserved' = [reserved EXCEPT ![u] = @ - v]
    /\ UNCHANGED <<banned, code, mail, minted, pc, job, ceiling, erased, setBy, torn, spent,
                   mixed, restarted, served, faults>>
SettleFails(u, v) ==
    /\ v <= reserved[u] /\ Fault
    /\ reserved' = [reserved EXCEPT ![u] = @ - v]
    /\ UNCHANGED <<stored, pc, job, ceiling, erased, setBy, torn, spent, mixed, restarted,
                   served, debits>>
AdminTopUp(u, v) ==
    /\ row[u].status # "" /\ debits < MaxDebits
    /\ debits' = debits + 1
    /\ row' = [row EXCEPT ![u].quota = @ + v]
    /\ ceiling' = [ceiling EXCEPT ![u] = @ + v]
    /\ UNCHANGED <<banned, code, mail, minted, pc, job, reserved, erased, setBy, torn, spent,
                   mixed, restarted, served, faults>>

(* The process ends: codes and bans are in its memory only.                 *)
Crash ==
    /\ Fault
    /\ banned' = {} /\ code' = [p \in Purposes |-> [e \in Emails |-> 0]]
    /\ pc' = [h \in Handlers |-> IF pc[h] # "idle" /\ job[h].by = "page" THEN "lost" ELSE "idle"]
    /\ job' = [h \in Handlers |-> IF job[h].by = "page" THEN Answer(job[h].op, FALSE, 0)
                                 ELSE NoJob]
    /\ restarted' = TRUE
    /\ reserved' = [u \in Users |-> 0]
    /\ UNCHANGED <<row, mail, minted, ceiling, erased, setBy, torn, spent, mixed, served, debits>>

Step(h) ==
    \/ Check(h) \/ CheckFails(h) \/ Mint(h) \/ VerifyCode(h)
    \/ SetPassword(h) \/ DeleteKey(h)
    \/ Insert(h, NewUserQuota)
    \/ \E q \in Forms : job[h].op = "create" /\ q # 0 /\ Insert(h, q)
    \/ Read(h) \/ ReadFails(h) \/ Submit(h, job[h].copy.quota)
    \/ \E q \in Forms : Submit(h, q)
    \/ Ban(h) \/ Write(h) \/ StatementFails(h)

Request(h) ==
    \/ \E e \in Emails : SendEmailVerification(h, "other", e) \/ SendPasswordResetEmail(h, "other", e)
    \/ \E m \in Mailed(Reset_) : ResetPassword(h, "other", m)
    \/ \E u \in Users, m \in Mailed(Verify_) : Register(h, "other", u, m) \/ EmailBind(h, "other", u, m)
    \/ \E u \in Users :
         \/ CreateUser(h, u) \/ GenerateAccessToken(h, u) \/ ChangePassword(h, u)
         \/ UpdateSelf(h, u) \/ DeleteUser(h, u)
         \/ \E op \in {"disable", "enable", "remove", "edit"} : ManageUser(h, u, op)

Elsewhere ==
    \/ \E p \in Purposes, e \in Emails : CodeExpires(p, e)
    \/ \E u \in Users, v \in Prices : PreConsume(u, v) \/ SettleFails(u, v)
    \/ \E u \in Users, v \in Prices \cup {0}, q \in Prices : Settle(u, v, q)
    \/ \E u \in Users, v \in Prices : Settle(u, v, 0)
    \/ \E u \in Users, v \in TopUps : AdminTopUp(u, v)
    \/ Crash

Next == Elsewhere \/ \E h \in Handlers : Request(h) \/ Step(h)
Spec == Init /\ [][Next]_vars

(***************************************************************************)
(* Properties                                                              *)
(***************************************************************************)
\* Writers that hold old copies of a row undo what the relay has taken since, and
\* what it had reserved is given back on top.  That is all they create: what is left
\* and what is reserved never exceed what was granted by more than the reservations
\* that were written over.
QuotaWithinGrants ==
    \A u \in Users : row[u].quota + reserved[u] <= ceiling[u] + erased[u]

\* When the writers of a row are done, and none overlapped or failed, a user who
\* is banned is not enabled, and one who is not enabled is banned, as far as the
\* process that banned them still runs.
BanFollowsStatus ==
    \A u \in Users \ torn :
      (\A h \in Handlers : ~Writing(h, u) \/ pc[h] \in {"form", "ban", "insert"}) =>
        /\ u \in banned => row[u].status # "enabled"
        /\ row[u].status \in {"disabled", "deleted"} => u \in banned \/ restarted

\* Two users share an address only if a code was used twice, requests for the
\* address overlapped, writers of one of their rows did, or the check of who has
\* the address failed and counted as nobody.
OneOwner ==
    \A e \in Emails \ mixed : Cardinality(Owners(e) \ torn) <= 1
=============================================================================
