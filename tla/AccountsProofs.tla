---------------------------- MODULE AccountsProofs ----------------------------
(***************************************************************************)
(* Theorems about Accounts, alone and behind its pages, for any number of  *)
(* users, addresses and handlers, and any requests, debits and faults.     *)
(***************************************************************************)
EXTENDS AccountPages, FiniteSetTheorems, TLAPS

Rows   == [status : Statuses \cup {""}, email : Emails \cup {""}, password : Nat, quota : Int]
Labels == {"idle", "check", "mint", "verify", "setPassword", "deleteKey", "insert", "read",
           "form", "ban", "write", "rewrite", "done", "lost"}
Ops    == {"", "sendCode", "sendReset", "reset", "register", "bind", "create", "token",
           "password", "self", "disable", "enable", "remove", "edit", "delete"}
Reads  == {"bind", "token", "password", "disable", "enable", "remove", "edit"}
Jobs   == [op : Ops, by : {"page", "other"}, user : Users \cup {NoUser}, email : Emails \cup {""},
           code : Nat, copy : Rows, held : Nat, old : BOOLEAN, ok : BOOLEAN, password : Nat]
Mails  == [purpose : Purposes, email : Emails \cup {""}, code : Nat]

AccountTypes ==
    /\ row \in [Users -> Rows]
    /\ mail \subseteq Mails
    /\ minted \in Nat
    /\ pc \in [Handlers -> Labels]
    /\ job \in [Handlers -> Jobs]
    /\ ceiling \in [Users -> Int]
    /\ reserved \in [Users -> Nat]
    /\ erased \in [Users -> Nat]

(* A copy that is going to be written back: it is the editor's, which       *)
(* grants what it writes, or says nothing of the quota, or holds, with what *)
(* was reserved beside it, no more than that.                               *)
Good(l, j, granted, over) ==
    /\ l = "verify" => /\ j.op \in {"reset", "bind", "register"}
                       /\ j.op # "reset" => j.user \in Users
    /\ l = "read" => j.op \in Reads /\ j.user \in Users
    /\ l = "insert" => j.user \in Users
    /\ l = "form" => j.op = "edit"
    /\ l \in {"form", "ban", "write", "rewrite"} =>
         /\ j.user \in Users
         /\ \/ j.op = "edit"
            \/ j.copy.quota = 0
            \/ j.copy.quota + j.held <= granted[j.user] + over[j.user]
CopyInv(h) == Good(pc[h], job[h], ceiling, erased)

(* Nobody has reserved for who is not registered.                           *)
Unreserved == \A u \in Users : row[u].status = "" => reserved[u] = 0

Inv == AccountTypes /\ QuotaWithinGrants /\ Unreserved /\ \A h \in Handlers : CopyInv(h)

(* Grants and what was written over only grow.                              *)
Rising == \A u \in Users : ceiling'[u] >= ceiling[u] /\ erased'[u] >= erased[u]

LEMMA Amounts ==
    /\ Start \in Int /\ NewUserQuota \in Int
    /\ Forms \subseteq Int /\ Prices \subseteq Nat /\ TopUps \subseteq Nat
<1>1. /\ Start \in Nat /\ NewUserQuota \in Nat
      /\ Forms \subseteq Nat /\ Prices \subseteq Nat /\ TopUps \subseteq Nat
  BY AccountAssumption, Zenon
<1> QED BY <1>1

LEMMA NothingRead == Absent \in Rows /\ Absent.quota = 0
  BY DEF Absent, Row, Rows

LEMMA NewRow ==
    ASSUME NEW s \in Statuses \cup {""}, NEW e \in Emails \cup {""}, NEW p \in Nat, NEW q \in Int
    PROVE  Row(s, e, p, q) \in Rows /\ Row(s, e, p, q).quota = q
  BY DEF Row, Rows

LEMMA NewRowStatus == ASSUME NEW s, NEW e, NEW p, NEW q PROVE Row(s, e, p, q).status = s
  BY DEF Row

LEMMA NewJob ==
    ASSUME NEW op \in Ops, NEW by \in {"page", "other"}, NEW u \in Users \cup {NoUser},
           NEW e \in Emails \cup {""}, NEW c \in Nat
    PROVE  Of(op, by, u, e, c) \in Jobs
  BY NothingRead DEF Of, Jobs

LEMMA NoJobTyped == NoJob \in Jobs
  BY NewJob DEF NoJob, Ops

LEMMA AnswerTyped ==
    ASSUME NEW op \in Ops, NEW ok \in BOOLEAN, NEW p \in Nat
    PROVE  Answer(op, ok, p) \in Jobs
  BY NothingRead DEF Answer, Jobs

LEMMA InitInv == Init => Inv
<1> SUFFICES ASSUME Init PROVE Inv
  OBVIOUS
<1>1. PICK f \in Starts :
        row = [u \in Users |-> IF f[u] = "absent" THEN Absent ELSE Row("enabled", f[u], 1, Start)]
  BY DEF Init
<1>2. ASSUME NEW u \in Users PROVE row[u] \in Rows
  <2>1. f[u] = "absent" \/ f[u] \in Emails \cup {""}
    BY AccountAssumption
  <2>2. CASE f[u] = "absent"
    BY <1>1, <2>2, NothingRead
  <2>3. CASE f[u] # "absent"
    <3>1. row[u] = Row("enabled", f[u], 1, Start)
      BY <1>1, <2>3
    <3>2. f[u] \in Emails \cup {""}
      BY <2>1, <2>3
    <3>3. Row("enabled", f[u], 1, Start) \in Rows
      <4>1. Start \in Int /\ "enabled" \in Statuses
        BY Amounts DEF Statuses
      <4> QED BY <3>2, <4>1, NewRow
    <3> QED BY <3>1, <3>3
  <2> QED BY <2>2, <2>3
<1>3. row \in [Users -> Rows]
  BY <1>1, <1>2
<1>4. /\ ceiling \in [Users -> Int] /\ \A u \in Users : ceiling[u] = row[u].quota
      /\ reserved \in [Users -> Nat] /\ erased \in [Users -> Nat]
      /\ \A u \in Users : reserved[u] = 0 /\ erased[u] = 0
  BY <1>3 DEF Init, Rows
<1>5. AccountTypes
  BY <1>3, <1>4, NoJobTyped DEF Init, AccountTypes, Labels, Mails
<1>6. QuotaWithinGrants /\ Unreserved
  <2>1. \A u \in Users : ceiling[u] = row[u].quota /\ row[u].quota \in Int
    BY <1>3, <1>4 DEF Rows
  <2>2. QuotaWithinGrants
    BY <1>4, <2>1 DEF QuotaWithinGrants
  <2>3. Unreserved
    BY <1>4 DEF Unreserved
  <2> QED BY <2>2, <2>3
<1>7. \A h \in Handlers : CopyInv(h)
  BY DEF Init, CopyInv, Good
<1> QED BY <1>5, <1>6, <1>7 DEF Inv

LEMMA CopyOf ==
    ASSUME AccountTypes, NEW g \in Handlers
    PROVE  /\ job[g] \in Jobs /\ job[g].copy \in Rows
           /\ job[g].copy.quota \in Int /\ job[g].held \in Nat
<1>1. job[g] \in Jobs
  BY DEF AccountTypes
<1>2. job[g].copy \in Rows /\ job[g].held \in Nat
  BY <1>1 DEF Jobs
<1>3. job[g].copy.quota \in Int
  BY <1>2 DEF Rows
<1> QED BY <1>1, <1>2, <1>3

(* Handlers that do not move, or are only told that their copy is old,      *)
(* keep a copy that is good.                                                *)
LEMMA OthersKeep ==
    ASSUME Inv, NEW g \in Handlers,
           pc'[g] = pc[g], job'[g].op = job[g].op, job'[g].user = job[g].user,
           job'[g].copy = job[g].copy, job'[g].held = job[g].held,
           ceiling' \in [Users -> Int], erased' \in [Users -> Nat],
           \A u \in Users : ceiling'[u] >= ceiling[u] /\ erased'[u] >= erased[u]
    PROVE  CopyInv(g)'
<1>0. AccountTypes
  BY DEF Inv
<1>1. /\ job[g] \in Jobs /\ job[g].copy \in Rows
      /\ job[g].copy.quota \in Int /\ job[g].held \in Nat
  BY <1>0, CopyOf
<1>2. \A u \in Users : /\ ceiling[u] \in Int /\ ceiling'[u] \in Int
                       /\ erased[u] \in Int /\ erased'[u] \in Int
  BY DEF Inv, AccountTypes
<1>3. CopyInv(g)
  BY DEF Inv
<1> QED BY <1>1, <1>2, <1>3 DEF CopyInv, Good

(* A handler that writes rows, and answers or goes on.                      *)
LEMMA Overtaken ==
    ASSUME AccountTypes, NEW h \in Handlers, NEW us, NEW l \in Labels, NEW j \in Jobs,
           Overtake(h, us, l, j)
    PROVE  /\ pc' \in [Handlers -> Labels] /\ job' \in [Handlers -> Jobs]
           /\ pc'[h] = l /\ job'[h] = j
           /\ \A g \in Handlers \ {h} :
                /\ pc'[g] = pc[g] /\ job'[g].op = job[g].op
                /\ job'[g].user = job[g].user /\ job'[g].copy = job[g].copy
                /\ job'[g].held = job[g].held
<1>1. ASSUME NEW g \in Handlers, g # h
      PROVE  /\ job'[g] \in Jobs /\ job'[g].op = job[g].op
             /\ job'[g].user = job[g].user /\ job'[g].copy = job[g].copy
             /\ job'[g].held = job[g].held
  <2>1. job[g] \in Jobs
    BY DEF AccountTypes
  <2>2. PICK b \in BOOLEAN : job'[g] = [job[g] EXCEPT !.old = b]
    <3>1. job[g].old \in BOOLEAN
      BY <2>1 DEF Jobs
    <3>2. (job[g].old \/ \E u \in us : Writing(g, u)) \in BOOLEAN
      OBVIOUS
    <3> QED BY <1>1, <3>2 DEF Overtake
  <2> QED BY <2>1, <2>2 DEF Jobs
<1>2. job' = [g \in Handlers |-> job'[g]]
  BY DEF Overtake
<1>3. job'[h] = j
  BY DEF Overtake
<1>4. job' \in [Handlers -> Jobs]
  BY <1>1, <1>2, <1>3
<1> QED BY <1>1, <1>3, <1>4 DEF Overtake, AccountTypes

LEMMA WriterInv ==
    ASSUME Inv, NEW h \in Handlers, NEW us, NEW l \in Labels, NEW j \in Jobs,
           Overtake(h, us, l, j), Good(l, j, ceiling', erased'),
           row' \in [Users -> Rows], ceiling' \in [Users -> Int],
           reserved' \in [Users -> Nat], erased' \in [Users -> Nat],
           Rising, QuotaWithinGrants', Unreserved',
           mail' \subseteq Mails, minted' \in Nat
    PROVE  Inv'
<1>0. AccountTypes
  BY DEF Inv
<1>1. AccountTypes'
  BY <1>0, Overtaken DEF AccountTypes
<1>2. ASSUME NEW g \in Handlers PROVE CopyInv(g)'
  <2>1. CASE g = h
    BY <1>0, <2>1, Overtaken DEF CopyInv
  <2>2. CASE g # h
    BY <1>0, <2>2, Overtaken, OthersKeep DEF Rising
  <2> QED BY <2>1, <2>2
<1> QED BY <1>1, <1>2 DEF Inv

(* A handler that only moves.                                               *)
LEMMA JustMoves ==
    ASSUME Inv, NEW h \in Handlers, NEW l \in Labels, NEW j \in Jobs, Goto(h, l, j),
           Good(l, j, ceiling, erased), UNCHANGED <<row, ceiling, reserved, erased>>,
           mail' \subseteq Mails, minted' \in Nat
    PROVE  Inv'
<1>1. /\ pc' \in [Handlers -> Labels] /\ job' \in [Handlers -> Jobs]
      /\ pc'[h] = l /\ job'[h] = j
      /\ \A g \in Handlers \ {h} : pc'[g] = pc[g] /\ job'[g] = job[g]
  BY DEF Inv, AccountTypes, Goto
<1>2. AccountTypes'
  BY <1>1 DEF Inv, AccountTypes
<1>3. ASSUME NEW g \in Handlers PROVE CopyInv(g)'
  <2>1. CASE g = h
    BY <1>1, <2>1 DEF CopyInv
  <2>2. CASE g # h
    <3>1. \A u \in Users : ceiling'[u] >= ceiling[u] /\ erased'[u] >= erased[u]
      BY DEF Inv, AccountTypes
    <3> QED BY <1>1, <1>2, <2>2, <3>1, OthersKeep DEF AccountTypes
  <2> QED BY <2>1, <2>2
<1>4. QuotaWithinGrants' /\ Unreserved'
  BY DEF Inv, QuotaWithinGrants, Unreserved
<1> QED BY <1>2, <1>3, <1>4 DEF Inv

(* Nothing of a handler moves.                                              *)
LEMMA NobodyMoves ==
    ASSUME Inv, UNCHANGED <<pc, job, mail, minted>>,
           row' \in [Users -> Rows], ceiling' \in [Users -> Int],
           reserved' \in [Users -> Nat], erased' \in [Users -> Nat],
           Rising, QuotaWithinGrants', Unreserved'
    PROVE  Inv'
<1>1. AccountTypes'
  BY DEF Inv, AccountTypes
<1>2. ASSUME NEW g \in Handlers PROVE CopyInv(g)'
  BY OthersKeep DEF Rising
<1> QED BY <1>1, <1>2 DEF Inv

LEMMA AfterTyped ==
    ASSUME AccountTypes, NEW h \in Handlers, NEW ok \in BOOLEAN, NEW p \in Nat
    PROVE  After(h, ok, p).pc \in {"done", "idle"} /\ After(h, ok, p).job \in Jobs
<1>1. job[h].op \in Ops
  BY DEF AccountTypes, Jobs
<1>2. CASE job[h].by = "page"
  BY <1>1, <1>2, AnswerTyped DEF After
<1>3. CASE job[h].by # "page"
  BY <1>3, NoJobTyped DEF After
<1> QED BY <1>2, <1>3

LEMMA Ended ==
    ASSUME NEW l \in {"done", "idle"}, NEW j, NEW c, NEW o
    PROVE  l \in Labels /\ Good(l, j, c, o)
  BY DEF Labels, Good

LEMMA DoneInv ==
    ASSUME Inv, NEW h \in Handlers, NEW ok \in BOOLEAN, NEW p \in Nat, Done(h, ok, p),
           UNCHANGED <<row, ceiling, reserved, erased>>, mail' \subseteq Mails, minted' \in Nat
    PROVE  Inv'
<1>1. PICK l \in {"done", "idle"}, j \in Jobs : Goto(h, l, j)
  BY AfterTyped DEF Done, Inv
<1> QED BY <1>1, Ended, JustMoves

-----------------------------------------------------------------------------
(* Requests                                                                 *)
LEMMA BeginInv ==
    ASSUME Inv, NEW h \in Handlers, NEW l \in Labels, NEW j \in Jobs, Begin(h, l, j),
           Good(l, j, ceiling, erased), minted' \in Nat
    PROVE  Inv'
  BY JustMoves DEF Begin, history, Inv, AccountTypes

LEMMA MailRequests ==
    ASSUME Inv, NEW h \in Handlers, NEW by \in {"page", "other"}, NEW e \in Emails,
           SendEmailVerification(h, by, e) \/ SendPasswordResetEmail(h, by, e)
    PROVE  Inv'
<1>1. PICK op \in {"sendCode", "sendReset"} : Begin(h, "check", Of(op, by, NoUser, e, 0))
  BY DEF SendEmailVerification, SendPasswordResetEmail
<1>2. Of(op, by, NoUser, e, 0) \in Jobs
  <2>1. op \in Ops
    BY DEF Ops
  <2> QED BY <2>1, NewJob
<1>3. \A j : Good("check", j, ceiling, erased)
  BY DEF Good
<1>4. minted' \in Nat
  BY DEF SendEmailVerification, SendPasswordResetEmail, Inv, AccountTypes
<1> QED BY <1>1, <1>2, <1>3, <1>4, BeginInv DEF Labels

LEMMA CodeRequests ==
    ASSUME Inv, NEW h \in Handlers, NEW by \in {"page", "other"}, NEW u \in Users,
           NEW m \in Mails,
           ResetPassword(h, by, m) \/ Register(h, by, u, m) \/ EmailBind(h, by, u, m)
    PROVE  Inv'
<1>0. m.email \in Emails \cup {""} /\ m.code \in Nat
  BY DEF Mails
<1>1. PICK op \in {"reset", "register", "bind"}, v \in Users \cup {NoUser} :
        /\ op # "reset" => v \in Users
        /\ Begin(h, "verify", Of(op, by, v, m.email, m.code))
  BY DEF ResetPassword, Register, EmailBind
<1> DEFINE j == Of(op, by, v, m.email, m.code)
<1>2. j \in Jobs /\ j.op = op /\ j.user = v
  <2>1. op \in Ops
    BY DEF Ops
  <2>2. j \in Jobs
    BY <1>0, <2>1, NewJob
  <2> QED BY <2>2 DEF Of
<1>3. minted' \in Nat
  BY DEF ResetPassword, Register, EmailBind, Inv, AccountTypes
<1> HIDE DEF j
<1>4. Good("verify", j, ceiling, erased)
  BY <1>1, <1>2 DEF Good
<1> QED BY <1>1, <1>2, <1>3, <1>4, BeginInv DEF Labels, j

Manages == {"disable", "enable", "remove", "edit"}

LEMMA ReadRequests ==
    ASSUME Inv, NEW h \in Handlers, NEW u \in Users,
           \/ GenerateAccessToken(h, u) \/ ChangePassword(h, u)
           \/ \E op \in Manages : ManageUser(h, u, op)
    PROVE  Inv'
<1>1. PICK op \in Reads : Begin(h, "read", Of(op, "other", u, "", 0))
  BY DEF GenerateAccessToken, ChangePassword, ManageUser, Reads, Manages
<1> DEFINE j == Of(op, "other", u, "", 0)
<1>2. j \in Jobs /\ j.op = op /\ j.user = u
  <2>1. op \in Ops
    BY DEF Ops, Reads
  <2>2. j \in Jobs
    BY <2>1, NewJob
  <2> QED BY <2>2 DEF Of
<1>3. minted' \in Nat
  BY DEF GenerateAccessToken, ChangePassword, ManageUser, Inv, AccountTypes
<1> HIDE DEF j
<1>4. Good("read", j, ceiling, erased)
  BY <1>2 DEF Good
<1> QED BY <1>1, <1>2, <1>3, <1>4, BeginInv DEF Labels, j

(* The user's own form and a deletion write a copy that says nothing of the *)
(* quota.                                                                   *)
LEMMA BlindCopy ==
    ASSUME NEW j \in Jobs, NEW c \in Rows, c.quota = 0
    PROVE  /\ [j EXCEPT !.copy = c] \in Jobs
           /\ [j EXCEPT !.copy = c].op = j.op /\ [j EXCEPT !.copy = c].user = j.user
           /\ [j EXCEPT !.copy = c].copy.quota = 0
  BY DEF Jobs

LEMMA BlindRequests ==
    ASSUME Inv, NEW h \in Handlers, NEW u \in Users, UpdateSelf(h, u) \/ DeleteUser(h, u)
    PROVE  Inv'
<1>0. minted \in Nat /\ minted' \in Nat
  <2>1. minted \in Nat
    BY DEF Inv, AccountTypes
  <2>2. minted' = minted + 1 \/ minted' = minted
    BY DEF UpdateSelf, DeleteUser
  <2> QED BY <2>1, <2>2
<1>1. \A p \in Nat : /\ [Absent EXCEPT !.password = p] \in Rows
                     /\ [Absent EXCEPT !.password = p].quota = 0
  BY NothingRead DEF Rows
<1>2. /\ [Absent EXCEPT !.status = "deleted"] \in Rows
      /\ [Absent EXCEPT !.status = "deleted"].quota = 0
  BY NothingRead DEF Rows, Statuses
<1>3. PICK op \in {"self", "delete"}, c \in Rows :
        /\ c.quota = 0
        /\ Begin(h, "ban", [Of(op, "other", u, "", 0) EXCEPT !.copy = c])
  <2>1. CASE UpdateSelf(h, u)
    <3>1. minted + 1 \in Nat
      BY <1>0
    <3> QED BY <1>1, <2>1, <3>1 DEF UpdateSelf
  <2>2. CASE DeleteUser(h, u)
    BY <1>2, <2>2 DEF DeleteUser
  <2> QED BY <2>1, <2>2
<1> DEFINE k == Of(op, "other", u, "", 0)
<1>4. k \in Jobs /\ k.op = op /\ k.user = u
  <2>1. op \in Ops
    BY DEF Ops
  <2>2. k \in Jobs
    BY <2>1, NewJob
  <2> QED BY <2>2 DEF Of
<1> HIDE DEF k
<1> DEFINE j == [k EXCEPT !.copy = c]
<1>5. j \in Jobs /\ j.user = u /\ j.copy.quota = 0
  BY <1>3, <1>4, BlindCopy
<1> HIDE DEF j
<1>6. Good("ban", j, ceiling, erased)
  BY <1>5 DEF Good
<1>7. Begin(h, "ban", j)
  BY <1>3 DEF j, k
<1> QED BY <1>0, <1>5, <1>6, <1>7, BeginInv DEF Labels

LEMMA CreateRequest ==
    ASSUME Inv, NEW h \in Handlers, NEW u \in Users, CreateUser(h, u)
    PROVE  Inv'
<1> DEFINE j == Of("create", "other", u, "", 0)
<1>1. j \in Jobs /\ j.user = u
  <2>1. "create" \in Ops
    BY DEF Ops
  <2>2. j \in Jobs
    BY <2>1, NewJob
  <2> QED BY <2>2 DEF Of
<1>2. Begin(h, "insert", j) /\ minted' \in Nat
  BY DEF CreateUser, Inv, AccountTypes
<1> HIDE DEF j
<1>3. Good("insert", j, ceiling, erased)
  BY <1>1 DEF Good
<1> QED BY <1>1, <1>2, <1>3, BeginInv DEF Labels

LEMMA RequestInv ==
    ASSUME Inv, NEW h \in Handlers, Request(h)
    PROVE  Inv'
<1>0. \A p : Mailed(p) \subseteq Mails
  BY DEF Mailed, Inv, AccountTypes
<1>1. CASE \E e \in Emails : \/ SendEmailVerification(h, "other", e)
                             \/ SendPasswordResetEmail(h, "other", e)
  BY <1>1, MailRequests
<1>2. CASE \E m \in Mailed(Reset_) : ResetPassword(h, "other", m)
  <2>1. PICK m \in Mails : ResetPassword(h, "other", m)
    BY <1>0, <1>2
  <2> QED BY <2>1, CodeRequests, PageAssumption
<1>3. CASE \E u \in Users, m \in Mailed(Verify_) :
             Register(h, "other", u, m) \/ EmailBind(h, "other", u, m)
  <2>1. PICK u \in Users, m \in Mails : Register(h, "other", u, m) \/ EmailBind(h, "other", u, m)
    BY <1>0, <1>3
  <2> QED BY <2>1, CodeRequests
<1>4. CASE \E u \in Users :
             \/ CreateUser(h, u) \/ GenerateAccessToken(h, u) \/ ChangePassword(h, u)
             \/ UpdateSelf(h, u) \/ DeleteUser(h, u)
             \/ \E op \in {"disable", "enable", "remove", "edit"} : ManageUser(h, u, op)
  BY <1>4, CreateRequest, ReadRequests, BlindRequests DEF Manages
<1> QED BY <1>1, <1>2, <1>3, <1>4 DEF Request
-----------------------------------------------------------------------------
(* Steps of a handler                                                       *)
LEMMA JobOf ==
    ASSUME Inv, NEW h \in Handlers
    PROVE  /\ job[h] \in Jobs /\ job[h].copy \in Rows /\ job[h].op \in Ops
           /\ job[h].user \in Users \cup {NoUser} /\ job[h].email \in Emails \cup {""}
           /\ job[h].code \in Nat /\ job[h].password \in Nat /\ job[h].held \in Nat
           /\ Good(pc[h], job[h], ceiling, erased)
  BY DEF Inv, AccountTypes, Jobs, CopyInv

LEMMA Ceilings ==
    ASSUME Inv
    PROVE  /\ row \in [Users -> Rows] /\ ceiling \in [Users -> Int]
           /\ reserved \in [Users -> Nat] /\ erased \in [Users -> Nat]
           /\ \A u \in Users : /\ row[u] \in Rows /\ row[u].quota \in Int /\ ceiling[u] \in Int
                               /\ reserved[u] \in Nat /\ erased[u] \in Nat
           /\ mail \subseteq Mails /\ minted \in Nat
  BY DEF Inv, AccountTypes, Rows

(* QuotaWithinGrants and Unreserved of one user.                            *)
LEMMA Quotas ==
    ASSUME Inv, NEW u \in Users
    PROVE  /\ row[u].quota + reserved[u] <= ceiling[u] + erased[u]
           /\ row[u].status = "" => reserved[u] = 0
<1>1. QuotaWithinGrants /\ Unreserved
  BY DEF Inv
<1>2. row[u].quota + reserved[u] <= ceiling[u] + erased[u]
  BY <1>1, Ceilings DEF QuotaWithinGrants
<1>3. row[u].status = "" => reserved[u] = 0
  BY <1>1 DEF Unreserved
<1> QED BY <1>2, <1>3

LEMMA SameAt ==
    ASSUME Inv, NEW u \in Users
    PROVE  /\ ceiling = [ceiling EXCEPT ![u] = ceiling[u]]
           /\ reserved = [reserved EXCEPT ![u] = reserved[u]]
           /\ erased = [erased EXCEPT ![u] = erased[u]]
           /\ erased[u] \in Nat /\ erased[u] >= erased[u]
  BY Ceilings

LEMMA LargerIs ==
    ASSUME NEW a \in Int, NEW b \in Int
    PROVE  Larger(a, b) \in Int /\ Larger(a, b) >= a /\ Larger(a, b) >= b
  BY DEF Larger

LEMMA ExcessIs ==
    ASSUME NEW a \in Nat, NEW b \in Nat
    PROVE  Excess(a, b) \in Nat /\ Excess(a, b) >= a - b
  BY DEF Excess

LEMMA Set ==
    ASSUME Inv, NEW u \in Users, NEW r \in Rows, NEW k \in Int, NEW w \in Nat, NEW o \in Nat,
           row' = [row EXCEPT ![u] = r], ceiling' = [ceiling EXCEPT ![u] = k],
           reserved' = [reserved EXCEPT ![u] = w], erased' = [erased EXCEPT ![u] = o],
           k >= ceiling[u], o >= erased[u]
    PROVE  /\ Rising
           /\ row' \in [Users -> Rows] /\ ceiling' \in [Users -> Int]
           /\ reserved' \in [Users -> Nat] /\ erased' \in [Users -> Nat]
           /\ row'[u] = r /\ ceiling'[u] = k /\ reserved'[u] = w /\ erased'[u] = o
           /\ \A v \in Users \ {u} : /\ row'[v] = row[v] /\ ceiling'[v] = ceiling[v]
                                      /\ reserved'[v] = reserved[v] /\ erased'[v] = erased[v]
<1>1. /\ row' \in [Users -> Rows] /\ ceiling' \in [Users -> Int]
      /\ reserved' \in [Users -> Nat] /\ erased' \in [Users -> Nat]
      /\ row'[u] = r /\ ceiling'[u] = k /\ reserved'[u] = w /\ erased'[u] = o
      /\ \A v \in Users \ {u} : /\ row'[v] = row[v] /\ ceiling'[v] = ceiling[v]
                                 /\ reserved'[v] = reserved[v] /\ erased'[v] = erased[v]
  BY Ceilings
<1>2. Rising
  BY <1>1, Ceilings DEF Rising
<1> QED BY <1>1, <1>2

(* A step of one row: the others are as sound as they were.                 *)
LEMMA OneRow ==
    ASSUME Inv, NEW u \in Users, NEW r \in Rows, NEW k \in Int, NEW w \in Nat, NEW o \in Nat,
           row' = [row EXCEPT ![u] = r], ceiling' = [ceiling EXCEPT ![u] = k],
           reserved' = [reserved EXCEPT ![u] = w], erased' = [erased EXCEPT ![u] = o],
           k >= ceiling[u], o >= erased[u],
           NEW n \in Int, r.quota = n, n + w <= k + o, r.status = "" => w = 0
    PROVE  /\ row' \in [Users -> Rows] /\ ceiling' \in [Users -> Int]
           /\ reserved' \in [Users -> Nat] /\ erased' \in [Users -> Nat]
           /\ Rising /\ QuotaWithinGrants' /\ Unreserved'
<1>1. /\ row' \in [Users -> Rows] /\ ceiling' \in [Users -> Int]
      /\ reserved' \in [Users -> Nat] /\ erased' \in [Users -> Nat]
      /\ row'[u] = r /\ ceiling'[u] = k /\ reserved'[u] = w /\ erased'[u] = o
      /\ \A v \in Users \ {u} : /\ row'[v] = row[v] /\ ceiling'[v] = ceiling[v]
                                 /\ reserved'[v] = reserved[v] /\ erased'[v] = erased[v]
  BY Set
<1>2. Rising
  BY Set
<1>3. ASSUME NEW v \in Users
      PROVE  /\ row'[v].quota + reserved'[v] <= ceiling'[v] + erased'[v]
             /\ row'[v].status = "" => reserved'[v] = 0
  <2>1. CASE v = u
    BY <1>1, <2>1
  <2>2. CASE v # u
    <3>1. /\ row'[v] = row[v] /\ ceiling'[v] = ceiling[v]
          /\ reserved'[v] = reserved[v] /\ erased'[v] = erased[v]
      BY <1>1, <2>2
    <3> QED BY <3>1, Quotas
  <2> QED BY <2>1, <2>2
<1>4. QuotaWithinGrants'
  BY <1>3 DEF QuotaWithinGrants
<1>5. Unreserved'
  BY <1>3 DEF Unreserved
<1> QED BY <1>1, <1>2, <1>4, <1>5

LEMMA CheckInv ==
    ASSUME Inv, NEW h \in Handlers, NEW taken, NEW blind, Checked(h, taken, blind)
    PROVE  Inv'
<1>1. UNCHANGED <<row, ceiling, reserved, erased>> /\ mail' \subseteq Mails /\ minted' \in Nat
  BY DEF Checked, stored, Inv, AccountTypes
<1>2. CASE Goto(h, "mint", job[h])
  BY <1>1, <1>2, JobOf, JustMoves DEF Labels, Good
<1>3. CASE Refuse(h)
  BY <1>1, <1>3, DoneInv DEF Refuse
<1> QED BY <1>2, <1>3 DEF Checked

LEMMA MintInv ==
    ASSUME Inv, NEW h \in Handlers, Mint(h)
    PROVE  Inv'
<1>1. minted' \in Nat /\ UNCHANGED <<row, ceiling, reserved, erased>>
  BY DEF Mint, history, Inv, AccountTypes
<1>2. mail' \subseteq Mails
  <2>1. mail \subseteq Mails /\ job[h].email \in Emails \cup {""} /\ minted + 1 \in Nat
    <3>1. mail \subseteq Mails /\ minted + 1 \in Nat
      BY Ceilings
    <3> QED BY <3>1, JobOf
  <2>2. \A p \in Purposes :
          [purpose |-> p, email |-> job[h].email, code |-> minted + 1] \in Mails
    BY <2>1 DEF Mails
  <2>3. \/ mail' = mail
        \/ \E p \in Purposes :
             mail' = mail \cup {[purpose |-> p, email |-> job[h].email, code |-> minted + 1]}
    BY DEF Mint, Purposes
  <2>4. CASE mail' = mail
    BY <2>1, <2>4
  <2>5. ASSUME NEW m \in Mails, mail' = mail \cup {m} PROVE mail' \subseteq Mails
    BY <2>1, <2>5
  <2> QED BY <2>2, <2>3, <2>4, <2>5
<1>3. Done(h, TRUE, 0) \/ Done(h, FALSE, 0)
  BY DEF Mint, Refuse
<1> QED BY <1>1, <1>2, <1>3, DoneInv

LEMMA VerifyInv ==
    ASSUME Inv, NEW h \in Handlers, VerifyCode(h)
    PROVE  Inv'
<1>1. UNCHANGED <<row, ceiling, reserved, erased>> /\ mail' \subseteq Mails /\ minted' \in Nat
  BY DEF VerifyCode, stored, Inv, AccountTypes
<1>2. CASE Refuse(h)
  BY <1>1, <1>2, DoneInv DEF Refuse
<1>3. CASE Goto(h, IF job[h].op = "reset" THEN "setPassword"
                   ELSE IF job[h].op = "bind" THEN "read" ELSE "insert", job[h])
  <2>1. /\ job[h].op \in {"reset", "bind", "register"}
        /\ job[h].op # "reset" => job[h].user \in Users
    BY JobOf DEF VerifyCode, Good
  <2>2. CASE job[h].op = "reset"
    <3>1. Goto(h, "setPassword", job[h])
      BY <1>3, <2>2
    <3>2. Good("setPassword", job[h], ceiling, erased)
      BY DEF Good
    <3> QED BY <1>1, <3>1, <3>2, JobOf, JustMoves DEF Labels
  <2>3. CASE job[h].op = "bind"
    <3>1. Goto(h, "read", job[h])
      BY <1>3, <2>3
    <3>2. Good("read", job[h], ceiling, erased)
      BY <2>1, <2>3 DEF Good, Reads
    <3> QED BY <1>1, <3>1, <3>2, JobOf, JustMoves DEF Labels
  <2>4. CASE job[h].op = "register"
    <3>1. Goto(h, "insert", job[h])
      BY <1>3, <2>4
    <3>2. Good("insert", job[h], ceiling, erased)
      BY <2>1, <2>4 DEF Good
    <3> QED BY <1>1, <3>1, <3>2, JobOf, JustMoves DEF Labels
  <2> QED BY <2>1, <2>2, <2>3, <2>4
<1> QED BY <1>2, <1>3 DEF VerifyCode

LEMMA PasswordInv ==
    ASSUME Inv, NEW h \in Handlers, SetPassword(h)
    PROVE  Inv'
<1> DEFINE j == [job[h] EXCEPT !.password = minted + 1]
<1>1. minted' \in Nat /\ mail' \subseteq Mails /\ minted + 1 \in Nat
      /\ UNCHANGED <<ceiling, reserved, erased>>
  BY Ceilings DEF SetPassword
<1>2. j \in Jobs
  BY <1>1, JobOf DEF Jobs
<1>3. ASSUME NEW u \in Users
      PROVE  /\ row'[u] \in Rows /\ row'[u].quota = row[u].quota
             /\ row'[u].status = row[u].status
  <2>1. [row[u] EXCEPT !.password = minted + 1] \in Rows
    BY <1>1, Ceilings DEF Rows
  <2>2. /\ [row[u] EXCEPT !.password = minted + 1].quota = row[u].quota
        /\ [row[u] EXCEPT !.password = minted + 1].status = row[u].status
    BY Ceilings DEF Rows
  <2>3. row'[u] = [row[u] EXCEPT !.password = minted + 1] \/ row'[u] = row[u]
    BY DEF SetPassword
  <2> QED BY <2>1, <2>2, <2>3, Ceilings
<1>4. row' \in [Users -> Rows]
  BY <1>3 DEF SetPassword
<1>5. Rising /\ QuotaWithinGrants' /\ Unreserved'
  <2>1. Rising
    BY <1>1, Ceilings DEF Rising
  <2>2. \A u \in Users : /\ row'[u].quota = row[u].quota /\ row'[u].status = row[u].status
                         /\ ceiling'[u] = ceiling[u] /\ erased'[u] = erased[u]
                         /\ reserved'[u] = reserved[u]
    BY <1>1, <1>3
  <2>3. QuotaWithinGrants'
    BY <2>2, Quotas, Zenon DEF QuotaWithinGrants
  <2>4. Unreserved'
    BY <2>2, Quotas, Zenon DEF Unreserved
  <2> QED BY <2>1, <2>3, <2>4
<1>6. \A k : Good("deleteKey", k, ceiling', erased')
  BY DEF Good
<1>7. Overtake(h, Owners(job[h].email), "deleteKey", j)
  BY DEF SetPassword
<1> HIDE DEF j
<1> QED BY <1>1, <1>2, <1>4, <1>5, <1>6, <1>7, Ceilings, WriterInv DEF Labels

LEMMA DeleteKeyInv ==
    ASSUME Inv, NEW h \in Handlers, DeleteKey(h)
    PROVE  Inv'
  BY JobOf, Ceilings, DoneInv DEF DeleteKey, history

LEMMA InsertInv ==
    ASSUME Inv, NEW h \in Handlers, NEW q \in Int, Insert(h, q)
    PROVE  Inv'
<1> DEFINE u == job[h].user
<1>0. u \in Users /\ job[h].email \in Emails \cup {""} /\ mail' \subseteq Mails
  BY JobOf, Ceilings DEF Insert, Good
<1>1. CASE Refuse(h) /\ UNCHANGED <<row, minted, ceiling, setBy>>
  BY <1>0, <1>1, Ceilings, DoneInv DEF Refuse, Insert
<1>2. CASE /\ row[u].status = ""
           /\ row' = [row EXCEPT ![u] = Row("enabled", job[h].email, minted + 1, q)]
           /\ minted' = minted + 1
           /\ ceiling' = [ceiling EXCEPT ![u] = Larger(@, q)]
           /\ Overtake(h, {u}, After(h, TRUE, 0).pc, After(h, TRUE, 0).job)
  <2> DEFINE r == Row("enabled", job[h].email, minted + 1, q)
  <2>1. minted' \in Nat /\ minted + 1 \in Nat /\ "enabled" \in Statuses \cup {""}
    <3>1. minted \in Nat
      BY Ceilings
    <3>2. minted' = minted + 1
      BY <1>2
    <3>3. "enabled" \in Statuses
      BY DEF Statuses
    <3> QED BY <3>1, <3>2, <3>3
  <2>2. r \in Rows
    BY <1>0, <2>1, NewRow
  <2>3. r.quota = q
    BY DEF Row
  <2>4. /\ reserved[u] = 0 /\ reserved' = [reserved EXCEPT ![u] = 0]
        /\ erased[u] \in Nat /\ erased' = [erased EXCEPT ![u] = erased[u]]
    <3>1. row[u].status = "" /\ UNCHANGED <<reserved, erased>>
      BY <1>2 DEF Insert
    <3> HIDE DEF u
    <3> QED BY <1>0, <3>1, Ceilings, Quotas, SameAt
  <2>5. /\ ceiling[u] \in Int /\ Larger(ceiling[u], q) \in Int
        /\ Larger(ceiling[u], q) >= ceiling[u] /\ Larger(ceiling[u], q) >= q
        /\ ceiling' = [ceiling EXCEPT ![u] = Larger(ceiling[u], q)]
    <3>1. ceiling[u] \in Int
      BY <1>0, Ceilings
    <3> QED BY <1>2, <3>1, LargerIs
  <2> DEFINE k == Larger(ceiling[u], q)
  <2> HIDE DEF r, k
  <2>6. /\ row' \in [Users -> Rows] /\ ceiling' \in [Users -> Int]
        /\ reserved' \in [Users -> Nat] /\ erased' \in [Users -> Nat]
        /\ Rising /\ QuotaWithinGrants' /\ Unreserved'
    <3>1. row' = [row EXCEPT ![u] = r] /\ ceiling' = [ceiling EXCEPT ![u] = k]
      BY <1>2, <2>5 DEF r, k
    <3>2. k \in Int /\ k >= ceiling[u] /\ erased[u] >= erased[u] /\ q + 0 <= k + erased[u]
      BY <2>4, <2>5 DEF k
    <3> DEFINE o == erased[u]
    <3> DEFINE w == 0
    <3>3. /\ o \in Nat /\ o >= erased[u] /\ w \in Nat /\ q + w <= k + o
          /\ reserved' = [reserved EXCEPT ![u] = w] /\ erased' = [erased EXCEPT ![u] = o]
          /\ r.status = "" => w = 0
      BY <2>4, <3>2
    <3> HIDE DEF u, o, w
    <3> QED BY <1>0, <2>2, <2>3, <3>1, <3>2, <3>3, OneRow
  <2>7. PICK l \in {"done", "idle"}, j \in Jobs : Overtake(h, {u}, l, j)
    BY <1>2, AfterTyped DEF Inv
  <2> QED BY <1>0, <2>1, <2>6, <2>7, Ended, WriterInv
<1> QED BY <1>1, <1>2 DEF Insert
(* What a handler makes of a row has its quota, or none.                    *)
LEMMA ChangedRow ==
    ASSUME Inv, NEW h \in Handlers, NEW r \in Rows, job[h].op \in Reads
    PROVE  /\ Changed(h, r) \in Rows
           /\ Changed(h, r).quota \in {0, r.quota}
<1>0. job[h].email \in Emails \cup {""} /\ minted + 1 \in Nat
  <2>1. minted + 1 \in Nat
    BY Ceilings
  <2> QED BY <2>1, JobOf
<1>1. CASE job[h].op = "bind"
  BY <1>0, <1>1 DEF Changed, Rows
<1>2. CASE job[h].op = "token"
  BY <1>2 DEF Changed
<1>3. CASE job[h].op = "password"
  <2>1. Changed(h, r) = [Absent EXCEPT !.password = minted + 1]
    BY <1>3 DEF Changed
  <2> QED BY <1>0, <2>1, NothingRead DEF Rows
<1>4. CASE job[h].op = "disable"
  BY <1>4 DEF Changed, Rows, Statuses
<1>5. CASE job[h].op = "enable"
  BY <1>5 DEF Changed, Rows, Statuses
<1>6. CASE job[h].op = "remove"
  BY <1>6 DEF Changed, Rows, Statuses
<1>7. CASE job[h].op = "edit"
  BY <1>7 DEF Changed, Rows
<1> QED BY <1>1, <1>2, <1>3, <1>4, <1>5, <1>6, <1>7 DEF Reads

LEMMA CopiedInv ==
    ASSUME Inv, NEW h \in Handlers, NEW r \in Rows, Copied(h, r),
           \/ r.quota = 0
           \/ job[h].user \in Users =>
                r.quota + reserved[job[h].user] <= ceiling[job[h].user] + erased[job[h].user]
    PROVE  Inv'
<1>1. job[h].op \in Reads /\ job[h].user \in Users
  BY JobOf DEF Copied, Good
<1> DEFINE c == Changed(h, r)
<1>2. c \in Rows /\ c.quota \in {0, r.quota}
  BY <1>1, ChangedRow
<1> DEFINE w == reserved[job[h].user]
<1> DEFINE j == [job[h] EXCEPT !.copy = c, !.held = w, !.old = FALSE]
<1> DEFINE l == IF job[h].op = "edit" THEN "form" ELSE "ban"
<1>3. Goto(h, l, j) /\ UNCHANGED <<row, ceiling, reserved, erased>> /\ mail' \subseteq Mails
  BY Ceilings DEF Copied, history
<1>4. minted' \in Nat
  <2>1. minted' = minted \/ minted' = minted + 1
    BY DEF Copied
  <2> QED BY <2>1, Ceilings
<1>a. w \in Nat
  BY <1>1, Ceilings
<1> HIDE DEF c, w
<1>5. j \in Jobs /\ j.op = job[h].op /\ j.user = job[h].user /\ j.copy = c /\ j.held = w
  BY <1>2, <1>a, JobOf DEF Jobs
<1> HIDE DEF j
<1>6. l \in {"form", "ban"} /\ (l = "form" => job[h].op = "edit")
  OBVIOUS
<1> HIDE DEF l
<1>7. Good(l, j, ceiling, erased)
  BY <1>1, <1>2, <1>5, <1>6 DEF Good, w
<1> QED BY <1>3, <1>4, <1>5, <1>6, <1>7, JustMoves DEF Labels

LEMMA ReadInv ==
    ASSUME Inv, NEW h \in Handlers, Read(h) \/ ReadFails(h)
    PROVE  Inv'
<1>1. CASE Read(h)
  <2>1. job[h].user \in Users
    BY <1>1, JobOf DEF Read, Copied, Good
  <2>2. /\ row[job[h].user] \in Rows
        /\ row[job[h].user].quota + reserved[job[h].user] <=
             ceiling[job[h].user] + erased[job[h].user]
    BY <2>1, Ceilings, Quotas
  <2> QED BY <1>1, <2>1, <2>2, CopiedInv DEF Read
<1>2. CASE ReadFails(h) /\ Copied(h, Absent)
  BY <1>2, NothingRead, CopiedInv
<1>3. CASE Refuse(h) /\ UNCHANGED <<stored, history>>
  BY <1>3, Ceilings, DoneInv DEF Refuse, stored, history
<1> QED BY <1>1, <1>2, <1>3 DEF ReadFails

LEMMA SubmitInv ==
    ASSUME Inv, NEW h \in Handlers, NEW q \in Int, Submit(h, q)
    PROVE  Inv'
<1>1. job[h].op = "edit" /\ job[h].user \in Users
  BY JobOf DEF Submit, Good
<1> DEFINE c == [job[h].copy EXCEPT !.quota = q]
<1>2. c \in Rows
  BY JobOf DEF Rows
<1> DEFINE j == [job[h] EXCEPT !.copy = c]
<1>3. Goto(h, "ban", j) /\ UNCHANGED <<row, ceiling, reserved, erased, mail, minted>>
  BY DEF Submit, stored, history
<1> HIDE DEF c
<1>4. j \in Jobs /\ j.op = "edit" /\ j.user \in Users
  BY <1>1, <1>2, JobOf DEF Jobs
<1> HIDE DEF j
<1>5. Good("ban", j, ceiling, erased)
  BY <1>4 DEF Good
<1> QED BY <1>3, <1>4, <1>5, Ceilings, JustMoves DEF Labels

LEMMA BanInv ==
    ASSUME Inv, NEW h \in Handlers, Ban(h)
    PROVE  Inv'
<1>1. Goto(h, "write", job[h]) /\ UNCHANGED <<row, ceiling, reserved, erased, mail, minted>>
  BY DEF Ban, history
<1>2. Good("write", job[h], ceiling, erased)
  BY JobOf DEF Ban, Good
<1> QED BY <1>1, <1>2, JobOf, Ceilings, JustMoves DEF Labels

LEMMA UpdatesTyped ==
    ASSUME NEW r \in Rows, NEW c \in Rows
    PROVE  /\ Updates(r, c) \in Rows
           /\ Updates(r, c).quota = IF c.quota = 0 THEN r.quota ELSE c.quota
           /\ Updates(r, c).status = "" => r.status = ""
<1> DEFINE s == IF c.status = "" THEN r.status ELSE c.status
<1> DEFINE e == IF c.email = "" THEN r.email ELSE c.email
<1> DEFINE p == IF c.password = 0 THEN r.password ELSE c.password
<1> DEFINE q == IF c.quota = 0 THEN r.quota ELSE c.quota
<1>1. s \in Statuses \cup {""} /\ e \in Emails \cup {""} /\ p \in Nat /\ q \in Int
  BY DEF Rows
<1>2. Updates(r, c) = Row(s, e, p, q)
  BY DEF Updates
<1> HIDE DEF s, e, p, q
<1>3. Row(s, e, p, q) \in Rows /\ Row(s, e, p, q).quota = q
  BY <1>1, NewRow
<1>4. Row(s, e, p, q).status = s
  BY NewRowStatus
<1>5. s = "" => r.status = ""
  BY DEF s
<1> QED BY <1>2, <1>3, <1>4, <1>5 DEF q

LEMMA WriteInv ==
    ASSUME Inv, NEW h \in Handlers, Write(h)
    PROVE  Inv'
<1> DEFINE u == job[h].user
<1> DEFINE c == job[h].copy
<1> DEFINE w == job[h].held
<1>1. /\ u \in Users /\ c \in Rows /\ w \in Nat
      /\ job[h].op = "edit" \/ c.quota = 0 \/ c.quota + w <= ceiling[u] + erased[u]
  BY JobOf DEF Write, Good
<1> DEFINE r == Updates(row[u], c)
<1> DEFINE k == IF job[h].op = "edit" THEN Larger(ceiling[u], c.quota) ELSE ceiling[u]
<1> DEFINE o == IF job[h].op = "edit" THEN Larger(erased[u], reserved[u])
                ELSE IF c.quota # 0 THEN erased[u] + Excess(reserved[u], w) ELSE erased[u]
<1> DEFINE n == r.quota
<1> DEFINE m == c.quota
<1>2. /\ ceiling[u] \in Int /\ reserved[u] \in Nat /\ erased[u] \in Nat /\ m \in Int
      /\ row[u].quota \in Int /\ row[u].quota + reserved[u] <= ceiling[u] + erased[u]
      /\ row[u].status = "" => reserved[u] = 0
  <2>1. m \in Int
    BY <1>1 DEF Rows
  <2> QED BY <1>1, <2>1, Ceilings, Quotas
<1>3. /\ r \in Rows /\ n = IF m = 0 THEN row[u].quota ELSE m
      /\ r.status = "" => row[u].status = ""
  BY <1>1, Ceilings, UpdatesTyped
<1>4. /\ k \in Int /\ k >= ceiling[u] /\ o \in Nat /\ o >= erased[u]
      /\ job[h].op = "edit" => k >= m /\ o >= reserved[u]
      /\ job[h].op # "edit" => k = ceiling[u]
      /\ job[h].op # "edit" /\ m # 0 => o >= erased[u] + (reserved[u] - w)
  <2> DEFINE a == reserved[u]
  <2> DEFINE b == erased[u]
  <2> DEFINE d == ceiling[u]
  <2>1. a \in Nat /\ b \in Nat /\ d \in Int /\ m \in Int /\ w \in Nat
    BY <1>1, <1>2
  <2>2. /\ k = IF job[h].op = "edit" THEN Larger(d, m) ELSE d
        /\ o = IF job[h].op = "edit" THEN Larger(b, a)
               ELSE IF m # 0 THEN b + Excess(a, w) ELSE b
    OBVIOUS
  <2> HIDE DEF a, b, d, m, w, k, o
  <2> SUFFICES /\ k \in Int /\ k >= d /\ o \in Nat /\ o >= b
               /\ job[h].op = "edit" => k >= m /\ o >= a
               /\ job[h].op # "edit" => k = d
               /\ job[h].op # "edit" /\ m # 0 => o >= b + (a - w)
    BY DEF a, b, d
  <2>3. CASE job[h].op = "edit"
    BY <2>1, <2>2, <2>3, LargerIs
  <2>4. CASE job[h].op # "edit" /\ m # 0
    <3>1. k = d /\ o = b + Excess(a, w)
      BY <2>2, <2>4
    <3>2. Excess(a, w) \in Nat /\ Excess(a, w) >= a - w
      BY <2>1, ExcessIs
    <3> QED BY <2>1, <2>4, <3>1, <3>2
  <2>5. CASE job[h].op # "edit" /\ m = 0
    <3>1. k = d /\ o = b
      BY <2>2, <2>5
    <3> QED BY <2>1, <2>5, <3>1
  <2> QED BY <2>3, <2>4, <2>5
<1>6. /\ row' = [row EXCEPT ![u] = r] /\ ceiling' = [ceiling EXCEPT ![u] = k]
      /\ erased' = [erased EXCEPT ![u] = o] /\ reserved' = reserved
  BY DEF Write, WritesOver
<1>7. mail' \subseteq Mails /\ minted' \in Nat
  BY Ceilings DEF Write
<1>8. PICK l \in {"done", "idle", "rewrite"}, j \in Jobs :
        /\ l = "rewrite" => j = job[h]
        /\ Overtake(h, {u}, l, j)
  <2>1. CASE Overtake(h, {u}, "rewrite", job[h])
    BY <2>1, JobOf
  <2>2. CASE Overtake(h, {u}, After(h, TRUE, 0).pc, After(h, TRUE, 0).job)
    BY <2>2, AfterTyped DEF Inv
  <2> QED BY <2>1, <2>2 DEF Write
<1>5. n + reserved[u] <= k + o
  <2> DEFINE a == reserved[u]
  <2> DEFINE b == erased[u]
  <2> DEFINE d == ceiling[u]
  <2> DEFINE q == row[u].quota
  <2>1. /\ a \in Nat /\ b \in Nat /\ d \in Int /\ m \in Int /\ w \in Nat /\ q \in Int
        /\ n = (IF m = 0 THEN q ELSE m) /\ q + a <= d + b
        /\ job[h].op = "edit" \/ m = 0 \/ m + w <= d + b
    BY <1>1, <1>2, <1>3
  <2>2. /\ k \in Int /\ k >= d /\ o \in Nat /\ o >= b
        /\ job[h].op = "edit" => k >= m /\ o >= a
        /\ job[h].op # "edit" => k = d
        /\ job[h].op # "edit" /\ m # 0 => o >= b + (a - w)
    BY <1>4
  <2> SUFFICES n + a <= k + o
    OBVIOUS
  <2> HIDE DEF a, b, d, q, n, m, w, k, o
  <2>3. CASE m = 0
    BY <2>1, <2>2, <2>3
  <2>4. CASE m # 0 /\ job[h].op = "edit"
    BY <2>1, <2>2, <2>4
  <2>5. CASE m # 0 /\ job[h].op # "edit"
    BY <2>1, <2>2, <2>5
  <2> QED BY <2>3, <2>4, <2>5
<1> HIDE DEF r, k, o
<1>10. /\ row' \in [Users -> Rows] /\ ceiling' \in [Users -> Int]
       /\ reserved' \in [Users -> Nat] /\ erased' \in [Users -> Nat]
       /\ Rising /\ QuotaWithinGrants' /\ Unreserved'
  <2>1. reserved' = [reserved EXCEPT ![u] = reserved[u]]
    <3> HIDE DEF u
    <3> QED BY <1>1, <1>6, Ceilings
  <2> QED BY <1>1, <1>2, <1>3, <1>4, <1>5, <1>6, <2>1, OneRow
<1>11. Good(l, j, ceiling', erased')
  <2>1. CASE l = "rewrite"
    <3>1. j = job[h]
      BY <1>8, <2>1
    <3>2. job[h].op = "edit" \/ c.quota = 0 \/ c.quota + w <= ceiling'[u] + erased'[u]
      <4>1. /\ ceiling'[u] >= ceiling[u] /\ ceiling'[u] \in Int
            /\ erased'[u] >= erased[u] /\ erased'[u] \in Int
        BY <1>1, <1>10 DEF Rising
      <4> DEFINE d == ceiling[u]
      <4> DEFINE b == erased[u]
      <4> DEFINE e == ceiling'[u]
      <4> DEFINE f == erased'[u]
      <4>2. /\ m \in Int /\ w \in Nat /\ d \in Int /\ b \in Nat
            /\ job[h].op = "edit" \/ m = 0 \/ m + w <= d + b
            /\ e >= d /\ e \in Int /\ f >= b /\ f \in Int
        BY <1>1, <1>2, <4>1
      <4> SUFFICES job[h].op = "edit" \/ m = 0 \/ m + w <= e + f
        OBVIOUS
      <4> HIDE DEF d, b, e, f, m, w
      <4> QED BY <4>2
    <3> QED BY <1>1, <2>1, <3>1, <3>2 DEF Good
  <2>2. CASE l \in {"done", "idle"}
    BY <2>2, Ended
  <2> QED BY <2>1, <2>2
<1>12. l \in Labels
  BY DEF Labels
<1> QED BY <1>7, <1>8, <1>10, <1>11, <1>12, WriterInv

LEMMA FailsInv ==
    ASSUME Inv, NEW h \in Handlers, StatementFails(h)
    PROVE  Inv'
  BY Ceilings, DoneInv DEF StatementFails, Refuse, stored

LEMMA StepInv ==
    ASSUME Inv, NEW h \in Handlers, Step(h)
    PROVE  Inv'
<1>1. CASE Check(h) \/ CheckFails(h)
  BY <1>1, CheckInv DEF Check, CheckFails
<1>2. CASE Insert(h, NewUserQuota)
  BY <1>2, Amounts, InsertInv
<1>3. CASE \E q \in Forms : job[h].op = "create" /\ q # 0 /\ Insert(h, q)
  BY <1>3, Amounts, InsertInv
<1>4. CASE Submit(h, job[h].copy.quota)
  <2>1. job[h].copy.quota \in Int
    BY JobOf DEF Rows
  <2> QED BY <1>4, <2>1, SubmitInv
<1>5. CASE \E q \in Forms : Submit(h, q)
  BY <1>5, Amounts, SubmitInv
<1> QED BY <1>1, <1>2, <1>3, <1>4, <1>5, MintInv, VerifyInv, PasswordInv, DeleteKeyInv,
           ReadInv, BanInv, WriteInv, FailsInv DEF Step

-----------------------------------------------------------------------------
(* The rest of the process                                                  *)
LEMMA QuotaSet ==
    ASSUME Inv, NEW u \in Users, NEW q \in Int, NEW k \in Int, NEW w \in Nat, k >= ceiling[u],
           q + w <= k + erased[u], row[u].status = "" => w = 0,
           row' = [row EXCEPT ![u] = [row[u] EXCEPT !.quota = q]],
           ceiling' = [ceiling EXCEPT ![u] = k],
           reserved' = [reserved EXCEPT ![u] = w],
           UNCHANGED <<pc, job, mail, minted, erased>>
    PROVE  Inv'
<1> DEFINE r == [row[u] EXCEPT !.quota = q]
<1>1. r \in Rows /\ r.quota = q /\ r.status = row[u].status
  BY Ceilings DEF Rows
<1> HIDE DEF r
<1>2. row' = [row EXCEPT ![u] = r]
  BY DEF r
<1>3. erased' = [erased EXCEPT ![u] = erased[u]] /\ erased[u] \in Nat /\ erased[u] >= erased[u]
  BY SameAt, Zenon
<1> QED BY <1>1, <1>2, <1>3, OneRow, NobodyMoves

LEMMA QuotaInv ==
    ASSUME Inv, NEW u \in Users, NEW v \in Nat,
           \/ PreConsume(u, v) \/ AdminTopUp(u, v)
           \/ \E q \in Nat : Settle(u, v, q)
    PROVE  Inv'
<1>1. /\ row[u].quota \in Int /\ ceiling[u] \in Int /\ reserved[u] \in Nat /\ erased[u] \in Nat
      /\ row[u].quota + reserved[u] <= ceiling[u] + erased[u]
      /\ ceiling = [ceiling EXCEPT ![u] = ceiling[u]]
      /\ reserved = [reserved EXCEPT ![u] = reserved[u]]
  BY Ceilings, Quotas, SameAt
<1>2. UNCHANGED <<pc, job, mail, minted, erased>> /\ row[u].status # ""
  BY DEF PreConsume, Settle, AdminTopUp
<1>3. CASE PreConsume(u, v)
  <2>1. /\ row' = [row EXCEPT ![u] = [row[u] EXCEPT !.quota = row[u].quota - v]]
        /\ ceiling' = [ceiling EXCEPT ![u] = ceiling[u]]
        /\ reserved' = [reserved EXCEPT ![u] = reserved[u] + v]
    BY <1>1, <1>3, Ceilings DEF PreConsume
  <2>2. /\ row[u].quota - v \in Int /\ reserved[u] + v \in Nat /\ ceiling[u] >= ceiling[u]
        /\ (row[u].quota - v) + (reserved[u] + v) <= ceiling[u] + erased[u]
    BY <1>1
  <2> QED BY <1>1, <1>2, <2>1, <2>2, QuotaSet
<1>4. CASE AdminTopUp(u, v)
  <2>1. /\ row' = [row EXCEPT ![u] = [row[u] EXCEPT !.quota = row[u].quota + v]]
        /\ ceiling' = [ceiling EXCEPT ![u] = ceiling[u] + v]
        /\ reserved' = [reserved EXCEPT ![u] = reserved[u]]
    BY <1>1, <1>4, Ceilings DEF AdminTopUp
  <2>2. /\ row[u].quota + v \in Int /\ ceiling[u] + v \in Int /\ ceiling[u] + v >= ceiling[u]
        /\ (row[u].quota + v) + reserved[u] <= (ceiling[u] + v) + erased[u]
    BY <1>1
  <2> QED BY <1>1, <1>2, <2>1, <2>2, QuotaSet
<1>5. ASSUME NEW q \in Nat, Settle(u, v, q) PROVE Inv'
  <2>1. /\ row' = [row EXCEPT ![u] = [row[u] EXCEPT !.quota = row[u].quota - (q - v)]]
        /\ ceiling' = [ceiling EXCEPT ![u] = ceiling[u]]
        /\ reserved' = [reserved EXCEPT ![u] = reserved[u] - v]
        /\ v <= reserved[u]
    BY <1>1, <1>5, Ceilings DEF Settle
  <2>2. /\ row[u].quota - (q - v) \in Int /\ reserved[u] - v \in Nat /\ ceiling[u] >= ceiling[u]
        /\ (row[u].quota - (q - v)) + (reserved[u] - v) <= ceiling[u] + erased[u]
    BY <1>1, <2>1
  <2> QED BY <1>1, <1>2, <2>1, <2>2, QuotaSet
<1> QED BY <1>3, <1>4, <1>5

(* What was reserved is not given back: less is out.                        *)
LEMMA LostInv ==
    ASSUME Inv, UNCHANGED <<row, ceiling, erased>>, reserved' \in [Users -> Nat],
           \A u \in Users : reserved'[u] <= reserved[u]
    PROVE  Rising /\ QuotaWithinGrants' /\ Unreserved'
<1>1. \A u \in Users : reserved'[u] \in Nat /\ row'[u] = row[u] /\ reserved'[u] <= reserved[u]
                       /\ ceiling'[u] = ceiling[u] /\ erased'[u] = erased[u]
  OBVIOUS
<1>2. Rising
  BY <1>1, Ceilings DEF Rising
<1>3. ASSUME NEW u \in Users
      PROVE  row'[u].quota + reserved'[u] <= ceiling'[u] + erased'[u]
  <2> DEFINE q == row[u].quota
  <2>1. /\ q \in Int /\ q + reserved[u] <= ceiling[u] + erased[u] /\ row'[u].quota = q
        /\ reserved[u] \in Nat /\ ceiling[u] \in Int /\ erased[u] \in Nat
    BY <1>1, Ceilings, Quotas
  <2> HIDE DEF q
  <2> QED BY <1>1, <2>1
<1>4. ASSUME NEW u \in Users, row[u].status = "" PROVE reserved'[u] = 0
  <2>1. reserved[u] = 0
    BY <1>4, Quotas
  <2> QED BY <1>1, <2>1
<1>5. QuotaWithinGrants'
  BY <1>3 DEF QuotaWithinGrants
<1>6. Unreserved'
  BY <1>1, <1>4 DEF Unreserved
<1> QED BY <1>2, <1>5, <1>6

LEMMA SettleFailsInv ==
    ASSUME Inv, NEW u \in Users, NEW v \in Nat, SettleFails(u, v)
    PROVE  Inv'
<1>1. v <= reserved[u] /\ reserved' = [reserved EXCEPT ![u] = reserved[u] - v]
  BY DEF SettleFails
<1>2. reserved' \in [Users -> Nat] /\ \A w \in Users : reserved'[w] <= reserved[w]
  BY <1>1, Ceilings
<1>3. UNCHANGED <<row, ceiling, erased, pc, job, mail, minted>>
  BY DEF SettleFails, stored
<1> QED BY <1>2, <1>3, Ceilings, LostInv, NobodyMoves

LEMMA CrashInv ==
    ASSUME Inv, Crash
    PROVE  Inv'
<1>1. pc' \in [Handlers -> {"lost", "idle"}]
  BY DEF Crash
<1>2. job' \in [Handlers -> Jobs]
  <2>1. \A h \in Handlers : Answer(job[h].op, FALSE, 0) \in Jobs
    BY JobOf, AnswerTyped
  <2> QED BY <2>1, NoJobTyped DEF Crash
<1>3. AccountTypes' /\ QuotaWithinGrants' /\ Unreserved'
  <2>1. /\ UNCHANGED <<row, ceiling, erased, mail, minted>>
        /\ reserved' = [u \in Users |-> 0]
    BY DEF Crash
  <2>2. reserved' \in [Users -> Nat] /\ \A u \in Users : reserved'[u] <= reserved[u]
    BY <2>1, Ceilings
  <2> QED BY <1>1, <1>2, <2>1, <2>2, LostInv, Ceilings
             DEF AccountTypes, Labels
<1>4. \A h \in Handlers : CopyInv(h)'
  BY <1>1 DEF CopyInv, Good
<1> QED BY <1>3, <1>4 DEF Inv

LEMMA StillInv ==
    ASSUME Inv, UNCHANGED <<row, mail, minted, pc, job, ceiling, reserved, erased>>
    PROVE  Inv'
<1>2. Rising /\ QuotaWithinGrants' /\ Unreserved'
  BY Ceilings, LostInv
<1> QED BY <1>2, Ceilings, NobodyMoves

LEMMA ElsewhereInv ==
    ASSUME Inv, Elsewhere
    PROVE  Inv'
<1>1. CASE \E p \in Purposes, e \in Emails : CodeExpires(p, e)
  BY <1>1, StillInv DEF CodeExpires, history
<1>2. CASE \E u \in Users, v \in Prices : PreConsume(u, v) \/ SettleFails(u, v)
  BY <1>2, Amounts, QuotaInv, SettleFailsInv
<1>4. ASSUME NEW u \in Users, NEW v \in Prices \cup {0}, NEW q \in Prices \cup {0}, Settle(u, v, q)
      PROVE  Inv'
  <2>1. v \in Nat /\ q \in Nat
    BY Amounts
  <2> QED BY <1>4, <2>1, QuotaInv
<1>3. CASE \E u \in Users, v \in TopUps : AdminTopUp(u, v)
  BY <1>3, Amounts, QuotaInv
<1> QED BY <1>1, <1>2, <1>3, <1>4, CrashInv DEF Elsewhere

LEMMA NextInv == Inv /\ [Next]_vars => Inv'
<1> SUFFICES ASSUME Inv, [Next]_vars PROVE Inv'
  OBVIOUS
<1>1. CASE Next
  BY <1>1, ElsewhereInv, RequestInv, StepInv DEF Next
<1>2. CASE UNCHANGED vars
  BY <1>2, StillInv DEF vars, stored, history
<1> QED BY <1>1, <1>2
-----------------------------------------------------------------------------
(* The pages: every click is a request of Accounts or nothing at all, and   *)
(* an answer that arrives leaves the handler idle.                          *)
LEMMA ServerStillInv ==
    ASSUME Inv, ServerStill
    PROVE  Inv'
  BY StillInv DEF ServerStill, vars, stored, history

LEMMA FreesInv ==
    ASSUME Inv, NEW h \in Handlers, Frees(h)
    PROVE  Inv'
<1>1. Goto(h, "idle", NoJob) /\ UNCHANGED <<row, ceiling, reserved, erased, mail, minted>>
  BY DEF Frees, stored, history
<1>2. Good("idle", NoJob, ceiling, erased) /\ "idle" \in Labels
  BY Ended
<1> QED BY <1>1, <1>2, NoJobTyped, Ceilings, JustMoves

LEMMA ClickInv ==
    ASSUME Inv, NEW h \in Handlers,
           \/ AsksForLink(h)
           \/ \E spins : Confirms(h, spins) /\ link \in Mails
           \/ \E counts, asks, spins : AsksForCode(h, counts, asks, spins)
           \/ \E m \in Mails : \/ Register(h, "page", Self, m)
                               \/ EmailBind(h, "page", Self, m)
    PROVE  Inv'
<1>1. \/ ServerStill
      \/ SendPasswordResetEmail(h, "page", Address)
      \/ SendEmailVerification(h, "page", Address)
      \/ \E m \in Mails : \/ ResetPassword(h, "page", m)
                          \/ Register(h, "page", Self, m)
                          \/ EmailBind(h, "page", Self, m)
  BY DEF AsksForLink, Confirms, AsksForCode
<1> QED BY <1>1, PageAssumption, ServerStillInv, MailRequests, CodeRequests

(* A page's link is one that has been mailed, or none yet.                  *)
PageInv == Inv /\ link \in Mails

LEMMA PageStepInv ==
    ASSUME PageInv, PageStep
    PROVE  PageInv'
<1>0. Inv /\ link \in Mails /\ \A p : Mailed(p) \subseteq Mails
  BY DEF PageInv, Mailed, Inv, AccountTypes
<1>1. ASSUME NEW h \in Handlers,
             \/ DefaultPasswordResetForm(h) \/ AirPasswordResetForm(h)
             \/ ForgetPasswordForm(h)
      PROVE  PageInv'
  <2>1. AsksForLink(h)
    BY <1>1 DEF DefaultPasswordResetForm, AirPasswordResetForm, ForgetPasswordForm
  <2>2. link' = link
    BY <2>1 DEF AsksForLink, Clicks
  <2> QED BY <1>0, <2>1, <2>2, ClickInv DEF PageInv
<1>2. ASSUME NEW h \in Handlers,
             \/ DefaultPasswordResetConfirm(h) \/ AirPasswordResetConfirm(h)
             \/ ResetPasswordForm(h)
      PROVE  PageInv'
  <2>1. \E spins : Confirms(h, spins)
    BY <1>2 DEF DefaultPasswordResetConfirm, AirPasswordResetConfirm, ResetPasswordForm
  <2>2. link' = link
    BY <2>1 DEF Confirms, Clicks
  <2> QED BY <1>0, <2>1, <2>2, ClickInv DEF PageInv
<1>3. ASSUME NEW h \in Handlers,
             \/ DefaultRegisterCode(h) \/ AirRegisterCode(h) \/ BerryRegisterCode(h)
             \/ DefaultBindCode(h) \/ AirBindCode(h) \/ EmailModalCode(h)
      PROVE  PageInv'
  <2>1. \E counts, asks, spins : AsksForCode(h, counts, asks, spins)
    BY <1>3 DEF DefaultRegisterCode, AirRegisterCode, BerryRegisterCode, DefaultBindCode,
                AirBindCode, EmailModalCode
  <2>2. link' = link
    BY <2>1 DEF AsksForCode, Clicks
  <2> QED BY <1>0, <2>1, <2>2, ClickInv DEF PageInv
<1>4. ASSUME NEW h \in Handlers, NEW m \in Mailed(Verify_),
             \/ DefaultRegister(h, m) \/ AirRegister(h, m) \/ BerryRegister(h, m)
             \/ DefaultBindEmail(h, m) \/ AirBindEmail(h, m) \/ EmailModalSubmit(h, m)
      PROVE  PageInv'
  <2>1. /\ Sends(m)
        /\ Register(h, "page", Self, m) \/ EmailBind(h, "page", Self, m)
    BY <1>4 DEF DefaultRegister, AirRegister, BerryRegister, Registers, DefaultBindEmail,
                AirBindEmail, EmailModalSubmit, Binds
  <2>2. link' = link
    BY <2>1 DEF Sends, Clicks
  <2>3. m \in Mails
    BY <1>0
  <2> QED BY <1>0, <2>1, <2>2, <2>3, ClickInv DEF PageInv
<1>5. ASSUME NEW h \in Handlers, Arrives(h) \/ GoesMissing(h)
      PROVE  PageInv'
  <2>1. Frees(h) /\ link' = link
    BY <1>5 DEF Arrives, GoesMissing
  <2> QED BY <1>0, <2>1, FreesInv DEF PageInv
<1>6. ASSUME NEW m \in Mailed(Reset_), Follows(m)
      PROVE  PageInv'
  <2>1. link' \in Mails /\ ServerStill
    BY <1>0, <1>6 DEF Follows, ServerStill
  <2> QED BY <1>0, <2>1, ServerStillInv DEF PageInv
<1>7. CASE Retypes \/ CountdownEnds
  <2>1. link' = link /\ ServerStill
    BY <1>7 DEF Retypes, CountdownEnds, ServerStill
  <2> QED BY <1>0, <2>1, ServerStillInv DEF PageInv
<1> QED BY <1>1, <1>2, <1>3, <1>4, <1>5, <1>6, <1>7 DEF PageStep

LEMMA OthersInv ==
    ASSUME PageInv, Others
    PROVE  PageInv'
<1>0. Inv /\ link' = link /\ \A p : Mailed(p) \subseteq Mails
  BY DEF PageInv, Mailed, Inv, AccountTypes, Others, pageVars
<1>1. ASSUME NEW h \in Handlers, BesidePage(h)
      PROVE  Inv'
  <2>1. CASE \/ SendEmailVerification(h, "other", Address)
             \/ SendPasswordResetEmail(h, "other", Address)
    BY <1>0, <2>1, PageAssumption, MailRequests
  <2>2. CASE \E u \in Users \ {Self}, m \in Mailed(Verify_) : EmailBind(h, "other", u, m)
    <3>1. PICK u \in Users, m \in Mails : EmailBind(h, "other", u, m)
      BY <1>0, <2>2
    <3> QED BY <1>0, <3>1, CodeRequests
  <2>3. CASE ChangePassword(h, Self) \/ GenerateAccessToken(h, Self)
    BY <1>0, <2>3, PageAssumption, ReadRequests
  <2> QED BY <1>1, <2>1, <2>2, <2>3 DEF BesidePage
<1>2. ASSUME Crash \/ \E p \in Purposes, e \in Emails : CodeExpires(p, e)
      PROVE  Inv'
  <2>1. Elsewhere
    BY <1>2 DEF Elsewhere
  <2> QED BY <1>0, <2>1, ElsewhereInv
<1>3. Inv'
  <2>1. CASE Elsewhere
    BY <1>0, <2>1, ElsewhereInv
  <2>2. CASE \E h \in Handlers : Request(h) \/ Step(h)
    BY <1>0, <2>2, RequestInv, StepInv
  <2>3. \/ Elsewhere \/ \E h \in Handlers : BesidePage(h) \/ Request(h) \/ Step(h)
        \/ Crash \/ \E p \in Purposes, e \in Emails : CodeExpires(p, e)
    BY DEF Others
  <2> QED BY <1>1, <1>2, <2>1, <2>2, <2>3
<1> QED BY <1>0, <1>3 DEF PageInv

\* Handlers of controller/user.go that read a user and write it back whole
\* (model/user.go:136), the editor and top-ups, beside a relay that reserves quota,
\* settles and gives back: what is left and what is reserved never exceed what was
\* granted and the reservations that were written over.
THEOREM QuotaIsGranted == Spec => []QuotaWithinGrants
<1>1. Inv => QuotaWithinGrants
  BY DEF Inv
<1> QED BY <1>1, InitInv, NextInv, PTL DEF Spec

\* The same behind the pages that ask for codes and use them.
THEOREM PagesGrantNothing == PageSpec => []QuotaWithinGrants
<1>1. PageInit => PageInv
  <2> SUFFICES ASSUME PageInit PROVE PageInv
    OBVIOUS
  <2>1. NoLink \in Mails
    BY DEF NoLink, Mails, Purposes
  <2> QED BY <2>1, InitInv DEF PageInit, PageInv
<1>2. PageInv /\ [PageNext]_allVars => PageInv'
  <2> SUFFICES ASSUME PageInv, [PageNext]_allVars PROVE PageInv'
    OBVIOUS
  <2>1. CASE PageNext
    BY <2>1, PageStepInv, OthersInv DEF PageNext
  <2>2. CASE UNCHANGED allVars
    <3>1. ServerStill /\ link' = link
      BY <2>2 DEF allVars, pageVars, ServerStill
    <3> QED BY <3>1, ServerStillInv DEF PageInv
  <2> QED BY <2>1, <2>2
<1>3. PageInv => QuotaWithinGrants
  BY DEF PageInv, Inv
<1> QED BY <1>1, <1>2, <1>3, PTL DEF PageSpec

-----------------------------------------------------------------------------
(* Bans.  The ban list is changed one step before the row, by handlers that *)
(* may hold old copies of it.                                               *)
Match(s, b) == /\ b => s # "enabled"
               /\ s \in {"disabled", "deleted"} => b \/ restarted

\* h has changed the ban list for u and is about to write the row.
Puts(h, u)  == pc[h] = "write" /\ job[h].user = u
\* the status that the write of a copy leaves
Final(c, s) == IF c.status = "" THEN s ELSE c.status

(* What a copy says of the status follows from the request.                 *)
Named(l, j) ==
    /\ l \in {"ban", "write", "rewrite"} =>
         /\ j.op \in {"delete", "remove"} => j.copy.status = "deleted"
         /\ j.op = "disable" => j.copy.status = "disabled"
         /\ j.op = "enable" => j.copy.status = "enabled"
    /\ l = "rewrite" => j.op = "remove"
(* Only users who have a row are read and written.                          *)
Known(l, j) ==
    /\ l \in {"read", "form", "ban", "write", "rewrite"} => row[j.user].status # ""
    /\ l = "verify" /\ j.op = "bind" => row[j.user].status # ""
(* As long as nobody has overtaken h, its copy agrees with the row.         *)
Switches == {"disable", "enable", "remove", "delete"}
Fresh(l, j, u) ==
    j.user = u /\ ~j.old =>
      /\ l = "rewrite" => row[u].status = "deleted"
      /\ l \in {"form", "ban", "write"} /\ j.op \notin Switches =>
           j.copy.status \in {"", row[u].status}

(* A row that is not torn matches the ban list when nobody is between the   *)
(* two; if one handler is, and was not overtaken, it will match after its   *)
(* write; if several are, the first to write overtakes the others.          *)
Settled(u) == (\A h \in Handlers : ~Puts(h, u)) => Match(row[u].status, u \in banned)
Settles(u) ==
    \A h \in Handlers :
      Puts(h, u) /\ ~job[h].old /\ (\A g \in Handlers : Puts(g, u) => g = h) =>
        Match(Final(job[h].copy, row[u].status), u \in banned)
RowInv(u) ==
    /\ row[u].status = "" => u \notin banned
    /\ u \notin torn =>
         /\ Settled(u)
         /\ Settles(u)
         /\ \A h \in Handlers : Fresh(pc[h], job[h], u)

ListInv ==
    /\ Inv
    /\ \A h \in Handlers : Named(pc[h], job[h]) /\ Known(pc[h], job[h])
    /\ \A u \in Users : RowInv(u)

(* A handler that stays where it is; it may have been overtaken.            *)
Stays(g) ==
    /\ pc'[g] = pc[g] /\ job'[g].op = job[g].op /\ job'[g].user = job[g].user
    /\ job'[g].email = job[g].email /\ job'[g].code = job[g].code
    /\ job'[g].copy = job[g].copy
    /\ job[g].old => job'[g].old

LEMMA InitBan == Init => ListInv
<1> SUFFICES ASSUME Init PROVE ListInv
  OBVIOUS
<1>1. Inv
  BY InitInv
<1>2. \A h \in Handlers : pc[h] = "idle"
  BY DEF Init
<1>3. \A h \in Handlers : Named(pc[h], job[h]) /\ Known(pc[h], job[h])
  BY <1>2 DEF Named, Known
<1>4. ASSUME NEW u \in Users PROVE RowInv(u)
  <2>1. row[u].status \in {"", "enabled"} /\ u \notin banned
    <3>1. PICK f \in Starts :
            row = [v \in Users |-> IF f[v] = "absent" THEN Absent
                                   ELSE Row("enabled", f[v], 1, Start)]
      BY DEF Init
    <3>2. row[u] = Absent \/ row[u] = Row("enabled", f[u], 1, Start)
      BY <3>1
    <3>3. Absent.status = "" /\ \A e, q : Row("enabled", e, 1, q).status = "enabled"
      BY DEF Absent, Row
    <3>4. banned = {}
      BY DEF Init
    <3> QED BY <3>2, <3>3, <3>4
  <2>2. Match(row[u].status, u \in banned)
    BY <2>1 DEF Match
  <2> QED BY <1>2, <2>1, <2>2 DEF RowInv, Settled, Settles, Fresh, Puts
<1> QED BY <1>1, <1>3, <1>4 DEF ListInv

(* Rows whose status does not change, and on whose ban list no handler      *)
(* works.                                                                   *)
LEMMA RowKept ==
    ASSUME ListInv, NEW u \in Users,
           \A g \in Handlers :
             \/ Stays(g)
             \/ ~Puts(g, u) /\ ~Puts(g, u)' /\ (u \notin torn' => Fresh(pc[g], job[g], u)'),
           row'[u].status = row[u].status, u \in banned' <=> u \in banned,
           u \in torn => u \in torn', restarted' = restarted
    PROVE  RowInv(u)'
<1>1. RowInv(u)
  BY DEF ListInv
<1>2. (row[u].status = "" => u \notin banned)'
  BY <1>1 DEF RowInv
<1> SUFFICES ASSUME u \notin torn', u \notin torn
             PROVE  (Settled(u) /\ Settles(u) /\ \A g \in Handlers : Fresh(pc[g], job[g], u))'
  BY <1>2 DEF RowInv
<1>3. \A g \in Handlers : Puts(g, u)' <=> Puts(g, u)
  BY DEF Stays, Puts
<1>4. Settled(u)'
  BY <1>1, <1>3 DEF RowInv, Settled, Match
<1>5. Settles(u)'
  <2> SUFFICES ASSUME NEW g \in Handlers, Puts(g, u)', ~job'[g].old,
                      \A k \in Handlers : Puts(k, u)' => k = g
               PROVE  Match(Final(job[g].copy, row[u].status), u \in banned)'
    BY DEF Settles
  <2>1. Puts(g, u) /\ Stays(g) /\ \A k \in Handlers : Puts(k, u) => k = g
    BY <1>3
  <2>2. Match(Final(job[g].copy, row[u].status), u \in banned)
    BY <1>1, <2>1 DEF RowInv, Settles, Stays
  <2>3. job'[g].copy = job[g].copy
    BY <2>1 DEF Stays
  <2> QED BY <2>2, <2>3 DEF Match, Final
<1>6. ASSUME NEW g \in Handlers PROVE Fresh(pc[g], job[g], u)'
  <2>1. CASE Stays(g)
    <3>1. Fresh(pc[g], job[g], u)
      BY <1>1 DEF RowInv
    <3> QED BY <2>1, <3>1 DEF Stays, Fresh
  <2> QED BY <2>1
<1> QED BY <1>4, <1>5, <1>6

(* What the other handlers know of their copies stays so, since a row never *)
(* loses its status.                                                        *)
LEMMA OthersKnow ==
    ASSUME ListInv, NEW g \in Handlers, Stays(g),
           \A u \in Users : row[u].status # "" => row'[u].status # ""
    PROVE  Named(pc[g], job[g])' /\ Known(pc[g], job[g])'
<1>1. Named(pc[g], job[g]) /\ Known(pc[g], job[g]) /\ Good(pc[g], job[g], ceiling, erased)
  BY JobOf DEF ListInv
<1>2. Named(pc[g], job[g])'
  BY <1>1 DEF Named, Stays
<1>3. pc[g] = "verify" /\ job[g].op = "bind" => job[g].user \in Users
  BY <1>1 DEF Good
<1>4. pc[g] \in {"read", "form", "ban", "write", "rewrite"} => job[g].user \in Users
  BY <1>1 DEF Good
<1>5. Known(pc[g], job[g])'
  BY <1>1, <1>3, <1>4 DEF Known, Stays
<1> QED BY <1>2, <1>5

-----------------------------------------------------------------------------
(* Steps that neither enter nor leave the place between ban list and row.   *)
LEMMA MovesBan ==
    ASSUME ListInv, Inv', NEW h \in Handlers,
           \A g \in Handlers \ {h} : Stays(g),
           pc[h] # "write", pc'[h] # "write",
           Named(pc[h], job[h])', Known(pc[h], job[h])',
           \A u \in Users \ torn : Fresh(pc[h], job[h], u)',
           \A u \in Users : row'[u].status = row[u].status,
           banned' = banned, torn' = torn, restarted' = restarted
    PROVE  ListInv'
<1>1. ASSUME NEW u \in Users PROVE RowInv(u)'
  <2>1. ~Puts(h, u) /\ ~Puts(h, u)'
    BY DEF Puts
  <2>2. u \notin torn' => Fresh(pc[h], job[h], u)'
    OBVIOUS
  <2> QED BY <2>1, <2>2, RowKept
<1>2. ASSUME NEW g \in Handlers PROVE Named(pc[g], job[g])' /\ Known(pc[g], job[g])'
  BY OthersKnow
<1> QED BY <1>1, <1>2 DEF ListInv

(* A handler that goes where there is no copy to care for.                  *)
LEMMA Careless ==
    ASSUME NEW l \in {"idle", "done", "lost", "check", "mint", "setPassword", "deleteKey",
                      "insert"}, NEW j
    PROVE  /\ l # "write" /\ Named(l, j) /\ Known(l, j)
           /\ \A u \in Users : Fresh(l, j, u)
  BY DEF Named, Known, Fresh

LEMMA GotoBan ==
    ASSUME ListInv, Inv', NEW h \in Handlers, NEW l, NEW j, Goto(h, l, j),
           pc[h] # "write", l # "write", Named(l, j),
           Known(l, j), \A u \in Users \ torn : Fresh(l, j, u),
           \A u \in Users : row'[u].status = row[u].status,
           banned' = banned, torn' = torn, restarted' = restarted
    PROVE  ListInv'
<1>1. /\ pc'[h] = l /\ job'[h] = j
      /\ \A g \in Handlers \ {h} : pc'[g] = pc[g] /\ job'[g] = job[g]
  BY DEF Goto, ListInv, Inv, AccountTypes
<1>2. \A g \in Handlers \ {h} : Stays(g)
  BY <1>1 DEF Stays
<1>3. Named(pc[h], job[h])'
  BY <1>1 DEF Named
<1>4. Known(pc[h], job[h])'
  <2>1. Good(l, j, ceiling', erased')
    BY <1>1 DEF Inv, CopyInv
  <2> QED BY <1>1, <2>1 DEF Known, Good
<1>5. \A u \in Users \ torn : Fresh(pc[h], job[h], u)'
  BY <1>1 DEF Fresh
<1> QED BY <1>1, <1>2, <1>3, <1>4, <1>5, MovesBan

LEMMA DoneBan ==
    ASSUME ListInv, Inv', NEW h \in Handlers, NEW ok \in BOOLEAN, NEW p \in Nat, Done(h, ok, p),
           pc[h] # "write",
           \A u \in Users : row'[u].status = row[u].status,
           banned' = banned, torn' = torn, restarted' = restarted
    PROVE  ListInv'
<1>1. PICK l \in {"done", "idle"}, j \in Jobs : Goto(h, l, j)
  BY AfterTyped DEF Done, ListInv, Inv
<1>2. /\ l # "write" /\ Named(l, j) /\ Known(l, j)
      /\ \A u \in Users : Fresh(l, j, u)
  BY Careless
<1> QED BY <1>1, <1>2, GotoBan

-----------------------------------------------------------------------------
(* Requests                                                                 *)
LEMMA BeginBan ==
    ASSUME ListInv, Inv', NEW h \in Handlers, NEW l, NEW j, Begin(h, l, j),
           l # "write", Named(l, j), Known(l, j), \A u \in Users : Fresh(l, j, u)
    PROVE  ListInv'
  BY GotoBan DEF Begin, history

LEMMA CarelessRequests ==
    ASSUME ListInv, Inv', NEW h \in Handlers, NEW by, NEW e, NEW u,
           \/ SendEmailVerification(h, by, e) \/ SendPasswordResetEmail(h, by, e)
           \/ CreateUser(h, u)
    PROVE  ListInv'
<1>1. PICK l \in {"check", "insert"} : \E j : Begin(h, l, j)
  BY DEF SendEmailVerification, SendPasswordResetEmail, CreateUser
<1>2. PICK j : Begin(h, l, j)
  BY <1>1
<1>3. /\ l # "write" /\ Named(l, j) /\ Known(l, j)
      /\ \A v \in Users : Fresh(l, j, v)
  BY Careless
<1> QED BY <1>2, <1>3, BeginBan

LEMMA CodeRequestsBan ==
    ASSUME ListInv, Inv', NEW h \in Handlers, NEW by, NEW u, NEW m,
           ResetPassword(h, by, m) \/ Register(h, by, u, m) \/ EmailBind(h, by, u, m)
    PROVE  ListInv'
<1>0. PICK op \in {"reset", "register", "bind"} : \E v :
        /\ op = "bind" => row[v].status # ""
        /\ Begin(h, "verify", Of(op, by, v, m.email, m.code))
  BY DEF ResetPassword, Register, EmailBind, Session
<1>1. PICK v :
        /\ op = "bind" => row[v].status # ""
        /\ Begin(h, "verify", Of(op, by, v, m.email, m.code))
  BY <1>0
<1> DEFINE j == Of(op, by, v, m.email, m.code)
<1>2. j.op = op /\ j.user = v
  BY DEF Of
<1> HIDE DEF j
<1>3. Named("verify", j) /\ Known("verify", j) /\ \A w \in Users : Fresh("verify", j, w)
  BY <1>1, <1>2 DEF Named, Known, Fresh
<1> QED BY <1>1, <1>3, BeginBan DEF j

LEMMA ReadRequestsBan ==
    ASSUME ListInv, Inv', NEW h \in Handlers, NEW u \in Users,
           \/ GenerateAccessToken(h, u) \/ ChangePassword(h, u)
           \/ \E op \in Manages : ManageUser(h, u, op)
    PROVE  ListInv'
<1>1. PICK op \in Reads : Begin(h, "read", Of(op, "other", u, "", 0)) /\ row[u].status # ""
  BY DEF GenerateAccessToken, ChangePassword, ManageUser, Reads, Manages, Session
<1> DEFINE j == Of(op, "other", u, "", 0)
<1>2. j.user = u
  BY DEF Of
<1> HIDE DEF j
<1>3. Named("read", j) /\ Known("read", j) /\ \A w \in Users : Fresh("read", j, w)
  BY <1>1, <1>2 DEF Named, Known, Fresh
<1> QED BY <1>1, <1>3, BeginBan DEF j

LEMMA BlindRequestsBan ==
    ASSUME ListInv, Inv', NEW h \in Handlers, NEW u \in Users, UpdateSelf(h, u) \/ DeleteUser(h, u)
    PROVE  ListInv'
<1>1. PICK op \in {"self", "delete"}, c \in Rows :
        /\ c.status = IF op = "self" THEN "" ELSE "deleted"
        /\ Begin(h, "ban", [Of(op, "other", u, "", 0) EXCEPT !.copy = c])
        /\ row[u].status # ""
  <2>1. CASE UpdateSelf(h, u)
    <3> DEFINE c == [Absent EXCEPT !.password = minted + 1]
    <3>1. minted + 1 \in Nat
      BY Ceilings DEF ListInv
    <3>2. c \in Rows /\ c.status = Absent.status
      BY <3>1, NothingRead DEF Rows
    <3>3. Absent.status = ""
      BY DEF Absent, Row
    <3>4. Begin(h, "ban", [Of("self", "other", u, "", 0) EXCEPT !.copy = c]) /\ row[u].status # ""
      BY <2>1 DEF UpdateSelf, Session
    <3> HIDE DEF c
    <3> QED BY <3>2, <3>3, <3>4
  <2>2. CASE DeleteUser(h, u)
    <3> DEFINE c == [Absent EXCEPT !.status = "deleted"]
    <3>1. c \in Rows
      BY NothingRead DEF Rows, Statuses
    <3>2. c.status = "deleted"
      BY NothingRead DEF Rows
    <3>3. Begin(h, "ban", [Of("delete", "other", u, "", 0) EXCEPT !.copy = c]) /\ row[u].status # ""
      BY <2>2 DEF DeleteUser
    <3> HIDE DEF c
    <3> QED BY <3>1, <3>2, <3>3
  <2> QED BY <2>1, <2>2
<1> DEFINE k == Of(op, "other", u, "", 0)
<1>2. k \in Jobs
  <2>1. op \in Ops
    BY DEF Ops
  <2> QED BY <2>1, NewJob
<1>3. k.op = op /\ k.user = u
  BY DEF Of
<1> HIDE DEF k
<1> DEFINE j == [k EXCEPT !.copy = c]
<1>4. j.op = op /\ j.user = u /\ j.copy = c
  BY <1>2, <1>3 DEF Jobs
<1> HIDE DEF j
<1>5. Begin(h, "ban", j)
  BY <1>1 DEF j, k
<1>6. Named("ban", j)
  BY <1>1, <1>4 DEF Named
<1>7. Known("ban", j)
  BY <1>1, <1>4 DEF Known
<1>8. \A w \in Users : Fresh("ban", j, w)
  BY <1>1, <1>4 DEF Fresh, Switches
<1> QED BY <1>5, <1>6, <1>7, <1>8, BeginBan

LEMMA RequestBan ==
    ASSUME ListInv, Inv', NEW h \in Handlers, Request(h)
    PROVE  ListInv'
<1>1. CASE \E e \in Emails : \/ SendEmailVerification(h, "other", e)
                             \/ SendPasswordResetEmail(h, "other", e)
  BY <1>1, CarelessRequests
<1>2. CASE \E m \in Mailed(Reset_) : ResetPassword(h, "other", m)
  BY <1>2, CodeRequestsBan
<1>3. CASE \E u \in Users, m \in Mailed(Verify_) :
             Register(h, "other", u, m) \/ EmailBind(h, "other", u, m)
  BY <1>3, CodeRequestsBan
<1>4. CASE \E u \in Users :
             \/ CreateUser(h, u) \/ GenerateAccessToken(h, u) \/ ChangePassword(h, u)
             \/ UpdateSelf(h, u) \/ DeleteUser(h, u)
             \/ \E op \in {"disable", "enable", "remove", "edit"} : ManageUser(h, u, op)
  BY <1>4, CarelessRequests, ReadRequestsBan, BlindRequestsBan DEF Manages
<1> QED BY <1>1, <1>2, <1>3, <1>4 DEF Request

-----------------------------------------------------------------------------
(* Steps before and beside the writing of a row                             *)
LEMMA CheckBan ==
    ASSUME ListInv, Inv', NEW h \in Handlers, NEW taken, NEW blind, Checked(h, taken, blind)
    PROVE  ListInv'
<1>1. /\ pc[h] # "write" /\ \A u \in Users : row'[u].status = row[u].status
      /\ banned' = banned /\ torn' = torn /\ restarted' = restarted
  BY DEF Checked, stored
<1>2. CASE Goto(h, "mint", job[h])
  BY <1>1, <1>2, Careless, GotoBan
<1>3. CASE Refuse(h)
  BY <1>1, <1>3, DoneBan DEF Refuse
<1> QED BY <1>2, <1>3 DEF Checked

LEMMA MintBan ==
    ASSUME ListInv, Inv', NEW h \in Handlers, Mint(h)
    PROVE  ListInv'
<1>1. /\ pc[h] # "write" /\ \A u \in Users : row'[u].status = row[u].status
      /\ banned' = banned /\ torn' = torn /\ restarted' = restarted
  BY DEF Mint, history
<1>2. Done(h, TRUE, 0) \/ Done(h, FALSE, 0)
  BY DEF Mint, Refuse
<1> QED BY <1>1, <1>2, DoneBan

LEMMA VerifyBan ==
    ASSUME ListInv, Inv', NEW h \in Handlers, VerifyCode(h)
    PROVE  ListInv'
<1>1. /\ pc[h] = "verify" /\ \A u \in Users : row'[u].status = row[u].status
      /\ banned' = banned /\ torn' = torn /\ restarted' = restarted
  BY DEF VerifyCode, stored
<1>2. CASE Refuse(h)
  BY <1>1, <1>2, DoneBan DEF Refuse
<1>3. CASE Goto(h, "read", job[h]) /\ job[h].op = "bind"
  <2>1. row[job[h].user].status # ""
    BY <1>1, <1>3 DEF ListInv, Known
  <2>2. /\ Named("read", job[h]) /\ Known("read", job[h])
        /\ \A u \in Users : Fresh("read", job[h], u)
    BY <2>1 DEF Named, Known, Fresh
  <2> QED BY <1>1, <1>3, <2>2, GotoBan
<1>4. CASE \E l \in {"setPassword", "insert"} : Goto(h, l, job[h])
  BY <1>1, <1>4, Careless, GotoBan
<1> QED BY <1>2, <1>3, <1>4 DEF VerifyCode

(* Whoever is overtaken stays where it is.                                  *)
LEMMA OvertakenStay ==
    ASSUME AccountTypes, NEW h \in Handlers, NEW us, NEW l \in Labels, NEW j \in Jobs,
           Overtake(h, us, l, j), NEW g \in Handlers, g # h
    PROVE  /\ Stays(g)
           /\ \A u \in us : Writing(g, u) => job'[g].old
<1>1. job'[g] = [job[g] EXCEPT !.old = job[g].old \/ \E u \in us : Writing(g, u)]
  BY DEF Overtake
<1>2. job[g] \in Jobs
  BY DEF AccountTypes
<1>3. /\ job'[g].old = (job[g].old \/ \E u \in us : Writing(g, u))
      /\ job'[g].email = job[g].email /\ job'[g].code = job[g].code
  BY <1>1, <1>2 DEF Jobs
<1>4. /\ pc'[g] = pc[g] /\ job'[g].op = job[g].op
      /\ job'[g].user = job[g].user /\ job'[g].copy = job[g].copy
  BY Overtaken
<1>5. Stays(g)
  BY <1>3, <1>4 DEF Stays
<1> QED BY <1>3, <1>5

LEMMA PasswordBan ==
    ASSUME ListInv, Inv', NEW h \in Handlers, SetPassword(h)
    PROVE  ListInv'
<1>0. Inv /\ AccountTypes
  BY DEF ListInv, Inv
<1> DEFINE us == Owners(job[h].email)
<1> DEFINE j == [job[h] EXCEPT !.password = minted + 1]
<1>1. j \in Jobs
  <2>1. minted + 1 \in Nat
    BY <1>0, Ceilings
  <2> QED BY <1>0, <2>1, JobOf DEF Jobs
<1>2. Overtake(h, us, "deleteKey", j)
  BY DEF SetPassword
<1> HIDE DEF j, us
<1>3. /\ pc'[h] = "deleteKey" /\ \A g \in Handlers \ {h} : Stays(g)
  BY <1>0, <1>1, <1>2, Overtaken, OvertakenStay DEF Labels
<1>4. ASSUME NEW u \in Users PROVE row'[u].status = row[u].status
  <2>1. [row[u] EXCEPT !.password = minted + 1].status = row[u].status
    BY <1>0, Ceilings DEF Rows
  <2>2. row'[u] = [row[u] EXCEPT !.password = minted + 1] \/ row'[u] = row[u]
    BY DEF SetPassword
  <2> QED BY <2>1, <2>2
<1>5. /\ Named(pc[h], job[h])' /\ Known(pc[h], job[h])'
      /\ \A u \in Users : Fresh(pc[h], job[h], u)'
  BY <1>3 DEF Named, Known, Fresh
<1>6. pc[h] # "write" /\ banned' = banned /\ torn' = torn /\ restarted' = restarted
  BY DEF SetPassword
<1> QED BY <1>3, <1>4, <1>5, <1>6, MovesBan

LEMMA DeleteKeyBan ==
    ASSUME ListInv, Inv', NEW h \in Handlers, DeleteKey(h)
    PROVE  ListInv'
<1>1. /\ pc[h] # "write" /\ \A u \in Users : row'[u].status = row[u].status
      /\ banned' = banned /\ torn' = torn /\ restarted' = restarted
  BY DEF DeleteKey, history
<1>2. job[h].password \in Nat
  BY JobOf DEF ListInv
<1> QED BY <1>1, <1>2, DoneBan DEF DeleteKey

(* The copy that is taken of a row has its status, or the one that the      *)
(* request names.                                                           *)
LEMMA ChangedStatus ==
    ASSUME Inv, NEW h \in Handlers, NEW r \in Rows, job[h].op \in Reads
    PROVE  /\ job[h].op = "disable" => Changed(h, r).status = "disabled"
           /\ job[h].op = "enable" => Changed(h, r).status = "enabled"
           /\ job[h].op = "remove" => Changed(h, r).status = "deleted"
           /\ job[h].op \notin Switches => Changed(h, r).status \in {"", r.status}
<1>1. CASE job[h].op = "bind"
  BY <1>1 DEF Changed, Rows, Switches
<1>2. CASE job[h].op = "token"
  BY <1>2 DEF Changed
<1>3. CASE job[h].op = "password"
  <2>1. Changed(h, r) = [Absent EXCEPT !.password = minted + 1]
    BY <1>3 DEF Changed
  <2>2. Changed(h, r).status = Absent.status
    BY <2>1, NothingRead DEF Rows
  <2>3. Absent.status = ""
    BY DEF Absent, Row
  <2> QED BY <1>3, <2>2, <2>3
<1>4. CASE job[h].op = "disable"
  BY <1>4 DEF Changed, Rows, Switches
<1>5. CASE job[h].op = "enable"
  BY <1>5 DEF Changed, Rows, Switches
<1>6. CASE job[h].op = "remove"
  BY <1>6 DEF Changed, Rows, Switches
<1>7. CASE job[h].op = "edit"
  BY <1>7 DEF Changed, Rows
<1> QED BY <1>1, <1>2, <1>3, <1>4, <1>5, <1>6, <1>7 DEF Reads

LEMMA CopiedBan ==
    ASSUME ListInv, Inv', NEW h \in Handlers, NEW r \in Rows, Copied(h, r),
           r.status \in {"", row[job[h].user].status}
    PROVE  ListInv'
<1>0. Inv
  BY DEF ListInv
<1>1. job[h].op \in Reads /\ job[h].user \in Users /\ pc[h] = "read"
  BY <1>0, JobOf DEF Copied, Good
<1>2. row[job[h].user].status # ""
  BY <1>1 DEF ListInv, Known
<1> DEFINE c == Changed(h, r)
<1>3. c \in Rows
  BY <1>0, <1>1, ChangedRow
<1>4. /\ job[h].op = "disable" => c.status = "disabled"
      /\ job[h].op = "enable" => c.status = "enabled"
      /\ job[h].op = "remove" => c.status = "deleted"
      /\ job[h].op \notin Switches => c.status \in {"", r.status}
  BY <1>0, <1>1, ChangedStatus
<1> DEFINE w == reserved[job[h].user]
<1> DEFINE j == [job[h] EXCEPT !.copy = c, !.held = w, !.old = FALSE]
<1> DEFINE l == IF job[h].op = "edit" THEN "form" ELSE "ban"
<1>5. /\ Goto(h, l, j) /\ \A u \in Users : row'[u].status = row[u].status
      /\ banned' = banned /\ torn' = torn /\ restarted' = restarted
  BY DEF Copied, history
<1>a. w \in Nat
  BY <1>0, <1>1, Ceilings
<1> HIDE DEF c, w
<1>6. j \in Jobs /\ j.op = job[h].op /\ j.user = job[h].user /\ j.copy = c
  BY <1>0, <1>3, <1>a, JobOf DEF Jobs
<1> HIDE DEF j
<1>7. l \in {"form", "ban"}
  OBVIOUS
<1> HIDE DEF l
<1>8. Named(l, j)
  BY <1>1, <1>4, <1>6, <1>7 DEF Named, Reads
<1>9. Known(l, j)
  BY <1>2, <1>6, <1>7 DEF Known
<1>10. \A u \in Users : Fresh(l, j, u)
  BY <1>4, <1>6, <1>7 DEF Fresh
<1> QED BY <1>1, <1>5, <1>7, <1>8, <1>9, <1>10, GotoBan

LEMMA ReadBan ==
    ASSUME ListInv, Inv', NEW h \in Handlers, Read(h) \/ ReadFails(h)
    PROVE  ListInv'
<1>1. CASE Read(h)
  <2>1. job[h].user \in Users
    BY <1>1, JobOf DEF Read, Copied, Good, ListInv
  <2>2. row[job[h].user] \in Rows
    BY <2>1, Ceilings DEF ListInv
  <2> QED BY <1>1, <2>2, CopiedBan DEF Read
<1>2. CASE Copied(h, Absent)
  <2>1. Absent.status = ""
    BY DEF Absent, Row
  <2> QED BY <1>2, <2>1, NothingRead, CopiedBan
<1>3. CASE ReadFails(h) /\ Refuse(h) /\ UNCHANGED <<stored, history>>
  <2>1. /\ pc[h] # "write" /\ \A u \in Users : row'[u].status = row[u].status
        /\ banned' = banned /\ torn' = torn /\ restarted' = restarted
    BY <1>3 DEF ReadFails, stored, history
  <2> QED BY <1>3, <2>1, DoneBan DEF Refuse
<1> QED BY <1>1, <1>2, <1>3 DEF ReadFails

LEMMA SubmitBan ==
    ASSUME ListInv, Inv', NEW h \in Handlers, NEW q \in Int, Submit(h, q)
    PROVE  ListInv'
<1>0. Inv
  BY DEF ListInv
<1>1. job[h].op = "edit" /\ job[h].user \in Users /\ pc[h] = "form"
  BY <1>0, JobOf DEF Submit, Good
<1> DEFINE c == [job[h].copy EXCEPT !.quota = q]
<1>2. c \in Rows /\ c.status = job[h].copy.status
  BY <1>0, JobOf DEF Rows
<1> DEFINE j == [job[h] EXCEPT !.copy = c]
<1>3. /\ Goto(h, "ban", j) /\ \A u \in Users : row'[u].status = row[u].status
      /\ banned' = banned /\ torn' = torn /\ restarted' = restarted
  BY DEF Submit, stored, history
<1> HIDE DEF c
<1>4. /\ j.op = "edit" /\ j.user = job[h].user /\ j.copy = c /\ j.old = job[h].old
  BY <1>0, <1>1, <1>2, JobOf DEF Jobs
<1> HIDE DEF j
<1>5. Named("ban", j)
  BY <1>4 DEF Named
<1>6. Known("ban", j)
  BY <1>1, <1>4 DEF Known, ListInv
<1>7. \A u \in Users \ torn : Fresh("ban", j, u)
  BY <1>1, <1>2, <1>4 DEF Fresh, ListInv, RowInv, Switches
<1> QED BY <1>1, <1>3, <1>5, <1>6, <1>7, GotoBan

-----------------------------------------------------------------------------
(* The writers of a row                                                     *)

(* Between ban list and row: the list says what the write will.             *)
LEMMA BanBan ==
    ASSUME ListInv, Inv', NEW h \in Handlers, Ban(h)
    PROVE  ListInv'
<1>0. Inv
  BY DEF ListInv
<1>1. PICK v \in Users : v = job[h].user /\ pc[h] = "ban"
  BY <1>0, JobOf DEF Ban, Good
<1>2. /\ pc'[h] = "write" /\ job'[h] = job[h]
      /\ \A g \in Handlers \ {h} : pc'[g] = pc[g] /\ job'[g] = job[g]
  BY <1>0 DEF Ban, Goto, Inv, AccountTypes
<1>3. \A g \in Handlers \ {h} : Stays(g)
  BY <1>2 DEF Stays
<1>4. row' = row /\ torn' = torn /\ restarted' = restarted
  BY DEF Ban, history
<1>5. \A u \in Users : u # v => (u \in banned' <=> u \in banned)
  BY <1>1 DEF Ban
<1>6. row[v].status # "" /\ Named("ban", job[h])
  BY <1>1 DEF ListInv, Known
<1>7. Named(pc[h], job[h])' /\ Known(pc[h], job[h])'
  BY <1>1, <1>2, <1>4, <1>6 DEF Named, Known
<1>8. ASSUME NEW u \in Users, u # v PROVE RowInv(u)'
  <2>1. ~Puts(h, u) /\ ~Puts(h, u)' /\ Fresh(pc[h], job[h], u)'
    BY <1>1, <1>2, <1>8 DEF Puts, Fresh
  <2>2. row'[u].status = row[u].status
    BY <1>4
  <2>3. u \in banned' <=> u \in banned
    BY <1>5, <1>8
  <2> QED BY <1>3, <1>4, <2>1, <2>2, <2>3, RowKept
<1>9. RowInv(v)'
  <2> SUFFICES ASSUME v \notin torn
               PROVE  /\ Settled(v)' /\ Settles(v)'
                      /\ \A g \in Handlers : Fresh(pc[g], job[g], v)'
    BY <1>2, <1>4, <1>6 DEF RowInv
  <2>1. /\ Settled(v) /\ Settles(v)
        /\ \A g \in Handlers : Fresh(pc[g], job[g], v)
    BY <1>1 DEF ListInv, RowInv
  <2>2. Puts(h, v)'
    BY <1>1, <1>2 DEF Puts
  <2>3. Settled(v)'
    BY <2>2 DEF Settled
  <2>4. Settles(v)'
    <3> SUFFICES ASSUME ~job'[h].old, \A g \in Handlers : Puts(g, v)' => g = h
                 PROVE  Match(Final(job[h].copy, row[v].status), v \in banned)'
      BY <2>2 DEF Settles
    <3>1. \A g \in Handlers : ~Puts(g, v)
      BY <1>1, <1>2 DEF Puts
    <3>2. Match(row[v].status, v \in banned)
      BY <2>1, <3>1 DEF Settled
    <3>3. job[h].op \notin Switches => job[h].copy.status \in {"", row[v].status}
      BY <1>1, <1>2, <2>1 DEF Fresh
    <3> DEFINE s == job[h].copy.status
    <3>4. CASE s = "disabled" \/ job[h].op \in {"delete", "remove"}
      <4>1. v \in banned'
        BY <1>1, <3>4 DEF Ban
      <4>2. s \in {"disabled", "deleted"}
        BY <1>6, <3>4 DEF Named
      <4> QED BY <1>2, <1>4, <4>1, <4>2 DEF Match, Final
    <3>5. CASE s = "enabled" /\ job[h].op \notin {"delete", "remove"}
      <4>1. v \notin banned'
        BY <1>1, <3>5 DEF Ban
      <4> QED BY <1>2, <1>4, <3>5, <4>1 DEF Match, Final
    <3>6. CASE s \notin {"disabled", "enabled"} /\ job[h].op \notin {"delete", "remove"}
      <4>1. v \in banned' <=> v \in banned
        BY <1>1, <3>6 DEF Ban
      <4>2. job[h].op \notin Switches
        BY <1>6, <3>6 DEF Named, Switches
      <4>3. Final(job[h].copy, row[v].status) = row[v].status
        BY <3>3, <4>2 DEF Final
      <4>4. Final(job[h].copy, row[v].status)' = row[v].status
        BY <1>2, <1>4, <4>3 DEF Final
      <4> QED BY <1>4, <3>2, <4>1, <4>4 DEF Match
    <3> QED BY <3>4, <3>5, <3>6
  <2>5. ASSUME NEW g \in Handlers PROVE Fresh(pc[g], job[g], v)'
    BY <1>1, <1>2, <1>4, <2>1 DEF Fresh
  <2> QED BY <2>3, <2>4, <2>5
<1>10. ASSUME NEW g \in Handlers, g # h PROVE Named(pc[g], job[g])' /\ Known(pc[g], job[g])'
  BY <1>3, <1>4, <1>10, OthersKnow
<1>11. \A u \in Users : RowInv(u)'
  BY <1>8, <1>9
<1>12. \A g \in Handlers : (Named(pc[g], job[g]) /\ Known(pc[g], job[g]))'
  BY <1>7, <1>10
<1> QED BY <1>11, <1>12 DEF ListInv

LEMMA UpdatedStatus ==
    ASSUME NEW r, NEW c
    PROVE  Updates(r, c).status = Final(c, r.status)
  BY DEF Updates, Row, Final

(* What the write of a row's owner leaves behind: with the handler h gone   *)
(* from between list and row, and all others on this row overtaken.         *)
LEMMA WrittenBan ==
    ASSUME ListInv, NEW h \in Handlers, NEW v \in Users, v \notin torn,
           Puts(h, v), ~job[h].old, pc'[h] # "write", Fresh(pc[h], job[h], v)',
           \A g \in Handlers \ {h} : Stays(g) /\ (Writing(g, v) => job'[g].old),
           row'[v].status = Final(job[h].copy, row[v].status), row'[v].status # "",
           banned' = banned, restarted' = restarted
    PROVE  RowInv(v)'
<1>1. Settles(v)
  BY DEF ListInv, RowInv
<1>2. \A g \in Handlers : Puts(g, v)' => g # h /\ Puts(g, v) /\ job'[g].old
  BY DEF Puts, Stays, Writing
<1>3. Settled(v)'
  <2> SUFFICES ASSUME \A g \in Handlers : ~Puts(g, v)'
               PROVE  Match(row[v].status, v \in banned)'
    BY DEF Settled
  <2>1. \A g \in Handlers : Puts(g, v) => g = h
    BY DEF Puts, Stays
  <2>2. Match(Final(job[h].copy, row[v].status), v \in banned)
    BY <1>1, <2>1 DEF Settles
  <2> QED BY <2>2 DEF Match
<1>4. Settles(v)'
  BY <1>2 DEF Settles
<1>5. ASSUME NEW g \in Handlers PROVE Fresh(pc[g], job[g], v)'
  <2>1. CASE g = h
    BY <2>1
  <2>2. CASE g # h /\ Writing(g, v)
    <3>1. job'[g].old
      BY <2>2
    <3> QED BY <3>1 DEF Fresh
  <2>3. CASE g # h /\ ~Writing(g, v)
    <3>1. ~Writing(g, v)'
      BY <2>3 DEF Stays, Writing
    <3> QED BY <3>1 DEF Fresh, Writing
  <2> QED BY <2>1, <2>2, <2>3
<1> QED BY <1>3, <1>4, <1>5 DEF RowInv

LEMMA WriteBan ==
    ASSUME ListInv, Inv', NEW h \in Handlers, Write(h)
    PROVE  ListInv'
<1>0. Inv /\ AccountTypes
  BY DEF ListInv, Inv
<1>1. PICK v \in Users : v = job[h].user /\ pc[h] \in {"write", "rewrite"}
  BY <1>0, JobOf DEF Write, Good
<1>2. row[v].status # "" /\ Named(pc[h], job[h])
  BY <1>1 DEF ListInv, Known
<1>3. /\ banned' = banned /\ restarted' = restarted
      /\ torn' = IF job[h].old THEN torn \cup {v} ELSE torn
  BY <1>1 DEF Write
<1>4. /\ row'[v].status = Final(job[h].copy, row[v].status)
      /\ \A u \in Users \ {v} : row'[u] = row[u]
  <2>1. row' = [row EXCEPT ![v] = Updates(row[v], job[h].copy)]
    BY <1>1 DEF Write
  <2>2. row'[v] = Updates(row[v], job[h].copy) /\ \A u \in Users \ {v} : row'[u] = row[u]
    BY <1>0, <2>1 DEF AccountTypes
  <2> QED BY <2>2, UpdatedStatus
<1>5. row'[v].status # ""
  BY <1>2, <1>4 DEF Final
<1>6. PICK l \in Labels, j \in Jobs :
        /\ Overtake(h, {v}, l, j)
        /\ \/ l \in {"done", "idle"}
           \/ l = "rewrite" /\ j = job[h] /\ pc[h] = "write" /\ job[h].op = "remove"
  <2>1. CASE Overtake(h, {v}, "rewrite", job[h]) /\ pc[h] = "write" /\ job[h].op = "remove"
    <3>1. job[h] \in Jobs /\ "rewrite" \in Labels
      BY <1>0, JobOf DEF Labels
    <3> QED BY <2>1, <3>1
  <2>2. CASE Overtake(h, {v}, After(h, TRUE, 0).pc, After(h, TRUE, 0).job)
    <3>1. /\ After(h, TRUE, 0).pc \in {"done", "idle"}
          /\ After(h, TRUE, 0).job \in Jobs
      BY <1>0, AfterTyped
    <3>2. After(h, TRUE, 0).pc \in Labels
      BY <3>1 DEF Labels
    <3> QED BY <2>2, <3>1, <3>2
  <2> QED BY <1>1, <2>1, <2>2 DEF Write
<1>7. /\ pc'[h] = l /\ job'[h] = j
      /\ \A g \in Handlers \ {h} : Stays(g) /\ (Writing(g, v) => job'[g].old)
  <2>1. PICK us : us = {v}
    OBVIOUS
  <2>2. Overtake(h, us, l, j)
    BY <1>6, <2>1
  <2>3. pc'[h] = l /\ job'[h] = j
    BY <1>0, <2>2, Overtaken
  <2>4. \A g \in Handlers \ {h} : Stays(g) /\ \A u \in us : Writing(g, u) => job'[g].old
    BY <1>0, <2>2, OvertakenStay
  <2> QED BY <2>1, <2>3, <2>4
<1>8. Named(pc[h], job[h])' /\ Known(pc[h], job[h])'
  <2>1. CASE l \in {"done", "idle"}
    BY <1>7, <2>1 DEF Named, Known
  <2>2. CASE l = "rewrite" /\ j = job[h] /\ job[h].op = "remove" /\ pc[h] = "write"
    BY <1>1, <1>2, <1>5, <1>7, <2>2 DEF Named, Known
  <2> QED BY <1>6, <2>1, <2>2
<1>9. ASSUME NEW u \in Users, u # v PROVE RowInv(u)'
  <2>1. ~Puts(h, u) /\ ~Puts(h, u)' /\ Fresh(pc[h], job[h], u)'
    BY <1>1, <1>6, <1>7, <1>9 DEF Puts, Fresh
  <2>2. row'[u].status = row[u].status
    BY <1>4, <1>9
  <2>3. /\ u \in banned' <=> u \in banned
        /\ u \in torn => u \in torn'
    BY <1>3
  <2> QED BY <1>3, <1>7, <2>1, <2>2, <2>3, RowKept
<1>10. RowInv(v)'
  <2>1. CASE v \in torn'
    BY <1>5, <2>1 DEF RowInv
  <2>2. CASE v \notin torn' /\ pc[h] = "write"
    <3>1. Puts(h, v) /\ ~job[h].old /\ v \notin torn /\ pc'[h] # "write"
      BY <1>1, <1>3, <1>6, <1>7, <2>2 DEF Puts
    <3>2. Fresh(pc[h], job[h], v)'
      <4>1. l = "rewrite" => row'[v].status = "deleted"
        BY <1>1, <1>2, <1>4, <1>6 DEF Named, Final
      <4> QED BY <1>6, <1>7, <4>1 DEF Fresh
    <3> QED BY <1>3, <1>4, <1>5, <1>7, <3>1, <3>2, WrittenBan
  <2>3. CASE v \notin torn' /\ pc[h] = "rewrite"
    <3>1. ~job[h].old /\ v \notin torn
      BY <1>3, <2>3
    <3>2. row[v].status = "deleted"
      BY <1>1, <2>3, <3>1 DEF ListInv, RowInv, Fresh
    <3>3. job[h].copy.status = "deleted"
      BY <1>2, <2>3 DEF Named
    <3>4. row'[v].status = row[v].status
      BY <1>4, <3>2, <3>3 DEF Final
    <3>5. ~Puts(h, v) /\ ~Puts(h, v)' /\ Fresh(pc[h], job[h], v)'
      BY <1>6, <1>7, <2>3 DEF Puts, Fresh
    <3> QED BY <1>3, <1>7, <3>4, <3>5, RowKept
  <2> QED BY <1>1, <2>1, <2>2, <2>3
<1>11. ASSUME NEW g \in Handlers, g # h PROVE Named(pc[g], job[g])' /\ Known(pc[g], job[g])'
  <2>1. \A u \in Users : row[u].status # "" => row'[u].status # ""
    BY <1>4, <1>5
  <2> QED BY <1>7, <1>11, <2>1, OthersKnow
<1>12. \A u \in Users : RowInv(u)'
  BY <1>9, <1>10
<1>13. \A g \in Handlers : (Named(pc[g], job[g]) /\ Known(pc[g], job[g]))'
  BY <1>8, <1>11
<1> QED BY <1>12, <1>13 DEF ListInv

(* A new row is enabled, and nobody has read or banned it.                  *)
LEMMA InsertBan ==
    ASSUME ListInv, Inv', NEW h \in Handlers, NEW q \in Int, Insert(h, q)
    PROVE  ListInv'
<1>0. Inv /\ AccountTypes
  BY DEF ListInv, Inv
<1>1. PICK v \in Users : v = job[h].user /\ pc[h] = "insert"
  BY <1>0, JobOf DEF Insert, Good
<1>2. banned' = banned /\ restarted' = restarted /\ torn' = torn
  BY DEF Insert
<1>3. CASE Refuse(h) /\ row' = row
  <2>1. pc[h] # "write" /\ \A u \in Users : row'[u].status = row[u].status
    BY <1>1, <1>3
  <2> QED BY <1>2, <1>3, <2>1, DoneBan DEF Refuse
<1>4. CASE /\ row[v].status = ""
           /\ row' = [row EXCEPT ![v] = Row("enabled", job[h].email, minted + 1, q)]
           /\ Overtake(h, {v}, After(h, TRUE, 0).pc, After(h, TRUE, 0).job)
  <2>1. /\ After(h, TRUE, 0).pc \in {"done", "idle"}
        /\ After(h, TRUE, 0).job \in Jobs
    BY <1>0, AfterTyped
  <2>2. After(h, TRUE, 0).pc \in Labels
    BY <2>1 DEF Labels
  <2>3. pc'[h] \in {"done", "idle"} /\ \A g \in Handlers \ {h} : Stays(g)
    BY <1>0, <1>4, <2>1, <2>2, Overtaken, OvertakenStay
  <2>4. row'[v].status = "enabled" /\ \A u \in Users \ {v} : row'[u] = row[u]
    <3>1. row'[v] = Row("enabled", job[h].email, minted + 1, q)
      BY <1>0, <1>4 DEF AccountTypes
    <3> QED BY <1>0, <1>4, <3>1 DEF AccountTypes, Row
  <2>5. Named(pc[h], job[h])' /\ Known(pc[h], job[h])'
    BY <2>3 DEF Named, Known
  <2>6. ASSUME NEW u \in Users, u # v PROVE RowInv(u)'
    <3>1. ~Puts(h, u) /\ ~Puts(h, u)' /\ Fresh(pc[h], job[h], u)'
      BY <1>1, <2>3 DEF Puts, Fresh
    <3>2. row'[u].status = row[u].status
      BY <2>4, <2>6
    <3> QED BY <1>2, <2>3, <3>1, <3>2, RowKept
  <2>7. RowInv(v)'
    <3>1. v \notin banned'
      BY <1>2, <1>4 DEF ListInv, RowInv
    <3>2. ASSUME NEW g \in Handlers, job'[g].user = v
          PROVE  pc'[g] \notin {"form", "ban", "write", "rewrite"}
      <4>1. CASE g = h
        BY <2>3, <4>1
      <4>2. CASE g # h
        <5>1. Known(pc[g], job[g])
          BY DEF ListInv
        <5>2. pc'[g] = pc[g] /\ job'[g].user = job[g].user
          BY <2>3, <4>2 DEF Stays
        <5> QED BY <1>4, <3>2, <5>1, <5>2 DEF Known
      <4> QED BY <4>1, <4>2
    <3>3. /\ \A g \in Handlers : Fresh(pc[g], job[g], v)'
          /\ \A g \in Handlers : ~Puts(g, v)'
      BY <3>2 DEF Fresh, Puts
    <3>4. Match(row[v].status, v \in banned)'
      BY <2>4, <3>1 DEF Match
    <3> QED BY <3>1, <3>3, <3>4 DEF RowInv, Settled, Settles
  <2>8. ASSUME NEW g \in Handlers, g # h PROVE Named(pc[g], job[g])' /\ Known(pc[g], job[g])'
    <3>1. \A u \in Users : row[u].status # "" => row'[u].status # ""
      BY <2>4
    <3> QED BY <2>3, <2>8, <3>1, OthersKnow
  <2>9. \A u \in Users : RowInv(u)'
    BY <2>6, <2>7
  <2>10. \A g \in Handlers : (Named(pc[g], job[g]) /\ Known(pc[g], job[g]))'
    BY <2>5, <2>8
  <2> QED BY <2>9, <2>10 DEF ListInv
<1> QED BY <1>1, <1>3, <1>4 DEF Insert

(* A statement that fails between list and row tears the row.               *)
LEMMA FailsBan ==
    ASSUME ListInv, Inv', NEW h \in Handlers, StatementFails(h)
    PROVE  ListInv'
<1>0. Inv /\ AccountTypes
  BY DEF ListInv, Inv
<1>1. /\ row' = row /\ banned' = banned /\ restarted' = restarted
      /\ torn' = IF pc[h] = "write" THEN torn \cup {job[h].user} ELSE torn
      /\ Done(h, FALSE, 0)
  BY DEF StatementFails, Refuse, stored
<1>2. CASE pc[h] # "write"
  <2>1. torn' = torn /\ \A u \in Users : row'[u].status = row[u].status
    BY <1>1, <1>2
  <2> QED BY <1>1, <1>2, <2>1, DoneBan
<1>3. CASE pc[h] = "write"
  <2>1. PICK l \in {"done", "idle"}, j \in Jobs : Goto(h, l, j)
    BY <1>0, <1>1, AfterTyped DEF Done
  <2>2. pc'[h] = l /\ \A g \in Handlers \ {h} : Stays(g)
    BY <1>0, <2>1 DEF Goto, AccountTypes, Stays
  <2>3. ASSUME NEW u \in Users PROVE RowInv(u)'
    <3>1. CASE u = job[h].user
      <4>1. u \in torn'
        BY <1>1, <1>3, <3>1
      <4> QED BY <1>1, <4>1 DEF ListInv, RowInv
    <3>2. CASE u # job[h].user
      <4>1. ~Puts(h, u) /\ ~Puts(h, u)' /\ Fresh(pc[h], job[h], u)'
        BY <2>2, <3>2 DEF Puts, Fresh
      <4>2. u \in torn => u \in torn'
        BY <1>1
      <4> QED BY <1>1, <2>2, <4>1, <4>2, RowKept
    <3> QED BY <3>1, <3>2
  <2>4. ASSUME NEW g \in Handlers PROVE Named(pc[g], job[g])' /\ Known(pc[g], job[g])'
    <3>1. CASE g = h
      BY <2>2, <3>1 DEF Named, Known
    <3>2. CASE g # h
      BY <1>1, <2>2, <3>2, OthersKnow
    <3> QED BY <3>1, <3>2
  <2> QED BY <2>3, <2>4 DEF ListInv
<1> QED BY <1>2, <1>3

LEMMA StepBan ==
    ASSUME ListInv, NEW h \in Handlers, Step(h)
    PROVE  ListInv'
<1>0. Inv /\ Inv'
  BY StepInv DEF ListInv
<1>1. CASE Check(h) \/ CheckFails(h)
  BY <1>0, <1>1, CheckBan DEF Check, CheckFails
<1>2. CASE Mint(h) \/ VerifyCode(h) \/ SetPassword(h) \/ DeleteKey(h)
  BY <1>0, <1>2, MintBan, VerifyBan, PasswordBan, DeleteKeyBan
<1>3. CASE Insert(h, NewUserQuota) \/ \E q \in Forms : Insert(h, q)
  BY <1>0, <1>3, Amounts, InsertBan
<1>4. CASE Read(h) \/ ReadFails(h)
  BY <1>0, <1>4, ReadBan
<1>5. CASE Submit(h, job[h].copy.quota) \/ \E q \in Forms : Submit(h, q)
  <2>1. job[h].copy.quota \in Int
    BY <1>0, JobOf DEF Rows
  <2> QED BY <1>0, <1>5, <2>1, Amounts, SubmitBan
<1>6. CASE Ban(h) \/ Write(h) \/ StatementFails(h)
  BY <1>0, <1>6, BanBan, WriteBan, FailsBan
<1> QED BY <1>1, <1>2, <1>3, <1>4, <1>5, <1>6 DEF Step

-----------------------------------------------------------------------------
(* Steps in which nobody moves                                              *)
LEMMA UnmovedBan ==
    ASSUME ListInv, Inv', UNCHANGED <<pc, job, banned, torn, restarted>>,
           \A u \in Users : row'[u].status = row[u].status
    PROVE  ListInv'
<1>1. \A g \in Handlers : Stays(g)
  BY DEF Stays
<1>2. ASSUME NEW u \in Users PROVE RowInv(u)'
  BY <1>1, RowKept
<1>3. ASSUME NEW g \in Handlers PROVE Named(pc[g], job[g])' /\ Known(pc[g], job[g])'
  BY <1>1, OthersKnow
<1> QED BY <1>2, <1>3 DEF ListInv

LEMMA QuotaBan ==
    ASSUME ListInv, Inv', NEW u \in Users, NEW v,
           \/ PreConsume(u, v) \/ SettleFails(u, v) \/ AdminTopUp(u, v)
           \/ \E q : Settle(u, v, q)
    PROVE  ListInv'
<1>1. row' = row \/ \E q : row' = [row EXCEPT ![u].quota = q]
  BY DEF PreConsume, Settle, SettleFails, stored, AdminTopUp
<1>2. row \in [Users -> Rows]
  BY DEF ListInv, Inv, AccountTypes
<1>3. \A w \in Users : row'[w].status = row[w].status
  <2>1. CASE row' = row
    BY <2>1
  <2>2. ASSUME NEW q, row' = [row EXCEPT ![u].quota = q]
        PROVE  \A w \in Users : row'[w].status = row[w].status
    BY <1>2, <2>2 DEF Rows
  <2> QED BY <1>1, <2>1, <2>2
<1>4. UNCHANGED <<pc, job, banned, torn, restarted>>
  BY DEF PreConsume, Settle, SettleFails, stored, AdminTopUp
<1> QED BY <1>3, <1>4, UnmovedBan

(* The ban list is lost with the process, and the handlers are.             *)
LEMMA CrashBan ==
    ASSUME ListInv, Inv', Crash
    PROVE  ListInv'
<1>1. /\ \A h \in Handlers : pc'[h] \in {"lost", "idle"}
      /\ \A u \in Users : u \notin banned'
      /\ restarted'
  BY DEF Crash
<1>2. \A h \in Handlers : (Named(pc[h], job[h]) /\ Known(pc[h], job[h]))'
  BY <1>1 DEF Named, Known
<1>3. ASSUME NEW u \in Users PROVE RowInv(u)'
  <2>1. Match(row[u].status, u \in banned)'
    BY <1>1 DEF Match
  <2>2. \A h \in Handlers : ~Puts(h, u)' /\ Fresh(pc[h], job[h], u)'
    BY <1>1 DEF Puts, Fresh
  <2> QED BY <1>1, <2>1, <2>2 DEF RowInv, Settled, Settles
<1> QED BY <1>2, <1>3 DEF ListInv

LEMMA StillBan ==
    ASSUME ListInv, UNCHANGED vars
    PROVE  ListInv'
<1>1. Inv'
  BY StillInv DEF ListInv, vars, stored, history
<1> QED BY <1>1, UnmovedBan DEF vars, stored, history

LEMMA ElsewhereBan ==
    ASSUME ListInv, Elsewhere
    PROVE  ListInv'
<1>0. Inv'
  BY ElsewhereInv DEF ListInv
<1>1. CASE \E p \in Purposes, e \in Emails : CodeExpires(p, e)
  BY <1>0, <1>1, UnmovedBan DEF CodeExpires, history
<1>2. CASE \/ \E u \in Users, v \in Prices : PreConsume(u, v) \/ SettleFails(u, v)
           \/ \E u \in Users, v \in Prices \cup {0}, q \in Prices : Settle(u, v, q)
           \/ \E u \in Users, v \in Prices : Settle(u, v, 0)
  BY <1>0, <1>2, QuotaBan
<1>3. CASE \E u \in Users, v \in TopUps : AdminTopUp(u, v)
  BY <1>0, <1>3, QuotaBan
<1> QED BY <1>0, <1>1, <1>2, <1>3, CrashBan DEF Elsewhere

LEMMA NextBan == ListInv /\ [Next]_vars => ListInv'
<1> SUFFICES ASSUME ListInv, [Next]_vars PROVE ListInv'
  OBVIOUS
<1>1. CASE Elsewhere
  BY <1>1, ElsewhereBan
<1>2. ASSUME NEW h \in Handlers, Request(h) PROVE ListInv'
  BY <1>2, RequestInv, RequestBan DEF ListInv
<1>3. ASSUME NEW h \in Handlers, Step(h) PROVE ListInv'
  BY <1>3, StepBan
<1> QED BY <1>1, <1>2, <1>3, StillBan DEF Next

LEMMA ListFollows == ListInv => BanFollowsStatus
<1> SUFFICES ASSUME ListInv, NEW u \in Users \ torn,
                    \A h \in Handlers : ~Writing(h, u) \/ pc[h] \in {"form", "ban", "insert"}
             PROVE  /\ u \in banned => row[u].status # "enabled"
                    /\ row[u].status \in {"disabled", "deleted"} => u \in banned \/ restarted
  BY DEF BanFollowsStatus
<1>1. \A h \in Handlers : ~Puts(h, u)
  BY DEF Puts, Writing
<1> QED BY <1>1 DEF ListInv, RowInv, Settled, Match

\* When the writers of a user's row are done, and none overlapped or failed, a
\* banned user is not enabled, and a disabled or deleted one is banned as long
\* as the process runs: User.Update and User.Delete (model/user.go:136, 153)
\* change the ban list one step before the row.
THEOREM BansFollow == Spec => []BanFollowsStatus
  BY InitBan, NextBan, ListFollows, PTL DEF Spec

-----------------------------------------------------------------------------
(* The same behind the pages: their clicks are requests, or nothing, and an *)
(* answer that arrives leaves the handler idle.                             *)
PageListInv == PageInv /\ ListInv

LEMMA ServerStillBan ==
    ASSUME ListInv, ServerStill
    PROVE  ListInv'
  BY StillBan DEF ServerStill

LEMMA FreesBan ==
    ASSUME ListInv, NEW h \in Handlers, Frees(h), pc[h] # "write"
    PROVE  ListInv'
<1>1. Inv'
  BY FreesInv DEF ListInv
<1>2. /\ "idle" # "write" /\ Named("idle", NoJob) /\ Known("idle", NoJob)
      /\ \A u \in Users : Fresh("idle", NoJob, u)
  BY Careless
<1>3. /\ Goto(h, "idle", NoJob) /\ \A u \in Users : row'[u].status = row[u].status
      /\ banned' = banned /\ torn' = torn /\ restarted' = restarted
  BY DEF Frees, stored, history
<1> QED BY <1>1, <1>2, <1>3, GotoBan

LEMMA ClickBan ==
    ASSUME ListInv, NEW h \in Handlers,
           \/ AsksForLink(h)
           \/ \E spins : Confirms(h, spins) /\ link \in Mails
           \/ \E counts, asks, spins : AsksForCode(h, counts, asks, spins)
           \/ \E m \in Mails : \/ Register(h, "page", Self, m)
                               \/ EmailBind(h, "page", Self, m)
    PROVE  ListInv'
<1>1. Inv'
  BY ClickInv DEF ListInv
<1>2. \/ ServerStill
      \/ SendPasswordResetEmail(h, "page", Address)
      \/ SendEmailVerification(h, "page", Address)
      \/ \E m \in Mails : \/ ResetPassword(h, "page", m)
                          \/ Register(h, "page", Self, m)
                          \/ EmailBind(h, "page", Self, m)
  BY DEF AsksForLink, Confirms, AsksForCode
<1> QED BY <1>1, <1>2, ServerStillBan, CarelessRequests, CodeRequestsBan

LEMMA PageStepBan ==
    ASSUME PageListInv, PageStep
    PROVE  ListInv'
<1>0. ListInv /\ link \in Mails /\ \A p : Mailed(p) \subseteq Mails
  BY DEF PageListInv, PageInv, Mailed, Inv, AccountTypes
<1>1. ASSUME NEW h \in Handlers,
             \/ DefaultPasswordResetForm(h) \/ AirPasswordResetForm(h)
             \/ ForgetPasswordForm(h)
      PROVE  ListInv'
  <2>1. AsksForLink(h)
    BY <1>1 DEF DefaultPasswordResetForm, AirPasswordResetForm, ForgetPasswordForm
  <2> QED BY <1>0, <2>1, ClickBan
<1>2. ASSUME NEW h \in Handlers,
             \/ DefaultPasswordResetConfirm(h) \/ AirPasswordResetConfirm(h)
             \/ ResetPasswordForm(h)
      PROVE  ListInv'
  <2>1. \E spins : Confirms(h, spins)
    BY <1>2 DEF DefaultPasswordResetConfirm, AirPasswordResetConfirm, ResetPasswordForm
  <2> QED BY <1>0, <2>1, ClickBan
<1>3. ASSUME NEW h \in Handlers,
             \/ DefaultRegisterCode(h) \/ AirRegisterCode(h) \/ BerryRegisterCode(h)
             \/ DefaultBindCode(h) \/ AirBindCode(h) \/ EmailModalCode(h)
      PROVE  ListInv'
  <2>1. \E counts, asks, spins : AsksForCode(h, counts, asks, spins)
    BY <1>3 DEF DefaultRegisterCode, AirRegisterCode, BerryRegisterCode, DefaultBindCode,
                AirBindCode, EmailModalCode
  <2> QED BY <1>0, <2>1, ClickBan
<1>4. ASSUME NEW h \in Handlers, NEW m \in Mailed(Verify_),
             \/ DefaultRegister(h, m) \/ AirRegister(h, m) \/ BerryRegister(h, m)
             \/ DefaultBindEmail(h, m) \/ AirBindEmail(h, m) \/ EmailModalSubmit(h, m)
      PROVE  ListInv'
  <2>1. Register(h, "page", Self, m) \/ EmailBind(h, "page", Self, m)
    BY <1>4 DEF DefaultRegister, AirRegister, BerryRegister, Registers, DefaultBindEmail,
                AirBindEmail, EmailModalSubmit, Binds
  <2>2. m \in Mails
    BY <1>0
  <2> QED BY <1>0, <2>1, <2>2, ClickBan
<1>5. ASSUME NEW h \in Handlers, Arrives(h) \/ GoesMissing(h)
      PROVE  ListInv'
  <2>1. Frees(h) /\ pc[h] \in {"done", "lost"}
    BY <1>5 DEF Arrives, GoesMissing
  <2> QED BY <1>0, <2>1, FreesBan
<1>6. CASE Retypes \/ CountdownEnds \/ \E m \in Mailed(Reset_) : Follows(m)
  <2>1. ServerStill
    BY <1>6 DEF Retypes, CountdownEnds, Follows, ServerStill
  <2> QED BY <1>0, <2>1, ServerStillBan
<1> QED BY <1>1, <1>2, <1>3, <1>4, <1>5, <1>6 DEF PageStep

LEMMA OthersBan ==
    ASSUME PageListInv, Others
    PROVE  ListInv'
<1>0. ListInv /\ PageInv /\ \A p : Mailed(p) \subseteq Mails
  BY DEF PageListInv, PageInv, Mailed, Inv, AccountTypes
<1>1. Inv'
  BY <1>0, OthersInv DEF PageInv
<1>2. ASSUME NEW h \in Handlers, BesidePage(h)
      PROVE  ListInv'
  <2>1. CASE \/ SendEmailVerification(h, "other", Address)
             \/ SendPasswordResetEmail(h, "other", Address)
    BY <1>0, <1>1, <2>1, CarelessRequests
  <2>2. CASE \E u \in Users \ {Self}, m \in Mailed(Verify_) : EmailBind(h, "other", u, m)
    BY <1>0, <1>1, <2>2, CodeRequestsBan
  <2>3. CASE ChangePassword(h, Self) \/ GenerateAccessToken(h, Self)
    BY <1>0, <1>1, <2>3, PageAssumption, ReadRequestsBan
  <2> QED BY <1>2, <2>1, <2>2, <2>3 DEF BesidePage
<1>3. CASE Elsewhere
  BY <1>0, <1>3, ElsewhereBan
<1>4. ASSUME NEW h \in Handlers, Request(h) PROVE ListInv'
  BY <1>0, <1>1, <1>4, RequestBan
<1>5. ASSUME NEW h \in Handlers, Step(h) PROVE ListInv'
  BY <1>0, <1>5, StepBan
<1>6. CASE Crash \/ \E p \in Purposes, e \in Emails : CodeExpires(p, e)
  <2>1. Elsewhere
    BY <1>6 DEF Elsewhere
  <2> QED BY <1>0, <2>1, ElsewhereBan
<1> QED BY <1>2, <1>3, <1>4, <1>5, <1>6 DEF Others

\* The same behind the pages that ask for codes and use them, with handlers
\* whose answers wait for a page or are lost.
THEOREM PagesKeepBans == PageSpec => []BanFollowsStatus
<1>1. PageInit => PageListInv
  <2> SUFFICES ASSUME PageInit PROVE PageListInv
    OBVIOUS
  <2>1. Init
    BY DEF PageInit
  <2>2. PageInv
    <3>1. NoLink \in Mails
      BY DEF NoLink, Mails, Purposes
    <3> QED BY <2>1, <3>1, InitInv DEF PageInit, PageInv
  <2> QED BY <2>1, <2>2, InitBan DEF PageListInv
<1>2. PageListInv /\ [PageNext]_allVars => PageListInv'
  <2> SUFFICES ASSUME PageListInv, [PageNext]_allVars PROVE PageListInv'
    OBVIOUS
  <2>1. CASE PageNext
    <3>1. PageInv'
      BY <2>1, PageStepInv, OthersInv DEF PageNext, PageListInv
    <3>2. ListInv'
      BY <2>1, PageStepBan, OthersBan DEF PageNext
    <3> QED BY <3>1, <3>2 DEF PageListInv
  <2>2. CASE UNCHANGED allVars
    <3>1. ServerStill /\ link' = link
      BY <2>2 DEF allVars, pageVars, ServerStill
    <3> QED BY <3>1, ServerStillInv, ServerStillBan DEF PageListInv, PageInv
  <2> QED BY <2>1, <2>2
<1>3. PageListInv => BanFollowsStatus
  BY ListFollows DEF PageListInv
<1> QED BY <1>1, <1>2, <1>3, PTL DEF PageSpec

-----------------------------------------------------------------------------
(* Addresses.  Who shares one?                                              *)

(* A code for e may be sent or verified, or was verified by a handler that  *)
(* has not written its row yet.                                             *)
Valid(e)  == code[Verify_][e] \notin spent \cup {0}
Ticket(e) == Valid(e) \/ \E h \in Handlers : Sending(h, e) \/ Claiming(h, e)
Free(e)   == Owners(e) \ torn = {}
(* Whoever claims an address is the only one who can get it.                *)
Alone(e) ==
    \A h \in Handlers : Claiming(h, e) =>
      /\ ~Valid(e)
      /\ \A g \in Handlers : ~Sending(g, e) /\ (Claiming(g, e) => g = h)
AddressInv(e) ==
    /\ Ticket(e) => Free(e)
    /\ Alone(e)
    /\ \A u, v \in Owners(e) \ torn : u = v

(* What a handler does to the address of a row: a binding that was verified *)
(* sets it, a registration starts with it, and as long as nobody has        *)
(* overtaken the others they write none, or the row's own.                  *)
Carries == {"form", "ban", "write", "rewrite"}
Addressed(l, j) ==
    /\ l = "verify" /\ j.op # "reset" => j.code # 0
    /\ l = "insert" => j.op = "register" \/ j.email = ""
    /\ l = "rewrite" => j.op # "bind"
    /\ l \in Carries =>
         IF j.op = "bind" THEN j.copy.email = j.email
         ELSE ~j.old => j.copy.email \in {"", row[j.user].email}

OwnerInv ==
    /\ Inv
    /\ code \in [Purposes -> [Emails -> Nat]]
    /\ \A m \in mail : m.code # 0
    /\ \A h \in Handlers : Addressed(pc[h], job[h])
    /\ \A e \in Emails \ mixed : AddressInv(e)

LEMMA InitOwn == Init => OwnerInv
<1> SUFFICES ASSUME Init PROVE OwnerInv
  OBVIOUS
<1>1. Inv
  BY InitInv
<1>2. /\ \A h \in Handlers : pc[h] = "idle"
      /\ mail = {}
      /\ code = [p \in Purposes |-> [e \in Emails |-> 0]]
  BY DEF Init
<1>3. \A h \in Handlers : Addressed(pc[h], job[h])
  BY <1>2 DEF Addressed, Carries
<1>4. PICK f \in Starts :
        row = [u \in Users |-> IF f[u] = "absent" THEN Absent ELSE Row("enabled", f[u], 1, Start)]
  BY DEF Init
<1>5. ASSUME NEW u \in Users, row[u].email \in Emails PROVE row[u].email = f[u]
  <2>1. Absent.email = "" /\ Row("enabled", f[u], 1, Start).email = f[u]
    BY DEF Absent, Row
  <2>2. "" \notin Emails
    BY AccountAssumption
  <2> QED BY <1>4, <1>5, <2>1, <2>2
<1>6. ASSUME NEW e \in Emails PROVE AddressInv(e)
  <2>1. ~Ticket(e) /\ Alone(e)
    BY <1>2 DEF Ticket, Alone, Valid, Sending, Claiming, Purposes
  <2>2. ASSUME NEW u \in Owners(e), NEW v \in Owners(e) PROVE u = v
    <3>1. u \in Users /\ v \in Users /\ f[u] = e /\ f[v] = e
      BY <1>5 DEF Owners
    <3> QED BY <3>1, AccountAssumption
  <2> QED BY <2>1, <2>2 DEF AddressInv
<1>7. code \in [Purposes -> [Emails -> Nat]]
  BY <1>2
<1> QED BY <1>1, <1>2, <1>3, <1>6, <1>7 DEF OwnerInv

(* Its row has the same address as before, or it knows.                     *)
Told(g) ==
    pc[g] \in Carries =>
      job'[g].old \/ row'[job[g].user].email = row[job[g].user].email

LEMMA StaysAddressed ==
    ASSUME OwnerInv, NEW g \in Handlers, Stays(g), Told(g)
    PROVE  Addressed(pc[g], job[g])'
<1>1. Addressed(pc[g], job[g])
  BY DEF OwnerInv
<1> QED BY <1>1 DEF Addressed, Stays, Told, Carries

LEMMA StaysClaims ==
    ASSUME NEW g \in Handlers, Stays(g), NEW e
    PROVE  Claiming(g, e)' = Claiming(g, e) /\ Sending(g, e)' = Sending(g, e)
  BY DEF Stays, Claiming, Sending

(* Nobody gets nearer to the address, and nobody gets it.                   *)
LEMMA AddressKept ==
    ASSUME NEW e, AddressInv(e), Valid(e)' => Valid(e),
           \A g \in Handlers : (Claiming(g, e)' => Claiming(g, e)) /\ (Sending(g, e)' => Sending(g, e)),
           (Owners(e) \ torn)' \subseteq Owners(e) \ torn
    PROVE  AddressInv(e)'
<1>1. Ticket(e)' => Free(e)'
  BY DEF AddressInv, Ticket, Free
<1>2. Alone(e)'
  BY DEF AddressInv, Alone
<1>3. (\A u, v \in Owners(e) \ torn : u = v)'
  BY DEF AddressInv
<1> QED BY <1>1, <1>2, <1>3 DEF AddressInv

LEMMA OwnersKept ==
    ASSUME NEW e, \A u \in Users : row'[u].email = row[u].email,
           \A u \in torn : u \in torn'
    PROVE  (Owners(e) \ torn)' \subseteq Owners(e) \ torn
  BY DEF Owners

LEMMA QuietOwn ==
    ASSUME OwnerInv, Inv', NEW h \in Handlers,
           \A g \in Handlers \ {h} : Stays(g),
           Addressed(pc[h], job[h])',
           \A e \in Emails : (Claiming(h, e)' => Claiming(h, e)) /\ (Sending(h, e)' => Sending(h, e)),
           \A u \in Users : row'[u].email = row[u].email,
           \A u \in torn : u \in torn', \A e \in mixed : e \in mixed',
           \A c \in spent : c \in spent',
           code' \in [Purposes -> [Emails -> Nat]],
           \A e \in Emails : code'[Verify_][e] \in {0, code[Verify_][e]},
           \A m \in mail' : m.code # 0
    PROVE  OwnerInv'
<1>1. ASSUME NEW g \in Handlers PROVE Addressed(pc[g], job[g])'
  <2>1. CASE g = h
    BY <2>1
  <2>2. CASE g # h
    <3>1. pc[g] \in Carries => job[g].user \in Users
      BY JobOf DEF OwnerInv, Good, Carries
    <3>2. Stays(g) /\ Told(g)
      BY <2>2, <3>1 DEF Told
    <3> QED BY <3>2, StaysAddressed
  <2> QED BY <2>1, <2>2
<1>2. ASSUME NEW e \in Emails \ mixed' PROVE AddressInv(e)'
  <2>1. AddressInv(e)
    BY DEF OwnerInv
  <2>2. Valid(e)' => Valid(e)
    BY DEF Valid
  <2>3. ASSUME NEW g \in Handlers
        PROVE  (Claiming(g, e)' => Claiming(g, e)) /\ (Sending(g, e)' => Sending(g, e))
    <3>1. CASE g = h
      BY <3>1
    <3>2. CASE g # h
      BY <3>2, StaysClaims
    <3> QED BY <3>1, <3>2
  <2> QED BY <2>1, <2>2, <2>3, OwnersKept, AddressKept
<1> QED BY <1>1, <1>2 DEF OwnerInv

(* What is stored of codes and addresses stays.                             *)
SameStored ==
    /\ \A u \in Users : row'[u].email = row[u].email
    /\ torn \subseteq torn' /\ mixed' = mixed /\ spent' = spent
    /\ code' = code /\ mail' = mail

LEMMA GotoOwn ==
    ASSUME OwnerInv, Inv', NEW h \in Handlers, NEW l, NEW j, Goto(h, l, j),
           Addressed(l, j), SameStored,
           \A e \in Emails : (Claiming(h, e)' => Claiming(h, e)) /\ (Sending(h, e)' => Sending(h, e))
    PROVE  OwnerInv'
<1>1. /\ pc'[h] = l /\ job'[h] = j
      /\ \A g \in Handlers \ {h} : pc'[g] = pc[g] /\ job'[g] = job[g]
  BY DEF Goto, OwnerInv, Inv, AccountTypes
<1>2. \A g \in Handlers \ {h} : Stays(g)
  BY <1>1 DEF Stays
<1>3. Addressed(pc[h], job[h])'
  <2>1. l \in Carries => j.user \in Users
    <3>1. Good(l, j, ceiling', erased')
      BY <1>1 DEF Inv, CopyInv
    <3> QED BY <3>1 DEF Good, Carries
  <2> QED BY <1>1, <2>1 DEF Addressed, SameStored
<1>4. code' \in [Purposes -> [Emails -> Nat]] /\ \A m \in mail' : m.code # 0
  BY DEF OwnerInv, SameStored
<1> QED BY <1>2, <1>3, <1>4, QuietOwn DEF SameStored

(* Where a handler holds no copy and claims nothing.                        *)
Away == {"idle", "done", "lost", "check", "setPassword", "deleteKey"}
LEMMA AwayAddressed ==
    ASSUME NEW l \in Away, NEW j
    PROVE  Addressed(l, j)
  BY DEF Away, Addressed, Carries
LEMMA AwayClaims ==
    ASSUME NEW h \in Handlers, pc[h] \in Away, NEW e
    PROVE  ~Claiming(h, e) /\ ~Sending(h, e)
  BY DEF Away, Claiming, Sending
LEMMA GotoAway ==
    ASSUME OwnerInv, Inv', NEW h \in Handlers, NEW l \in Away, NEW j, Goto(h, l, j), SameStored
    PROVE  OwnerInv'
<1>1. pc'[h] \in Away
  BY DEF Goto, OwnerInv, Inv, AccountTypes
<1>2. \A e : ~Claiming(h, e)' /\ ~Sending(h, e)'
  BY <1>1 DEF Away, Claiming, Sending
<1> QED BY <1>2, AwayAddressed, GotoOwn

LEMMA DoneOwn ==
    ASSUME OwnerInv, Inv', NEW h \in Handlers, NEW ok \in BOOLEAN, NEW p \in Nat, Done(h, ok, p),
           SameStored
    PROVE  OwnerInv'
<1>1. PICK l \in {"done", "idle"}, j \in Jobs : Goto(h, l, j)
  BY AfterTyped DEF Done, OwnerInv, Inv
<1> QED BY <1>1, GotoAway DEF Away

LEMMA BeginOwn ==
    ASSUME OwnerInv, Inv', NEW h \in Handlers, NEW l, NEW j, Begin(h, l, j), Addressed(l, j),
           l # "mint", l = "verify" \/ j.op \notin {"bind", "register"}
    PROVE  OwnerInv'
<1>1. Goto(h, l, j) /\ SameStored
  BY DEF Begin, history, SameStored
<1>2. pc'[h] = l /\ job'[h] = j
  BY <1>1 DEF Goto, OwnerInv, Inv, AccountTypes
<1>3. \A e : ~Claiming(h, e)' /\ ~Sending(h, e)'
  BY <1>2 DEF Claiming, Sending
<1> QED BY <1>1, <1>3, GotoOwn

LEMMA MailRequestsOwn ==
    ASSUME OwnerInv, Inv', NEW h \in Handlers, NEW by, NEW e, NEW u,
           \/ SendEmailVerification(h, by, e) \/ SendPasswordResetEmail(h, by, e)
           \/ CreateUser(h, u)
    PROVE  OwnerInv'
<1>1. CASE CreateUser(h, u)
  <2> DEFINE j == Of("create", "other", u, "", 0)
  <2>1. j.op = "create" /\ j.email = ""
    BY DEF Of
  <2>2. Begin(h, "insert", j)
    BY <1>1 DEF CreateUser
  <2> HIDE DEF j
  <2>3. Addressed("insert", j)
    BY <2>1 DEF Addressed, Carries
  <2> QED BY <2>1, <2>2, <2>3, BeginOwn
<1>2. CASE SendEmailVerification(h, by, e) \/ SendPasswordResetEmail(h, by, e)
  <2>1. PICK j : Begin(h, "check", j)
    BY <1>2 DEF SendEmailVerification, SendPasswordResetEmail
  <2>2. Goto(h, "check", j) /\ SameStored
    BY <2>1 DEF Begin, history, SameStored
  <2> QED BY <2>2, GotoAway DEF Away
<1> QED BY <1>1, <1>2

LEMMA CodeRequestsOwn ==
    ASSUME OwnerInv, Inv', NEW h \in Handlers, NEW by, NEW u, NEW m,
           \/ ResetPassword(h, by, m)
           \/ m.code # 0 /\ (Register(h, by, u, m) \/ EmailBind(h, by, u, m))
    PROVE  OwnerInv'
<1>0. PICK op \in {"reset", "register", "bind"} : \E v :
        /\ op # "reset" => m.code # 0
        /\ Begin(h, "verify", Of(op, by, v, m.email, m.code))
  BY DEF ResetPassword, Register, EmailBind
<1>1. PICK v :
        /\ op # "reset" => m.code # 0
        /\ Begin(h, "verify", Of(op, by, v, m.email, m.code))
  BY <1>0
<1> DEFINE j == Of(op, by, v, m.email, m.code)
<1>2. j.op = op /\ j.code = m.code
  BY DEF Of
<1> HIDE DEF j
<1>3. Addressed("verify", j)
  BY <1>1, <1>2 DEF Addressed, Carries
<1> QED BY <1>1, <1>3, BeginOwn DEF j

LEMMA ReadRequestsOwn ==
    ASSUME OwnerInv, Inv', NEW h \in Handlers, NEW u,
           \/ GenerateAccessToken(h, u) \/ ChangePassword(h, u)
           \/ \E op \in Manages : ManageUser(h, u, op)
    PROVE  OwnerInv'
<1>1. PICK op \in Reads \ {"bind"} : Begin(h, "read", Of(op, "other", u, "", 0))
  BY DEF GenerateAccessToken, ChangePassword, ManageUser, Reads, Manages
<1> DEFINE j == Of(op, "other", u, "", 0)
<1>2. j.op \notin {"bind", "register"}
  BY DEF Of, Reads
<1> HIDE DEF j
<1>3. Addressed("read", j)
  BY DEF Addressed, Carries
<1> QED BY <1>1, <1>2, <1>3, BeginOwn DEF j

LEMMA BlindRequestsOwn ==
    ASSUME OwnerInv, Inv', NEW h \in Handlers, NEW u \in Users, UpdateSelf(h, u) \/ DeleteUser(h, u)
    PROVE  OwnerInv'
<1>0. Absent \in Rows /\ Absent.email = "" /\ minted + 1 \in Nat
  <2>1. Absent.email = ""
    BY DEF Absent, Row
  <2>2. minted + 1 \in Nat
    BY Ceilings DEF OwnerInv
  <2> QED BY <2>1, <2>2, NothingRead
<1>1. PICK op \in {"self", "delete"}, c \in Rows :
        /\ c.email = ""
        /\ Begin(h, "ban", [Of(op, "other", u, "", 0) EXCEPT !.copy = c])
  <2>1. CASE UpdateSelf(h, u)
    <3> DEFINE c == [Absent EXCEPT !.password = minted + 1]
    <3>1. c \in Rows /\ c.email = ""
      BY <1>0 DEF Rows
    <3>2. Begin(h, "ban", [Of("self", "other", u, "", 0) EXCEPT !.copy = c])
      BY <2>1 DEF UpdateSelf
    <3> HIDE DEF c
    <3> QED BY <3>1, <3>2
  <2>2. CASE DeleteUser(h, u)
    <3> DEFINE c == [Absent EXCEPT !.status = "deleted"]
    <3>1. c \in Rows /\ c.email = ""
      BY <1>0 DEF Rows, Statuses
    <3>2. Begin(h, "ban", [Of("delete", "other", u, "", 0) EXCEPT !.copy = c])
      BY <2>2 DEF DeleteUser
    <3> HIDE DEF c
    <3> QED BY <3>1, <3>2
  <2> QED BY <2>1, <2>2
<1> DEFINE k == Of(op, "other", u, "", 0)
<1>2. k \in Jobs
  <2>1. op \in Ops
    BY DEF Ops
  <2> QED BY <2>1, NewJob
<1>3. k.op = op
  BY DEF Of
<1> HIDE DEF k
<1> DEFINE j == [k EXCEPT !.copy = c]
<1>4. j.op = op /\ j.copy = c
  BY <1>2, <1>3 DEF Jobs
<1> HIDE DEF j
<1>5. Begin(h, "ban", j)
  BY <1>1 DEF j, k
<1>6. Addressed("ban", j)
  BY <1>1, <1>4 DEF Addressed
<1> QED BY <1>4, <1>5, <1>6, BeginOwn

LEMMA RequestOwn ==
    ASSUME OwnerInv, Inv', NEW h \in Handlers, Request(h)
    PROVE  OwnerInv'
<1>0. \A m \in Mailed(Verify_) : m.code # 0
  BY DEF Mailed, OwnerInv
<1>1. CASE \E e \in Emails : \/ SendEmailVerification(h, "other", e)
                             \/ SendPasswordResetEmail(h, "other", e)
  BY <1>1, MailRequestsOwn
<1>2. CASE \E m \in Mailed(Reset_) : ResetPassword(h, "other", m)
  BY <1>2, CodeRequestsOwn
<1>3. CASE \E u \in Users, m \in Mailed(Verify_) :
             Register(h, "other", u, m) \/ EmailBind(h, "other", u, m)
  BY <1>0, <1>3, CodeRequestsOwn
<1>4. CASE \E u \in Users :
             \/ CreateUser(h, u) \/ GenerateAccessToken(h, u) \/ ChangePassword(h, u)
             \/ UpdateSelf(h, u) \/ DeleteUser(h, u)
             \/ \E op \in {"disable", "enable", "remove", "edit"} : ManageUser(h, u, op)
  BY <1>4, MailRequestsOwn, ReadRequestsOwn, BlindRequestsOwn DEF Manages
<1> QED BY <1>1, <1>2, <1>3, <1>4 DEF Request

-----------------------------------------------------------------------------
(* Codes: asked for, sent and verified                                      *)
LEMMA OthersOf ==
    ASSUME OwnerInv, NEW h \in Handlers, NEW l, NEW j, Goto(h, l, j)
    PROVE  /\ pc'[h] = l /\ job'[h] = j
           /\ \A g \in Handlers \ {h} : Stays(g)
  BY DEF Goto, OwnerInv, Inv, AccountTypes, Stays

(* A step that matters for one address.                                     *)
LEMMA AddressOwn ==
    ASSUME OwnerInv, Inv', NEW h \in Handlers, NEW a,
           \A g \in Handlers \ {h} : Stays(g),
           Addressed(pc[h], job[h])',
           \A u \in Users : row'[u].email = row[u].email,
           torn' = torn, \A e \in mixed : e \in mixed',
           \A c \in spent : c \in spent',
           code' \in [Purposes -> [Emails -> Nat]],
           \A m \in mail' : m.code # 0,
           \A e \in Emails \ {a} : /\ code'[Verify_][e] \in {0, code[Verify_][e]}
                                   /\ ~Claiming(h, e)' /\ ~Sending(h, e)',
           a \in Emails \ mixed' => AddressInv(a)'
    PROVE  OwnerInv'
<1>1. ASSUME NEW g \in Handlers PROVE Addressed(pc[g], job[g])'
  <2>1. CASE g = h
    BY <2>1
  <2>2. CASE g # h
    <3>1. pc[g] \in Carries => job[g].user \in Users
      BY JobOf DEF OwnerInv, Good, Carries
    <3>2. Stays(g) /\ Told(g)
      BY <2>2, <3>1 DEF Told
    <3> QED BY <3>2, StaysAddressed
  <2> QED BY <2>1, <2>2
<1>2. ASSUME NEW e \in Emails \ mixed' PROVE AddressInv(e)'
  <2>1. CASE e = a
    BY <2>1
  <2>2. CASE e # a
    <3>1. AddressInv(e)
      BY DEF OwnerInv
    <3>2. Valid(e)' => Valid(e)
      BY <2>2 DEF Valid
    <3>3. ASSUME NEW g \in Handlers
          PROVE  (Claiming(g, e)' => Claiming(g, e)) /\ (Sending(g, e)' => Sending(g, e))
      <4>1. CASE g = h
        BY <2>2, <4>1
      <4>2. CASE g # h
        BY <4>2, StaysClaims
      <4> QED BY <4>1, <4>2
    <3>4. (Owners(e) \ torn)' \subseteq Owners(e) \ torn
      BY OwnersKept
    <3> QED BY <3>1, <3>2, <3>3, <3>4, AddressKept
  <2> QED BY <2>1, <2>2
<1> QED BY <1>1, <1>2 DEF OwnerInv

LEMMA CheckOwn ==
    ASSUME OwnerInv, Inv', NEW h \in Handlers, NEW taken, NEW blind,
           Checked(h, taken, blind),
           taken = FALSE /\ ~blind => Owners(job[h].email) = {}
    PROVE  OwnerInv'
<1>a. PICK a : a = job[h].email
  OBVIOUS
<1>0. /\ pc[h] = "check" /\ \A u \in Users : row'[u].email = row[u].email
      /\ code' = code /\ mail' = mail /\ torn' = torn /\ spent' = spent
      /\ \A e \in mixed : e \in mixed'
      /\ \A e \in mixed' \ mixed : e = a
  BY <1>a DEF Checked, stored, Mix
<1>1. /\ code' \in [Purposes -> [Emails -> Nat]] /\ \A m \in mail' : m.code # 0
      /\ \A e \in Emails : code'[Verify_][e] \in {0, code[Verify_][e]}
  BY <1>0 DEF OwnerInv
<1>2. CASE Refuse(h)
  <2>1. PICK l \in {"done", "idle"}, j \in Jobs : Goto(h, l, j)
    BY <1>2, AfterTyped DEF Refuse, Done, OwnerInv, Inv
  <2>2. /\ pc'[h] = l /\ job'[h] = j /\ \A g \in Handlers \ {h} : Stays(g)
    BY <2>1, OthersOf
  <2>3. Addressed(pc[h], job[h])'
    BY <2>2 DEF Addressed, Carries
  <2>4. \A e : ~Claiming(h, e)' /\ ~Sending(h, e)'
    BY <2>2 DEF Claiming, Sending
  <2> QED BY <1>0, <1>1, <2>2, <2>3, <2>4, QuietOwn
<1>3. CASE Goto(h, "mint", job[h]) /\ taken = (job[h].op = "sendReset")
  <2>1. /\ pc'[h] = "mint" /\ job'[h] = job[h] /\ \A g \in Handlers \ {h} : Stays(g)
    BY <1>3, OthersOf
  <2>2. Addressed(pc[h], job[h])'
    BY <2>1 DEF Addressed, Carries
  <2>3. /\ \A e : ~Claiming(h, e)'
        /\ \A e : Sending(h, e)' <=> job[h].op = "sendCode" /\ e = a
    BY <1>a, <2>1 DEF Claiming, Sending
  <2>4. CASE job[h].op # "sendCode"
    BY <1>0, <1>1, <2>1, <2>2, <2>3, <2>4, QuietOwn
  <2>5. CASE job[h].op = "sendCode"
    <3>1. ASSUME a \in Emails \ mixed' PROVE AddressInv(a)'
      <4>1. ~blind /\ \A g \in Handlers : ~Claiming(g, a)
        BY <1>a, <2>5, <3>1 DEF Checked, Mix
      <4>2. Owners(a) = {}
        BY <1>a, <1>3, <2>5, <4>1
      <4>3. (Owners(a) \ torn)' = {}
        BY <1>0, <4>2 DEF Owners
      <4>4. \A g \in Handlers : ~Claiming(g, a)'
        BY <2>1, <2>3, <4>1, StaysClaims
      <4>5. Alone(a)'
        BY <4>4 DEF Alone
      <4>6. Free(a)'
        BY <4>3 DEF Free
      <4> QED BY <4>3, <4>5, <4>6 DEF AddressInv
    <3>2. \A e \in Emails \ {a} : ~Claiming(h, e)' /\ ~Sending(h, e)'
      BY <2>3
    <3> QED BY <1>0, <1>1, <2>1, <2>2, <3>1, <3>2, AddressOwn
  <2> QED BY <2>4, <2>5
<1> QED BY <1>2, <1>3 DEF Checked

(* The check is right about an address that nobody has.                     *)
LEMMA NobodyHas ==
    ASSUME NEW e, ~IsEmailAlreadyTaken(e)
    PROVE  Owners(e) = {}
<1>1. IsFiniteSet(Owners(e))
  <2>1. IsFiniteSet(Users)
    BY AccountAssumption
  <2> QED BY <2>1, FS_Subset DEF Owners
<1>2. Cardinality(Owners(e)) \in Nat
  BY <1>1, FS_CardinalityType
<1>3. Cardinality(Owners(e)) = 0
  BY <1>2 DEF IsEmailAlreadyTaken
<1> QED BY <1>1, <1>3, FS_EmptySet

LEMMA ChecksOwn ==
    ASSUME OwnerInv, Inv', NEW h \in Handlers, Check(h) \/ CheckFails(h)
    PROVE  OwnerInv'
<1> DEFINE a == job[h].email
<1>1. CASE Check(h)
  <2> DEFINE taken == IsEmailAlreadyTaken(a)
  <2>1. taken = FALSE => Owners(a) = {}
    BY NobodyHas
  <2>2. Checked(h, taken, FALSE)
    BY <1>1 DEF Check
  <2> HIDE DEF taken
  <2> QED BY <2>1, <2>2, CheckOwn
<1>2. CASE CheckFails(h)
  <2> DEFINE blind == Owners(a) # {}
  <2>1. Checked(h, FALSE, blind)
    BY <1>2 DEF CheckFails
  <2>2. ~blind => Owners(a) = {}
    OBVIOUS
  <2> HIDE DEF blind
  <2> QED BY <2>1, <2>2, CheckOwn
<1> QED BY <1>1, <1>2

LEMMA MintOwn ==
    ASSUME OwnerInv, Inv', NEW h \in Handlers, Mint(h)
    PROVE  OwnerInv'
<1>a. PICK a : a = job[h].email
  OBVIOUS
<1> DEFINE p == IF job[h].op = "sendCode" THEN Verify_ ELSE Reset_
<1>0. /\ pc[h] = "mint" /\ \A u \in Users : row'[u].email = row[u].email
      /\ torn' = torn /\ spent' = spent /\ mixed' = mixed
      /\ code' = [code EXCEPT ![p][a] = minted + 1]
      /\ \/ mail' = mail
         \/ mail' = mail \cup {[purpose |-> p, email |-> a, code |-> minted + 1]}
  BY <1>a DEF Mint, history
<1>1. minted + 1 \in Nat /\ minted + 1 # 0
  <2>1. minted \in Nat
    BY Ceilings DEF OwnerInv
  <2> QED BY <2>1
<1>2. /\ code' \in [Purposes -> [Emails -> Nat]]
      /\ \A e \in Emails \ {a} : code'[Verify_][e] = code[Verify_][e]
      /\ p # Verify_ => \A e \in Emails : code'[Verify_][e] = code[Verify_][e]
  <2> HIDE DEF p
  <2>1. code \in [Purposes -> [Emails -> Nat]] /\ Verify_ \in Purposes
    BY DEF OwnerInv, Purposes
  <2> QED BY <1>0, <1>1, <2>1
<1>3. ASSUME NEW m \in mail' PROVE m.code # 0
  <2>1. CASE m \in mail
    BY <2>1 DEF OwnerInv
  <2>2. CASE m = [purpose |-> p, email |-> a, code |-> minted + 1]
    BY <1>1, <2>2
  <2> QED BY <1>0, <2>1, <2>2
<1>4. PICK l \in {"done", "idle"}, j \in Jobs : Goto(h, l, j)
  <2>1. Done(h, TRUE, 0) \/ Done(h, FALSE, 0)
    BY DEF Mint, Refuse
  <2> QED BY <2>1, AfterTyped DEF Done, OwnerInv, Inv
<1>5. /\ pc'[h] = l /\ job'[h] = j /\ \A g \in Handlers \ {h} : Stays(g)
  BY <1>4, OthersOf
<1>6. Addressed(pc[h], job[h])'
  BY <1>5 DEF Addressed, Carries
<1>7. \A e : ~Claiming(h, e)' /\ ~Sending(h, e)'
  BY <1>5 DEF Claiming, Sending
<1>8. ASSUME a \in Emails \ mixed' PROVE AddressInv(a)'
  <2>1. AddressInv(a) /\ (Owners(a) \ torn)' \subseteq Owners(a) \ torn
    BY <1>0, <1>8, OwnersKept DEF OwnerInv
  <2>2. CASE job[h].op = "sendCode"
    <3>1. Sending(h, a)
      BY <1>a, <1>0, <2>2 DEF Sending
    <3>2. Free(a) /\ \A g \in Handlers : ~Claiming(g, a)
      BY <2>1, <3>1 DEF AddressInv, Ticket, Alone
    <3>3. Free(a)'
      BY <2>1, <3>2 DEF Free
    <3>4. \A g \in Handlers : ~Claiming(g, a)'
      BY <1>5, <1>7, <3>2, StaysClaims
    <3>5. Alone(a)'
      BY <3>4 DEF Alone
    <3>6. (\A u, v \in Owners(a) \ torn : u = v)'
      BY <3>3 DEF Free
    <3> QED BY <3>3, <3>5, <3>6 DEF AddressInv
  <2>3. CASE job[h].op # "sendCode"
    <3>1. p # Verify_
      BY <2>3 DEF Verify_, Reset_
    <3>2. Valid(a)' => Valid(a)
      BY <1>0, <1>2, <1>8, <3>1 DEF Valid
    <3>3. ASSUME NEW g \in Handlers
          PROVE  (Claiming(g, a)' => Claiming(g, a)) /\ (Sending(g, a)' => Sending(g, a))
      <4>1. CASE g = h
        BY <1>7, <4>1
      <4>2. CASE g # h
        BY <1>5, <4>2, StaysClaims
      <4> QED BY <4>1, <4>2
    <3> QED BY <2>1, <3>2, <3>3, AddressKept
  <2> QED BY <2>2, <2>3
<1>9. ASSUME NEW e \in Emails \ {a}
      PROVE  /\ code'[Verify_][e] \in {0, code[Verify_][e]}
             /\ ~Claiming(h, e)' /\ ~Sending(h, e)'
  BY <1>2, <1>7
<1> HIDE DEF p
<1>10. /\ code' \in [Purposes -> [Emails -> Nat]]
       /\ (\A e \in mixed : e \in mixed') /\ (\A c \in spent : c \in spent')
  BY <1>0, <1>2
<1> QED BY <1>0, <1>3, <1>5, <1>6, <1>8, <1>9, <1>10, AddressOwn

(* Whoever verifies a code uses it up, and then is the only one who can get *)
(* the address.                                                             *)
LEMMA VerifyOwn ==
    ASSUME OwnerInv, Inv', NEW h \in Handlers, VerifyCode(h)
    PROVE  OwnerInv'
<1>a. PICK a : a = job[h].email
  OBVIOUS
<1>c. PICK c : c = job[h].code
  OBVIOUS
<1>0. /\ pc[h] = "verify" /\ \A u \in Users : row'[u].email = row[u].email
      /\ code' = code /\ mail' = mail /\ torn' = torn
  BY DEF VerifyCode, stored
<1>1. /\ code' \in [Purposes -> [Emails -> Nat]] /\ \A m \in mail' : m.code # 0
      /\ \A e \in Emails : code'[Verify_][e] \in {0, code[Verify_][e]}
  BY <1>0 DEF OwnerInv
<1>2. CASE Refuse(h) /\ UNCHANGED <<spent, mixed>>
  BY <1>0, <1>2, DoneOwn DEF Refuse, SameStored
<1>3. ASSUME NEW l \in {"setPassword", "read", "insert"},
             Goto(h, l, job[h]), spent' = spent \cup {c},
             l = "setPassword" <=> job[h].op = "reset",
             job[h].op # "reset" => job[h].op = (IF l = "read" THEN "bind" ELSE "register"),
             job[h].op # "reset" => code[Verify_][a] = c,
             Mix(a, job[h].op # "reset" /\ (c \in spent \/ \E g \in Handlers \ {h} :
                                               Claiming(g, a) \/ Sending(g, a)))
      PROVE  OwnerInv'
  <2>1. /\ pc'[h] = l /\ job'[h] = job[h] /\ \A g \in Handlers \ {h} : Stays(g)
    BY <1>3, OthersOf
  <2>2. Addressed(pc[h], job[h])'
    BY <1>3, <2>1 DEF Addressed, Carries
  <2>3. /\ \A x \in spent : x \in spent'
        /\ \A e \in mixed : e \in mixed'
    BY <1>3 DEF Mix
  <2>4. /\ \A e : Claiming(h, e)' => job[h].op # "reset" /\ e = a
        /\ \A e : ~Sending(h, e)'
    BY <1>a, <1>3, <2>1 DEF Claiming, Sending
  <2>5. CASE job[h].op = "reset"
    BY <1>0, <1>1, <2>1, <2>2, <2>3, <2>4, <2>5, QuietOwn
  <2>6. CASE job[h].op # "reset"
    <3>1. ASSUME a \in Emails \ mixed' PROVE AddressInv(a)'
      <4>1. c \notin spent /\ \A g \in Handlers \ {h} : ~Claiming(g, a) /\ ~Sending(g, a)
        BY <1>3, <2>6, <3>1 DEF Mix
      <4>2. c # 0
        BY <1>c, <1>0, <2>6 DEF OwnerInv, Addressed
      <4>3. Valid(a)
        BY <1>3, <2>6, <4>1, <4>2 DEF Valid
      <4>4. AddressInv(a)
        BY <2>3, <3>1 DEF OwnerInv
      <4>5. (Owners(a) \ torn)' \subseteq Owners(a) \ torn
        BY <1>0, OwnersKept
      <4>6. (Owners(a) \ torn)' = {}
        BY <4>3, <4>4, <4>5 DEF AddressInv, Ticket, Free
      <4>7. ~Valid(a)'
        BY <1>0, <1>3, <2>6 DEF Valid
      <4>8. \A g \in Handlers : /\ ~Sending(g, a)'
                                /\ Claiming(g, a)' => g = h
        BY <2>1, <2>4, <4>1, StaysClaims
      <4>9. Alone(a)'
        BY <4>7, <4>8 DEF Alone
      <4>10. Free(a)'
        BY <4>6 DEF Free
      <4> QED BY <4>6, <4>9, <4>10 DEF AddressInv
    <3>2. \A e \in Emails \ {a} : /\ code'[Verify_][e] \in {0, code[Verify_][e]}
                                  /\ ~Claiming(h, e)' /\ ~Sending(h, e)'
      BY <1>1, <2>4
    <3> QED BY <1>0, <1>1, <2>1, <2>2, <2>3, <3>1, <3>2, AddressOwn
  <2> QED BY <2>5, <2>6
<1>4. job[h].op \in {"reset", "bind", "register"}
  BY <1>0, JobOf DEF OwnerInv, Good
<1> DEFINE p == IF job[h].op = "reset" THEN Reset_ ELSE Verify_
<1>5. CASE code[p][a] # c
  BY <1>a, <1>c, <1>2, <1>5 DEF VerifyCode
<1>6. CASE code[p][a] = c /\ job[h].op = "reset"
  <2>1. Goto(h, "setPassword", job[h]) /\ spent' = spent \cup {c} /\ Mix(a, FALSE)
    BY <1>a, <1>c, <1>6 DEF VerifyCode
  <2> QED BY <1>3, <1>6, <2>1 DEF Mix
<1>7. CASE code[p][a] = c /\ job[h].op # "reset"
  <2>1. /\ Goto(h, IF job[h].op = "bind" THEN "read" ELSE "insert", job[h])
        /\ spent' = spent \cup {c} /\ code[Verify_][a] = c
        /\ Mix(a, c \in spent \/ \E g \in Handlers \ {h} : Claiming(g, a) \/ Sending(g, a))
    BY <1>a, <1>c, <1>7 DEF VerifyCode
  <2>2. CASE job[h].op = "bind"
    BY <1>3, <2>1, <2>2 DEF Mix
  <2>3. CASE job[h].op = "register"
    BY <1>3, <2>1, <2>3 DEF Mix
  <2> QED BY <1>4, <1>7, <2>2, <2>3
<1> QED BY <1>5, <1>6, <1>7

-----------------------------------------------------------------------------
(* Copies, and the writing of rows                                          *)
LEMMA PasswordOwn ==
    ASSUME OwnerInv, Inv', NEW h \in Handlers, SetPassword(h)
    PROVE  OwnerInv'
<1>0. Inv /\ AccountTypes
  BY DEF OwnerInv, Inv
<1> DEFINE us == Owners(job[h].email)
<1> DEFINE j == [job[h] EXCEPT !.password = minted + 1]
<1>1. j \in Jobs
  <2>1. minted + 1 \in Nat
    BY <1>0, Ceilings
  <2> QED BY <1>0, <2>1, JobOf DEF Jobs
<1>2. Overtake(h, us, "deleteKey", j)
  BY DEF SetPassword
<1> HIDE DEF j, us
<1>3. /\ pc'[h] = "deleteKey" /\ \A g \in Handlers \ {h} : Stays(g)
  BY <1>0, <1>1, <1>2, Overtaken, OvertakenStay DEF Labels
<1>4. ASSUME NEW u \in Users PROVE row'[u].email = row[u].email
  <2>1. [row[u] EXCEPT !.password = minted + 1].email = row[u].email
    BY <1>0, Ceilings DEF Rows
  <2>2. row'[u] = [row[u] EXCEPT !.password = minted + 1] \/ row'[u] = row[u]
    BY DEF SetPassword
  <2> QED BY <2>1, <2>2
<1>5. Addressed(pc[h], job[h])'
  BY <1>3 DEF Addressed, Carries
<1>6. \A e : ~Claiming(h, e)' /\ ~Sending(h, e)'
  BY <1>3 DEF Claiming, Sending
<1>7. /\ code' = code /\ mail' = mail /\ torn' = torn /\ spent' = spent /\ mixed' = mixed
  BY DEF SetPassword
<1>8. /\ code' \in [Purposes -> [Emails -> Nat]] /\ \A m \in mail' : m.code # 0
      /\ \A e \in Emails : code'[Verify_][e] \in {0, code[Verify_][e]}
  BY <1>7 DEF OwnerInv
<1> QED BY <1>3, <1>4, <1>5, <1>6, <1>7, <1>8, QuietOwn

LEMMA DeleteKeyOwn ==
    ASSUME OwnerInv, Inv', NEW h \in Handlers, DeleteKey(h)
    PROVE  OwnerInv'
<1>a. PICK a : a = job[h].email
  OBVIOUS
<1>1. /\ \A u \in Users : row'[u].email = row[u].email
      /\ mail' = mail /\ torn' = torn /\ spent' = spent /\ mixed' = mixed
      /\ code' = [code EXCEPT ![Reset_][a] = 0]
  BY <1>a DEF DeleteKey, history
<1>2. code' \in [Purposes -> [Emails -> Nat]] /\ code'[Verify_] = code[Verify_]
  BY <1>1 DEF OwnerInv, Purposes, Verify_, Reset_
<1>3. PICK l \in {"done", "idle"}, j \in Jobs : Goto(h, l, j)
  <2>1. job[h].password \in Nat
    BY JobOf DEF OwnerInv
  <2> QED BY <2>1, AfterTyped DEF DeleteKey, Done, OwnerInv, Inv
<1>4. /\ pc'[h] = l /\ job'[h] = j /\ \A g \in Handlers \ {h} : Stays(g)
  BY <1>3, OthersOf
<1>5. Addressed(pc[h], job[h])'
  BY <1>4 DEF Addressed, Carries
<1>6. \A e : ~Claiming(h, e)' /\ ~Sending(h, e)'
  BY <1>4 DEF Claiming, Sending
<1>7. \A m \in mail' : m.code # 0
  BY <1>1 DEF OwnerInv
<1>8. \A e \in Emails : code'[Verify_][e] \in {0, code[Verify_][e]}
  BY <1>2
<1> QED BY <1>1, <1>2, <1>4, <1>5, <1>6, <1>7, <1>8, QuietOwn

(* A handler that writes a row: the row gets an address that it had, or     *)
(* that the handler has claimed, or becomes torn.                           *)
LEMMA WriterOwn ==
    ASSUME OwnerInv, Inv', NEW h \in Handlers, NEW u \in Users,
           NEW l \in {"done", "idle", "rewrite"}, NEW j \in Jobs, Overtake(h, {u}, l, j),
           Addressed(pc[h], job[h])',
           \A v \in Users \ {u} : row'[v].email = row[v].email,
           \A v \in torn : v \in torn',
           mixed' = mixed, spent' = spent, code' = code, mail' = mail,
           u \in torn' \/ row'[u].email \in {"", row[u].email} \/ Claiming(h, row'[u].email)
    PROVE  OwnerInv'
<1>0. Inv /\ AccountTypes
  BY DEF OwnerInv, Inv
<1>1. /\ pc'[h] = l /\ job'[h] = j
      /\ \A g \in Handlers \ {h} : Stays(g) /\ (Writing(g, u) => job'[g].old)
  <2>1. l \in Labels
    BY DEF Labels
  <2> QED BY <1>0, <2>1, Overtaken, OvertakenStay
<1>2. ASSUME NEW g \in Handlers PROVE Addressed(pc[g], job[g])'
  <2>1. CASE g = h
    BY <2>1
  <2>2. CASE g # h
    <3>1. pc[g] \in Carries => job[g].user \in Users
      BY JobOf DEF OwnerInv, Good, Carries
    <3>2. pc[g] \in Carries /\ job[g].user = u => Writing(g, u)
      BY DEF Carries, Writing
    <3>3. Stays(g) /\ Told(g)
      BY <1>1, <2>2, <3>1, <3>2 DEF Told
    <3> QED BY <3>3, StaysAddressed
  <2> QED BY <2>1, <2>2
<1>3. \A e : ~Claiming(h, e)' /\ ~Sending(h, e)'
  BY <1>1 DEF Claiming, Sending
<1>4. ASSUME NEW e \in Emails \ mixed' PROVE AddressInv(e)'
  <2>1. AddressInv(e)
    BY DEF OwnerInv
  <2>2. Valid(e)' = Valid(e)
    BY DEF Valid
  <2>3. ASSUME NEW g \in Handlers
        PROVE  (Claiming(g, e)' => Claiming(g, e)) /\ (Sending(g, e)' => Sending(g, e))
    <3>1. CASE g = h
      BY <1>3, <3>1
    <3>2. CASE g # h
      BY <1>1, <3>2, StaysClaims
    <3> QED BY <3>1, <3>2
  <2>4. \A v \in (Owners(e) \ torn)' \ {u} : v \in Owners(e) \ torn
    BY DEF Owners
  <2>5. CASE u \in torn' \/ row'[u].email \in {"", row[u].email}
    <3>1. u \in (Owners(e) \ torn)' => u \in Owners(e) \ torn
      <4>1. e # ""
        BY AccountAssumption
      <4> QED BY <2>5, <4>1 DEF Owners
    <3>2. (Owners(e) \ torn)' \subseteq Owners(e) \ torn
      BY <2>4, <3>1
    <3> QED BY <2>1, <2>2, <2>3, <3>2, AddressKept
  <2>6. CASE Claiming(h, row'[u].email) /\ row'[u].email = e
    <3>1. Claiming(h, e)
      BY <2>6
    <3>2. Free(e) /\ ~Valid(e) /\ \A g \in Handlers : ~Sending(g, e) /\ (Claiming(g, e) => g = h)
      BY <2>1, <3>1 DEF AddressInv, Ticket, Alone
    <3>3. \A g \in Handlers : ~Sending(g, e)' /\ ~Claiming(g, e)'
      BY <1>3, <2>3, <3>2
    <3>4. ~Ticket(e)' /\ Alone(e)'
      BY <2>2, <3>2, <3>3 DEF Ticket, Alone
    <3>5. \A v \in (Owners(e) \ torn)' : v = u
      BY <2>4, <3>2 DEF Free
    <3>6. (\A v, w \in Owners(e) \ torn : v = w)'
      BY <3>5
    <3> QED BY <3>4, <3>6 DEF AddressInv
  <2>7. CASE row'[u].email # e
    <3>1. (Owners(e) \ torn)' \subseteq Owners(e) \ torn
      BY <2>4, <2>7 DEF Owners
    <3> QED BY <2>1, <2>2, <2>3, <3>1, AddressKept
  <2> QED BY <2>5, <2>6, <2>7
<1>5. code' \in [Purposes -> [Emails -> Nat]] /\ \A m \in mail' : m.code # 0
  BY DEF OwnerInv
<1> QED BY <1>2, <1>4, <1>5 DEF OwnerInv

LEMMA InsertOwn ==
    ASSUME OwnerInv, Inv', NEW h \in Handlers, NEW q \in Int, Insert(h, q)
    PROVE  OwnerInv'
<1>u. PICK u \in Users : u = job[h].user
  BY JobOf DEF OwnerInv, Insert, Good
<1>0. /\ pc[h] = "insert" /\ torn' = torn
      /\ mixed' = mixed /\ spent' = spent /\ code' = code /\ mail' = mail
  BY DEF Insert
<1>1. CASE Refuse(h) /\ row' = row
  BY <1>0, <1>1, DoneOwn DEF Refuse, SameStored
<1>2. CASE /\ row' = [row EXCEPT ![u] = Row("enabled", job[h].email, minted + 1, q)]
           /\ Overtake(h, {u}, After(h, TRUE, 0).pc, After(h, TRUE, 0).job)
  <2>1. PICK l \in {"done", "idle"}, j \in Jobs : Overtake(h, {u}, l, j)
    BY <1>2, AfterTyped DEF OwnerInv, Inv
  <2>2. row'[u].email = job[h].email /\ \A v \in Users \ {u} : row'[v].email = row[v].email
    <3>1. row \in [Users -> Rows]
      BY Ceilings DEF OwnerInv
    <3>2. Row("enabled", job[h].email, minted + 1, q).email = job[h].email
      BY DEF Row
    <3> QED BY <1>2, <3>1, <3>2
  <2>3. job[h].email = "" \/ Claiming(h, job[h].email)
    BY <1>0 DEF OwnerInv, Addressed, Claiming
  <2>4. Addressed(pc[h], job[h])'
    <3>1. pc'[h] = l
      BY <2>1 DEF Overtake, OwnerInv, Inv, AccountTypes
    <3> QED BY <3>1 DEF Addressed, Carries
  <2> QED BY <1>0, <2>1, <2>2, <2>3, <2>4, WriterOwn
<1> QED BY <1>u, <1>1, <1>2 DEF Insert

LEMMA UpdatedEmail ==
    ASSUME NEW r, NEW c
    PROVE  Updates(r, c).email = IF c.email = "" THEN r.email ELSE c.email
  BY DEF Updates, Row

LEMMA WriteOwn ==
    ASSUME OwnerInv, Inv', NEW h \in Handlers, Write(h)
    PROVE  OwnerInv'
<1>u. PICK u \in Users : u = job[h].user
  BY JobOf DEF OwnerInv, Write, Good
<1>c. PICK c \in Rows : c = job[h].copy
  BY JobOf DEF OwnerInv
<1>0. /\ pc[h] \in {"write", "rewrite"} /\ torn' = (IF job[h].old THEN torn \cup {u} ELSE torn)
      /\ mixed' = mixed /\ spent' = spent /\ code' = code /\ mail' = mail
      /\ row' = [row EXCEPT ![u] = Updates(row[u], c)]
  BY <1>u, <1>c DEF Write
<1>1. /\ row'[u].email = IF c.email = "" THEN row[u].email ELSE c.email
      /\ \A v \in Users \ {u} : row'[v].email = row[v].email
  <2>1. row \in [Users -> Rows]
    BY Ceilings DEF OwnerInv
  <2> QED BY <1>0, <2>1, UpdatedEmail
<1>2. Addressed(pc[h], job[h])
  BY DEF OwnerInv
<1>3. u \in torn' \/ row'[u].email \in {"", row[u].email} \/ Claiming(h, row'[u].email)
  <2>1. CASE job[h].old
    BY <1>0, <2>1
  <2>2. CASE job[h].op = "bind"
    <3>1. c.email = job[h].email /\ pc[h] = "write"
      BY <1>c, <1>0, <1>2, <2>2 DEF Addressed, Carries
    <3>2. Claiming(h, job[h].email)
      BY <2>2, <3>1 DEF Claiming
    <3> QED BY <1>1, <3>1, <3>2
  <2>3. CASE ~job[h].old /\ job[h].op # "bind"
    <3>1. c.email \in {"", row[u].email}
      BY <1>u, <1>c, <1>0, <1>2, <2>3 DEF Addressed, Carries
    <3> QED BY <1>1, <3>1
  <2> QED BY <2>1, <2>2, <2>3
<1>4. PICK l \in {"done", "idle", "rewrite"}, j \in Jobs :
        /\ l = "rewrite" => j = job[h] /\ job[h].op = "remove"
        /\ Overtake(h, {u}, l, j)
  <2>1. CASE Overtake(h, {u}, "rewrite", job[h]) /\ job[h].op = "remove"
    BY <2>1, JobOf DEF OwnerInv
  <2>2. CASE Overtake(h, {u}, After(h, TRUE, 0).pc, After(h, TRUE, 0).job)
    BY <2>2, AfterTyped DEF OwnerInv, Inv
  <2> QED BY <1>u, <2>1, <2>2 DEF Write
<1>5. Addressed(pc[h], job[h])'
  <2>1. pc'[h] = l /\ job'[h] = j
    BY <1>4 DEF Overtake, OwnerInv, Inv, AccountTypes
  <2>2. CASE l # "rewrite"
    BY <2>1, <2>2 DEF Addressed, Carries
  <2>3. CASE l = "rewrite"
    <3>1. /\ pc'[h] = "rewrite" /\ job'[h].op = "remove" /\ job'[h].user = u
          /\ job'[h].copy.email = c.email
      BY <1>u, <1>c, <1>4, <2>1, <2>3
    <3>2. c.email \in {"", row'[u].email}
      BY <1>1
    <3> QED BY <3>1, <3>2 DEF Addressed, Carries
  <2> QED BY <2>2, <2>3
<1>6. \A v \in torn : v \in torn'
  BY <1>0
<1> QED BY <1>0, <1>1, <1>3, <1>4, <1>5, <1>6, WriterOwn

(* The copy that is taken of a row has its address, or none, or the one     *)
(* that the request binds.                                                  *)
LEMMA ChangedEmail ==
    ASSUME Inv, NEW h \in Handlers, NEW r \in Rows, job[h].op \in Reads
    PROVE  IF job[h].op = "bind" THEN Changed(h, r).email = job[h].email
           ELSE Changed(h, r).email \in {"", r.email}
<1>1. CASE job[h].op = "bind"
  BY <1>1 DEF Changed, Rows
<1>2. CASE job[h].op = "token"
  BY <1>2 DEF Changed
<1>3. CASE job[h].op = "password"
  <2>1. Changed(h, r) = [Absent EXCEPT !.password = minted + 1]
    BY <1>3 DEF Changed
  <2>2. Changed(h, r).email = Absent.email
    BY <2>1, NothingRead DEF Rows
  <2>3. Absent.email = ""
    BY DEF Absent, Row
  <2> QED BY <1>3, <2>2, <2>3
<1>4. CASE job[h].op = "disable"
  BY <1>4 DEF Changed, Rows
<1>5. CASE job[h].op = "enable"
  BY <1>5 DEF Changed, Rows
<1>6. CASE job[h].op = "remove"
  BY <1>6 DEF Changed, Rows
<1>7. CASE job[h].op = "edit"
  BY <1>7 DEF Changed, Rows
<1> QED BY <1>1, <1>2, <1>3, <1>4, <1>5, <1>6, <1>7 DEF Reads

LEMMA CopiedOwn ==
    ASSUME OwnerInv, Inv', NEW h \in Handlers, NEW r \in Rows, Copied(h, r),
           r.email \in {"", row[job[h].user].email}
    PROVE  OwnerInv'
<1>0. Inv
  BY DEF OwnerInv
<1>1. job[h].op \in Reads /\ job[h].user \in Users /\ pc[h] = "read"
  BY <1>0, JobOf DEF Copied, Good
<1> DEFINE c == Changed(h, r)
<1>2. c \in Rows
  BY <1>0, <1>1, ChangedRow
<1>3. IF job[h].op = "bind" THEN c.email = job[h].email ELSE c.email \in {"", r.email}
  BY <1>0, <1>1, ChangedEmail
<1> DEFINE w == reserved[job[h].user]
<1> DEFINE j == [job[h] EXCEPT !.copy = c, !.held = w, !.old = FALSE]
<1> DEFINE l == IF job[h].op = "edit" THEN "form" ELSE "ban"
<1>4. Goto(h, l, j) /\ SameStored
  BY DEF Copied, history, SameStored
<1>a. w \in Nat
  BY <1>0, <1>1, Ceilings
<1> HIDE DEF c, w
<1>5. /\ j \in Jobs /\ j.op = job[h].op /\ j.user = job[h].user /\ j.email = job[h].email
      /\ j.copy = c
  BY <1>0, <1>2, <1>a, JobOf DEF Jobs
<1> HIDE DEF j
<1>6. l \in {"form", "ban"}
  OBVIOUS
<1> HIDE DEF l
<1>7. Addressed(l, j)
  BY <1>3, <1>5, <1>6 DEF Addressed
<1>8. pc'[h] = l /\ job'[h] = j
  BY <1>4, OthersOf
<1>9. \A e : (Claiming(h, e)' => Claiming(h, e)) /\ ~Sending(h, e)'
  BY <1>1, <1>5, <1>6, <1>8 DEF Claiming, Sending
<1> QED BY <1>4, <1>7, <1>9, GotoOwn

LEMMA ReadOwn ==
    ASSUME OwnerInv, Inv', NEW h \in Handlers, Read(h) \/ ReadFails(h)
    PROVE  OwnerInv'
<1>1. CASE Read(h)
  <2>1. job[h].user \in Users
    BY <1>1, JobOf DEF Read, Copied, Good, OwnerInv
  <2>2. row[job[h].user] \in Rows
    BY <2>1, Ceilings DEF OwnerInv
  <2> QED BY <1>1, <2>2, CopiedOwn DEF Read
<1>2. CASE Copied(h, Absent)
  <2>1. Absent.email = ""
    BY DEF Absent, Row
  <2> QED BY <1>2, <2>1, NothingRead, CopiedOwn
<1>3. CASE Refuse(h) /\ UNCHANGED <<stored, history>>
  BY <1>3, DoneOwn DEF Refuse, stored, history, SameStored
<1> QED BY <1>1, <1>2, <1>3 DEF ReadFails

LEMMA SubmitOwn ==
    ASSUME OwnerInv, Inv', NEW h \in Handlers, NEW q \in Int, Submit(h, q)
    PROVE  OwnerInv'
<1>0. Inv
  BY DEF OwnerInv
<1>1. pc[h] = "form" /\ job[h].op = "edit"
  BY <1>0, JobOf DEF Submit, Good
<1> DEFINE c == [job[h].copy EXCEPT !.quota = q]
<1>2. c \in Rows /\ c.email = job[h].copy.email
  BY <1>0, JobOf DEF Rows
<1> DEFINE j == [job[h] EXCEPT !.copy = c]
<1>3. Goto(h, "ban", j) /\ SameStored
  BY DEF Submit, stored, history, SameStored
<1> HIDE DEF c
<1>4. /\ j.op = "edit" /\ j.user = job[h].user /\ j.copy = c /\ j.old = job[h].old
  BY <1>0, <1>1, <1>2, JobOf DEF Jobs
<1> HIDE DEF j
<1>5. Addressed(pc[h], job[h])
  BY DEF OwnerInv
<1>6. Addressed("ban", j)
  BY <1>1, <1>2, <1>4, <1>5 DEF Addressed, Carries
<1>7. pc'[h] = "ban" /\ job'[h] = j
  BY <1>3, OthersOf
<1>8. \A e : ~Claiming(h, e)' /\ ~Sending(h, e)'
  BY <1>4, <1>7 DEF Claiming, Sending
<1> QED BY <1>3, <1>6, <1>8, GotoOwn

LEMMA BanOwn ==
    ASSUME OwnerInv, Inv', NEW h \in Handlers, Ban(h)
    PROVE  OwnerInv'
<1>1. pc[h] = "ban" /\ Goto(h, "write", job[h]) /\ SameStored
  BY DEF Ban, history, SameStored
<1>2. Addressed(pc[h], job[h])
  BY DEF OwnerInv
<1>3. Addressed("write", job[h])
  BY <1>1, <1>2 DEF Addressed, Carries
<1>4. pc'[h] = "write" /\ job'[h] = job[h]
  BY <1>1, OthersOf
<1>5. \A e : (Claiming(h, e)' => Claiming(h, e)) /\ ~Sending(h, e)'
  BY <1>1, <1>4 DEF Claiming, Sending
<1> QED BY <1>1, <1>3, <1>5, GotoOwn

LEMMA FailsOwn ==
    ASSUME OwnerInv, Inv', NEW h \in Handlers, StatementFails(h)
    PROVE  OwnerInv'
<1>1. SameStored
  BY DEF StatementFails, stored, SameStored
<1> QED BY <1>1, DoneOwn DEF StatementFails, Refuse

LEMMA StepOwn ==
    ASSUME OwnerInv, NEW h \in Handlers, Step(h)
    PROVE  OwnerInv'
<1>0. Inv /\ Inv'
  BY StepInv DEF OwnerInv
<1>1. CASE Insert(h, NewUserQuota)
  BY <1>0, <1>1, Amounts, InsertOwn
<1>2. CASE \E q \in Forms : job[h].op = "create" /\ q # 0 /\ Insert(h, q)
  BY <1>0, <1>2, Amounts, InsertOwn
<1>3. CASE Submit(h, job[h].copy.quota)
  <2>1. job[h].copy.quota \in Int
    BY <1>0, JobOf DEF Rows
  <2> QED BY <1>0, <1>3, <2>1, SubmitOwn
<1>4. CASE \E q \in Forms : Submit(h, q)
  BY <1>0, <1>4, Amounts, SubmitOwn
<1> QED BY <1>0, <1>1, <1>2, <1>3, <1>4, ChecksOwn, MintOwn, VerifyOwn, PasswordOwn,
           DeleteKeyOwn, ReadOwn, BanOwn, WriteOwn, FailsOwn DEF Step

-----------------------------------------------------------------------------
(* The rest of the process                                                  *)
LEMMA UnmovedOwn ==
    ASSUME OwnerInv, Inv', UNCHANGED <<pc, job, mail, torn, spent, mixed>>,
           \A u \in Users : row'[u].email = row[u].email,
           code' \in [Purposes -> [Emails -> Nat]],
           \A e \in Emails : code'[Verify_][e] \in {0, code[Verify_][e]}
    PROVE  OwnerInv'
<1>1. ASSUME NEW g \in Handlers PROVE Addressed(pc[g], job[g])'
  <2>1. pc[g] \in Carries => job[g].user \in Users
    BY JobOf DEF OwnerInv, Good, Carries
  <2>2. Stays(g) /\ Told(g)
    BY <2>1 DEF Stays, Told
  <2> QED BY <2>2, StaysAddressed
<1>2. ASSUME NEW e \in Emails \ mixed' PROVE AddressInv(e)'
  <2>1. AddressInv(e)
    BY DEF OwnerInv
  <2>2. Valid(e)' => Valid(e)
    BY DEF Valid
  <2>3. \A g \in Handlers : (Claiming(g, e)' => Claiming(g, e)) /\ (Sending(g, e)' => Sending(g, e))
    BY DEF Claiming, Sending
  <2> QED BY <2>1, <2>2, <2>3, OwnersKept, AddressKept
<1> QED BY <1>1, <1>2 DEF OwnerInv

LEMMA CrashOwn ==
    ASSUME OwnerInv, Crash
    PROVE  OwnerInv'
<1>1. Inv'
  BY CrashInv DEF OwnerInv
<1>2. /\ UNCHANGED <<row, mail, torn, spent, mixed>>
      /\ code' = [p \in Purposes |-> [e \in Emails |-> 0]]
      /\ \A h \in Handlers : pc'[h] \in {"lost", "idle"}
  BY DEF Crash
<1>3. \A h \in Handlers : Addressed(pc[h], job[h])'
  BY <1>2 DEF Addressed, Carries
<1>4. ASSUME NEW e \in Emails \ mixed' PROVE AddressInv(e)'
  <2>1. AddressInv(e) /\ ~Valid(e)'
    BY <1>2 DEF OwnerInv, Valid, Purposes
  <2>2. \A g \in Handlers : ~Claiming(g, e)' /\ ~Sending(g, e)'
    BY <1>2 DEF Claiming, Sending
  <2>3. (Owners(e) \ torn)' \subseteq Owners(e) \ torn
    BY <1>2 DEF Owners
  <2> QED BY <2>1, <2>2, <2>3, AddressKept
<1>5. code' \in [Purposes -> [Emails -> Nat]] /\ \A m \in mail' : m.code # 0
  BY <1>2 DEF OwnerInv
<1> QED BY <1>1, <1>3, <1>4, <1>5 DEF OwnerInv

LEMMA StillOwn ==
    ASSUME OwnerInv, Inv', UNCHANGED <<row, code, mail, pc, job, torn, spent, mixed>>
    PROVE  OwnerInv'
  BY UnmovedOwn DEF OwnerInv

LEMMA ElsewhereOwn ==
    ASSUME OwnerInv, Elsewhere
    PROVE  OwnerInv'
<1>0. Inv /\ Inv' /\ code \in [Purposes -> [Emails -> Nat]]
  BY ElsewhereInv DEF OwnerInv
<1>1. ASSUME NEW p \in Purposes, NEW e \in Emails, CodeExpires(p, e) PROVE OwnerInv'
  <2>1. /\ UNCHANGED <<pc, job, mail, torn, spent, mixed, row>>
        /\ code' = [code EXCEPT ![p][e] = 0]
    BY <1>1 DEF CodeExpires, history
  <2>2. /\ code' \in [Purposes -> [Emails -> Nat]]
        /\ \A a \in Emails : code'[Verify_][a] \in {0, code[Verify_][a]}
    BY <1>0, <2>1 DEF Purposes
  <2> QED BY <1>0, <2>1, <2>2, UnmovedOwn
<1>2. ASSUME NEW u \in Users, NEW v,
             \/ PreConsume(u, v) \/ SettleFails(u, v) \/ AdminTopUp(u, v)
             \/ \E q : Settle(u, v, q)
      PROVE  OwnerInv'
  <2>1. UNCHANGED <<pc, job, mail, torn, spent, mixed, code>>
    BY <1>2 DEF PreConsume, Settle, SettleFails, stored, AdminTopUp
  <2>2. row' = row \/ \E q : row' = [row EXCEPT ![u].quota = q]
    BY <1>2 DEF PreConsume, Settle, SettleFails, stored, AdminTopUp
  <2>3. \A w \in Users : row'[w].email = row[w].email
    <3>1. row \in [Users -> Rows]
      BY <1>0, Ceilings
    <3>2. ASSUME NEW q, row' = [row EXCEPT ![u].quota = q]
          PROVE  \A w \in Users : row'[w].email = row[w].email
      BY <3>1, <3>2 DEF Rows
    <3> QED BY <2>2, <3>2
  <2> QED BY <1>0, <2>1, <2>3, UnmovedOwn
<1> QED BY <1>1, <1>2, CrashOwn DEF Elsewhere

LEMMA NextOwn == OwnerInv /\ [Next]_vars => OwnerInv'
<1> SUFFICES ASSUME OwnerInv, [Next]_vars PROVE OwnerInv'
  OBVIOUS
<1>1. Inv'
  BY NextInv DEF OwnerInv
<1>2. CASE Next
  BY <1>1, <1>2, ElsewhereOwn, RequestOwn, StepOwn DEF Next
<1>3. CASE UNCHANGED vars
  BY <1>1, <1>3, StillOwn DEF vars, stored, history
<1> QED BY <1>2, <1>3

LEMMA OwnersFollow == OwnerInv => OneOwner
<1> SUFFICES ASSUME OwnerInv, NEW e \in Emails \ mixed
             PROVE  Cardinality(Owners(e) \ torn) <= 1
  BY DEF OneOwner
<1>1. \A u, v \in Owners(e) \ torn : u = v
  BY DEF OwnerInv, AddressInv
<1>2. CASE Owners(e) \ torn = {}
  BY <1>2, FS_EmptySet
<1>3. ASSUME NEW u, Owners(e) \ torn = {u} PROVE Cardinality(Owners(e) \ torn) <= 1
  <2>1. Cardinality({u}) = 1
    BY FS_Singleton
  <2> QED BY <1>3, <2>1
<1> QED BY <1>1, <1>2, <1>3

\* Two users share an address only if a code was used twice, requests for the
\* address overlapped, writers of one of their rows did, or the check of who has the
\* address failed and counted as nobody: IsEmailAlreadyTaken (model/user.go:245) and the
\* codes of common/verification.go keep addresses apart otherwise.
THEOREM AddressesAreApart == Spec => []OneOwner
  BY InitOwn, NextOwn, OwnersFollow, PTL DEF Spec

-----------------------------------------------------------------------------
(* Addresses behind the pages                                               *)
LEMMA ServerStillOwn ==
    ASSUME OwnerInv, ServerStill
    PROVE  OwnerInv'
<1>1. Inv'
  BY ServerStillInv DEF OwnerInv
<1> QED BY <1>1, StillOwn DEF ServerStill, vars, stored, history

LEMMA FreesOwn ==
    ASSUME OwnerInv, NEW h \in Handlers, Frees(h)
    PROVE  OwnerInv'
<1>1. Inv'
  BY FreesInv DEF OwnerInv
<1>2. Goto(h, "idle", NoJob) /\ SameStored
  BY DEF Frees, stored, history, SameStored
<1> QED BY <1>1, <1>2, GotoAway DEF Away

LEMMA ClickOwn ==
    ASSUME OwnerInv, Inv', NEW h \in Handlers,
           \/ AsksForLink(h)
           \/ \E spins : Confirms(h, spins)
           \/ \E counts, asks, spins : AsksForCode(h, counts, asks, spins)
           \/ \E m \in mail : \/ Register(h, "page", Self, m)
                              \/ EmailBind(h, "page", Self, m)
    PROVE  OwnerInv'
<1>0. \A m \in mail : m.code # 0
  BY DEF OwnerInv
<1>1. \/ ServerStill
      \/ SendPasswordResetEmail(h, "page", Address)
      \/ SendEmailVerification(h, "page", Address)
      \/ ResetPassword(h, "page", link)
      \/ \E m \in mail : \/ Register(h, "page", Self, m)
                         \/ EmailBind(h, "page", Self, m)
  BY DEF AsksForLink, Confirms, AsksForCode
<1> QED BY <1>0, <1>1, ServerStillOwn, MailRequestsOwn, CodeRequestsOwn

PageOwnerInv == PageInv /\ OwnerInv

LEMMA PageStepOwn ==
    ASSUME PageOwnerInv, PageStep
    PROVE  OwnerInv'
<1>0. OwnerInv /\ \A p : Mailed(p) \subseteq mail
  BY DEF PageOwnerInv, Mailed
<1>i. Inv'
  BY PageStepInv DEF PageOwnerInv, PageInv
<1>1. ASSUME NEW h \in Handlers,
             \/ DefaultPasswordResetForm(h) \/ AirPasswordResetForm(h)
             \/ ForgetPasswordForm(h)
      PROVE  OwnerInv'
  <2>1. AsksForLink(h)
    BY <1>1 DEF DefaultPasswordResetForm, AirPasswordResetForm, ForgetPasswordForm
  <2> QED BY <1>0, <1>i, <2>1, ClickOwn
<1>2. ASSUME NEW h \in Handlers,
             \/ DefaultPasswordResetConfirm(h) \/ AirPasswordResetConfirm(h)
             \/ ResetPasswordForm(h)
      PROVE  OwnerInv'
  <2>1. \E spins : Confirms(h, spins)
    BY <1>2 DEF DefaultPasswordResetConfirm, AirPasswordResetConfirm, ResetPasswordForm
  <2> QED BY <1>0, <1>i, <2>1, ClickOwn
<1>3. ASSUME NEW h \in Handlers,
             \/ DefaultRegisterCode(h) \/ AirRegisterCode(h) \/ BerryRegisterCode(h)
             \/ DefaultBindCode(h) \/ AirBindCode(h) \/ EmailModalCode(h)
      PROVE  OwnerInv'
  <2>1. \E counts, asks, spins : AsksForCode(h, counts, asks, spins)
    BY <1>3 DEF DefaultRegisterCode, AirRegisterCode, BerryRegisterCode, DefaultBindCode,
                AirBindCode, EmailModalCode
  <2> QED BY <1>0, <1>i, <2>1, ClickOwn
<1>4. ASSUME NEW h \in Handlers, NEW m \in Mailed(Verify_),
             \/ DefaultRegister(h, m) \/ AirRegister(h, m) \/ BerryRegister(h, m)
             \/ DefaultBindEmail(h, m) \/ AirBindEmail(h, m) \/ EmailModalSubmit(h, m)
      PROVE  OwnerInv'
  <2>1. Register(h, "page", Self, m) \/ EmailBind(h, "page", Self, m)
    BY <1>4 DEF DefaultRegister, AirRegister, BerryRegister, Registers, DefaultBindEmail,
                AirBindEmail, EmailModalSubmit, Binds
  <2>2. m \in mail
    BY <1>0
  <2> QED BY <1>0, <1>i, <2>1, <2>2, ClickOwn
<1>5. ASSUME NEW h \in Handlers, Arrives(h) \/ GoesMissing(h)
      PROVE  OwnerInv'
  BY <1>0, <1>5, FreesOwn DEF Arrives, GoesMissing
<1>6. CASE Retypes \/ CountdownEnds \/ \E m \in Mailed(Reset_) : Follows(m)
  <2>1. ServerStill
    BY <1>6 DEF Retypes, CountdownEnds, Follows, ServerStill
  <2> QED BY <1>0, <2>1, ServerStillOwn
<1> QED BY <1>1, <1>2, <1>3, <1>4, <1>5, <1>6 DEF PageStep

LEMMA OthersOwn ==
    ASSUME PageOwnerInv, Others
    PROVE  OwnerInv'
<1>0. OwnerInv /\ PageInv /\ \A m \in Mailed(Verify_) : m.code # 0
  BY DEF PageOwnerInv, OwnerInv, Mailed
<1>1. Inv'
  BY <1>0, OthersInv DEF PageInv
<1>2. ASSUME NEW h \in Handlers, BesidePage(h)
      PROVE  OwnerInv'
  <2>1. CASE \/ SendEmailVerification(h, "other", Address)
             \/ SendPasswordResetEmail(h, "other", Address)
    BY <1>0, <1>1, <2>1, MailRequestsOwn
  <2>2. CASE \E u \in Users \ {Self}, m \in Mailed(Verify_) : EmailBind(h, "other", u, m)
    BY <1>0, <1>1, <2>2, CodeRequestsOwn
  <2>3. CASE ChangePassword(h, Self) \/ GenerateAccessToken(h, Self)
    BY <1>0, <1>1, <2>3, ReadRequestsOwn
  <2> QED BY <1>2, <2>1, <2>2, <2>3 DEF BesidePage
<1>3. CASE Elsewhere
  BY <1>0, <1>3, ElsewhereOwn
<1>4. ASSUME NEW h \in Handlers, Request(h) PROVE OwnerInv'
  BY <1>0, <1>1, <1>4, RequestOwn
<1>5. ASSUME NEW h \in Handlers, Step(h) PROVE OwnerInv'
  BY <1>0, <1>5, StepOwn
<1>6. CASE Crash \/ \E p \in Purposes, e \in Emails : CodeExpires(p, e)
  <2>1. Elsewhere
    BY <1>6 DEF Elsewhere
  <2> QED BY <1>0, <2>1, ElsewhereOwn
<1> QED BY <1>2, <1>3, <1>4, <1>5, <1>6 DEF Others

LEMMA PageOwnerInit == PageInit => PageOwnerInv
<1> SUFFICES ASSUME PageInit PROVE PageOwnerInv
  OBVIOUS
<1>1. NoLink \in Mails
  BY DEF NoLink, Mails, Purposes
<1> QED BY <1>1, InitInv, InitOwn DEF PageInit, PageInv, PageOwnerInv

LEMMA PageOwnerStep ==
    ASSUME PageOwnerInv, [PageNext]_allVars
    PROVE  PageOwnerInv'
<1>1. CASE PageNext
  <2>1. PageInv'
    BY <1>1, PageStepInv, OthersInv DEF PageNext, PageOwnerInv
  <2>2. OwnerInv'
    BY <1>1, PageStepOwn, OthersOwn DEF PageNext
  <2> QED BY <2>1, <2>2 DEF PageOwnerInv
<1>2. CASE UNCHANGED allVars
  <2>1. ServerStill /\ link' = link
    BY <1>2 DEF allVars, pageVars, ServerStill
  <2> QED BY <2>1, ServerStillInv, ServerStillOwn DEF PageOwnerInv, PageInv
<1> QED BY <1>1, <1>2

\* The same behind the pages that ask for codes and use them, with handlers
\* whose answers wait for a page or are lost.
THEOREM PagesKeepApart == PageSpec => []OneOwner
<1>1. PageOwnerInv => OneOwner
  BY OwnersFollow DEF PageOwnerInv
<1> QED BY <1>1, PageOwnerInit, PageOwnerStep, PTL DEF PageSpec

-----------------------------------------------------------------------------
(* What the pages tell                                                      *)

(* What a handler may be doing while a page is open.                        *)
Verifies == {"verify", "setPassword", "deleteKey", "insert", "read", "ban", "write"}
Ours(l, j) ==
    /\ l \notin {"form", "rewrite"}
    /\ l \in {"check", "mint"} => j.op \in {"sendCode", "sendReset"}
    /\ l \in {"setPassword", "deleteKey"} => j.op = "reset"
    /\ l = "insert" => j.op = "register"
    /\ l \in {"read", "ban", "write"} => j.op \in {"bind", "token", "password"}
    /\ l \in Verifies =>
         /\ j.op = "reset" => /\ j.by = "page" /\ j.email = Address
                              /\ Kind = "confirm" /\ link # NoLink /\ j.code = link.code
         /\ j.op = "register" => /\ j.by = "page" /\ j.user = Self /\ j.email = Address
                                 /\ Kind = "register"
         /\ j.op = "bind" => \/ j.user = Self /\ j.email = Address /\ Kind = "bind"
                             \/ j.user # Self /\ j.by = "other"
         /\ j.op \in {"token", "password"} => j.by = "other"
    /\ l \in {"done", "lost"} => j.by = "page"
    /\ l = "done" /\ j.ok => /\ j.op = "reset" => Kind = "confirm" /\ link # NoLink
                             /\ j.op \in {"bind", "register"} => Kind \in {"bind", "register"}

(* A copy that nobody has overtaken has the row's password, or none.        *)
Copies(l, j) ==
    l \in {"ban", "write"} /\ ~j.old /\ j.op # "password" =>
      j.copy.password \in {0, row[j.user].password}

(* What an answer is going to tell, once it is there.                       *)
Says(l, j, ops) == l = "done" /\ j.ok /\ j.op \in ops
Bound == Self \in torn \/ row[Self].email = Address
Unset == \A u \in Users : setBy[u] # "page"
Works(p) == \A u \in Users \ torn : setBy[u] = "page" => row[u].password = p
OursInv(h) ==
    /\ Ours(pc[h], job[h]) /\ Copies(pc[h], job[h])
    /\ Says(pc[h], job[h], {"bind", "register"}) => Bound

(* A patient user's link sets passwords once: its code is gone before there *)
(* is an answer, and no later code is like it.                              *)
Spare == link # NoLink /\ code[Reset_][Address] = link.code
LinkOf(h) ==
    /\ pc[h] = "setPassword" => told = 0 /\ Unset
    /\ pc[h] = "deleteKey" => told = 0 /\ Works(job[h].password)
    /\ Says(pc[h], job[h], {"reset"}) => Works(job[h].password)
LinkInv ==
    /\ \A g, h \in Under : g = h
    /\ link = NoLink => told = 0 /\ Unset
    /\ told # 0 => Works(told)
    /\ \A h \in Handlers : LinkOf(h)
    /\ Spare => /\ told = 0
                /\ \A h \in Handlers : ~Says(pc[h], job[h], {"reset"})
                /\ Unset \/ \E h \in Handlers : pc[h] = "deleteKey"

OpenInv ==
    /\ hasty \in Nat
    /\ setBy \in [Users -> {"page", "other"}]
    /\ link.code <= minted
    /\ link # NoLink => link.code # 0 /\ link.email = Address
    /\ \A m \in mail : m.code <= minted
    /\ \A h \in Handlers : OursInv(h)
    /\ told # 0 /\ Kind \in {"bind", "register"} => Bound
    /\ Kind = "confirm" /\ hasty = 0 => LinkInv
ToldInv == PageOwnerInv /\ (Open => OpenInv)

LEMMA InitTold == PageInit => ToldInv
<1> SUFFICES ASSUME PageInit PROVE ToldInv
  OBVIOUS
<1>1. PageOwnerInv
  BY PageOwnerInit
<1>2. /\ \A h \in Handlers : pc[h] = "idle" /\ job[h] = NoJob
      /\ setBy = [u \in Users |-> "other"] /\ mail = {} /\ minted = 1
      /\ link = NoLink /\ told = 0 /\ hasty = 0
  BY DEF PageInit, Init
<1>3. NoLink.code = 0
  BY DEF NoLink
<1>4. \A h \in Handlers : OursInv(h) /\ LinkOf(h)
  BY <1>2 DEF OursInv, Ours, Verifies, Copies, Says, LinkOf
<1>5. Under = {} /\ Unset /\ ~Spare
  BY <1>2 DEF Under, Unset, Spare
<1>6. LinkInv
  BY <1>2, <1>4, <1>5 DEF LinkInv
<1> QED BY <1>1, <1>2, <1>3, <1>4, <1>6 DEF ToldInv, OpenInv

(* A step that tells nothing: a handler rests, as far as it is not told     *)
(* that its copy is old, or moves to where the invariant has it.            *)
Rests(g) ==
    /\ Stays(g)
    /\ job'[g].by = job[g].by /\ job'[g].ok = job[g].ok /\ job'[g].password = job[g].password
    /\ pc[g] \in {"ban", "write"} =>
         job'[g].old \/ row'[job[g].user].password = row[job[g].user].password
Moves(g) ==
    /\ OursInv(g)'
    /\ Kind = "confirm" /\ hasty' = 0 =>
         /\ LinkOf(g)'
         /\ pc[g] = "deleteKey" \/ Says(pc[g], job[g], {"reset"})' => ~Spare'
Stored ==
    /\ setBy' \in [Users -> {"page", "other"}]
    /\ \A u \in Users : setBy'[u] = "page" =>
         setBy[u] = "page" /\ (u \in torn' \/ row'[u].password = row[u].password)
    /\ torn \subseteq torn' /\ (Bound => Bound')
    /\ minted' >= minted /\ \A m \in mail' : m.code <= minted'
    /\ Spare' => Spare

LEMMA RestsOurs ==
    ASSUME ToldInv, Open, UNCHANGED <<page, link>>, Bound => Bound',
           NEW g \in Handlers, Rests(g)
    PROVE  OursInv(g)'
<1>1. OursInv(g)
  BY DEF ToldInv, OpenInv
<1>2. Kind' = Kind
  BY DEF Kind
<1>3. Ours(pc[g], job[g])'
  BY <1>1, <1>2 DEF OursInv, Ours, Verifies, Rests, Stays
<1>4. Copies(pc[g], job[g])'
  BY <1>1 DEF OursInv, Copies, Rests, Stays
<1>5. Says(pc[g], job[g], {"bind", "register"})' => Bound'
  BY <1>1 DEF OursInv, Says, Rests, Stays
<1> QED BY <1>3, <1>4, <1>5 DEF OursInv

LEMMA CalmTold ==
    ASSUME ToldInv, PageOwnerInv', Open, UNCHANGED <<page, link, told>>, Stored,
           hasty' \in Nat, hasty' = 0 => hasty = 0,
           Kind = "confirm" /\ hasty' = 0 => \A g, k \in Under' : g = k,
           \A g \in Handlers : Rests(g) \/ Moves(g)
    PROVE  ToldInv'
<1>1. OpenInv /\ Kind' = Kind
  BY DEF ToldInv, Kind
<1>2. \A g \in Handlers : OursInv(g)'
  BY RestsOurs DEF Moves, Stored
<1>3. link'.code <= minted'
  <2>1. link.code \in Nat /\ minted \in Nat /\ minted' \in Nat
    BY DEF ToldInv, PageOwnerInv, PageInv, Inv, AccountTypes, Mails
  <2> QED BY <1>1, <2>1 DEF OpenInv, Stored
<1>4. (told # 0 /\ Kind \in {"bind", "register"} => Bound)'
  BY <1>1 DEF OpenInv, Stored
<1>5. ASSUME Kind = "confirm", hasty' = 0 PROVE LinkInv'
  <2>1. LinkInv
    BY <1>1, <1>5 DEF OpenInv
  <2>2. Unset => Unset'
    BY DEF Unset, Stored
  <2>3. ASSUME NEW p, Works(p)
        PROVE  \A u \in Users \ torn' : setBy'[u] = "page" => row'[u].password = p
    BY <2>3 DEF Works, Stored
  <2>4. (link = NoLink => told = 0 /\ Unset)'
    BY <2>1, <2>2 DEF LinkInv, NoLink
  <2>5. (told # 0 => Works(told))'
    BY <2>1, <2>3 DEF LinkInv, Works
  <2>6. ASSUME NEW g \in Handlers, Rests(g) PROVE LinkOf(g)'
    <3>1. LinkOf(g)
      BY <2>1 DEF LinkInv
    <3>2. \A p : Works(p) /\ job'[g].password = p => Works(job[g].password)'
      BY <2>3 DEF Works
    <3>3. /\ pc'[g] = pc[g] /\ job'[g].password = job[g].password /\ told' = told
          /\ Says(pc[g], job[g], {"reset"})' = Says(pc[g], job[g], {"reset"})
      BY <2>6 DEF Rests, Stays, Says
    <3>4. (pc[g] = "setPassword" => told = 0 /\ Unset)'
      BY <2>2, <3>1, <3>3 DEF LinkOf
    <3>5. (pc[g] = "deleteKey" => told = 0 /\ Works(job[g].password))'
      BY <3>1, <3>2, <3>3 DEF LinkOf
    <3>6. (Says(pc[g], job[g], {"reset"}) => Works(job[g].password))'
      BY <3>1, <3>2, <3>3 DEF LinkOf
    <3> QED BY <3>4, <3>5, <3>6 DEF LinkOf
  <2>7. \A g \in Handlers : LinkOf(g)'
    BY <1>5, <2>6 DEF Moves
  <2>8. ASSUME Spare'
        PROVE  /\ told' = 0
               /\ \A h \in Handlers : ~Says(pc[h], job[h], {"reset"})'
               /\ Unset' \/ \E h \in Handlers : pc'[h] = "deleteKey"
    <3>1. /\ told = 0
          /\ \A h \in Handlers : ~Says(pc[h], job[h], {"reset"})
          /\ Unset \/ \E h \in Handlers : pc[h] = "deleteKey"
      BY <2>1, <2>8 DEF LinkInv, Stored
    <3>2. \A h \in Handlers : Moves(h) =>
            pc[h] # "deleteKey" /\ ~Says(pc[h], job[h], {"reset"})'
      BY <1>5, <2>8 DEF Moves
    <3>3. \A h \in Handlers : Rests(h) =>
            pc'[h] = pc[h] /\ Says(pc[h], job[h], {"reset"})' = Says(pc[h], job[h], {"reset"})
      BY DEF Rests, Stays, Says
    <3> QED BY <2>2, <3>1, <3>2, <3>3
  <2>9. (\A g, h \in Under : g = h)'
    BY <1>5
  <2> QED BY <2>4, <2>5, <2>7, <2>8, <2>9 DEF LinkInv
<1> QED BY <1>1, <1>2, <1>3, <1>4, <1>5 DEF ToldInv, OpenInv, Stored

LEMMA OneTold ==
    ASSUME ToldInv, PageOwnerInv', Open, UNCHANGED pageVars, Stored, NEW h \in Handlers,
           Moves(h), \A g \in Handlers \ {h} : Rests(g), h \in Under' => h \in Under
    PROVE  ToldInv'
<1>1. UNCHANGED <<page, link, told, hasty>>
  BY DEF pageVars
<1>2. hasty \in Nat /\ (Kind = "confirm" /\ hasty = 0 => \A g, k \in Under : g = k)
  BY DEF ToldInv, OpenInv, LinkInv
<1>3. Under' \subseteq Under
  BY DEF Under, Rests, Stays
<1> QED BY <1>1, <1>2, <1>3, CalmTold

LEMMA GotoRests ==
    ASSUME ToldInv, NEW h \in Handlers, NEW l, NEW j, Goto(h, l, j), row' = row
    PROVE  /\ pc'[h] = l /\ job'[h] = j
           /\ \A g \in Handlers \ {h} : Rests(g)
  BY DEF Goto, ToldInv, PageOwnerInv, OwnerInv, Inv, AccountTypes, Rests, Stays

LEMMA OvertakeRests ==
    ASSUME ToldInv, NEW h \in Handlers, NEW us, NEW l \in Labels, NEW j \in Jobs,
           Overtake(h, us, l, j), \A u \in Users \ us : row'[u].password = row[u].password
    PROVE  /\ pc'[h] = l /\ job'[h] = j
           /\ \A g \in Handlers \ {h} : Rests(g)
<1>0. Inv /\ AccountTypes
  BY DEF ToldInv, PageOwnerInv, OwnerInv, Inv
<1>1. pc'[h] = l /\ job'[h] = j
  BY <1>0, Overtaken
<1>2. ASSUME NEW g \in Handlers \ {h} PROVE Rests(g)
  <2>1. Stays(g) /\ \A u \in us : Writing(g, u) => job'[g].old
    BY <1>0, OvertakenStay
  <2>2. job'[g] = [job[g] EXCEPT !.old = job[g].old \/ \E u \in us : Writing(g, u)]
    BY DEF Overtake
  <2>3. job'[g].by = job[g].by /\ job'[g].ok = job[g].ok /\ job'[g].password = job[g].password
    BY <1>0, <2>2, JobOf DEF Jobs
  <2>4. pc[g] \in {"ban", "write"} => job[g].user \in Users /\ Writing(g, job[g].user)
    BY <1>0, JobOf DEF Good, Writing
  <2> QED BY <2>1, <2>3, <2>4 DEF Rests
<1> QED BY <1>1, <1>2

LEMMA Answered ==
    ASSUME NEW h \in Handlers, NEW ok, NEW p
    PROVE  /\ After(h, ok, p).pc = IF job[h].by = "page" THEN "done" ELSE "idle"
           /\ job[h].by # "page" => After(h, ok, p).job = NoJob /\ NoJob.by = "other"
           /\ job[h].by = "page" =>
                /\ After(h, ok, p).job.op = job[h].op /\ After(h, ok, p).job.by = "page"
                /\ After(h, ok, p).job.ok = ok /\ After(h, ok, p).job.password = p
  BY DEF After, Answer, NoJob, Of

(* An answer that sets no password, and is right on what it binds.          *)
LEMMA AnswerMoves ==
    ASSUME Open, UNCHANGED page, UNCHANGED link,
           NEW h \in Handlers, NEW ok \in BOOLEAN, NEW p,
           pc'[h] = After(h, ok, p).pc, job'[h] = After(h, ok, p).job,
           pc[h] \notin {"idle", "deleteKey"}, ok => job[h].op # "reset",
           ok /\ job[h].by = "page" /\ job[h].op \in {"bind", "register"} =>
             Bound' /\ Kind \in {"bind", "register"}
    PROVE  Moves(h) /\ (h \in Under' => h \in Under)
<1>1. /\ pc'[h] \in {"done", "idle"}
      /\ pc'[h] = "done" => /\ job[h].by = "page" /\ job'[h].by = "page"
                            /\ job'[h].ok = ok /\ job'[h].op = job[h].op
      /\ pc'[h] = "idle" => job'[h].by # "page"
  BY Answered
<1>2. Kind' = Kind
  BY DEF Kind
<1>3. Ours(pc[h], job[h])'
  BY <1>1, <1>2 DEF Ours, Verifies
<1>4. /\ Copies(pc[h], job[h])' /\ ~Says(pc[h], job[h], {"reset"})'
      /\ Says(pc[h], job[h], {"bind", "register"})' => Bound'
  BY <1>1 DEF Copies, Says
<1>5. LinkOf(h)'
  BY <1>1, <1>4 DEF LinkOf
<1>6. h \in Under' => h \in Under
  BY <1>1 DEF Under
<1> QED BY <1>3, <1>4, <1>5, <1>6 DEF Moves, OursInv

LEMMA DoneTold ==
    ASSUME ToldInv, PageOwnerInv', Open, UNCHANGED pageVars, Stored, row' = row,
           NEW h \in Handlers, NEW ok \in BOOLEAN, NEW p, Done(h, ok, p),
           pc[h] \notin {"idle", "deleteKey"}, ok => job[h].op \notin {"reset", "bind", "register"}
    PROVE  ToldInv'
<1>1. /\ pc'[h] = After(h, ok, p).pc /\ job'[h] = After(h, ok, p).job
      /\ \A g \in Handlers \ {h} : Rests(g)
  BY GotoRests DEF Done
<1>2. UNCHANGED page /\ UNCHANGED link
  BY DEF pageVars
<1>3. Moves(h) /\ (h \in Under' => h \in Under)
  BY <1>1, <1>2, AnswerMoves
<1> QED BY <1>1, <1>3, OneTold

(* Where nothing is written of a row, a code or a mail.                     *)
LEMMA StillStored ==
    ASSUME ToldInv, Open, UNCHANGED <<row, setBy, mail, code, link>>, torn \subseteq torn',
           minted' \in {minted, minted + 1}
    PROVE  Stored
<1>1. setBy \in [Users -> {"page", "other"}] /\ \A m \in mail : m.code <= minted
  BY DEF ToldInv, OpenInv
<1>2. minted \in Nat /\ \A m \in mail : m.code \in Nat
  BY Ceilings DEF ToldInv, PageOwnerInv, OwnerInv, Mails
<1>3. minted' >= minted /\ \A m \in mail' : m.code <= minted'
  BY <1>1, <1>2
<1>4. (Bound => Bound') /\ (Spare' => Spare)
  BY DEF Bound, Spare, NoLink
<1> QED BY <1>1, <1>3, <1>4 DEF Stored

(* A handler that goes on.                                                  *)
LEMMA GotoTold ==
    ASSUME ToldInv, PageOwnerInv', Open, UNCHANGED pageVars, Stored, row' = row,
           NEW h \in Handlers, NEW l \in {"check", "mint", "verify", "insert", "read", "ban", "write"},
           NEW j, Goto(h, l, j), pc[h] # "deleteKey", Ours(l, j), Copies(l, j),
           j.by = "page" => h \in Under
    PROVE  ToldInv'
<1>1. /\ pc'[h] = l /\ job'[h] = j
      /\ \A g \in Handlers \ {h} : Rests(g)
  BY GotoRests
<1>2. UNCHANGED page /\ UNCHANGED link
  BY DEF pageVars
<1>3. Kind' = Kind
  BY <1>2 DEF Kind
<1>4. Ours(pc[h], job[h])' /\ Copies(pc[h], job[h])'
  BY <1>1, <1>2, <1>3 DEF Ours, Verifies, Copies
<1>5. LinkOf(h)' /\ \A ops : ~Says(pc[h], job[h], ops)'
  BY <1>1 DEF LinkOf, Says
<1>6. Moves(h)
  BY <1>4, <1>5 DEF Moves, OursInv
<1>7. h \in Under' => h \in Under
  BY <1>1 DEF Under
<1> QED BY <1>1, <1>6, <1>7, OneTold

LEMMA OursOf ==
    ASSUME ToldInv, Open, NEW h \in Handlers
    PROVE  /\ Ours(pc[h], job[h]) /\ Copies(pc[h], job[h])
           /\ pc[h] # "idle" /\ job[h].by = "page" => h \in Under
           /\ Says(pc[h], job[h], {"bind", "register"}) => Bound
  BY DEF ToldInv, OpenInv, OursInv, Under

LEMMA CheckTold ==
    ASSUME ToldInv, PageOwnerInv', Open, UNCHANGED pageVars, NEW h \in Handlers,
           Check(h) \/ CheckFails(h)
    PROVE  ToldInv'
<1>1. /\ pc[h] = "check" /\ UNCHANGED <<row, setBy, mail, code, minted, torn>>
      /\ Goto(h, "mint", job[h]) \/ Refuse(h)
  BY DEF Check, CheckFails, Checked, stored
<1>2. Stored
  BY <1>1, StillStored DEF pageVars
<1>3. CASE Goto(h, "mint", job[h])
  <2>1. Ours("mint", job[h]) /\ Copies("mint", job[h])
    BY <1>1, OursOf DEF Ours, Verifies, Copies
  <2> QED BY <1>1, <1>2, <1>3, <2>1, OursOf, GotoTold
<1>4. CASE Refuse(h)
  BY <1>1, <1>2, <1>4, DoneTold DEF Refuse
<1> QED BY <1>1, <1>3, <1>4

LEMMA MintTold ==
    ASSUME ToldInv, PageOwnerInv', Open, UNCHANGED pageVars, NEW h \in Handlers, Mint(h)
    PROVE  ToldInv'
<1> DEFINE p == IF job[h].op = "sendCode" THEN Verify_ ELSE Reset_
<1> DEFINE e == job[h].email
<1>1. /\ pc[h] = "mint" /\ UNCHANGED <<row, setBy, torn>> /\ minted' = minted + 1
      /\ code' = [code EXCEPT ![p][e] = minted + 1]
      /\ mail' \subseteq mail \cup {[purpose |-> p, email |-> e, code |-> minted + 1]}
      /\ Done(h, TRUE, 0) \/ Refuse(h)
  BY DEF Mint, history
<1> HIDE DEF p, e
<1>2. /\ code \in [Purposes -> [Emails -> Nat]] /\ minted \in Nat
      /\ mail \subseteq Mails /\ link.code \in Nat
  BY Ceilings DEF ToldInv, PageOwnerInv, PageInv, OwnerInv, Mails
<1>3. OpenInv
  BY DEF ToldInv
<1>4. ASSUME NEW m \in mail' PROVE m.code <= minted + 1
  <2>1. CASE m \in mail
    <3>1. m.code \in Nat /\ m.code <= minted
      BY <1>2, <1>3, <2>1 DEF OpenInv, Mails
    <3> QED BY <1>2, <3>1
  <2>2. CASE m = [purpose |-> p, email |-> e, code |-> minted + 1]
    BY <1>2, <2>2
  <2> QED BY <1>1, <2>1, <2>2
<1>5. Spare' => Spare
  <2>1. code'[Reset_][Address] \in {code[Reset_][Address], minted + 1}
    BY <1>1, <1>2, PageAssumption DEF Purposes
  <2>2. link' = link /\ link.code <= minted /\ NoLink' = NoLink
    BY <1>3 DEF OpenInv, pageVars, NoLink
  <2>3. link.code # minted + 1
    BY <1>2, <2>2
  <2> QED BY <2>1, <2>2, <2>3 DEF Spare
<1>6. Bound => Bound'
  BY <1>1 DEF Bound
<1>7. Stored
  BY <1>1, <1>2, <1>3, <1>4, <1>5, <1>6 DEF Stored, OpenInv
<1>8. job[h].op \in {"sendCode", "sendReset"}
  BY <1>1, OursOf DEF Ours
<1> QED BY <1>1, <1>7, <1>8, DoneTold DEF Refuse

(* The code of a link is good for one handler.                              *)
LEMMA LinkGood ==
    ASSUME ToldInv, Open, Kind = "confirm", hasty = 0, Spare, NEW h \in Handlers,
           pc[h] = "verify", job[h].by = "page"
    PROVE  told = 0 /\ Unset
<1>1. LinkInv /\ h \in Under
  BY OursOf DEF ToldInv, OpenInv
<1>2. ASSUME NEW g \in Handlers, pc[g] = "deleteKey" PROVE FALSE
  <2>1. job[g].by = "page" /\ g \in Under
    BY <1>2, OursOf DEF Ours, Verifies
  <2>2. g = h
    BY <1>1, <2>1 DEF LinkInv
  <2> QED BY <1>2, <2>2
<1> QED BY <1>1, <1>2 DEF LinkInv

LEMMA VerifyTold ==
    ASSUME ToldInv, PageOwnerInv', Open, UNCHANGED pageVars, NEW h \in Handlers, VerifyCode(h)
    PROVE  ToldInv'
<1>1. pc[h] = "verify" /\ UNCHANGED <<row, setBy, mail, code, minted, torn>>
  BY DEF VerifyCode, stored
<1>2. Stored
  BY <1>1, StillStored DEF pageVars
<1>3. Inv /\ job[h].op \in {"reset", "bind", "register"} /\ Ours("verify", job[h])
  BY <1>1, OursOf, JobOf DEF ToldInv, PageOwnerInv, PageInv, Good
<1>4. CASE Refuse(h)
  BY <1>1, <1>2, <1>4, DoneTold DEF Refuse
<1>5. CASE job[h].op = "bind" /\ Goto(h, "read", job[h])
  <2>1. Ours("read", job[h]) /\ Copies("read", job[h])
    BY <1>3, <1>5 DEF Ours, Verifies, Copies
  <2> QED BY <1>1, <1>2, <1>5, <2>1, OursOf, GotoTold
<1>6. CASE job[h].op = "register" /\ Goto(h, "insert", job[h])
  <2>1. Ours("insert", job[h]) /\ Copies("insert", job[h])
    BY <1>3, <1>6 DEF Ours, Verifies, Copies
  <2> QED BY <1>1, <1>2, <1>6, <2>1, OursOf, GotoTold
<1>7. CASE /\ job[h].op = "reset" /\ Goto(h, "setPassword", job[h])
           /\ code[Reset_][job[h].email] = job[h].code
  <2>1. /\ pc'[h] = "setPassword" /\ job'[h] = job[h]
        /\ \A g \in Handlers \ {h} : Rests(g)
    BY <1>1, <1>7, GotoRests
  <2>2. /\ job[h].by = "page" /\ job[h].email = Address /\ Kind = "confirm"
        /\ link # NoLink /\ job[h].code = link.code
    BY <1>3, <1>7 DEF Ours, Verifies
  <2>3. hasty = 0 => told = 0 /\ Unset
    BY <1>1, <1>7, <2>2, LinkGood DEF Spare
  <2>4. Kind' = Kind /\ link' = link /\ told' = told /\ hasty' = hasty /\ NoLink' = NoLink
    BY DEF pageVars, Kind, NoLink
  <2>5. Ours(pc[h], job[h])' /\ Copies(pc[h], job[h])'
    BY <1>7, <2>1, <2>2, <2>4 DEF Ours, Verifies, Copies
  <2>6. \A ops : ~Says(pc[h], job[h], ops)'
    BY <2>1 DEF Says
  <2>7. hasty' = 0 => LinkOf(h)'
    BY <1>1, <2>1, <2>3, <2>4, <2>6 DEF LinkOf, Unset
  <2>8. Moves(h)
    BY <1>1, <2>5, <2>6, <2>7 DEF Moves, OursInv
  <2>9. h \in Under
    BY <1>1, <2>2, OursOf
  <2> QED BY <1>2, <2>1, <2>8, <2>9, OneTold
<1> QED BY <1>3, <1>4, <1>5, <1>6, <1>7 DEF VerifyCode

LEMMA DeleteKeyTold ==
    ASSUME ToldInv, PageOwnerInv', Open, UNCHANGED pageVars, NEW h \in Handlers, DeleteKey(h)
    PROVE  ToldInv'
<1>1. /\ pc[h] = "deleteKey" /\ UNCHANGED <<row, setBy, mail, minted, torn>>
      /\ code' = [code EXCEPT ![Reset_][job[h].email] = 0]
      /\ Done(h, TRUE, job[h].password)
  BY DEF DeleteKey, history
<1>2. /\ job[h].op = "reset" /\ job[h].by = "page" /\ job[h].email = Address
      /\ Kind = "confirm" /\ link # NoLink
  BY <1>1, OursOf DEF Ours, Verifies
<1>3. Kind' = Kind /\ link' = link /\ told' = told /\ hasty' = hasty /\ NoLink' = NoLink
  BY DEF pageVars, Kind, NoLink
<1>4. ~Spare'
  <2>1. code \in [Purposes -> [Emails -> Nat]]
    BY DEF ToldInv, PageOwnerInv, OwnerInv
  <2>2. code'[Reset_][Address] = 0
    BY <1>1, <1>2, <2>1, PageAssumption DEF Purposes
  <2>3. link.code # 0
    BY <1>2 DEF ToldInv, OpenInv
  <2> QED BY <1>3, <2>2, <2>3 DEF Spare
<1>5. Stored
  <2>1. OpenInv /\ minted \in Nat
    BY Ceilings DEF ToldInv, PageOwnerInv, OwnerInv
  <2>2. Bound => Bound'
    BY <1>1 DEF Bound
  <2> QED BY <1>1, <1>4, <2>1, <2>2 DEF Stored, OpenInv
<1>6. \A g \in Handlers \ {h} : Rests(g)
  BY <1>1, GotoRests DEF Done
<1>7. /\ pc'[h] = "done" /\ job'[h].op = "reset" /\ job'[h].by = "page"
      /\ job'[h].password = job[h].password
  <2>1. /\ pc'[h] = After(h, TRUE, job[h].password).pc
        /\ job'[h] = After(h, TRUE, job[h].password).job
    BY <1>1, GotoRests DEF Done
  <2> DEFINE a == After(h, TRUE, job[h].password)
  <2>2. /\ a.pc = "done" /\ a.job.op = "reset" /\ a.job.by = "page"
        /\ a.job.password = job[h].password
    BY <1>2 DEF After, Answer
  <2> HIDE DEF a
  <2> QED BY <2>1, <2>2 DEF a
<1>8. OursInv(h)'
  BY <1>2, <1>3, <1>7 DEF OursInv, Ours, Verifies, Copies, Says
<1>9. hasty' = 0 => LinkOf(h)'
  <2>1. hasty = 0 => Works(job[h].password)
    BY <1>1, <1>2 DEF ToldInv, OpenInv, LinkInv, LinkOf
  <2>2. hasty = 0 => Works(job[h].password)'
    BY <1>1, <1>7, <2>1 DEF Works
  <2> QED BY <1>3, <1>7, <2>2 DEF LinkOf
<1>10. Moves(h)
  BY <1>4, <1>8, <1>9 DEF Moves
<1>11. h \in Under
  BY <1>1, <1>2, OursOf
<1> QED BY <1>5, <1>6, <1>10, <1>11, OneTold

LEMMA SetPasswordTold ==
    ASSUME ToldInv, PageOwnerInv', Open, UNCHANGED pageVars, NEW h \in Handlers, SetPassword(h)
    PROVE  ToldInv'
<1> DEFINE us == Owners(job[h].email)
<1> DEFINE j == [job[h] EXCEPT !.password = minted + 1]
<1>0. Inv /\ OpenInv
  BY DEF ToldInv, PageOwnerInv, PageInv
<1>1. /\ pc[h] = "setPassword" /\ minted' = minted + 1 /\ minted \in Nat
      /\ UNCHANGED <<code, mail, torn>> /\ Overtake(h, us, "deleteKey", j)
      /\ row' = [u \in Users |-> IF u \in us THEN [row[u] EXCEPT !.password = minted + 1]
                                 ELSE row[u]]
      /\ setBy' = [u \in Users |-> IF u \in us THEN job[h].by ELSE setBy[u]]
  BY <1>0, Ceilings DEF SetPassword
<1>2. /\ job[h].op = "reset" /\ job[h].by = "page" /\ job[h].email = Address
      /\ Kind = "confirm" /\ link # NoLink /\ job[h].code = link.code
  BY <1>1, OursOf DEF Ours, Verifies
<1>3. /\ Kind' = Kind /\ link' = link /\ told' = told /\ hasty' = hasty /\ NoLink' = NoLink
      /\ UNCHANGED page
  BY DEF pageVars, Kind, NoLink
<1>4. j \in Jobs /\ j.password = minted + 1 /\ j.op = job[h].op /\ j.by = job[h].by
      /\ j.email = job[h].email /\ j.code = job[h].code
  <2>1. job[h] \in Jobs
    BY <1>0, JobOf
  <2>2. minted \in Nat
    BY <1>0, Ceilings
  <2>3. minted + 1 \in Nat
    BY <2>2
  <2> QED BY <2>1, <2>3 DEF Jobs
<1>5. \A u \in Users : /\ row'[u].email = row[u].email
                       /\ u \in us => row'[u].password = minted + 1
                       /\ u \notin us => row'[u].password = row[u].password
  BY <1>0, <1>1, Ceilings DEF Rows
<1> HIDE DEF us, j
<1>6. /\ pc'[h] = "deleteKey" /\ job'[h] = j
      /\ \A g \in Handlers \ {h} : Rests(g)
  BY <1>1, <1>4, <1>5, OvertakeRests DEF Labels
<1>7. \A g \in Handlers : OursInv(g)'
  <2>1. Bound => Bound'
    BY <1>1, <1>5, PageAssumption DEF Bound
  <2>2. OursInv(h)'
    BY <1>2, <1>3, <1>4, <1>6 DEF OursInv, Ours, Verifies, Copies, Says
  <2> QED BY <1>3, <1>6, <2>1, <2>2, RestsOurs
<1>8. setBy' \in [Users -> {"page", "other"}]
  BY <1>0, <1>1, <1>2 DEF OpenInv
<1>9. link'.code <= minted' /\ \A m \in mail' : m.code <= minted'
  <2>1. link.code \in Nat /\ \A m \in mail : m.code \in Nat
    BY <1>0, Ceilings DEF ToldInv, PageOwnerInv, PageInv, Mails
  <2> QED BY <1>0, <1>1, <1>3, <2>1 DEF OpenInv
<1>10. ASSUME hasty = 0 PROVE LinkInv'
  <2>1. LinkInv /\ told = 0 /\ Unset
    BY <1>0, <1>1, <1>2, <1>10 DEF OpenInv, LinkInv, LinkOf
  <2>2. ASSUME NEW g \in Handlers \ {h}, pc[g] \in {"setPassword", "deleteKey", "done"}
        PROVE  pc[g] = "done" /\ FALSE
    <3>1. job[g].by = "page" /\ g \in Under /\ h \in Under
      BY <1>1, <1>2, <2>2, OursOf DEF Ours, Verifies
    <3> QED BY <2>1, <3>1 DEF LinkInv
  <2>3. (\A g, k \in Under : g = k)'
    <3>1. Under' \subseteq Under
      BY <1>1, <1>2, <1>6, OursOf DEF Under, Rests, Stays
    <3> QED BY <2>1, <3>1 DEF LinkInv
  <2>4. ASSUME NEW g \in Handlers \ {h} PROVE pc'[g] \notin {"setPassword", "deleteKey", "done"}
    BY <1>6, <2>2 DEF Rests, Stays
  <2>5. Works(job[h].password)'
    <3>1. ASSUME NEW u \in Users, setBy'[u] = "page" PROVE row'[u].password = minted + 1
      BY <1>1, <1>5, <2>1, <3>1 DEF Unset
    <3>2. job'[h].password = minted + 1
      BY <1>4, <1>6
    <3> QED BY <3>1, <3>2 DEF Works
  <2>6. \A g \in Handlers : LinkOf(g)' /\ ~Says(pc[g], job[g], {"reset"})'
    BY <1>3, <1>6, <2>1, <2>4, <2>5 DEF LinkOf, Says
  <2> QED BY <1>2, <1>3, <1>6, <2>1, <2>3, <2>6 DEF LinkInv
<1> QED BY <1>0, <1>2, <1>3, <1>7, <1>8, <1>9, <1>10 DEF ToldInv, OpenInv

LEMMA InsertTold ==
    ASSUME ToldInv, PageOwnerInv', Open, UNCHANGED pageVars, NEW h \in Handlers,
           NEW q, Insert(h, q)
    PROVE  ToldInv'
<1>1. /\ pc[h] = "insert" /\ UNCHANGED <<code, mail, torn>>
  BY DEF Insert
<1>2. /\ job[h].op = "register" /\ job[h].by = "page" /\ job[h].user = Self
      /\ job[h].email = Address /\ Kind = "register"
  BY <1>1, OursOf DEF Ours, Verifies
<1>3. CASE Refuse(h) /\ UNCHANGED <<row, minted, setBy>>
  <2>1. Stored
    BY <1>1, <1>3, StillStored DEF pageVars
  <2> QED BY <1>1, <1>3, <2>1, DoneTold DEF Refuse
<1>4. CASE /\ row' = [row EXCEPT ![Self] = Row("enabled", Address, minted + 1, q)]
           /\ minted' = minted + 1 /\ setBy' = [setBy EXCEPT ![Self] = "other"]
           /\ Overtake(h, {Self}, After(h, TRUE, 0).pc, After(h, TRUE, 0).job)
  <2>0. OpenInv /\ Inv /\ AccountTypes
    BY DEF ToldInv, PageOwnerInv, PageInv, Inv
  <2>1. /\ row'[Self].email = Address /\ setBy'[Self] = "other"
        /\ \A u \in Users \ {Self} : row'[u] = row[u] /\ setBy'[u] = setBy[u]
    <3>1. row \in [Users -> Rows] /\ setBy \in [Users -> {"page", "other"}]
      BY <2>0, Ceilings DEF OpenInv
    <3>2. Row("enabled", Address, minted + 1, q).email = Address
      BY DEF Row
    <3> QED BY <1>4, <3>1, <3>2, PageAssumption
  <2>2. setBy' \in [Users -> {"page", "other"}]
    BY <1>4, <2>0 DEF OpenInv
  <2>3. Bound' /\ (Spare' => Spare)
    BY <1>1, <2>1 DEF Bound, Spare, NoLink, pageVars
  <2>4. minted' >= minted /\ \A m \in mail' : m.code <= minted'
    <3>1. minted \in Nat /\ \A m \in mail : m.code \in Nat /\ m.code <= minted
      BY <2>0, Ceilings DEF OpenInv, Mails
    <3> QED BY <1>1, <1>4, <3>1
  <2>5. Stored
    BY <1>1, <2>1, <2>2, <2>3, <2>4 DEF Stored
  <2>6. /\ pc'[h] = After(h, TRUE, 0).pc /\ job'[h] = After(h, TRUE, 0).job
        /\ \A g \in Handlers \ {h} : Rests(g)
    <3>1. After(h, TRUE, 0).pc \in Labels /\ After(h, TRUE, 0).job \in Jobs
      BY <2>0, AfterTyped DEF Labels
    <3>2. \A u \in Users \ {Self} : row'[u].password = row[u].password
      BY <2>1
    <3> QED BY <1>4, <3>1, <3>2, OvertakeRests
  <2>7. UNCHANGED page /\ UNCHANGED link
    BY DEF pageVars
  <2>8. Moves(h) /\ (h \in Under' => h \in Under)
    BY <1>1, <1>2, <2>3, <2>6, <2>7, AnswerMoves
  <2> QED BY <2>5, <2>6, <2>8, OneTold
<1> QED BY <1>2, <1>3, <1>4 DEF Insert

LEMMA ChangedPassword ==
    ASSUME NEW h \in Handlers, NEW r \in Rows, job[h].op \in {"bind", "token"}
    PROVE  Changed(h, r).password = r.password
<1>1. CASE job[h].op = "bind"
  BY <1>1 DEF Changed, Rows
<1>2. CASE job[h].op = "token"
  BY <1>2 DEF Changed
<1> QED BY <1>1, <1>2

LEMMA CopiedTold ==
    ASSUME ToldInv, PageOwnerInv', Open, UNCHANGED pageVars, NEW h \in Handlers,
           NEW r \in Rows, Copied(h, r), r.password \in {0, row[job[h].user].password}
    PROVE  ToldInv'
<1> DEFINE c == Changed(h, r)
<1> DEFINE w == reserved[job[h].user]
<1> DEFINE j == [job[h] EXCEPT !.copy = c, !.held = w, !.old = FALSE]
<1>1. /\ pc[h] = "read" /\ UNCHANGED <<row, code, mail, setBy, torn>>
      /\ minted' \in {minted, minted + 1}
  BY DEF Copied, history
<1>2. Inv /\ job[h].op \in {"bind", "token", "password"} /\ Ours("read", job[h])
  BY <1>1, OursOf DEF Ours, ToldInv, PageOwnerInv, PageInv
<1>3. Goto(h, "ban", j)
  BY <1>2 DEF Copied
<1>4. c \in Rows /\ (job[h].op # "password" => c.password = r.password)
  BY <1>2, ChangedRow, ChangedPassword DEF Reads
<1> HIDE DEF c
<1>5. /\ j.op = job[h].op /\ j.user = job[h].user /\ j.email = job[h].email
      /\ j.by = job[h].by /\ j.code = job[h].code /\ j.copy = c
  BY <1>2, <1>4, JobOf DEF Jobs
<1> HIDE DEF j
<1>6. Ours("ban", j) /\ Copies("ban", j)
  BY <1>2, <1>4, <1>5 DEF Ours, Verifies, Copies
<1>7. Stored
  BY <1>1, StillStored DEF pageVars
<1> QED BY <1>1, <1>3, <1>5, <1>6, <1>7, OursOf, GotoTold

LEMMA ReadTold ==
    ASSUME ToldInv, PageOwnerInv', Open, UNCHANGED pageVars, NEW h \in Handlers,
           Read(h) \/ ReadFails(h)
    PROVE  ToldInv'
<1>0. Inv
  BY DEF ToldInv, PageOwnerInv, PageInv
<1>1. CASE Read(h)
  <2>1. row[job[h].user] \in Rows
    BY <1>0, <1>1, JobOf, Ceilings DEF Read, Copied, Good
  <2> QED BY <1>1, <2>1, CopiedTold DEF Read
<1>2. CASE Copied(h, Absent)
  <2>1. Absent.password = 0
    BY DEF Absent, Row
  <2> QED BY <1>2, <2>1, NothingRead, CopiedTold
<1>3. CASE pc[h] = "read" /\ Refuse(h) /\ UNCHANGED <<stored, history>>
  <2>1. UNCHANGED <<row, setBy, mail, code, torn, minted>>
    BY <1>3 DEF stored, history
  <2>2. Stored
    BY <2>1, StillStored DEF pageVars
  <2> QED BY <1>3, <2>1, <2>2, DoneTold DEF Refuse
<1> QED BY <1>1, <1>2, <1>3 DEF ReadFails

LEMMA BanTold ==
    ASSUME ToldInv, PageOwnerInv', Open, UNCHANGED pageVars, NEW h \in Handlers, Ban(h)
    PROVE  ToldInv'
<1>1. /\ pc[h] = "ban" /\ UNCHANGED <<row, code, mail, minted, setBy, torn>>
      /\ Goto(h, "write", job[h])
  BY DEF Ban, history
<1>2. Ours("write", job[h]) /\ Copies("write", job[h])
  BY <1>1, OursOf DEF Ours, Verifies, Copies
<1>3. Stored
  BY <1>1, StillStored DEF pageVars
<1> QED BY <1>1, <1>2, <1>3, OursOf, GotoTold

LEMMA FailsTold ==
    ASSUME ToldInv, PageOwnerInv', Open, UNCHANGED pageVars, NEW h \in Handlers,
           StatementFails(h)
    PROVE  ToldInv'
<1>1. /\ pc[h] \in {"setPassword", "insert", "write", "rewrite"} /\ Refuse(h)
      /\ UNCHANGED <<row, code, mail, minted, setBy>> /\ torn \subseteq torn'
  BY DEF StatementFails, stored
<1>2. Stored
  BY <1>1, StillStored DEF pageVars
<1> QED BY <1>1, <1>2, DoneTold DEF Refuse

LEMMA UpdatedPassword ==
    ASSUME NEW r, NEW c
    PROVE  Updates(r, c).password = IF c.password = 0 THEN r.password ELSE c.password
  BY DEF Updates, Row

LEMMA WriteTold ==
    ASSUME ToldInv, PageOwnerInv', Open, UNCHANGED pageVars, NEW h \in Handlers, Write(h)
    PROVE  ToldInv'
<1>0. OpenInv /\ Inv /\ AccountTypes /\ Addressed(pc[h], job[h])
  BY DEF ToldInv, PageOwnerInv, PageInv, OwnerInv, Inv
<1>1. /\ pc[h] = "write" /\ job[h].op \in {"bind", "token", "password"}
      /\ Ours("write", job[h]) /\ Copies("write", job[h])
  BY OursOf DEF Write, Ours
<1>u. PICK u \in Users : u = job[h].user
  BY <1>0, <1>1, JobOf DEF Good
<1>c. PICK c \in Rows : c = job[h].copy
  BY <1>0, JobOf
<1>2. /\ torn' = (IF job[h].old THEN torn \cup {u} ELSE torn)
      /\ UNCHANGED <<code, mail, minted>>
      /\ row' = [row EXCEPT ![u] = Updates(row[u], c)]
      /\ setBy' = [setBy EXCEPT ![u] = IF job[h].op = "password" THEN "other" ELSE setBy[u]]
      /\ Overtake(h, {u}, After(h, TRUE, 0).pc, After(h, TRUE, 0).job)
  BY <1>u, <1>c, <1>1 DEF Write
<1>3. /\ row'[u].email = IF c.email = "" THEN row[u].email ELSE c.email
      /\ row'[u].password = IF c.password = 0 THEN row[u].password ELSE c.password
      /\ \A v \in Users \ {u} : row'[v] = row[v]
  <2>1. row \in [Users -> Rows]
    BY <1>0, Ceilings
  <2> QED BY <1>2, <2>1, UpdatedEmail, UpdatedPassword
<1>4. /\ setBy' \in [Users -> {"page", "other"}]
      /\ \A v \in Users : setBy'[v] = "page" =>
           setBy[v] = "page" /\ (v = u => job[h].op # "password")
  <2>1. setBy \in [Users -> {"page", "other"}]
    BY <1>0 DEF OpenInv
  <2> QED BY <1>2, <2>1
<1>5. ASSUME NEW v \in Users, setBy'[v] = "page"
      PROVE  setBy[v] = "page" /\ (v \in torn' \/ row'[v].password = row[v].password)
  <2>1. CASE v # u
    BY <1>3, <1>4, <1>5, <2>1
  <2>2. CASE v = u /\ ~job[h].old
    <3>1. c.password \in {0, row[u].password}
      BY <1>1, <1>4, <1>5, <1>u, <1>c, <2>2 DEF Copies
    <3> QED BY <1>3, <1>4, <1>5, <2>2, <3>1
  <2>3. CASE v = u /\ job[h].old
    BY <1>2, <1>4, <1>5, <2>3
  <2> QED BY <2>1, <2>2, <2>3
<1>6. ASSUME u = Self, job[h].op = "bind" PROVE Bound' /\ Kind = "bind"
  <2>1. job[h].email = Address /\ Kind = "bind"
    BY <1>1, <1>6, <1>u DEF Ours, Verifies
  <2>2. c.email = Address
    BY <1>0, <1>1, <1>6, <1>c, <2>1 DEF Addressed, Carries
  <2>3. Address # ""
    BY AccountAssumption, PageAssumption
  <2> QED BY <1>3, <1>6, <2>1, <2>2, <2>3 DEF Bound
<1>7. Bound => Bound'
  <2>1. CASE u # Self
    BY <1>2, <1>3, <2>1, PageAssumption DEF Bound
  <2>2. CASE u = Self /\ job[h].old
    BY <1>2, <2>2 DEF Bound
  <2>3. CASE u = Self /\ ~job[h].old /\ job[h].op # "bind"
    <3>1. c.email \in {"", row[u].email}
      BY <1>0, <1>1, <1>u, <1>c, <2>3 DEF Addressed, Carries
    <3> QED BY <1>2, <1>3, <2>3, <3>1 DEF Bound
  <2> QED BY <1>6, <2>1, <2>2, <2>3
<1>8. Stored
  <2>1. minted' >= minted /\ \A m \in mail' : m.code <= minted'
    <3>1. minted \in Nat /\ \A m \in mail : m.code <= minted
      BY <1>0, Ceilings DEF OpenInv
    <3> QED BY <1>2, <3>1
  <2>2. torn \subseteq torn' /\ (Spare' => Spare)
    BY <1>2 DEF Spare, NoLink, pageVars
  <2> QED BY <1>4, <1>5, <1>7, <2>1, <2>2 DEF Stored
<1>9. /\ pc'[h] = After(h, TRUE, 0).pc /\ job'[h] = After(h, TRUE, 0).job
      /\ \A g \in Handlers \ {h} : Rests(g)
  <2>1. After(h, TRUE, 0).pc \in Labels /\ After(h, TRUE, 0).job \in Jobs
    BY <1>0, AfterTyped DEF Labels
  <2>2. \A v \in Users \ {u} : row'[v].password = row[v].password
    BY <1>3
  <2> QED BY <1>2, <2>1, <2>2, OvertakeRests
<1>10. UNCHANGED page /\ UNCHANGED link
  BY DEF pageVars
<1>11. job[h].by = "page" /\ job[h].op \in {"bind", "register"} =>
         Bound' /\ Kind \in {"bind", "register"}
  BY <1>1, <1>6, <1>u DEF Ours, Verifies
<1>12. Moves(h) /\ (h \in Under' => h \in Under)
  BY <1>1, <1>9, <1>10, <1>11, AnswerMoves
<1> QED BY <1>8, <1>9, <1>12, OneTold

LEMMA StepTold ==
    ASSUME ToldInv, PageOwnerInv', Open, UNCHANGED pageVars, NEW h \in Handlers, Step(h)
    PROVE  ToldInv'
<1>1. ASSUME NEW q, Submit(h, q) PROVE FALSE
  BY <1>1, OursOf DEF Submit, Ours
<1> QED BY <1>1, CheckTold, MintTold, VerifyTold, SetPasswordTold, DeleteKeyTold, InsertTold,
           ReadTold, BanTold, WriteTold, FailsTold DEF Step

-----------------------------------------------------------------------------
(* Requests of others and of the page                                       *)
LEMMA BegunStored ==
    ASSUME ToldInv, Open, UNCHANGED link, NEW h \in Handlers, NEW l, NEW j, Begin(h, l, j),
           UNCHANGED minted
    PROVE  Stored /\ row' = row /\ Goto(h, l, j) /\ pc[h] = "idle"
  BY StillStored DEF Begin, history

LEMMA BesideTold ==
    ASSUME ToldInv, PageOwnerInv', Open, UNCHANGED pageVars, NEW h \in Handlers, BesidePage(h)
    PROVE  ToldInv'
<1>0. UNCHANGED link
  BY DEF pageVars
<1>1. ASSUME NEW op \in {"sendCode", "sendReset"}, UNCHANGED minted,
             Begin(h, "check", Of(op, "other", NoUser, Address, 0))
      PROVE  ToldInv'
  <2> DEFINE j == Of(op, "other", NoUser, Address, 0)
  <2>1. Ours("check", j) /\ Copies("check", j) /\ j.by = "other"
    BY DEF Of, Ours, Verifies, Copies
  <2>2. Stored /\ row' = row /\ Goto(h, "check", j) /\ pc[h] = "idle"
    BY <1>0, <1>1, BegunStored
  <2> HIDE DEF j
  <2> QED BY <2>1, <2>2, GotoTold
<1>2. ASSUME NEW u \in Users \ {Self}, NEW m, UNCHANGED minted,
             Begin(h, "verify", Of("bind", "other", u, m.email, m.code))
      PROVE  ToldInv'
  <2> DEFINE j == Of("bind", "other", u, m.email, m.code)
  <2>1. Ours("verify", j) /\ Copies("verify", j) /\ j.by = "other"
    BY DEF Of, Ours, Verifies, Copies
  <2>2. Stored /\ row' = row /\ Goto(h, "verify", j) /\ pc[h] = "idle"
    BY <1>0, <1>2, BegunStored
  <2> HIDE DEF j
  <2> QED BY <2>1, <2>2, GotoTold
<1>3. ASSUME NEW op \in {"token", "password"}, UNCHANGED minted,
             Begin(h, "read", Of(op, "other", Self, "", 0))
      PROVE  ToldInv'
  <2> DEFINE j == Of(op, "other", Self, "", 0)
  <2>1. Ours("read", j) /\ Copies("read", j) /\ j.by = "other"
    BY DEF Of, Ours, Verifies, Copies
  <2>2. Stored /\ row' = row /\ Goto(h, "read", j) /\ pc[h] = "idle"
    BY <1>0, <1>3, BegunStored
  <2> HIDE DEF j
  <2> QED BY <2>1, <2>2, GotoTold
<1> QED BY <1>1, <1>2, <1>3 DEF BesidePage, SendEmailVerification, SendPasswordResetEmail,
           EmailBind, ChangePassword, GenerateAccessToken

(* A click of a patient user is the only request of the page under way.     *)
LEMMA ClickTold ==
    ASSUME ToldInv, PageOwnerInv', Open, Clicks, NEW h \in Handlers,
           NEW l \in {"check", "verify"}, NEW j, Begin(h, l, j), UNCHANGED minted, Ours(l, j)
    PROVE  ToldInv'
<1>1. UNCHANGED page /\ UNCHANGED link /\ told' = told
  BY DEF Clicks
<1>2. Stored /\ row' = row /\ Goto(h, l, j) /\ pc[h] = "idle"
  BY <1>1, BegunStored
<1>3. /\ pc'[h] = l /\ job'[h] = j
      /\ \A g \in Handlers \ {h} : Rests(g)
  BY <1>2, GotoRests
<1>4. hasty' \in Nat /\ (hasty' = 0 => hasty = 0 /\ Under = {})
  <2>1. hasty \in Nat
    BY DEF ToldInv, OpenInv
  <2> QED BY <2>1 DEF Clicks
<1>5. hasty' = 0 => \A g, k \in Under' : g = k
  <2>1. Under' \subseteq Under \cup {h}
    BY <1>3 DEF Under, Rests, Stays
  <2> QED BY <1>4, <2>1
<1>6. OursInv(h)' /\ LinkOf(h)' /\ ~Says(pc[h], job[h], {"reset"})'
  <2>1. Ours(pc[h], job[h])'
    <3>1. Kind' = Kind
      BY <1>1 DEF Kind
    <3> QED BY <1>1, <1>3, <3>1 DEF Ours, Verifies
  <2> QED BY <1>3, <2>1 DEF OursInv, Copies, LinkOf, Says
<1>7. Moves(h)
  BY <1>2, <1>6 DEF Moves
<1> QED BY <1>1, <1>2, <1>3, <1>4, <1>5, <1>7, CalmTold

LEMMA StillTold ==
    ASSUME ToldInv, PageOwnerInv', Open, UNCHANGED <<page, link, told>>, ServerStill,
           hasty' = hasty \/ Clicks
    PROVE  ToldInv'
<1>1. UNCHANGED <<pc, job, row, code, mail, minted, setBy, torn>>
  BY DEF ServerStill, vars, stored, history
<1>2. Stored
  BY <1>1, StillStored
<1>3. \A g \in Handlers : Rests(g)
  BY <1>1 DEF Rests, Stays
<1>4. hasty \in Nat /\ (Kind = "confirm" /\ hasty = 0 => \A g, k \in Under : g = k)
  BY DEF ToldInv, OpenInv, LinkInv
<1>5. hasty' \in Nat /\ (hasty' = 0 => hasty = 0)
  BY <1>4 DEF Clicks
<1>6. Under' = Under
  BY <1>1 DEF Under
<1> QED BY <1>2, <1>3, <1>4, <1>5, <1>6, CalmTold

LEMMA PageClickTold ==
    ASSUME ToldInv, PageOwnerInv', Open, NEW h \in Handlers,
           \/ AsksForLink(h)
           \/ \E counts, asks, spins : AsksForCode(h, counts, asks, spins)
           \/ Kind = "confirm" /\ \E spins : Confirms(h, spins)
           \/ \E m : Sends(m) /\ \/ Kind = "register" /\ Register(h, "page", Self, m)
                                 \/ Kind = "bind" /\ EmailBind(h, "page", Self, m)
    PROVE  ToldInv'
<1>1. ASSUME NEW op \in {"sendCode", "sendReset"}, Clicks, UNCHANGED minted,
             Begin(h, "check", Of(op, "page", NoUser, Address, 0))
      PROVE  ToldInv'
  <2> DEFINE j == Of(op, "page", NoUser, Address, 0)
  <2>1. Ours("check", j)
    BY DEF Of, Ours, Verifies
  <2> HIDE DEF j
  <2> QED BY <1>1, <2>1, ClickTold DEF j
<1>2. CASE \/ AsksForLink(h)
           \/ \E counts, asks, spins : AsksForCode(h, counts, asks, spins)
  <2>1. Clicks
    BY <1>2 DEF AsksForLink, AsksForCode
  <2>2. CASE ServerStill
    BY <2>1, <2>2, StillTold DEF Clicks
  <2>3. CASE \/ SendPasswordResetEmail(h, "page", Address)
             \/ SendEmailVerification(h, "page", Address)
    BY <1>1, <2>1, <2>3 DEF SendPasswordResetEmail, SendEmailVerification
  <2> QED BY <1>2, <2>2, <2>3 DEF AsksForLink, AsksForCode
<1>3. CASE Kind = "confirm" /\ \E spins : Confirms(h, spins)
  <2> DEFINE j == Of("reset", "page", NoUser, link.email, link.code)
  <2>1. link # NoLink /\ Clicks /\ Begin(h, "verify", j) /\ UNCHANGED minted
    BY <1>3 DEF Confirms, ResetPassword
  <2>2. link.email = Address
    BY <2>1 DEF ToldInv, OpenInv
  <2>3. Ours("verify", j)
    BY <1>3, <2>1, <2>2 DEF Of, Ours, Verifies
  <2> HIDE DEF j
  <2> QED BY <2>1, <2>3, ClickTold
<1>4. ASSUME NEW m, Sends(m), Kind = "register" /\ Register(h, "page", Self, m)
      PROVE  ToldInv'
  <2> DEFINE j == Of("register", "page", Self, m.email, m.code)
  <2>1. m.email = Address /\ Clicks /\ Begin(h, "verify", j) /\ UNCHANGED minted
    BY <1>4 DEF Sends, Register
  <2>2. Ours("verify", j)
    BY <1>4, <2>1 DEF Of, Ours, Verifies
  <2> HIDE DEF j
  <2> QED BY <2>1, <2>2, ClickTold
<1>5. ASSUME NEW m, Sends(m), Kind = "bind" /\ EmailBind(h, "page", Self, m)
      PROVE  ToldInv'
  <2> DEFINE j == Of("bind", "page", Self, m.email, m.code)
  <2>1. m.email = Address /\ Clicks /\ Begin(h, "verify", j) /\ UNCHANGED minted
    BY <1>5 DEF Sends, EmailBind
  <2>2. Ours("verify", j)
    BY <1>5, <2>1 DEF Of, Ours, Verifies
  <2> HIDE DEF j
  <2> QED BY <2>1, <2>2, ClickTold
<1> QED BY <1>2, <1>3, <1>4, <1>5

-----------------------------------------------------------------------------
(* Answers, links and the end of the process                                *)
LEMMA FreesRests ==
    ASSUME ToldInv, Open, UNCHANGED <<page, link>>, NEW h \in Handlers, Frees(h)
    PROVE  /\ UNCHANGED <<row, code, mail, minted, setBy, torn>>
           /\ pc'[h] = "idle" /\ \A g \in Handlers \ {h} : Rests(g)
           /\ Stored /\ \A g \in Handlers : OursInv(g)'
           /\ Under' \subseteq Under
<1>1. UNCHANGED <<row, code, mail, minted, setBy, torn>> /\ Goto(h, "idle", NoJob)
  BY DEF Frees, stored, history
<1>2. pc'[h] = "idle" /\ \A g \in Handlers \ {h} : Rests(g)
  BY <1>1, GotoRests
<1>3. Stored
  BY <1>1, StillStored
<1>4. OursInv(h)'
  BY <1>2 DEF OursInv, Ours, Verifies, Copies, Says
<1>5. \A g \in Handlers : OursInv(g)'
  BY <1>2, <1>3, <1>4, RestsOurs DEF Stored
<1>6. Under' \subseteq Under
  BY <1>2 DEF Under, Rests, Stays
<1> QED BY <1>1, <1>2, <1>3, <1>5, <1>6

LEMMA FreesTold ==
    ASSUME ToldInv, PageOwnerInv', Open, UNCHANGED <<page, link, hasty>>, told' = told,
           NEW h \in Handlers, Frees(h), pc[h] # "deleteKey"
    PROVE  ToldInv'
<1>1. pc'[h] = "idle" /\ OursInv(h)' /\ Under' \subseteq Under
  BY FreesRests
<1>2. Moves(h)
  BY <1>1 DEF Moves, LinkOf, Says
<1>3. hasty \in Nat /\ (Kind = "confirm" /\ hasty = 0 => \A g, k \in Under : g = k)
  BY DEF ToldInv, OpenInv, LinkInv
<1> QED BY <1>1, <1>2, <1>3, FreesRests, CalmTold

LEMMA ArrivesTold ==
    ASSUME ToldInv, PageOwnerInv', Open, NEW h \in Handlers, Arrives(h)
    PROVE  ToldInv'
<1>1. /\ pc[h] = "done" /\ Frees(h) /\ UNCHANGED <<page, link, hasty>>
      /\ told' = CASE job[h].ok /\ job[h].op = "reset" -> job[h].password
                   [] job[h].ok /\ job[h].op \in {"bind", "register"} -> 1
                   [] job[h].ok /\ page = <<"berry", "mail">> -> 1
                   [] OTHER -> told
  BY DEF Arrives
<1>2. OpenInv /\ Kind' = Kind /\ NoLink' = NoLink
  BY <1>1 DEF ToldInv, Kind, NoLink
<1>3. /\ UNCHANGED <<row, code, mail, minted, setBy, torn>>
      /\ pc'[h] = "idle" /\ \A g \in Handlers \ {h} : Rests(g)
      /\ \A g \in Handlers : OursInv(g)'
      /\ Under' \subseteq Under
  BY <1>1, FreesRests
<1>4. CASE told' = told
  BY <1>1, <1>4, FreesTold
<1>5. CASE told' # told
  <2>1. \/ job[h].ok /\ job[h].op = "reset" /\ told' = job[h].password
        \/ job[h].ok /\ job[h].op \in {"bind", "register"}
        \/ Kind = "mail"
    BY <1>1, <1>5 DEF Kind
  <2>2. Kind \in {"bind", "register"} => Bound
    BY <1>1, <2>1, OursOf DEF Ours, Says
  <2>3. (told # 0 /\ Kind \in {"bind", "register"} => Bound)'
    BY <1>2, <1>3, <2>2 DEF Bound
  <2>4. ASSUME Kind = "confirm", hasty = 0 PROVE LinkInv'
    <3>1. /\ LinkInv /\ link # NoLink
          /\ Says(pc[h], job[h], {"reset"}) /\ told' = job[h].password
      BY <1>1, <1>2, <2>1, <2>4, OursOf DEF OpenInv, Ours, Says
    <3>2. Works(told)' /\ ~Spare /\ (\A g, k \in Under : g = k)'
      BY <1>3, <3>1 DEF LinkInv, LinkOf, Works
    <3>3. ~Spare'
      BY <1>1, <1>2, <1>3, <3>2 DEF Spare
    <3>4. ASSUME NEW g \in Handlers \ {h}, pc[g] \in {"setPassword", "deleteKey", "done"}
          PROVE  FALSE
      <4>1. g \in Under /\ h \in Under
        BY <1>1, <3>4, OursOf DEF Ours, Verifies
      <4> QED BY <3>1, <4>1 DEF LinkInv
    <3>5. \A g \in Handlers : pc'[g] \notin {"setPassword", "deleteKey", "done"}
      BY <1>3, <3>4 DEF Rests, Stays
    <3>6. \A g \in Handlers : LinkOf(g)'
      BY <3>5 DEF LinkOf, Says
    <3> QED BY <1>1, <1>2, <3>1, <3>2, <3>3, <3>6 DEF LinkInv
  <2> QED BY <1>1, <1>2, <1>3, <2>3, <2>4 DEF ToldInv, OpenInv
<1> QED BY <1>4, <1>5

LEMMA FollowsTold ==
    ASSUME ToldInv, PageOwnerInv', Open, NEW m \in Mailed(Reset_), Follows(m)
    PROVE  ToldInv'
<1>1. /\ Kind = "confirm" /\ link = NoLink /\ m.email = Address /\ link' = m
      /\ UNCHANGED <<page, told, hasty>>
      /\ UNCHANGED <<pc, job, row, code, mail, minted, setBy, torn>>
  BY DEF Follows, vars, stored, history
<1>2. OpenInv /\ Kind' = Kind /\ NoLink' = NoLink /\ Under' = Under
  BY <1>1 DEF ToldInv, Kind, NoLink, Under
<1>3. m \in mail /\ m.code # 0
  BY DEF Mailed, ToldInv, PageOwnerInv, OwnerInv
<1>4. link' # NoLink /\ m.code <= minted
  <2>1. NoLink.code = 0
    BY DEF NoLink
  <2>2. link' = m /\ m.code # 0
    BY <1>1, <1>3
  <2>3. m.code <= minted
    BY <1>2, <1>3 DEF OpenInv
  <2> QED BY <2>1, <2>2, <2>3
<1>5. ASSUME NEW g \in Handlers
      PROVE  OursInv(g)' /\ ~Says(pc[g], job[g], {"reset"}) /\ pc[g] \notin {"setPassword", "deleteKey"}
  <2>1. Ours(pc[g], job[g]) /\ Copies(pc[g], job[g])
    BY OursOf
  <2>2. ~Says(pc[g], job[g], {"reset"}) /\ pc[g] \notin {"setPassword", "deleteKey"}
    BY <1>1, <2>1 DEF Says, Ours, Verifies
  <2>3. Ours(pc[g], job[g])'
    BY <1>1, <1>2, <2>1 DEF Ours, Verifies
  <2>4. Copies(pc[g], job[g])'
    BY <1>1, <2>1 DEF Copies
  <2>5. (Says(pc[g], job[g], {"bind", "register"}) => Bound)'
    BY <1>1, OursOf DEF Says, Bound
  <2> QED BY <2>2, <2>3, <2>4, <2>5 DEF OursInv
<1>6. ASSUME hasty = 0 PROVE LinkInv'
  <2>1. LinkInv /\ told = 0 /\ Unset
    BY <1>1, <1>2, <1>6 DEF OpenInv, LinkInv
  <2>2. told' = 0 /\ Unset' /\ (\A g, k \in Under : g = k)'
    BY <1>1, <1>2, <2>1 DEF LinkInv, Unset
  <2>3. \A g \in Handlers : LinkOf(g)' /\ ~Says(pc[g], job[g], {"reset"})'
    BY <1>1, <1>5 DEF LinkOf, Says
  <2> QED BY <2>2, <2>3 DEF LinkInv
<1>7. (told # 0 /\ Kind \in {"bind", "register"} => Bound)'
  BY <1>1, <1>2
<1> QED BY <1>1, <1>2, <1>3, <1>4, <1>5, <1>6, <1>7 DEF ToldInv, OpenInv

LEMMA CrashTold ==
    ASSUME ToldInv, PageOwnerInv', Open, UNCHANGED pageVars, Crash
    PROVE  ToldInv'
<1>1. /\ UNCHANGED <<row, mail, minted, setBy, torn>>
      /\ code' = [p \in Purposes |-> [e \in Emails |-> 0]]
      /\ \A h \in Handlers :
           /\ pc'[h] = IF pc[h] # "idle" /\ job[h].by = "page" THEN "lost" ELSE "idle"
           /\ job[h].by = "page" => job'[h].by = "page"
  BY DEF Crash, Answer
<1>2. UNCHANGED <<page, link, told, hasty>> /\ OpenInv
  BY DEF pageVars, ToldInv
<1>3. ~Spare'
  <2>1. code'[Reset_][Address] = 0
    BY <1>1, PageAssumption DEF Purposes
  <2>2. link' # NoLink' => link'.code # 0
    BY <1>2 DEF OpenInv, NoLink
  <2> QED BY <2>1, <2>2 DEF Spare
<1>4. Stored
  <2>1. Bound => Bound'
    BY <1>1 DEF Bound
  <2>2. minted \in Nat
    BY Ceilings DEF ToldInv, PageOwnerInv, PageInv
  <2> QED BY <1>1, <1>2, <1>3, <2>1, <2>2 DEF Stored, OpenInv
<1>5. ASSUME NEW h \in Handlers PROVE Moves(h)
  <2>1. pc'[h] \in {"lost", "idle"} /\ (pc'[h] = "lost" => job'[h].by = "page")
    BY <1>1
  <2>2. OursInv(h)' /\ LinkOf(h)'
    BY <2>1 DEF OursInv, Ours, Verifies, Copies, Says, LinkOf
  <2> QED BY <1>3, <2>2 DEF Moves
<1>6. Under' \subseteq Under
  BY <1>1 DEF Under
<1>7. hasty \in Nat /\ (Kind = "confirm" /\ hasty = 0 => \A g, k \in Under : g = k)
  BY <1>2 DEF OpenInv, LinkInv
<1> QED BY <1>2, <1>4, <1>5, <1>6, <1>7, CalmTold

LEMMA ExpiresTold ==
    ASSUME ToldInv, PageOwnerInv', Open, UNCHANGED pageVars,
           NEW p \in Purposes, NEW e \in Emails, CodeExpires(p, e)
    PROVE  ToldInv'
<1>1. /\ UNCHANGED <<row, mail, minted, pc, job, setBy, torn>>
      /\ code' = [code EXCEPT ![p][e] = 0]
  BY DEF CodeExpires, history
<1>2. UNCHANGED <<page, link, told, hasty>> /\ OpenInv
  BY DEF pageVars, ToldInv
<1>3. Spare' => Spare
  <2>1. code \in [Purposes -> [Emails -> Nat]]
    BY DEF ToldInv, PageOwnerInv, OwnerInv
  <2>2. code'[Reset_][Address] \in {0, code[Reset_][Address]}
    BY <1>1, <2>1, PageAssumption DEF Purposes
  <2>3. link # NoLink => link.code # 0
    BY <1>2 DEF OpenInv
  <2>4. link' = link /\ NoLink' = NoLink
    BY <1>2 DEF NoLink
  <2> QED BY <2>2, <2>3, <2>4 DEF Spare
<1>4. Stored
  <2>1. Bound => Bound'
    BY <1>1 DEF Bound
  <2>2. minted \in Nat
    BY Ceilings DEF ToldInv, PageOwnerInv, PageInv
  <2> QED BY <1>1, <1>2, <1>3, <2>1, <2>2 DEF Stored, OpenInv
<1>5. \A g \in Handlers : Rests(g)
  BY <1>1 DEF Rests, Stays
<1>6. Under' = Under
  BY <1>1 DEF Under
<1>7. hasty \in Nat /\ (Kind = "confirm" /\ hasty = 0 => \A g, k \in Under : g = k)
  BY <1>2 DEF OpenInv, LinkInv
<1> QED BY <1>2, <1>4, <1>5, <1>6, <1>7, CalmTold

LEMMA PageStepTold ==
    ASSUME ToldInv, PageOwnerInv', Open, PageStep
    PROVE  ToldInv'
<1>1. ASSUME NEW h \in Handlers,
             \/ DefaultPasswordResetForm(h) \/ AirPasswordResetForm(h)
             \/ ForgetPasswordForm(h)
      PROVE  ToldInv'
  <2>1. AsksForLink(h)
    BY <1>1 DEF DefaultPasswordResetForm, AirPasswordResetForm, ForgetPasswordForm
  <2> QED BY <2>1, PageClickTold
<1>2. ASSUME NEW h \in Handlers,
             \/ DefaultPasswordResetConfirm(h) \/ AirPasswordResetConfirm(h)
             \/ ResetPasswordForm(h)
      PROVE  ToldInv'
  <2>1. \E spins : Confirms(h, spins)
    BY <1>2 DEF DefaultPasswordResetConfirm, AirPasswordResetConfirm, ResetPasswordForm
  <2>2. Kind = "confirm"
    <3>1. \E theme : page = <<theme, "confirm">>
      BY <1>2 DEF DefaultPasswordResetConfirm, AirPasswordResetConfirm, ResetPasswordForm
    <3> QED BY <3>1 DEF Kind
  <2> QED BY <2>1, <2>2, PageClickTold
<1>3. ASSUME NEW h \in Handlers,
             \/ DefaultRegisterCode(h) \/ AirRegisterCode(h) \/ BerryRegisterCode(h)
             \/ DefaultBindCode(h) \/ AirBindCode(h) \/ EmailModalCode(h)
      PROVE  ToldInv'
  <2>1. \E counts, asks, spins : AsksForCode(h, counts, asks, spins)
    BY <1>3 DEF DefaultRegisterCode, AirRegisterCode, BerryRegisterCode, DefaultBindCode,
                AirBindCode, EmailModalCode
  <2> QED BY <2>1, PageClickTold
<1>4. ASSUME NEW h \in Handlers, NEW m \in Mailed(Verify_),
             \/ DefaultRegister(h, m) \/ AirRegister(h, m) \/ BerryRegister(h, m)
             \/ DefaultBindEmail(h, m) \/ AirBindEmail(h, m) \/ EmailModalSubmit(h, m)
      PROVE  ToldInv'
  <2>1. Sends(m) /\ \/ Kind = "register" /\ Register(h, "page", Self, m)
                    \/ Kind = "bind" /\ EmailBind(h, "page", Self, m)
    BY <1>4 DEF DefaultRegister, AirRegister, BerryRegister, Registers, DefaultBindEmail,
                AirBindEmail, EmailModalSubmit, Binds, Kind
  <2> QED BY <2>1, PageClickTold
<1>5. ASSUME NEW h \in Handlers, GoesMissing(h)
      PROVE  ToldInv'
  <2>1. /\ Frees(h) /\ UNCHANGED <<page, link, hasty>> /\ told' = told
        /\ pc[h] # "deleteKey"
    BY <1>5 DEF GoesMissing
  <2> QED BY <2>1, FreesTold
<1>6. CASE Retypes \/ CountdownEnds
  <2>1. UNCHANGED <<page, link, told>> /\ ServerStill /\ hasty' = hasty
    BY <1>6 DEF Retypes, CountdownEnds, ServerStill
  <2> QED BY <2>1, StillTold
<1> QED BY <1>1, <1>2, <1>3, <1>4, <1>5, <1>6, ArrivesTold, FollowsTold DEF PageStep

LEMMA OthersTold ==
    ASSUME ToldInv, PageOwnerInv', Open, Others
    PROVE  ToldInv'
  BY BesideTold, CrashTold, ExpiresTold, StepTold DEF Others

LEMMA SamePage ==
    ASSUME PageStep \/ Others \/ UNCHANGED allVars
    PROVE  page' = page
<1>1. CASE Others \/ UNCHANGED allVars
  BY <1>1 DEF Others, allVars, pageVars
<1>2. ASSUME NEW h, \/ DefaultPasswordResetForm(h) \/ AirPasswordResetForm(h)
                    \/ ForgetPasswordForm(h)
      PROVE  page' = page
  BY <1>2 DEF DefaultPasswordResetForm, AirPasswordResetForm, ForgetPasswordForm, AsksForLink,
              Clicks
<1>3. ASSUME NEW h, \/ DefaultPasswordResetConfirm(h) \/ AirPasswordResetConfirm(h)
                    \/ ResetPasswordForm(h)
      PROVE  page' = page
  BY <1>3 DEF DefaultPasswordResetConfirm, AirPasswordResetConfirm, ResetPasswordForm,
              Confirms, Clicks
<1>4. ASSUME NEW h, \/ DefaultRegisterCode(h) \/ AirRegisterCode(h) \/ BerryRegisterCode(h)
                    \/ DefaultBindCode(h) \/ AirBindCode(h) \/ EmailModalCode(h)
      PROVE  page' = page
  BY <1>4 DEF DefaultRegisterCode, AirRegisterCode, BerryRegisterCode, DefaultBindCode,
              AirBindCode, EmailModalCode, AsksForCode, Clicks
<1>5. ASSUME NEW h, NEW m,
             \/ DefaultRegister(h, m) \/ AirRegister(h, m) \/ BerryRegister(h, m)
             \/ DefaultBindEmail(h, m) \/ AirBindEmail(h, m) \/ EmailModalSubmit(h, m)
      PROVE  page' = page
  BY <1>5 DEF DefaultRegister, AirRegister, BerryRegister, Registers, DefaultBindEmail,
              AirBindEmail, EmailModalSubmit, Binds, Sends, Clicks
<1>6. CASE Retypes \/ CountdownEnds \/ \E m \in Mailed(Reset_) : Follows(m)
  BY <1>6 DEF Retypes, CountdownEnds, Follows
<1>7. ASSUME NEW h, Arrives(h) \/ GoesMissing(h) PROVE page' = page
  BY <1>7 DEF Arrives, GoesMissing
<1> QED BY <1>1, <1>2, <1>3, <1>4, <1>5, <1>6, <1>7 DEF PageStep

LEMMA NextTold == ToldInv /\ [PageNext]_allVars => ToldInv'
<1> SUFFICES ASSUME ToldInv, [PageNext]_allVars PROVE ToldInv'
  OBVIOUS
<1>1. PageOwnerInv' /\ page' = page
  BY PageOwnerStep, SamePage DEF ToldInv, PageNext
<1>2. CASE ~Open
  BY <1>1, <1>2 DEF ToldInv, Open, Kind
<1>3. CASE Open /\ PageNext
  BY <1>1, <1>3, PageStepTold, OthersTold DEF PageNext
<1>4. CASE Open /\ UNCHANGED allVars
  <2>1. UNCHANGED <<page, link, told>> /\ ServerStill /\ hasty' = hasty
    BY <1>4 DEF allVars, pageVars, ServerStill
  <2> QED BY <1>1, <1>4, <2>1, StillTold
<1> QED BY <1>2, <1>3, <1>4

LEMMA ToldFollows == ToldInv => ToldIsTrue
  BY DEF ToldInv, OpenInv, LinkInv, ToldIsTrue, Works, Bound

\* What a page has told a patient user is so: the password that a page of
\* PasswordResetConfirm shows is the one that works, for everybody who got it and
\* has not set another since, although ResetPassword (controller/misc.go:199) has
\* written it before it deletes the link's code; and the address that was bound
\* or registered is the user's, unless writers of the row overlapped.
THEOREM PagesTellTheTruth == PageSpec => []ToldIsTrue
  BY InitTold, NextTold, ToldFollows, PTL DEF PageSpec
=============================================================================
