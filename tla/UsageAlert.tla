------------------------------ MODULE UsageAlert ------------------------------
(***************************************************************************)
(* The monthly usage counter of a user, its 80/90/100 % thresholds and the *)
(* breaker they trip: common/quota.go and CheckAndAlert of common/alert.go,*)
(* driven by trackUsageForQuota after each request and obeyed by the       *)
(* QuotaCheck middleware before the next one.                              *)
(*                                                                         *)
(* All keys carry the user's id, so one user stands for all of them.  A    *)
(* slot is a request and the tracking goroutine it leaves behind; every    *)
(* Redis command is a step.  Amounts are the numbers the code compares:    *)
(* usage counts yuan, limits are quota, of which Unit make a yuan.         *)
(***************************************************************************)
EXTENDS Integers, FiniteSets

CONSTANTS
    Slots,         \* requests that may overlap
    Tokens,        \* the user's tokens
    Limit,         \* Limit[t]: remain_quota + used_quota of t, 0 if unlimited
    MonthlyQuota,  \* users.monthly_quota, 0 for none
    Unit,          \* quota that make one yuan: 1000000
    MaxCost, Costs, \* prices in yuan
    MaxUsage,      \* bound: no request is accepted at a usage beyond it
    MaxMonth,      \* bound: the month in which a behaviour ends
    MaxCrashes     \* bound: crashes in a behaviour

ASSUME AlertAssumption ==
    /\ IsFiniteSet(Slots)
    /\ Limit \in [Tokens -> Nat]
    /\ MonthlyQuota \in Nat /\ Unit \in Nat \ {0}
    /\ MaxCost \in Nat /\ Costs \subseteq 0..MaxCost
    /\ Tokens # {}
    /\ MaxUsage \in Nat /\ MaxMonth \in Nat /\ MaxCrashes \in Nat

AlertLevelWarning  == 1
AlertLevelCritical == 2
AlertLevelBlock    == 3
Levels == {AlertLevelWarning, AlertLevelCritical, AlertLevelBlock}
Months == 0..MaxMonth

VARIABLES
    month,    \* CurrentMonthKey()
    usage,    \* usage[m]: the counter of month m
    blocked,  \* is there a blocked key?
    since,    \* the month it was last set in (history)
    sent,     \* <<level, month>> with an alert-sent key
    alerts,   \* alerts[l][m]: rows of level l created in month m
    pc,       \* pc[s]: the statement slot s is about to execute
    call,     \* call[s]: its token, price, usage after the increment, and level
    crashes,  \* (history, bounded by MaxCrashes)
    lapses    \* blocked keys that expired (history)

keys    == <<usage, blocked, since, sent>>
history == <<alerts, crashes, lapses>>
vars    == <<month, keys, pc, call, history>>

Request(t, c) == [tok |-> t, cost |-> c, cur |-> 0, level |-> AlertLevelBlock]
Idle == Request(CHOOSE t \in Tokens : TRUE, 0)

Init ==
    /\ month = 0
    /\ usage = [m \in Months |-> 0]
    /\ blocked = FALSE /\ since = 0
    /\ sent = {}
    /\ alerts = [l \in Levels |-> [m \in Months |-> 0]]
    /\ pc = [s \in Slots |-> "idle"]
    /\ call = [s \in Slots |-> Idle]
    /\ crashes = 0 /\ lapses = 0

Goto(s, l) == pc' = [pc EXCEPT ![s] = l]
Leave(s)   == Goto(s, "idle") /\ call' = [call EXCEPT ![s] = Idle]

-----------------------------------------------------------------------------
(* QuotaCheck: the blocked key, then the monthly quota.                     *)
Arrive(s, t, c) ==
    /\ pc[s] = "idle"
    /\ usage[month] <= MaxUsage
    /\ ~blocked
    /\ call' = [call EXCEPT ![s] = Request(t, c)]
    /\ Goto(s, "monthly")
    /\ UNCHANGED <<month, keys, history>>

(* Slip for the runs to catch: a user at the quota passes once more.        *)
CheckMonthlyAbove(s) ==
    /\ pc[s] = "monthly"
    /\ IF MonthlyQuota > 0 /\ usage[month] > MonthlyQuota
       THEN Leave(s)
       ELSE Goto(s, "upstream") /\ UNCHANGED call
    /\ UNCHANGED <<month, keys, history>>

CheckMonthly(s) ==
    /\ pc[s] = "monthly"
    /\ IF MonthlyQuota > 0 /\ usage[month] >= MonthlyQuota
       THEN Leave(s)
       ELSE Goto(s, "upstream") /\ UNCHANGED call
    /\ UNCHANGED <<month, keys, history>>

(* The upstream fails, or the request is one of audio or image: nothing is  *)
(* tracked.                                                                 *)
Fail(s) ==
    /\ pc[s] = "upstream"
    /\ Leave(s)
    /\ UNCHANGED <<month, keys, history>>

-----------------------------------------------------------------------------
(* trackUsageForQuota.  IncrUserQuota adds to the counter of the month it   *)
(* is called in and returns the sum.                                        *)
IncrUserQuota(s) ==
    /\ pc[s] = "upstream"
    /\ usage' = [usage EXCEPT ![month] = @ + call[s].cost]
    /\ call' = [call EXCEPT ![s].cur = usage'[month]]
    /\ Goto(s, "limit")
    /\ UNCHANGED <<month, blocked, since, sent, history>>

Reached(s, percent) == 100 * call[s].cur >= percent * Limit[call[s].tok]

(* The token is looked up for its limit; an unlimited one ends the tracking.*)
(* (Slip for the runs to catch: the block only above 100 %.)                *)
FindLimitAbove(s) ==
    /\ pc[s] = "limit"
    /\ \/ /\ Limit[call[s].tok] > 0
          /\ call[s].cur > Limit[call[s].tok]
          /\ Goto(s, "isBlocked") /\ UNCHANGED call
       \/ /\ Limit[call[s].tok] = 0 \/ call[s].cur <= Limit[call[s].tok]
          /\ Leave(s)
    /\ UNCHANGED <<month, keys, history>>

FindLimit(s) ==
    /\ pc[s] = "limit"
    /\ \/ /\ Limit[call[s].tok] > 0 /\ Reached(s, 100)
          /\ Goto(s, "isBlocked") /\ UNCHANGED call
       \/ /\ Limit[call[s].tok] > 0 /\ ~Reached(s, 100) /\ Reached(s, 90)
          /\ Goto(s, "isSent")
          /\ call' = [call EXCEPT ![s].level = AlertLevelCritical]
       \/ /\ Limit[call[s].tok] > 0 /\ ~Reached(s, 90) /\ Reached(s, 80)
          /\ Goto(s, "isSent")
          /\ call' = [call EXCEPT ![s].level = AlertLevelWarning]
       \/ /\ Limit[call[s].tok] = 0 \/ ~Reached(s, 80)
          /\ Leave(s)
    /\ UNCHANGED <<month, keys, history>>

(* 100 %: trip the breaker, then record it, unless it has tripped already.  *)
IsUserBlocked(s) ==
    /\ pc[s] = "isBlocked"
    /\ IF blocked THEN Leave(s) ELSE Goto(s, "block") /\ UNCHANGED call
    /\ UNCHANGED <<month, keys, history>>

(* Slip for the runs to catch: the alert is recorded, the key never set.    *)
BlockUserForgets(s) ==
    /\ pc[s] = "block"
    /\ Goto(s, "record")
    /\ UNCHANGED <<month, call, keys, history>>

BlockUser(s) ==
    /\ pc[s] = "block"
    /\ blocked' = TRUE /\ since' = month
    /\ Goto(s, "record")
    /\ UNCHANGED <<month, call, usage, sent, history>>

(* 80 or 90 %: record the alert, then mark it as sent, unless it is marked. *)
(* (Slip for the runs to catch: the check dropped.)                         *)
IsAlertSentSkipped(s) ==
    /\ pc[s] = "isSent"
    /\ Goto(s, "record")
    /\ UNCHANGED <<month, call, keys, history>>

IsAlertSent(s) ==
    /\ pc[s] = "isSent"
    /\ IF <<call[s].level, month>> \in sent
       THEN Leave(s) ELSE Goto(s, "record") /\ UNCHANGED call
    /\ UNCHANGED <<month, keys, history>>

(* recordAlert inserts a row, dated now.                                    *)
RecordAlert(s) ==
    /\ pc[s] = "record"
    /\ alerts' = [alerts EXCEPT ![call[s].level][month] = @ + 1]
    /\ IF call[s].level = AlertLevelBlock
       THEN Leave(s) ELSE Goto(s, "mark") /\ UNCHANGED call
    /\ UNCHANGED <<month, keys, crashes, lapses>>

(* MarkAlertSent names the month again: the one it is by now.  (Slip for    *)
(* the runs to catch: the key's arguments in the wrong order.)              *)
MarkAlertSentSwapped(s) ==
    /\ pc[s] = "mark"
    /\ sent' = sent \cup {<<month, call[s].level>>}
    /\ Leave(s)
    /\ UNCHANGED <<month, usage, blocked, since, history>>

MarkAlertSent(s) ==
    /\ pc[s] = "mark"
    /\ sent' = sent \cup {<<call[s].level, month>>}
    /\ Leave(s)
    /\ UNCHANGED <<month, usage, blocked, since, history>>

-----------------------------------------------------------------------------
(* The first of the next month.  The counter and the alert-sent keys of a   *)
(* month outlive it (45 days); the blocked key is not named after a month,  *)
(* and is gone at the latest in the second month after the one it was set   *)
(* in.                                                                      *)
NextMonth ==
    /\ month < MaxMonth
    /\ blocked => month < since + 2
    /\ month' = month + 1
    /\ UNCHANGED <<keys, pc, call, history>>

(* 45 days from any day of a month end after that month.                    *)
BlockedExpires ==
    /\ blocked
    /\ month > since
    /\ blocked' = FALSE
    /\ lapses' = lapses + 1
    /\ UNCHANGED <<month, usage, since, sent, pc, call, alerts, crashes>>

(* Requests and goroutines die with the process; Redis and the rows remain. *)
Crash ==
    /\ crashes < MaxCrashes
    /\ crashes' = crashes + 1
    /\ pc' = [s \in Slots |-> "idle"]
    /\ call' = [s \in Slots |-> Idle]
    /\ UNCHANGED <<month, keys, alerts, lapses>>

Step(s) ==
    \/ CheckMonthly(s) \/ Fail(s) \/ IncrUserQuota(s) \/ FindLimit(s)
    \/ IsUserBlocked(s) \/ BlockUser(s)
    \/ IsAlertSent(s) \/ RecordAlert(s) \/ MarkAlertSent(s)

Next ==
    \/ \E s \in Slots, t \in Tokens, c \in Costs : Arrive(s, t, c)
    \/ \E s \in Slots : Step(s)
    \/ NextMonth \/ BlockedExpires \/ Crash

Spec == Init /\ [][Next]_vars

-----------------------------------------------------------------------------
Labels == {"idle", "monthly", "upstream", "limit", "isBlocked", "block",
           "isSent", "record", "mark"}

Calls == [tok : Tokens, cost : 0..MaxCost, cur : Nat, level : Levels]

TypeOK ==
    /\ month \in Months
    /\ usage \in [Months -> Nat]
    /\ blocked \in BOOLEAN /\ since \in Months
    /\ sent \subseteq Levels \X Months
    /\ alerts \in [Levels -> [Months -> Nat]]
    /\ pc \in [Slots -> Labels]
    /\ call \in [Slots -> Calls]
    /\ crashes \in 0..MaxCrashes /\ lapses \in Nat

Quiet == \A s \in Slots : pc[s] = "idle"

(* Times at which everybody may slip past a limit once: in the beginning,   *)
(* after a crash, after the blocked key expired.                            *)
Chances == (1 + crashes + lapses) * Cardinality(Slots)

(* The breaker trips after the fact, in a goroutine that races with new     *)
(* requests; yet the usage of a month never exceeds the limit of a user     *)
(* whose tokens are all limited by more than one request per slot and       *)
(* chance: whoever crosses the limit sets the key before it is free again.  *)
OvershootBounded ==
    (\A t \in Tokens : Limit[t] > 0) =>
        \A m \in Months : \E t \in Tokens : usage[m] < Limit[t] + MaxCost * Chances

(* The same of the monthly quota, which QuotaCheck enforces by itself: a    *)
(* request passes it at most once per slot beyond the quota.                *)
MonthlyOvershootBounded ==
    MonthlyQuota > 0 =>
        \A m \in Months : usage[m] < MonthlyQuota + MaxCost * Cardinality(Slots)

(* Trackers that check before either marks record an alert twice; but never *)
(* more often than there are slots (and crashes before the mark).           *)
AlertsBounded ==
    \A l \in Levels, m \in Months : alerts[l][m] <= Chances

(* No crossing is missed: when the tracking of the first month has caught   *)
(* up, a user at or above the limit of every token is blocked.              *)
BlockNotMissed ==
    (Quiet /\ month = 0 /\ crashes = 0) =>
        ((\A t \in Tokens : Limit[t] > 0 /\ usage[0] >= Limit[t]) => blocked)

-----------------------------------------------------------------------------
(* What the repository's documents say, and the code does not keep.         *)

(* README.md: at 100 % of the quota the breaker trips.  Usage in yuan makes *)
(* Unit times as much quota.                                                *)
BlockedAtFullQuota ==
    (Quiet /\ month = 0 /\ crashes = 0) =>
        ((\A t \in Tokens : Limit[t] > 0 /\ usage[0] * Unit >= Limit[t]) => blocked)
===============================================================================
