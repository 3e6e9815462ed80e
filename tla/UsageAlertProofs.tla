--------------------------- MODULE UsageAlertProofs ---------------------------
(***************************************************************************)
(* Theorems about UsageAlert, for any number of slots and tokens, any      *)
(* limits, prices, months and crashes: type correctness, the bounds by     *)
(* which a month's usage may pass the monthly quota and the tokens' limits,*)
(* that no crossing of the limits goes unblocked, and how often one alert  *)
(* may be recorded.                                                        *)
(***************************************************************************)
EXTENDS UsageAlert, FiniteSetTheorems, TLAPS

LEMMA LevelFacts ==
    /\ Levels = {1, 2, 3}
    /\ AlertLevelWarning \in Levels /\ AlertLevelCritical \in Levels
    /\ AlertLevelBlock \in Levels
  BY DEF Levels, AlertLevelWarning, AlertLevelCritical, AlertLevelBlock

LEMMA RequestTypes ==
    ASSUME NEW t \in Tokens, NEW c \in 0..MaxCost
    PROVE  Request(t, c) \in Calls
  BY LevelFacts DEF Request, Calls

LEMMA IdleType == Idle \in Calls
<1> DEFINE t == CHOOSE x \in Tokens : TRUE
<1>1. t \in Tokens /\ 0 \in 0..MaxCost
  BY AlertAssumption
<1>2. Idle = Request(t, 0)
  BY DEF Idle
<1> HIDE DEF t
<1> QED BY <1>1, <1>2, RequestTypes

(* The slot that moves, and the others.                                     *)
LEMMA Moves ==
    ASSUME TypeOK, NEW s \in Slots, NEW l \in Labels, Goto(s, l)
    PROVE  /\ pc' \in [Slots -> Labels] /\ pc'[s] = l
           /\ \A r \in Slots \ {s} : pc'[r] = pc[r]
  BY DEF TypeOK, Goto

LEMMA Leaves ==
    ASSUME TypeOK, NEW s \in Slots, Leave(s)
    PROVE  /\ pc' \in [Slots -> Labels] /\ pc'[s] = "idle"
           /\ \A r \in Slots \ {s} : pc'[r] = pc[r]
           /\ call' \in [Slots -> Calls]
  BY Moves, IdleType DEF TypeOK, Leave, Labels

-----------------------------------------------------------------------------
LEMMA InitTypes == Init => TypeOK
<1> SUFFICES ASSUME Init PROVE TypeOK
  OBVIOUS
<1>1. 0 \in Months /\ 0 \in 0..MaxCrashes
  BY AlertAssumption DEF Months
<1> QED BY <1>1, IdleType DEF Init, TypeOK, Labels

LEMMA ArriveTypes ==
    ASSUME TypeOK, NEW s \in Slots, NEW t \in Tokens, NEW c \in Costs, Arrive(s, t, c)
    PROVE  TypeOK'
<1>1. Request(t, c) \in Calls
  BY RequestTypes, AlertAssumption
<1>2. call' \in [Slots -> Calls]
  BY <1>1 DEF Arrive, TypeOK
<1>3. pc' \in [Slots -> Labels]
  BY Moves DEF Arrive, Labels
<1> QED BY <1>2, <1>3 DEF Arrive, TypeOK, keys, history

LEMMA IncrTypes ==
    ASSUME TypeOK, NEW s \in Slots, IncrUserQuota(s)
    PROVE  /\ TypeOK'
           /\ usage' = [usage EXCEPT ![month] = @ + call[s].cost]
           /\ pc'[s] = "limit" /\ \A r \in Slots \ {s} : pc'[r] = pc[r]
<1>1. call[s] \in Calls /\ call[s].cost \in Nat /\ month \in Months
  BY AlertAssumption DEF TypeOK, Calls
<1>2. /\ usage' = [usage EXCEPT ![month] = @ + call[s].cost]
      /\ usage' \in [Months -> Nat]
  BY <1>1 DEF IncrUserQuota, TypeOK
<1> DEFINE cur == usage'[month]
<1>3. cur \in Nat
  BY <1>1, <1>2
<1>4. call' = [call EXCEPT ![s].cur = cur]
  BY DEF IncrUserQuota
<1> HIDE DEF cur
<1>5. call' \in [Slots -> Calls]
  BY <1>1, <1>3, <1>4 DEF TypeOK, Calls
<1>6. pc' \in [Slots -> Labels] /\ pc'[s] = "limit" /\ \A r \in Slots \ {s} : pc'[r] = pc[r]
  BY Moves DEF IncrUserQuota, Labels
<1> QED BY <1>2, <1>5, <1>6 DEF IncrUserQuota, TypeOK, history

LEMMA StepTypes ==
    ASSUME TypeOK, NEW s \in Slots, Step(s)
    PROVE  TypeOK'
<1>1. CASE CheckMonthly(s)
  BY <1>1, Moves, Leaves DEF CheckMonthly, TypeOK, Labels, keys, history
<1>2. CASE Fail(s)
  BY <1>2, Leaves DEF Fail, TypeOK, keys, history
<1>3. CASE IncrUserQuota(s)
  BY <1>3, IncrTypes
<1>4. CASE FindLimit(s)
  <2>1. pc' \in [Slots -> Labels]
    BY <1>4, Moves, Leaves DEF FindLimit, Labels
  <2>2. call' \in [Slots -> Calls]
    <3>1. CASE UNCHANGED call
      BY <3>1 DEF TypeOK
    <3>2. CASE Leave(s)
      BY <3>2, Leaves
    <3>3. ASSUME NEW l \in Levels, call' = [call EXCEPT ![s].level = l]
          PROVE  call' \in [Slots -> Calls]
      BY <3>3 DEF TypeOK, Calls
    <3> QED BY <1>4, <3>1, <3>2, <3>3, LevelFacts DEF FindLimit
  <2> QED BY <1>4, <2>1, <2>2 DEF FindLimit, TypeOK, keys, history
<1>5. CASE IsUserBlocked(s)
  BY <1>5, Moves, Leaves DEF IsUserBlocked, TypeOK, Labels, keys, history
<1>6. CASE BlockUser(s)
  BY <1>6, Moves DEF BlockUser, TypeOK, Labels, history
<1>7. CASE IsAlertSent(s)
  BY <1>7, Moves, Leaves DEF IsAlertSent, TypeOK, Labels, keys, history
<1>8. CASE RecordAlert(s)
  <2>1. call[s].level \in Levels /\ month \in Months
    BY DEF TypeOK, Calls
  <2>2. alerts' \in [Levels -> [Months -> Nat]]
    BY <1>8, <2>1 DEF RecordAlert, TypeOK
  <2>3. pc' \in [Slots -> Labels] /\ call' \in [Slots -> Calls]
    BY <1>8, Moves, Leaves DEF RecordAlert, TypeOK, Labels
  <2> QED BY <1>8, <2>2, <2>3 DEF RecordAlert, TypeOK, keys
<1>9. CASE MarkAlertSent(s)
  <2>1. call[s].level \in Levels /\ month \in Months
    BY DEF TypeOK, Calls
  <2>2. sent' \subseteq Levels \X Months
    BY <1>9, <2>1 DEF MarkAlertSent, TypeOK
  <2> QED BY <1>9, <2>2, Leaves DEF MarkAlertSent, TypeOK, history
<1> QED BY <1>1, <1>2, <1>3, <1>4, <1>5, <1>6, <1>7, <1>8, <1>9 DEF Step

LEMMA NextTypes == TypeOK /\ [Next]_vars => TypeOK'
<1> SUFFICES ASSUME TypeOK, [Next]_vars PROVE TypeOK'
  OBVIOUS
<1>1. ASSUME NEW s \in Slots, NEW t \in Tokens, NEW c \in Costs, Arrive(s, t, c)
      PROVE  TypeOK'
  BY <1>1, ArriveTypes
<1>2. ASSUME NEW s \in Slots, Step(s) PROVE TypeOK'
  BY <1>2, StepTypes
<1>3. CASE NextMonth
  BY <1>3, AlertAssumption DEF NextMonth, TypeOK, Months, keys, history
<1>4. CASE BlockedExpires
  <2>1. blocked' \in BOOLEAN
    BY <1>4 DEF BlockedExpires
  <2>2. lapses' \in Nat
    BY <1>4 DEF BlockedExpires, TypeOK
  <2> QED BY <1>4, <2>1, <2>2 DEF BlockedExpires, TypeOK
<1>5. CASE Crash
  BY <1>5, IdleType, AlertAssumption DEF Crash, TypeOK, Labels, keys
<1>6. CASE UNCHANGED vars
  BY <1>6 DEF vars, keys, history, TypeOK
<1> QED BY <1>1, <1>2, <1>3, <1>4, <1>5, <1>6 DEF Next

(* Every variable keeps its type.                                           *)
THEOREM UsageTypeCorrect == Spec => []TypeOK
<1>1. Init => TypeOK
  BY InitTypes
<1>2. TypeOK /\ [Next]_vars => TypeOK'
  BY NextTypes
<1> QED BY <1>1, <1>2, PTL DEF Spec

-----------------------------------------------------------------------------
(* Requests that QuotaCheck has let pass and that have not been counted.    *)
InFlight == {s \in Slots : pc[s] = "upstream"}

N == Cardinality(Slots)

(* What is inductive.  As long as the quota is not reached, each request in *)
(* flight may still add its price; once it is, none joins them.  So usage   *)
(* and what those in flight may add stay within the quota and one price per *)
(* slot, and months that have not begun are empty.                          *)
Within == MonthlyQuota > 0 =>
             usage[month] <= (MonthlyQuota - 1) + MaxCost * (N - Cardinality(InFlight))

MonthlyInv ==
    /\ TypeOK
    /\ \A m \in Months : m > month => usage[m] = 0
    /\ Within
    /\ MonthlyOvershootBounded

LEMMA Counts ==
    /\ N \in Nat
    /\ \A S : S \subseteq Slots => /\ Cardinality(S) \in Nat /\ Cardinality(S) <= N
                                   /\ IsFiniteSet(S)
  BY AlertAssumption, FS_Subset, FS_CardinalityType DEF N

LEMMA Products ==
    ASSUME NEW a \in Int, NEW b \in Int, a <= b
    PROVE  MaxCost * a \in Int /\ MaxCost * b \in Int /\ MaxCost * a <= MaxCost * b
<1>1. MaxCost \in Nat
  BY AlertAssumption
<1> QED BY <1>1

(* Fewer requests in flight leave more room.                                *)
LEMMA Room ==
    ASSUME NEW C, NEW D, C \subseteq Slots, D \subseteq C
    PROVE  /\ MaxCost * (N - Cardinality(C)) \in Int
           /\ MaxCost * (N - Cardinality(D)) \in Int
           /\ 0 <= MaxCost * (N - Cardinality(C))
           /\ MaxCost * (N - Cardinality(C)) <= MaxCost * (N - Cardinality(D))
           /\ MaxCost * (N - Cardinality(D)) <= MaxCost * N
           /\ MaxCost * N \in Int
<1>1. /\ N \in Nat /\ Cardinality(C) \in Nat /\ Cardinality(D) \in Nat
      /\ Cardinality(C) <= N
  BY Counts
<1>2. Cardinality(D) <= Cardinality(C)
  BY Counts, FS_Subset
<1> DEFINE c == N - Cardinality(C)
<1> DEFINE d == N - Cardinality(D)
<1>3. c \in Int /\ d \in Int /\ 0 <= c /\ c <= d /\ d <= N /\ N \in Int
  BY <1>1, <1>2
<1> HIDE DEF c, d
<1>4. MaxCost * 0 = 0
  BY AlertAssumption
<1>5. /\ MaxCost * c \in Int /\ MaxCost * d \in Int /\ MaxCost * N \in Int
      /\ MaxCost * 0 <= MaxCost * c
      /\ MaxCost * c <= MaxCost * d
      /\ MaxCost * d <= MaxCost * N
  BY <1>3, Products
<1> QED BY <1>4, <1>5 DEF c, d

(* A step that counts nothing and lets nobody pass.                         *)
LEMMA NobodyPasses ==
    ASSUME MonthlyInv, TypeOK', UNCHANGED <<month, usage>>, InFlight' \subseteq InFlight
    PROVE  MonthlyInv'
<1>1. InFlight \subseteq Slots /\ usage[month] \in Int
  BY DEF InFlight, MonthlyInv, TypeOK
<1> DEFINE c == MaxCost * (N - Cardinality(InFlight))
<1> DEFINE d == MaxCost * (N - Cardinality(InFlight'))
<1>2. c \in Int /\ d \in Int /\ c <= d
  BY <1>1, Room
<1>3. MonthlyQuota > 0 => usage[month] <= (MonthlyQuota - 1) + c
  BY DEF MonthlyInv, Within
<1> HIDE DEF c, d
<1>4. MonthlyQuota > 0 => usage'[month'] <= (MonthlyQuota - 1) + d
  BY <1>1, <1>2, <1>3, AlertAssumption
<1>5. Within'
  BY <1>4 DEF Within, d, N
<1> QED BY <1>5 DEF MonthlyInv, MonthlyOvershootBounded

(* A request passes the check of the monthly quota: there is room for one   *)
(* price per slot.                                                          *)
LEMMA SomebodyPasses ==
    ASSUME MonthlyInv, TypeOK', UNCHANGED <<month, usage>>,
           MonthlyQuota > 0 => usage[month] < MonthlyQuota
    PROVE  MonthlyInv'
<1>1. InFlight' \subseteq Slots /\ usage[month] \in Int
  BY DEF InFlight, MonthlyInv, TypeOK
<1> DEFINE d == MaxCost * (N - Cardinality(InFlight'))
<1>2. d \in Int /\ 0 <= d
  BY <1>1, Room
<1> HIDE DEF d
<1>3. MonthlyQuota > 0 => usage'[month'] <= (MonthlyQuota - 1) + d
  BY <1>1, <1>2, AlertAssumption
<1>4. Within'
  BY <1>3 DEF Within, d, N
<1> QED BY <1>4 DEF MonthlyInv, MonthlyOvershootBounded

(* A request in flight is counted: its share of the room becomes usage.     *)
LEMMA SomebodyCounted ==
    ASSUME MonthlyInv, NEW s \in Slots, IncrUserQuota(s)
    PROVE  MonthlyInv'
<1>1. /\ TypeOK' /\ usage' = [usage EXCEPT ![month] = @ + call[s].cost]
      /\ pc'[s] = "limit" /\ \A r \in Slots \ {s} : pc'[r] = pc[r]
      /\ pc[s] = "upstream" /\ month' = month
  BY IncrTypes DEF MonthlyInv, IncrUserQuota
<1>2. /\ InFlight \subseteq Slots /\ s \in InFlight
      /\ InFlight' = InFlight \ {s}
  BY <1>1 DEF InFlight
<1> DEFINE cost == call[s].cost
<1>3. /\ cost \in Int /\ cost <= MaxCost /\ month \in Months
      /\ usage[month] \in Int /\ usage \in [Months -> Nat]
  BY AlertAssumption DEF MonthlyInv, TypeOK, Calls
<1> DEFINE k == Cardinality(InFlight)
<1>4. k \in Int /\ N \in Int /\ Cardinality(InFlight') = k - 1
  BY <1>2, Counts, FS_RemoveElement
<1> DEFINE c == MaxCost * (N - k)
<1> DEFINE d == MaxCost * (N - Cardinality(InFlight'))
<1>5. c \in Int /\ d \in Int /\ d = c + MaxCost /\ MaxCost \in Int
  <2> HIDE DEF k
  <2>1. N - (k - 1) = (N - k) + 1
    BY <1>4
  <2>2. \A x \in Int : MaxCost * (x + 1) = MaxCost * x + MaxCost
    BY AlertAssumption
  <2>3. N - k \in Int
    BY <1>4
  <2>4. MaxCost * (N - k) \in Int /\ MaxCost \in Int
    BY <2>3, AlertAssumption
  <2> QED BY <1>4, <2>1, <2>2, <2>3, <2>4
<1>6. MonthlyQuota > 0 => usage[month] <= (MonthlyQuota - 1) + c
  BY DEF MonthlyInv, Within
<1>7. d <= MaxCost * N /\ MaxCost * N \in Int
  BY <1>2, Room
<1> HIDE DEF c, d, cost
<1>8. usage'[month'] = usage[month] + cost
  BY <1>1, <1>3 DEF cost
<1>9. MonthlyQuota > 0 => usage'[month'] <= (MonthlyQuota - 1) + d
  BY <1>3, <1>5, <1>6, <1>8, AlertAssumption
<1>10. Within'
  BY <1>9 DEF Within, d, N
<1>11. MonthlyOvershootBounded'
  <2> SUFFICES ASSUME MonthlyQuota > 0, NEW m \in Months
               PROVE  usage'[m] < MonthlyQuota + MaxCost * N
    BY DEF MonthlyOvershootBounded, N
  <2>1. CASE m = month
    BY <2>1, <1>1, <1>3, <1>5, <1>7, <1>8, <1>9, AlertAssumption
  <2>2. CASE m # month
    <3>1. usage'[m] = usage[m]
      BY <2>2, <1>1, <1>3
    <3> QED BY <3>1 DEF MonthlyInv, MonthlyOvershootBounded, N
  <2> QED BY <2>1, <2>2
<1>12. \A m \in Months : m > month' => usage'[m] = 0
  BY <1>1, <1>3 DEF MonthlyInv, Months
<1> QED BY <1>1, <1>10, <1>11, <1>12 DEF MonthlyInv

LEMMA StepWithin ==
    ASSUME MonthlyInv, NEW s \in Slots, Step(s)
    PROVE  MonthlyInv'
<1>1. TypeOK /\ TypeOK'
  BY StepTypes DEF MonthlyInv
<1>2. CASE IncrUserQuota(s)
  BY <1>2, SomebodyCounted
<1>3. CASE CheckMonthly(s)
  <2>1. UNCHANGED <<month, usage>>
    BY <1>3 DEF CheckMonthly, keys
  <2>2. CASE MonthlyQuota > 0 /\ usage[month] >= MonthlyQuota
    <3>1. Leave(s)
      BY <1>3, <2>2 DEF CheckMonthly
    <3>2. InFlight' \subseteq InFlight
      BY <1>1, <3>1, Leaves DEF InFlight
    <3> QED BY <1>1, <2>1, <3>2, NobodyPasses
  <2>3. CASE ~(MonthlyQuota > 0 /\ usage[month] >= MonthlyQuota)
    <3>1. MonthlyQuota > 0 => usage[month] < MonthlyQuota
      BY <1>1, <2>3, AlertAssumption DEF TypeOK
    <3> QED BY <1>1, <2>1, <3>1, SomebodyPasses
  <2> QED BY <2>2, <2>3
<1>4. CASE \/ Fail(s) \/ FindLimit(s) \/ IsUserBlocked(s) \/ BlockUser(s)
           \/ IsAlertSent(s) \/ RecordAlert(s) \/ MarkAlertSent(s)
  <2>1. UNCHANGED <<month, usage>>
    BY <1>4 DEF Fail, FindLimit, IsUserBlocked, BlockUser, IsAlertSent, RecordAlert,
                MarkAlertSent, keys
  <2>2. Leave(s) \/ \E l \in Labels \ {"upstream"} : Goto(s, l)
    BY <1>4 DEF Fail, FindLimit, IsUserBlocked, BlockUser, IsAlertSent, RecordAlert,
                MarkAlertSent, Labels
  <2>3. InFlight' \subseteq InFlight
    BY <1>1, <2>2, Moves, Leaves DEF InFlight
  <2> QED BY <1>1, <2>1, <2>3, NobodyPasses
<1> QED BY <1>2, <1>3, <1>4 DEF Step

LEMMA InitWithin == Init => MonthlyInv
<1> SUFFICES ASSUME Init PROVE MonthlyInv
  OBVIOUS
<1>1. TypeOK
  BY InitTypes
<1>2. InFlight = {} /\ {} \subseteq Slots
  BY DEF Init, InFlight
<1> DEFINE c == MaxCost * (N - Cardinality(InFlight))
<1> DEFINE d == MaxCost * N
<1>3. c \in Int /\ 0 <= c /\ d \in Int /\ 0 <= d
  BY <1>2, Room
<1> HIDE DEF c, d
<1>4. month \in Months /\ \A m \in Months : usage[m] = 0
  BY <1>1 DEF Init, TypeOK
<1>5. Within
  BY <1>3, <1>4, AlertAssumption DEF Within, c
<1>6. MonthlyOvershootBounded
  BY <1>3, <1>4, AlertAssumption DEF MonthlyOvershootBounded, N, d
<1> QED BY <1>1, <1>4, <1>5, <1>6 DEF MonthlyInv

LEMMA NextWithin == MonthlyInv /\ [Next]_vars => MonthlyInv'
<1> SUFFICES ASSUME MonthlyInv, [Next]_vars PROVE MonthlyInv'
  OBVIOUS
<1>0. TypeOK /\ TypeOK'
  BY NextTypes DEF MonthlyInv
<1>1. ASSUME NEW s \in Slots, NEW t \in Tokens, NEW c \in Costs, Arrive(s, t, c)
      PROVE  MonthlyInv'
  <2>1. UNCHANGED <<month, usage>> /\ Goto(s, "monthly")
    BY <1>1 DEF Arrive, keys
  <2>2. InFlight' \subseteq InFlight
    BY <1>0, <2>1, Moves DEF InFlight, Labels
  <2> QED BY <1>0, <2>1, <2>2, NobodyPasses
<1>2. ASSUME NEW s \in Slots, Step(s) PROVE MonthlyInv'
  BY <1>2, StepWithin
<1>3. CASE NextMonth
  <2>1. /\ month' = month + 1 /\ usage' = usage
        /\ month \in Nat /\ month' \in Months /\ month' > month
    BY <1>3, <1>0 DEF NextMonth, TypeOK, Months, keys
  <2>2. usage'[month'] = 0
    BY <2>1 DEF MonthlyInv
  <2>3. InFlight' \subseteq Slots
    BY DEF InFlight
  <2> DEFINE d == MaxCost * (N - Cardinality(InFlight'))
  <2>4. d \in Int /\ 0 <= d
    BY <2>3, Room
  <2> HIDE DEF d
  <2>5. MonthlyQuota > 0 => usage'[month'] <= (MonthlyQuota - 1) + d
    BY <2>2, <2>4, AlertAssumption
  <2>6. Within'
    BY <2>5 DEF Within, d, N
  <2>7. \A m \in Months : m > month' => usage'[m] = 0
    BY <2>1 DEF MonthlyInv, Months
  <2> QED BY <1>0, <2>1, <2>6, <2>7 DEF MonthlyInv, MonthlyOvershootBounded
<1>4. CASE BlockedExpires \/ Crash \/ UNCHANGED vars
  <2>1. UNCHANGED <<month, usage>>
    BY <1>4 DEF BlockedExpires, Crash, vars, keys
  <2>2. InFlight' \subseteq InFlight
    BY <1>4 DEF BlockedExpires, Crash, vars, InFlight
  <2> QED BY <1>0, <2>1, <2>2, NobodyPasses
<1> QED BY <1>1, <1>2, <1>3, <1>4 DEF Next

(* A month's usage passes the monthly quota by less than one price per      *)
(* request that overlaps with the one that reaches it.                      *)
THEOREM MonthlyOvershootIsBounded == Spec => []MonthlyOvershootBounded
<1>1. Init => MonthlyInv
  BY InitWithin
<1>2. MonthlyInv /\ [Next]_vars => MonthlyInv'
  BY NextWithin
<1>3. MonthlyInv => MonthlyOvershootBounded
  BY DEF MonthlyInv
<1> QED BY <1>1, <1>2, <1>3, PTL DEF Spec
-----------------------------------------------------------------------------
(* No crossing is missed.  A slot at a step towards the breaker is on watch:*)
(* its tracker has counted a usage at the limit of every token, or has      *)
(* found one.  Whoever crosses the limits goes on watch, and leaves it only *)
(* when the user is blocked.                                                *)
AllLimited == \A t \in Tokens : Limit[t] > 0
Crossed(u) == \A t \in Tokens : u >= Limit[t]

Watch == {s \in Slots : \/ pc[s] = "limit" /\ Crossed(call[s].cur)
                        \/ pc[s] \in {"isBlocked", "block"}}

MissInv ==
    /\ TypeOK
    /\ (month = 0 /\ crashes = 0 /\ AllLimited /\ Crossed(usage[0])) =>
          blocked \/ Watch # {}

(* A slot's step touches its own request only.                              *)
LEMMA OthersStay ==
    ASSUME TypeOK, NEW s \in Slots, Step(s)
    PROVE  \A r \in Slots \ {s} : pc'[r] = pc[r] /\ call'[r] = call[r]
<1>1. /\ \E l \in Labels : Goto(s, l)
      /\ \/ UNCHANGED call \/ call' = [call EXCEPT ![s] = Idle]
         \/ \E v : call' = [call EXCEPT ![s].cur = v]
         \/ \E v : call' = [call EXCEPT ![s].level = v]
  BY DEF Step, CheckMonthly, Fail, IncrUserQuota, FindLimit, IsUserBlocked, BlockUser,
         IsAlertSent, RecordAlert, MarkAlertSent, Leave, Labels
<1> QED BY <1>1 DEF TypeOK, Goto

(* Who moves in and out of the watch.                                       *)
LEMMA WatchStep ==
    ASSUME TypeOK, NEW s \in Slots, Step(s), AllLimited
    PROVE  /\ Watch \subseteq Watch' \cup {s}
           /\ (s \in Watch /\ ~blocked /\ ~BlockUser(s)) => s \in Watch'
<1>1. Watch \subseteq Watch' \cup {s}
  BY OthersStay DEF Watch
<1>2. ASSUME s \in Watch, ~blocked, ~BlockUser(s) PROVE s \in Watch'
  <2>1. pc[s] \in {"limit", "isBlocked", "block"}
    BY <1>2 DEF Watch
  <2>2. CASE pc[s] = "limit"
    <3>1. FindLimit(s)
      BY <2>2 DEF Step, CheckMonthly, Fail, IncrUserQuota, IsUserBlocked, BlockUser,
                  IsAlertSent, RecordAlert, MarkAlertSent
    <3>2. /\ call[s].tok \in Tokens /\ call[s].cur \in Nat
          /\ Limit[call[s].tok] \in Nat
      BY AlertAssumption DEF TypeOK, Calls
    <3>3. call[s].cur >= Limit[call[s].tok] /\ Limit[call[s].tok] > 0
      BY <2>2, <1>2, <3>2 DEF Watch, Crossed, AllLimited
    <3> DEFINE a == call[s].cur
    <3> DEFINE b == Limit[call[s].tok]
    <3>4. 100 * a >= 100 * b /\ 100 * a >= 90 * b /\ 100 * a >= 80 * b /\ b # 0
      BY <3>2, <3>3
    <3>5. Reached(s, 100) /\ Reached(s, 90) /\ Reached(s, 80)
      BY <3>4 DEF Reached
    <3>6. Goto(s, "isBlocked")
      BY <3>1, <3>4, <3>5 DEF FindLimit
    <3>7. pc'[s] = "isBlocked"
      BY <3>6, Moves DEF Labels
    <3> QED BY <3>7 DEF Watch
  <2>3. CASE pc[s] = "isBlocked"
    <3>1. IsUserBlocked(s)
      BY <2>3 DEF Step, CheckMonthly, Fail, IncrUserQuota, FindLimit, BlockUser,
                  IsAlertSent, RecordAlert, MarkAlertSent
    <3>2. Goto(s, "block")
      BY <3>1, <1>2 DEF IsUserBlocked
    <3>3. pc'[s] = "block"
      BY <3>2, Moves DEF Labels
    <3> QED BY <3>3 DEF Watch
  <2>4. CASE pc[s] = "block"
    BY <2>4, <1>2 DEF Step, CheckMonthly, Fail, IncrUserQuota, FindLimit, IsUserBlocked,
                IsAlertSent, RecordAlert, MarkAlertSent
  <2> QED BY <2>1, <2>2, <2>3, <2>4
<1> QED BY <1>1, <1>2

(* The slot that counts goes on watch when the sum is at every limit.       *)
LEMMA CounterWatches ==
    ASSUME TypeOK, NEW s \in Slots, IncrUserQuota(s)
    PROVE  /\ s \notin Watch
           /\ Crossed(usage'[month]) => Watch' = Watch \cup {s}
           /\ ~Crossed(usage'[month]) => Watch' = Watch
<1>1. Step(s) /\ pc[s] = "upstream"
  BY DEF Step, IncrUserQuota
<1>2. pc'[s] = "limit"
  BY IncrTypes
<1> DEFINE c == usage'[month]
<1>3. call' = [call EXCEPT ![s].cur = c]
  BY DEF IncrUserQuota
<1> HIDE DEF c
<1>4. call'[s].cur = c
  BY <1>3 DEF TypeOK, Calls
<1>5. \A r \in Slots \ {s} : r \in Watch' <=> r \in Watch
  BY <1>1, OthersStay DEF Watch
<1>6. s \notin Watch /\ (s \in Watch' <=> Crossed(c))
  BY <1>1, <1>2, <1>4 DEF Watch
<1>7. Watch \subseteq Slots /\ Watch' \subseteq Slots
  BY DEF Watch
<1> QED BY <1>5, <1>6, <1>7 DEF c

LEMMA NextMisses == MissInv /\ [Next]_vars => MissInv'
<1> SUFFICES ASSUME MissInv, [Next]_vars PROVE MissInv'
  OBVIOUS
<1>0. TypeOK /\ TypeOK'
  BY NextTypes DEF MissInv
<1> SUFFICES ASSUME month' = 0, crashes' = 0, AllLimited, Crossed(usage'[0]), ~blocked'
             PROVE  Watch' # {}
  BY <1>0 DEF MissInv, AllLimited, Crossed
<1>1. ASSUME NEW s \in Slots, Step(s) PROVE Watch' # {}
  <2>1. month' = month /\ crashes' = crashes
    BY <1>1 DEF Step, CheckMonthly, Fail, IncrUserQuota, FindLimit, IsUserBlocked, BlockUser,
         IsAlertSent, RecordAlert, MarkAlertSent, history
  <2>2. CASE IncrUserQuota(s) /\ Crossed(usage'[0])
    BY <1>0, <2>1, <2>2, CounterWatches
  <2>3. CASE ~IncrUserQuota(s)
    <3>1. usage' = usage /\ ~BlockUser(s) /\ ~blocked
      BY <1>1, <2>3 DEF Step, CheckMonthly, Fail, FindLimit, IsUserBlocked, BlockUser,
         IsAlertSent, RecordAlert, MarkAlertSent, keys
    <3>2. Watch # {}
      BY <2>1, <3>1 DEF MissInv
    <3>3. Watch \subseteq Watch'
      BY <1>0, <1>1, <3>1, WatchStep
    <3> QED BY <3>2, <3>3
  <2> QED BY <2>2, <2>3
<1>2. CASE NextMonth
  BY <1>0, <1>2 DEF NextMonth, TypeOK, Months
<1>3. CASE BlockedExpires
  BY <1>0, <1>3 DEF BlockedExpires, TypeOK, Months
<1>4. CASE Crash
  BY <1>0, <1>4 DEF Crash, TypeOK
<1>5. ASSUME NEW s \in Slots, NEW t \in Tokens, NEW c \in Costs, Arrive(s, t, c)
      PROVE  Watch' # {}
  <2>1. /\ month' = month /\ crashes' = crashes /\ usage' = usage /\ blocked' = blocked
        /\ pc' = [pc EXCEPT ![s] = "monthly"] /\ pc[s] = "idle"
        /\ call' = [call EXCEPT ![s] = Request(t, c)]
    BY <1>5 DEF Arrive, keys, history, Goto
  <2>2. Watch # {}
    BY <2>1 DEF MissInv
  <2>3. Watch \subseteq Watch'
    BY <1>0, <2>1 DEF Watch, TypeOK
  <2> QED BY <2>2, <2>3
<1>6. CASE UNCHANGED vars
  BY <1>6 DEF vars, keys, history, MissInv, Watch
<1> QED BY <1>1, <1>2, <1>3, <1>4, <1>5, <1>6 DEF Next

(* No crossing of the limits is missed: once the tracking of the first      *)
(* month has caught up, a user at every token's limit is blocked.           *)
THEOREM CrossingIsNotMissed == Spec => []BlockNotMissed
<1>1. Init => MissInv
  <2> SUFFICES ASSUME Init, AllLimited PROVE MissInv
    BY InitTypes DEF MissInv
  <2>1. \E t \in Tokens : Limit[t] > 0 /\ Limit[t] \in Nat
    BY AlertAssumption DEF AllLimited
  <2>2. usage[0] = 0
    BY AlertAssumption DEF Init, Months
  <2>3. ~Crossed(usage[0])
    BY <2>1, <2>2 DEF Crossed
  <2> QED BY <2>3, InitTypes DEF MissInv
<1>2. MissInv /\ [Next]_vars => MissInv'
  BY NextMisses
<1>3. MissInv => BlockNotMissed
  <2> SUFFICES ASSUME MissInv, Quiet, month = 0, crashes = 0,
                      \A t \in Tokens : Limit[t] > 0 /\ usage[0] >= Limit[t]
               PROVE  blocked
    BY DEF BlockNotMissed
  <2>1. Watch = {}
    BY DEF Quiet, Watch
  <2> QED BY <2>1 DEF MissInv, AllLimited, Crossed
<1> QED BY <1>1, <1>2, <1>3, PTL DEF Spec

-----------------------------------------------------------------------------
(* Slots added up.                                                          *)
LEMMA Apart ==
    ASSUME NEW A, NEW B, A \subseteq Slots, B \subseteq Slots, A \cap B = {}
    PROVE  Cardinality(A) + Cardinality(B) <= N
<1>1. A \cup B \subseteq Slots
  OBVIOUS
<1>2. /\ IsFiniteSet(A) /\ IsFiniteSet(B) /\ Cardinality(A \cup B) <= N
      /\ Cardinality(A) \in Nat /\ Cardinality(B) \in Nat
  BY <1>1, Counts
<1>3. Cardinality(A \cap B) = 0
  BY FS_EmptySet
<1>4. Cardinality(A \cup B) = Cardinality(A) + Cardinality(B) - Cardinality(A \cap B)
  BY <1>2, FS_Union
<1> QED BY <1>2, <1>3, <1>4

LEMMA Less ==
    ASSUME NEW A, NEW B, A \subseteq B, B \subseteq Slots
    PROVE  /\ Cardinality(A) \in Nat /\ Cardinality(B) \in Nat /\ N \in Nat
           /\ Cardinality(A) <= Cardinality(B) /\ Cardinality(B) <= N
  BY Counts, FS_Subset

LEMMA OneMore ==
    ASSUME NEW A, A \subseteq Slots, NEW s \in Slots
    PROVE  /\ Cardinality(A) \in Nat
           /\ s \in A => Cardinality(A \ {s}) = Cardinality(A) - 1
           /\ s \notin A => Cardinality(A \cup {s}) = Cardinality(A) + 1
<1>1. IsFiniteSet(A) /\ Cardinality(A) \in Nat
  BY Counts
<1> QED BY <1>1, FS_RemoveElement, FS_AddElement

(* The chances that crashes and lapses gave, and those of crashes alone.    *)
Base == (crashes + lapses) * N
Restarts == crashes * N

LEMMA MoreOfThem ==
    /\ \A a, b, n \in Nat : (1 + a + b) * n = (a + b) * n + n
    /\ \A a, b, n \in Nat : a * n \in Nat /\ a * n <= (a + b) * n
<1>1. ASSUME NEW x \in Nat, NEW n \in Nat PROVE (1 + x) * n = x * n + n /\ x * n \in Nat
  OBVIOUS
<1>2. ASSUME NEW a \in Nat, NEW b \in Nat, NEW n \in Nat
      PROVE  (1 + a + b) * n = (a + b) * n + n /\ a * n <= (a + b) * n
  <2>1. a + b \in Nat /\ 1 + a + b = 1 + (a + b)
    OBVIOUS
  <2>2. (a + b) * n = a * n + b * n /\ a * n \in Nat /\ b * n \in Nat
    OBVIOUS
  <2> QED BY <1>1, <2>1, <2>2
<1> QED BY <1>1, <1>2

LEMMA Bases ==
    ASSUME TypeOK
    PROVE  /\ Base \in Nat /\ Restarts \in Nat /\ N \in Nat
           /\ Restarts <= Base /\ Chances = Base + N
<1>1. crashes \in Nat /\ lapses \in Nat /\ N \in Nat
  BY Counts, AlertAssumption DEF TypeOK
<1>2. Base \in Nat /\ Restarts \in Nat /\ Restarts <= Base
  BY <1>1, MoreOfThem DEF Base, Restarts
<1>3. Chances = Base + N
  BY <1>1, MoreOfThem DEF Base, Chances, N
<1> QED BY <1>1, <1>2, <1>3

LEMMA BasesGrow ==
    ASSUME TypeOK, TypeOK'
    PROVE  /\ Base' \in Nat /\ Restarts' \in Nat /\ Chances' = Base' + N
           /\ (UNCHANGED <<crashes, lapses>>) => Base' = Base /\ Restarts' = Restarts
           /\ (crashes' = crashes /\ lapses' = lapses + 1) =>
                 Base' = Base + N /\ Restarts' = Restarts
           /\ (lapses' = lapses /\ crashes' = crashes + 1) =>
                 Base' = Base + N /\ Restarts' = Restarts + N
<1>1. /\ crashes \in Nat /\ lapses \in Nat /\ N \in Nat
      /\ crashes' \in Nat /\ lapses' \in Nat
  BY Counts, AlertAssumption DEF TypeOK
<1>2. \A a, n \in Nat : a * n \in Nat /\ (a + 1) * n = a * n + n
  OBVIOUS
<1>3. Base' = (crashes' + lapses') * N /\ Restarts' = crashes' * N
  BY DEF Base, Restarts, N
<1>4. Base' \in Nat /\ Restarts' \in Nat
  <2>1. crashes' \in Nat /\ lapses' \in Nat
    BY <1>1
  <2>2. \A a, b \in Nat : a + b \in Nat
    OBVIOUS
  <2>3. crashes' + lapses' \in Nat
    BY <2>1, <2>2
  <2> QED BY <2>3, <1>1, <1>2, <1>3
<1>5. (UNCHANGED <<crashes, lapses>>) => Base' = Base /\ Restarts' = Restarts
  BY <1>3 DEF Base, Restarts
<1>6. ASSUME crashes' = crashes, lapses' = lapses + 1
      PROVE  Base' = Base + N /\ Restarts' = Restarts
  <2>1. crashes' + lapses' = (crashes + lapses) + 1 /\ crashes + lapses \in Nat
    BY <1>1, <1>6
  <2> QED BY <2>1, <1>1, <1>2, <1>3, <1>6 DEF Base, Restarts
<1>7. ASSUME lapses' = lapses, crashes' = crashes + 1
      PROVE  Base' = Base + N /\ Restarts' = Restarts + N
  <2>1. crashes' + lapses' = (crashes + lapses) + 1 /\ crashes + lapses \in Nat
    BY <1>1, <1>7
  <2> QED BY <2>1, <1>1, <1>2, <1>3, <1>7 DEF Base, Restarts
<1>8. Chances' = Base' + N
  <2>1. \A a, b, n \in Nat : (1 + a + b) * n = (a + b) * n + n
    BY MoreOfThem
  <2> QED BY <2>1, <1>1, <1>3 DEF Chances, N
<1> QED BY <1>4, <1>5, <1>6, <1>7, <1>8

-----------------------------------------------------------------------------
(* The overshoot.  Below(u, k): usage u exceeds some token's limit by less  *)
(* than k prices.  While the user is not blocked, every price beyond the    *)
(* limits is that of a slot on watch, or of an earlier chance; once it is   *)
(* blocked, only the requests already past the breaker may still add theirs.*)
Below(u, k) == \E t \in Tokens : u < Limit[t] + MaxCost * k

Ahead == {s \in Slots : pc[s] \in {"monthly", "upstream"}}

OpenRoom   == ~blocked => Below(usage[month], Base + Cardinality(Watch))
ClosedRoom == blocked => Below(usage[month], Base + N - Cardinality(Ahead))

OvershootInv ==
    /\ TypeOK
    /\ \A m \in Months : m > month => usage[m] = 0
    /\ AllLimited =>
          OpenRoom /\ ClosedRoom /\ \A m \in Months : Below(usage[m], Chances)

LEMMA BelowMore ==
    ASSUME NEW u \in Int, NEW j \in Int, NEW k \in Int, j <= k, Below(u, j)
    PROVE  Below(u, k)
<1>1. PICK t \in Tokens : u < Limit[t] + MaxCost * j
  BY DEF Below
<1>2. Limit[t] \in Int
  BY AlertAssumption
<1>3. MaxCost * j \in Int /\ MaxCost * k \in Int /\ MaxCost * j <= MaxCost * k
  BY Products
<1>4. u < Limit[t] + MaxCost * k
  BY <1>1, <1>2, <1>3
<1> QED BY <1>4 DEF Below

LEMMA BelowPrice ==
    ASSUME NEW u \in Int, NEW k \in Int, NEW c \in 0..MaxCost, Below(u, k)
    PROVE  Below(u + c, k + 1)
<1>1. PICK t \in Tokens : u < Limit[t] + MaxCost * k
  BY DEF Below
<1>2. Limit[t] \in Int /\ MaxCost \in Nat
  BY AlertAssumption
<1>3. MaxCost * k \in Int /\ MaxCost * (k + 1) = MaxCost * k + MaxCost
  BY <1>2
<1>4. u + c < Limit[t] + MaxCost * (k + 1)
  BY <1>1, <1>2, <1>3
<1> QED BY <1>4 DEF Below

LEMMA BelowLimits ==
    ASSUME NEW u \in Int, NEW k \in Nat, ~Crossed(u)
    PROVE  Below(u, k)
<1>1. PICK t \in Tokens : ~(u >= Limit[t])
  BY DEF Crossed
<1>2. Limit[t] \in Int /\ MaxCost * k \in Int /\ 0 <= MaxCost * k
  BY AlertAssumption
<1>3. u < Limit[t] + MaxCost * k
  BY <1>1, <1>2
<1> QED BY <1>3 DEF Below

LEMMA ZeroNotCrossed ==
    ASSUME AllLimited
    PROVE  ~Crossed(0)
<1>1. PICK t \in Tokens : TRUE
  BY AlertAssumption
<1>2. Limit[t] > 0 /\ Limit[t] \in Nat
  BY AlertAssumption DEF AllLimited
<1> QED BY <1>2 DEF Crossed

(* What is left to show once usage, watch and breaker are related again.    *)
LEMMA RoomKept ==
    ASSUME OvershootInv, TypeOK', AllLimited, month' = month, OpenRoom', ClosedRoom',
           Base <= Base', \A m \in Months : m # month => usage'[m] = usage[m]
    PROVE  OvershootInv'
<1>1. /\ TypeOK /\ Base \in Nat /\ Base' \in Nat /\ N \in Nat
      /\ Chances = Base + N /\ Chances' = Base' + N
  BY Bases, BasesGrow DEF OvershootInv
<1>2. \A m \in Months : usage'[m] \in Int /\ usage[m] \in Int
  BY <1>1 DEF TypeOK
<1>3. Below(usage'[month], Base' + N)
  <2> DEFINE w == Cardinality(Watch')
  <2> DEFINE a == Cardinality(Ahead')
  <2>1. Watch' \subseteq Slots /\ Ahead' \subseteq Slots
    BY DEF Watch, Ahead
  <2>2. w \in Nat /\ a \in Nat /\ w <= N /\ month \in Months
    BY <1>1, <2>1, Counts DEF TypeOK
  <2>3. \/ Below(usage'[month], Base' + w)
        \/ Below(usage'[month], Base' + N - a)
    BY DEF OpenRoom, ClosedRoom, N, Below
  <2> HIDE DEF w, a
  <2>4. /\ Base' + w \in Int /\ Base' + w <= Base' + N
        /\ Base' + N - a \in Int /\ Base' + N - a <= Base' + N /\ Base' + N \in Int
    BY <1>1, <2>2
  <2> QED BY <1>2, <2>2, <2>3, <2>4, BelowMore
<1>4. ASSUME NEW m \in Months, m # month PROVE Below(usage'[m], Base' + N)
  <2>1. Below(usage[m], Base + N) /\ usage'[m] = usage[m]
    BY <1>1, <1>4 DEF OvershootInv
  <2>2. Base + N \in Int /\ Base' + N \in Int /\ Base + N <= Base' + N
    BY <1>1
  <2> QED BY <1>2, <2>1, <2>2, BelowMore
<1>5. \A m \in Months : Below(usage'[m], Chances')
  BY <1>1, <1>3, <1>4
<1>6. \A m \in Months : m > month' => usage'[m] = 0
  BY <1>1 DEF OvershootInv, TypeOK, Months
<1> QED BY <1>5, <1>6 DEF OvershootInv, Below, Months

LEMMA CountRoom ==
    ASSUME OvershootInv, AllLimited, NEW s \in Slots, IncrUserQuota(s)
    PROVE  OvershootInv'
<1>0. TypeOK /\ TypeOK' /\ Base \in Nat /\ N \in Nat /\ Base' = Base
  BY IncrTypes, Bases, BasesGrow DEF OvershootInv, IncrUserQuota, history
<1>1. /\ usage' = [usage EXCEPT ![month] = @ + call[s].cost]
      /\ pc'[s] = "limit" /\ \A r \in Slots \ {s} : pc'[r] = pc[r]
      /\ pc[s] = "upstream" /\ month' = month /\ blocked' = blocked
  BY <1>0, IncrTypes DEF IncrUserQuota
<1> DEFINE c == call[s].cost
<1> DEFINE u == usage[month]
<1>2. c \in 0..MaxCost /\ u \in Int /\ month \in Months /\ usage'[month] = u + c
  BY <1>0, <1>1 DEF TypeOK, Calls
<1>3. u + c \in Int
  BY <1>2, AlertAssumption
<1> HIDE DEF c, u
<1>4. ASSUME ~blocked PROVE Below(u + c, Base + Cardinality(Watch'))
  <2>1. Watch \subseteq Slots /\ Watch' \subseteq Slots
    BY DEF Watch
  <2> DEFINE w == Cardinality(Watch)
  <2> DEFINE v == Cardinality(Watch')
  <2>2. w \in Nat /\ v \in Nat
    BY <2>1, Counts
  <2>3. CASE Crossed(u + c)
    <3>1. v = w + 1
      BY <1>0, <1>2, <2>1, <2>3, CounterWatches, OneMore
    <3>2. Below(u, Base + w)
      BY <1>4 DEF OvershootInv, OpenRoom, u
    <3> HIDE DEF w, v
    <3>3. Base + w \in Int /\ Base + v = (Base + w) + 1
      BY <1>0, <2>2, <3>1
    <3>4. Below(u + c, Base + v)
      BY <1>2, <3>2, <3>3, BelowPrice
    <3> QED BY <3>4 DEF v
  <2>4. CASE ~Crossed(u + c)
    <3> HIDE DEF v
    <3>1. Base + v \in Nat
      BY <1>0, <2>2
    <3> QED BY <1>3, <2>4, <3>1, BelowLimits DEF v
  <2> QED BY <2>3, <2>4
<1>5. ASSUME blocked PROVE Below(u + c, Base + N - Cardinality(Ahead'))
  <2>1. /\ Ahead \subseteq Slots /\ s \in Ahead
        /\ Ahead' = Ahead \ {s}
    BY <1>1 DEF Ahead
  <2> DEFINE a == Cardinality(Ahead)
  <2> DEFINE b == Cardinality(Ahead')
  <2>2. a \in Nat /\ b = a - 1
    BY <2>1, OneMore
  <2>3. Below(u, Base + N - a)
    BY <1>5 DEF OvershootInv, ClosedRoom, u
  <2> HIDE DEF a, b
  <2>4. Base + N - a \in Int /\ Base + N - b = (Base + N - a) + 1
    BY <1>0, <2>2
  <2>5. Below(u + c, Base + N - b)
    BY <1>2, <2>3, <2>4, BelowPrice
  <2> QED BY <2>5 DEF b
<1>6. OpenRoom' /\ ClosedRoom'
  BY <1>0, <1>1, <1>2, <1>4, <1>5 DEF OpenRoom, ClosedRoom, N, Below
<1>7. \A m \in Months : m # month => usage'[m] = usage[m]
  BY <1>0, <1>1 DEF TypeOK
<1> QED BY <1>0, <1>1, <1>6, <1>7, RoomKept

(* A step that counts nothing: usage stays, the watch and those ahead of the*)
(* breaker only need to be on the right side of what they were.             *)
LEMMA QuietRoom ==
    ASSUME OvershootInv, TypeOK', AllLimited, UNCHANGED <<month, usage, blocked>>,
           UNCHANGED <<crashes, lapses>>,
           ~blocked => Watch \subseteq Watch', blocked => Ahead' \subseteq Ahead
    PROVE  OvershootInv'
<1>0. TypeOK /\ Base \in Nat /\ N \in Nat /\ Base' = Base
  BY Bases, BasesGrow DEF OvershootInv
<1> DEFINE u == usage[month]
<1>1. u \in Int
  BY <1>0 DEF TypeOK
<1>2. ASSUME ~blocked PROVE Below(u, Base + Cardinality(Watch'))
  <2>1. Watch \subseteq Watch' /\ Watch' \subseteq Slots
    BY <1>2 DEF Watch
  <2> DEFINE w == Cardinality(Watch)
  <2> DEFINE v == Cardinality(Watch')
  <2>2. w \in Nat /\ v \in Nat /\ w <= v
    BY <2>1, Less
  <2>3. Below(u, Base + w)
    BY <1>2 DEF OvershootInv, OpenRoom
  <2> HIDE DEF w, v, u
  <2>4. Base + w \in Int /\ Base + v \in Int /\ Base + w <= Base + v
    BY <1>0, <2>2
  <2>5. Below(u, Base + v)
    BY <1>1, <2>3, <2>4, BelowMore DEF u
  <2> QED BY <2>5 DEF v, u
<1>3. ASSUME blocked PROVE Below(u, Base + N - Cardinality(Ahead'))
  <2>1. Ahead' \subseteq Ahead /\ Ahead \subseteq Slots
    BY <1>3 DEF Ahead
  <2> DEFINE a == Cardinality(Ahead)
  <2> DEFINE b == Cardinality(Ahead')
  <2>2. a \in Nat /\ b \in Nat /\ b <= a
    BY <2>1, Less
  <2>3. Below(u, Base + N - a)
    BY <1>3 DEF OvershootInv, ClosedRoom
  <2> HIDE DEF a, b, u
  <2>4. Base + N - a \in Int /\ Base + N - b \in Int /\ Base + N - a <= Base + N - b
    BY <1>0, <2>2
  <2>5. Below(u, Base + N - b)
    BY <1>1, <2>3, <2>4, BelowMore DEF u
  <2> QED BY <2>5 DEF b, u
<1>4. OpenRoom' /\ ClosedRoom'
  BY <1>0, <1>2, <1>3 DEF OpenRoom, ClosedRoom, N, Below
<1> QED BY <1>0, <1>4, RoomKept

(* The breaker trips: those on watch are not ahead of it.                   *)
LEMMA BlockRoom ==
    ASSUME OvershootInv, TypeOK', AllLimited, NEW s \in Slots, BlockUser(s)
    PROVE  OvershootInv'
<1>0. /\ TypeOK /\ Base \in Nat /\ N \in Nat /\ Base' = Base /\ blocked' = TRUE
      /\ UNCHANGED <<month, usage>> /\ pc[s] = "block"
  BY Bases, BasesGrow DEF OvershootInv, BlockUser, history
<1> DEFINE u == usage[month]
<1>1. u \in Int
  BY <1>0 DEF TypeOK
<1>2. /\ Ahead' = Ahead /\ Ahead \subseteq Slots /\ Watch \subseteq Slots
      /\ Watch \cap Ahead = {}
  <2>1. pc'[s] = "record" /\ \A r \in Slots \ {s} : pc'[r] = pc[r]
    BY <1>0, Moves DEF BlockUser, Labels
  <2> QED BY <1>0, <2>1 DEF Ahead, Watch
<1> DEFINE w == Cardinality(Watch)
<1> DEFINE a == Cardinality(Ahead)
<1>3. w \in Nat /\ a \in Nat /\ w + a <= N
  BY <1>2, Counts, Apart
<1>4. Below(u, Base + w) \/ Below(u, Base + N - a)
  BY <1>0 DEF OvershootInv, OpenRoom, ClosedRoom, TypeOK
<1> HIDE DEF w, a, u
<1>5. Base + w \in Int /\ Base + N - a \in Int /\ Base + w <= Base + N - a
  BY <1>0, <1>3
<1>6. Below(u, Base + N - a)
  BY <1>1, <1>4, <1>5, BelowMore
<1>7. OpenRoom' /\ ClosedRoom'
  BY <1>0, <1>2, <1>6 DEF OpenRoom, ClosedRoom, N, Below, u, a
<1> QED BY <1>0, <1>7, RoomKept

(* The blocked key expires, or the process restarts: a chance more.         *)
LEMMA ChanceRoom ==
    ASSUME OvershootInv, TypeOK', AllLimited, BlockedExpires \/ Crash
    PROVE  OvershootInv'
<1>0. /\ TypeOK /\ Base \in Nat /\ N \in Nat /\ Base' = Base + N
      /\ UNCHANGED <<month, usage>>
  BY Bases, BasesGrow DEF OvershootInv, BlockedExpires, Crash, keys
<1>1. usage[month] \in Int
  BY <1>0 DEF TypeOK
<1> DEFINE w == Cardinality(Watch)
<1> DEFINE a == Cardinality(Ahead)
<1> DEFINE v == Cardinality(Watch')
<1> DEFINE b == Cardinality(Ahead')
<1>2. /\ w \in Nat /\ a \in Nat /\ v \in Nat /\ b \in Nat /\ w <= N /\ b <= N
  <2>1. Watch \subseteq Slots /\ Ahead \subseteq Slots /\ Watch' \subseteq Slots /\ Ahead' \subseteq Slots
    BY DEF Watch, Ahead
  <2> QED BY <2>1, Counts
<1>3. Below(usage[month], Base + w) \/ Below(usage[month], Base + N - a)
  BY <1>0 DEF OvershootInv, OpenRoom, ClosedRoom, TypeOK
<1> DEFINE U == usage[month]
<1> HIDE DEF w, a, v, b, U
<1>4. /\ Base + w \in Int /\ Base + N - a \in Int
      /\ Base' + v \in Int /\ Base' + N - b \in Int
      /\ Base + w <= Base' + v /\ Base + N - a <= Base' + v
      /\ Base + w <= Base' + N - b
      /\ Base + N - a <= Base' + N
  BY <1>0, <1>2
<1>5. Below(U, Base' + v)
  BY <1>1, <1>3, <1>4, BelowMore DEF U
<1>6. CASE BlockedExpires
  <2>1. blocked' = FALSE
    BY <1>6 DEF BlockedExpires
  <2>2. OpenRoom' /\ ClosedRoom'
    BY <1>0, <1>5, <2>1 DEF OpenRoom, ClosedRoom, N, Below, U, v
  <2> QED BY <1>0, <2>2, RoomKept
<1>7. CASE Crash
  <2>1. Ahead' = {}
    BY <1>7 DEF Crash, Ahead
  <2>2. b = 0
    BY <2>1, FS_EmptySet DEF b
  <2>3. Base + N - a <= Base' + N - b
    BY <1>4, <2>2, <1>0, <1>2
  <2>4. Below(U, Base' + N - b)
    BY <1>1, <1>3, <1>4, <2>3, BelowMore DEF U
  <2>5. OpenRoom' /\ ClosedRoom'
    BY <1>0, <1>5, <2>4 DEF OpenRoom, ClosedRoom, N, Below, U, v, b
  <2> QED BY <1>0, <2>5, RoomKept
<1> QED BY <1>6, <1>7

LEMMA MonthRoom ==
    ASSUME OvershootInv, TypeOK', AllLimited, NextMonth
    PROVE  OvershootInv'
<1>0. /\ TypeOK /\ UNCHANGED <<usage, crashes, lapses>>
      /\ month' = month + 1 /\ month \in Nat /\ month' \in Months
  BY DEF OvershootInv, NextMonth, keys, history, TypeOK, Months
<1>9. Base \in Nat /\ Base' = Base /\ N \in Nat /\ Chances' = Chances
  <2>1. Base \in Nat /\ Base' = Base /\ N \in Nat /\ Chances = Base + N /\ Chances' = Base' + N
    BY <1>0, Bases, BasesGrow
  <2> QED BY <2>1
<1>1. usage[month'] = 0
  BY <1>0 DEF OvershootInv, Months
<1>2. \A k \in Nat : Below(0, k)
  BY ZeroNotCrossed, BelowLimits
<1> DEFINE v == Cardinality(Watch')
<1> DEFINE b == Cardinality(Ahead')
<1>3. v \in Nat /\ b \in Nat /\ b <= N
  <2>1. Watch' \subseteq Slots /\ Ahead' \subseteq Slots
    BY DEF Watch, Ahead
  <2> QED BY <2>1, Counts
<1> HIDE DEF v, b
<1>4. Base + v \in Nat /\ Base + N - b \in Nat
  BY <1>9, <1>3
<1>5. Below(0, Base + v) /\ Below(0, Base + N - b)
  BY <1>2, <1>4
<1>6. OpenRoom' /\ ClosedRoom'
  BY <1>0, <1>9, <1>1, <1>5 DEF OpenRoom, ClosedRoom, N, Below, v, b
<1>7. \A m \in Months : m > month' => usage'[m] = 0
  BY <1>0 DEF OvershootInv, Months
<1>8. \A m \in Months : Below(usage'[m], Chances')
  BY <1>0, <1>9 DEF OvershootInv
<1> QED BY <1>6, <1>7, <1>8 DEF OvershootInv, Below, Months

LEMMA StepRoom ==
    ASSUME OvershootInv, AllLimited, NEW s \in Slots, Step(s)
    PROVE  OvershootInv'
<1>0. TypeOK /\ TypeOK'
  BY StepTypes DEF OvershootInv
<1>1. CASE IncrUserQuota(s)
  BY <1>1, CountRoom
<1>2. CASE BlockUser(s)
  BY <1>0, <1>2, BlockRoom
<1>3. CASE \/ CheckMonthly(s) \/ Fail(s) \/ FindLimit(s) \/ IsUserBlocked(s)
           \/ IsAlertSent(s) \/ RecordAlert(s) \/ MarkAlertSent(s)
  <2>1. /\ UNCHANGED <<month, usage, blocked, crashes, lapses>> /\ ~BlockUser(s)
        /\ pc[s] \notin {"monthly", "upstream"} => Leave(s) \/ \E l \in Labels \ {"monthly", "upstream"} : Goto(s, l)
    BY <1>3 DEF CheckMonthly, Fail, FindLimit, IsUserBlocked, BlockUser,
                IsAlertSent, RecordAlert, MarkAlertSent, keys, history, Labels
  <2>2. ~blocked => Watch \subseteq Watch'
    BY <1>0, <2>1, WatchStep
  <2>3. Ahead' \subseteq Ahead
    BY <1>0, <2>1, OthersStay, Moves, Leaves DEF Ahead
  <2> QED BY <1>0, <2>1, <2>2, <2>3, QuietRoom
<1> QED BY <1>1, <1>2, <1>3 DEF Step

LEMMA NextRoom == OvershootInv /\ [Next]_vars => OvershootInv'
<1> SUFFICES ASSUME OvershootInv, [Next]_vars PROVE OvershootInv'
  OBVIOUS
<1>0. TypeOK /\ TypeOK'
  BY NextTypes DEF OvershootInv
<1>1. CASE ~AllLimited
  <2>1. \A m \in Months : m > month' => usage'[m] = 0
    <3>1. CASE UNCHANGED <<month, usage>>
      BY <3>1 DEF OvershootInv
    <3>2. CASE NextMonth
      BY <1>0, <3>2 DEF NextMonth, OvershootInv, keys, TypeOK, Months
    <3>3. ASSUME NEW s \in Slots, IncrUserQuota(s)
          PROVE  \A m \in Months : m > month' => usage'[m] = 0
      <4>1. usage' = [usage EXCEPT ![month] = @ + call[s].cost] /\ month' = month
        BY <1>0, <3>3, IncrTypes DEF IncrUserQuota
      <4> QED BY <1>0, <4>1 DEF OvershootInv, TypeOK, Months
    <3> QED BY <3>1, <3>2, <3>3 DEF Next, Step, Arrive, CheckMonthly, Fail, FindLimit,
                IsUserBlocked, BlockUser, IsAlertSent, RecordAlert, MarkAlertSent, keys,
                BlockedExpires, Crash, vars
  <2> QED BY <1>0, <1>1, <2>1 DEF OvershootInv, AllLimited
<1>2. CASE AllLimited
  <2>1. ASSUME NEW s \in Slots, NEW t \in Tokens, NEW c \in Costs, Arrive(s, t, c)
        PROVE  OvershootInv'
    <3>1. /\ UNCHANGED <<month, usage, blocked, crashes, lapses>> /\ ~blocked
          /\ pc' = [pc EXCEPT ![s] = "monthly"] /\ pc[s] = "idle"
          /\ call' = [call EXCEPT ![s] = Request(t, c)]
      BY <2>1 DEF Arrive, keys, history, Goto
    <3>2. Watch \subseteq Watch'
      BY <1>0, <3>1 DEF Watch, TypeOK
    <3> QED BY <1>0, <1>2, <3>1, <3>2, QuietRoom
  <2>2. ASSUME NEW s \in Slots, Step(s) PROVE OvershootInv'
    BY <1>2, <2>2, StepRoom
  <2>3. CASE NextMonth
    BY <1>0, <1>2, <2>3, MonthRoom
  <2>4. CASE BlockedExpires \/ Crash
    BY <1>0, <1>2, <2>4, ChanceRoom
  <2>5. CASE UNCHANGED vars
    <3>1. UNCHANGED <<month, usage, blocked, crashes, lapses>> /\ Watch' = Watch /\ Ahead' = Ahead
      BY <2>5 DEF vars, keys, history, Watch, Ahead
    <3> QED BY <1>0, <1>2, <3>1, QuietRoom
  <2> QED BY <2>1, <2>2, <2>3, <2>4, <2>5 DEF Next
<1> QED BY <1>1, <1>2

LEMMA InitRoom == Init => OvershootInv
<1> SUFFICES ASSUME Init PROVE OvershootInv
  OBVIOUS
<1>1. TypeOK /\ month \in Months /\ \A m \in Months : usage[m] = 0
  BY InitTypes, AlertAssumption DEF Init, Months
<1>2. ASSUME AllLimited
      PROVE  OpenRoom /\ ClosedRoom /\ \A m \in Months : Below(usage[m], Chances)
  <2>1. \A k \in Nat : Below(0, k)
    BY <1>2, ZeroNotCrossed, BelowLimits
  <2>2. Base \in Nat /\ N \in Nat /\ Chances = Base + N /\ ~blocked
    BY <1>1, Bases DEF Init
  <2>3. Watch \subseteq Slots
    BY DEF Watch
  <2> DEFINE w == Cardinality(Watch)
  <2>4. w \in Nat
    BY <2>3, Counts
  <2> HIDE DEF w
  <2>5. Base + w \in Nat /\ Base + N \in Nat
    BY <2>2, <2>4
  <2> QED BY <1>1, <2>1, <2>2, <2>5 DEF OpenRoom, ClosedRoom, w
<1> QED BY <1>1, <1>2 DEF OvershootInv

(* A user whose tokens are all limited passes the limits, in any month, by  *)
(* less than one price per slot and chance.                                 *)
THEOREM OvershootIsBounded == Spec => []OvershootBounded
<1>1. Init => OvershootInv
  BY InitRoom
<1>2. OvershootInv /\ [Next]_vars => OvershootInv'
  BY NextRoom
<1>3. OvershootInv => OvershootBounded
  BY DEF OvershootInv, OvershootBounded, AllLimited, Below
<1> QED BY <1>1, <1>2, <1>3, PTL DEF Spec

-----------------------------------------------------------------------------
(* The alerts.  A row of 80 or 90 % is written by a slot that goes on to    *)
(* mark it: until the month's key is there each row has a marker (or died   *)
(* in a crash), and once it is, only the slots past the check still write.  *)
(* A row of the block is written by a slot that found the user not blocked; *)
(* each has blocked it before it writes.                                    *)
Early == {AlertLevelWarning, AlertLevelCritical}

Recording(l) == {s \in Slots : pc[s] = "record" /\ call[s].level = l}
Marking(l)   == {s \in Slots : pc[s] = "mark" /\ call[s].level = l}
Blockers     == Recording(AlertLevelBlock) \cup {s \in Slots : pc[s] = "block"}

LevelKnown(s) ==
    /\ pc[s] \in {"monthly", "upstream", "limit", "isBlocked", "block"} =>
          call[s].level = AlertLevelBlock
    /\ pc[s] \in {"isSent", "mark"} => call[s].level \in Early

EarlyRows(l) ==
    /\ <<l, month>> \notin sent => alerts[l][month] <= Restarts + Cardinality(Marking(l))
    /\ alerts[l][month] + Cardinality(Recording(l)) <= Restarts + N

BlockRows ==
    LET rows == alerts[AlertLevelBlock][month]
    IN  /\ ~blocked => rows + Cardinality(Recording(AlertLevelBlock)) <= Base
        /\ rows + Cardinality(Blockers) <= Base + N

NothingAhead == \A l \in Levels, m \in Months :
                   m > month => alerts[l][m] = 0 /\ <<l, m>> \notin sent

AlertInv ==
    /\ TypeOK
    /\ \A s \in Slots : LevelKnown(s)
    /\ NothingAhead
    /\ \A l \in Early : EarlyRows(l)
    /\ BlockRows
    /\ AlertsBounded

LEMMA EarlyLevels ==
    /\ Early \subseteq Levels /\ AlertLevelBlock \notin Early
    /\ \A l \in Levels : l \in Early \/ l = AlertLevelBlock
    /\ AlertLevelBlock \in Levels
  BY DEF Early, Levels, AlertLevelWarning, AlertLevelCritical, AlertLevelBlock

LEMMA SetsOfSlots ==
    ASSUME NEW l
    PROVE  /\ Recording(l) \subseteq Slots /\ Marking(l) \subseteq Slots
           /\ Recording(l) \cap Marking(l) = {}
           /\ Blockers \subseteq Slots /\ Recording(AlertLevelBlock) \subseteq Blockers
  BY DEF Recording, Marking, Blockers

(* The number of rows is a number.                                          *)
LEMMA RowTypes ==
    ASSUME TypeOK, NEW l \in Levels
    PROVE  month \in Months /\ \A m \in Months : alerts[l][m] \in Nat
  BY DEF TypeOK

(* What is left to show once this month's rows are counted again.           *)
LEMMA RowsKept ==
    ASSUME AlertInv, TypeOK', \A s \in Slots : LevelKnown(s)', NothingAhead',
           \A l \in Early : EarlyRows(l)', BlockRows',
           \A l \in Levels, m \in Months : m # month' => alerts'[l][m] = alerts[l][m],
           Base <= Base'
    PROVE  AlertInv'
<1>0. TypeOK /\ month' \in Months
  BY DEF AlertInv, TypeOK, Months
<1>1. /\ Base \in Nat /\ Base' \in Nat /\ N \in Nat /\ Restarts' \in Nat
      /\ Chances = Base + N /\ Chances' = Base' + N
  BY <1>0, Bases, BasesGrow
<1>2. Restarts' <= Base'
  <2>1. crashes' \in Nat /\ lapses' \in Nat /\ N \in Nat
    BY <1>1, AlertAssumption DEF TypeOK
  <2>2. crashes' * N <= (crashes' + lapses') * N
    BY <2>1, MoreOfThem
  <2> QED BY <2>2 DEF Base, Restarts, N
<1>3. ASSUME NEW l \in Levels, NEW m \in Months PROVE alerts'[l][m] <= Base' + N
  <2>1. alerts'[l][m] \in Nat /\ alerts[l][m] \in Nat
    BY <1>0 DEF TypeOK, Months
  <2>2. CASE m # month'
    <3>1. alerts[l][m] <= Base + N /\ alerts'[l][m] = alerts[l][m]
      BY <1>1, <2>2 DEF AlertInv, AlertsBounded
    <3> QED BY <3>1, <2>1, <1>1
  <2>3. CASE m = month' /\ l \in Early
    <3> DEFINE k == Cardinality(Recording(l)')
    <3>1. k \in Nat
      <4>1. Recording(l)' \subseteq Slots
        BY DEF Recording
      <4> QED BY <4>1, Counts
    <3>2. alerts'[l][m] + k <= Restarts' + N
      BY <2>3 DEF EarlyRows, N
    <3> HIDE DEF k
    <3> QED BY <3>1, <3>2, <2>1, <1>1, <1>2
  <2>4. CASE m = month' /\ l = AlertLevelBlock
    <3> DEFINE k == Cardinality(Blockers')
    <3>1. k \in Nat
      <4>1. Blockers' \subseteq Slots
        BY DEF Blockers, Recording
      <4> QED BY <4>1, Counts
    <3>2. alerts'[l][m] + k <= Base' + N
      BY <2>4 DEF BlockRows, N, AlertLevelBlock
    <3> HIDE DEF k
    <3> QED BY <3>1, <3>2, <2>1, <1>1
  <2> QED BY <2>2, <2>3, <2>4, EarlyLevels
<1>4. AlertsBounded'
  BY <1>1, <1>3 DEF AlertsBounded, Months, Levels, AlertLevelWarning, AlertLevelCritical, AlertLevelBlock
<1> QED BY <1>4 DEF AlertInv, Early, AlertLevelWarning, AlertLevelCritical, AlertLevelBlock

(* The level of an alert is chosen before it is needed.                     *)
LEMMA LevelsKept ==
    ASSUME TypeOK, NEW s \in Slots, LevelKnown(s), Step(s)
    PROVE  LevelKnown(s)'
<1> USE EarlyLevels DEF LevelKnown
<1>1. CASE CheckMonthly(s)
  <2>1. pc'[s] = "idle" \/ (pc'[s] = "upstream" /\ pc[s] = "monthly" /\ call' = call)
    BY <1>1, Moves, Leaves DEF CheckMonthly, Labels
  <2> QED BY <2>1
<1>2. CASE \/ Fail(s) \/ MarkAlertSent(s)
  <2>1. pc'[s] = "idle"
    BY <1>2, Leaves DEF Fail, MarkAlertSent
  <2> QED BY <2>1
<1>3. CASE IncrUserQuota(s)
  <2>1. pc'[s] = "limit" /\ pc[s] = "upstream"
    BY <1>3, IncrTypes DEF IncrUserQuota
  <2>2. call'[s].level = call[s].level
    <3>1. PICK v : call' = [call EXCEPT ![s].cur = v]
      BY <1>3 DEF IncrUserQuota
    <3> QED BY <3>1 DEF TypeOK, Calls
  <2> QED BY <2>1, <2>2
<1>4. CASE FindLimit(s)
  <2>1. pc[s] = "limit" /\ call[s] \in Calls
    BY <1>4 DEF FindLimit, TypeOK
  <2>2. CASE Leave(s)
    BY <2>2, Leaves
  <2>3. CASE Goto(s, "isBlocked") /\ UNCHANGED call
    BY <2>1, <2>3, Moves DEF Labels
  <2>4. ASSUME NEW l \in Early, Goto(s, "isSent"), call' = [call EXCEPT ![s].level = l]
        PROVE  LevelKnown(s)'
    <3>1. pc'[s] = "isSent"
      BY <2>4, Moves DEF Labels
    <3>2. call'[s].level = l
      BY <2>4 DEF TypeOK, Calls
    <3> QED BY <3>1, <3>2
  <2> QED BY <1>4, <2>2, <2>3, <2>4 DEF FindLimit, Early
<1>5. CASE IsUserBlocked(s)
  <2>1. pc'[s] = "idle" \/ (pc'[s] = "block" /\ pc[s] = "isBlocked" /\ call' = call)
    BY <1>5, Moves, Leaves DEF IsUserBlocked, Labels
  <2> QED BY <2>1
<1>6. CASE BlockUser(s) \/ IsAlertSent(s)
  <2>1. pc'[s] = "idle" \/ pc'[s] = "record"
    BY <1>6, Moves, Leaves DEF BlockUser, IsAlertSent, Labels
  <2> QED BY <2>1
<1>7. CASE RecordAlert(s)
  <2>1. call[s].level \in Levels
    BY DEF TypeOK, Calls
  <2>2. pc'[s] = "idle" \/ (pc'[s] = "mark" /\ call' = call /\ call[s].level # AlertLevelBlock)
    BY <1>7, Moves, Leaves DEF RecordAlert, Labels
  <2> QED BY <2>1, <2>2
<1> QED BY <1>1, <1>2, <1>3, <1>4, <1>5, <1>6, <1>7 DEF Step

LEMMA AllLevelsKept ==
    ASSUME TypeOK, \A r \in Slots : LevelKnown(r), NEW s \in Slots, Step(s)
    PROVE  \A r \in Slots : LevelKnown(r)'
<1>1. LevelKnown(s)'
  BY LevelsKept
<1>2. \A r \in Slots \ {s} : LevelKnown(r)'
  BY OthersStay DEF LevelKnown
<1> QED BY <1>1, <1>2

LEMMA OtherSets ==
    ASSUME TypeOK, NEW s \in Slots, Step(s), NEW r \in Slots \ {s}
    PROVE  /\ \A l \in Levels : /\ r \in Recording(l)' <=> r \in Recording(l)
                                /\ r \in Marking(l)' <=> r \in Marking(l)
           /\ r \in Blockers' <=> r \in Blockers
  BY OthersStay DEF Recording, Marking, Blockers

(* A step that writes and marks nothing.                                    *)
LEMMA QuietRows ==
    ASSUME AlertInv, TypeOK', \A r \in Slots : LevelKnown(r)',
           UNCHANGED <<month, alerts, sent, crashes, lapses>>,
           \A l \in Early : Recording(l)' \subseteq Recording(l) /\ Marking(l) \subseteq Marking(l)',
           ~blocked' => Recording(AlertLevelBlock)' \subseteq Recording(AlertLevelBlock),
           blocked => blocked' /\ Blockers' \subseteq Blockers
    PROVE  AlertInv'
<1>0. /\ TypeOK /\ Base \in Nat /\ N \in Nat /\ Base' = Base
      /\ Restarts \in Nat /\ Restarts' = Restarts
  BY Bases, BasesGrow DEF AlertInv
<1>1. ASSUME NEW l \in Early PROVE EarlyRows(l)'
  <2>1. alerts[l][month] \in Nat
    BY <1>0, EarlyLevels, RowTypes
  <2>2. Recording(l)' \subseteq Recording(l) /\ Marking(l) \subseteq Marking(l)'
    OBVIOUS
  <2>3. Recording(l) \subseteq Slots /\ Marking(l)' \subseteq Slots
    BY DEF Recording, Marking
  <2> DEFINE a == Cardinality(Recording(l))
  <2> DEFINE b == Cardinality(Recording(l)')
  <2> DEFINE c == Cardinality(Marking(l))
  <2> DEFINE d == Cardinality(Marking(l)')
  <2>4. a \in Nat /\ b \in Nat /\ c \in Nat /\ d \in Nat /\ b <= a /\ c <= d
    BY <2>2, <2>3, Less
  <2>5. /\ <<l, month>> \notin sent => alerts[l][month] <= Restarts + c
        /\ alerts[l][month] + a <= Restarts + N
    BY DEF AlertInv, EarlyRows
  <2> HIDE DEF a, b, c, d
  <2>6. /\ <<l, month>> \notin sent => alerts[l][month] <= Restarts + d
        /\ alerts[l][month] + b <= Restarts + N
    BY <1>0, <2>1, <2>4, <2>5
  <2> QED BY <1>0, <2>6 DEF EarlyRows, N, b, d
<1>2. BlockRows'
  <2> DEFINE rows == alerts[AlertLevelBlock][month]
  <2> DEFINE a == Cardinality(Recording(AlertLevelBlock))
  <2> DEFINE b == Cardinality(Recording(AlertLevelBlock)')
  <2> DEFINE c == Cardinality(Blockers)
  <2> DEFINE d == Cardinality(Blockers')
  <2>1. rows \in Nat
    BY <1>0, EarlyLevels, RowTypes
  <2>2. /\ Recording(AlertLevelBlock) \subseteq Slots /\ Blockers \subseteq Slots
        /\ Blockers' \subseteq Slots /\ Recording(AlertLevelBlock)' \subseteq Slots
    BY DEF Recording, Blockers
  <2>3. /\ a \in Nat /\ b \in Nat /\ c \in Nat /\ d \in Nat /\ d <= N
        /\ ~blocked' => b <= a
        /\ blocked => d <= c
    BY <2>2, Less, Counts
  <2>4. (~blocked => rows + a <= Base) /\ rows + c <= Base + N
    BY DEF AlertInv, BlockRows
  <2> HIDE DEF a, b, c, d, rows
  <2>5. ~blocked' => rows + b <= Base
    BY <1>0, <2>1, <2>3, <2>4
  <2>6. rows + d <= Base + N
    BY <1>0, <2>1, <2>3, <2>4
  <2>7. rows' = rows
    BY DEF rows, AlertLevelBlock
  <2>8. (~blocked' => rows' + b <= Base') /\ rows' + d <= Base' + N
    BY <1>0, <2>5, <2>6, <2>7
  <2> QED BY <2>8 DEF BlockRows, N, rows, b, d, AlertLevelBlock
<1>3. NothingAhead'
  BY DEF AlertInv, NothingAhead, Levels, AlertLevelWarning, AlertLevelCritical,
         AlertLevelBlock, Months
<1> QED BY <1>0, <1>1, <1>2, <1>3, RowsKept

(* The steps that write no row and no key.                                  *)
LEMMA QuietStepRows ==
    ASSUME AlertInv, NEW s \in Slots, Step(s),
           pc[s] \notin {"record", "mark"}, pc'[s] = "record" => BlockUser(s)
    PROVE  AlertInv'
<1>0. /\ TypeOK /\ TypeOK' /\ \A r \in Slots : LevelKnown(r)
      /\ \A r \in Slots : LevelKnown(r)'
  BY StepTypes, AllLevelsKept DEF AlertInv
<1>1. /\ UNCHANGED <<month, alerts, sent, crashes, lapses>>
      /\ pc'[s] # "mark"
      /\ pc'[s] = "block" => ~blocked
      /\ pc[s] = "block" => BlockUser(s)
      /\ ~BlockUser(s) => UNCHANGED blocked
  <2>1. ~RecordAlert(s) /\ ~MarkAlertSent(s)
    BY DEF RecordAlert, MarkAlertSent
  <2>2. UNCHANGED <<month, alerts, sent, crashes, lapses>> /\ (~BlockUser(s) => UNCHANGED blocked)
    BY <2>1 DEF Step, CheckMonthly, Fail, IncrUserQuota, FindLimit, IsUserBlocked, BlockUser,
         IsAlertSent, RecordAlert, MarkAlertSent, keys, history
  <2>3. /\ \/ Leave(s)
           \/ \E l \in Labels \ {"mark", "block"} : Goto(s, l)
           \/ Goto(s, "block") /\ ~blocked
        /\ pc[s] = "block" => BlockUser(s)
    BY <2>1 DEF Step, CheckMonthly, Fail, IncrUserQuota, FindLimit, IsUserBlocked, BlockUser,
         IsAlertSent, RecordAlert, MarkAlertSent, Labels
  <2> QED BY <1>0, <2>2, <2>3, Moves, Leaves DEF Labels
<1>2. CASE BlockUser(s)
  <2>1. /\ pc'[s] = "record" /\ pc[s] = "block" /\ call' = call /\ blocked' = TRUE
        /\ call[s].level = AlertLevelBlock
    BY <1>0, <1>2, Moves DEF BlockUser, LevelKnown, Labels
  <2>2. \A l \in Early : s \notin Recording(l)' /\ s \notin Marking(l)
    BY <2>1, EarlyLevels DEF Recording, Marking
  <2>3. s \in Blockers
    BY <2>1 DEF Blockers
  <2>4. \A l \in Early : Recording(l)' \subseteq Recording(l) /\ Marking(l) \subseteq Marking(l)'
    <3>1. \A l \in Levels : Recording(l)' \subseteq Slots /\ Marking(l) \subseteq Slots
      BY DEF Recording, Marking
    <3> QED BY <1>0, <2>2, <3>1, OtherSets, EarlyLevels
  <2>5. Blockers' \subseteq Blockers
    <3>1. Blockers' \subseteq Slots
      BY DEF Blockers, Recording
    <3> QED BY <1>0, <2>3, <3>1, OtherSets
  <2> QED BY <1>0, <1>1, <2>1, <2>4, <2>5, QuietRows
<1>3. CASE ~BlockUser(s)
  <2>1. \A l \in Levels : s \notin Recording(l)' /\ s \notin Marking(l)
    BY <1>3 DEF Recording, Marking
  <2>2. \A l \in Levels : Recording(l)' \subseteq Recording(l) /\ Marking(l) \subseteq Marking(l)'
    <3>1. \A l \in Levels : Recording(l)' \subseteq Slots /\ Marking(l) \subseteq Slots
      BY DEF Recording, Marking
    <3> QED BY <1>0, <2>1, <3>1, OtherSets
  <2>3. blocked => s \notin Blockers'
    BY <1>1, <1>3 DEF Blockers, Recording
  <2>4. blocked => Blockers' \subseteq Blockers
    <3>1. Blockers' \subseteq Slots
      BY DEF Blockers, Recording
    <3> QED BY <1>0, <2>3, <3>1, OtherSets
  <2>5. Recording(AlertLevelBlock)' \subseteq Recording(AlertLevelBlock)
    BY <2>2, EarlyLevels
  <2>6. \A l \in Early : Recording(l)' \subseteq Recording(l) /\ Marking(l) \subseteq Marking(l)'
    BY <2>2, EarlyLevels
  <2> QED BY <1>0, <1>1, <1>3, <2>4, <2>5, <2>6, QuietRows
<1> QED BY <1>2, <1>3

(* A slot finds the month's key missing: it may write a row, as may all that*)
(* do not mark one.                                                         *)
LEMMA PassRows ==
    ASSUME AlertInv, NEW s \in Slots, IsAlertSent(s), pc'[s] = "record"
    PROVE  AlertInv'
<1>0. /\ TypeOK /\ TypeOK' /\ \A r \in Slots : LevelKnown(r)
      /\ \A r \in Slots : LevelKnown(r)' /\ Step(s)
  <2>1. Step(s)
    BY DEF Step
  <2> QED BY <2>1, StepTypes, AllLevelsKept DEF AlertInv
<1>1. /\ UNCHANGED <<month, call, alerts, sent, blocked, crashes, lapses>>
      /\ pc[s] = "isSent" /\ <<call[s].level, month>> \notin sent
      /\ call[s].level \in Early
  <2>1. UNCHANGED <<month, alerts, sent, blocked, crashes, lapses>> /\ pc[s] = "isSent"
    BY DEF IsAlertSent, keys, history
  <2>2. ~Leave(s)
    BY <1>0, Leaves
  <2>3. <<call[s].level, month>> \notin sent /\ UNCHANGED call
    BY <2>2 DEF IsAlertSent
  <2> QED BY <1>0, <2>1, <2>3 DEF LevelKnown
<1>2. /\ Base \in Nat /\ N \in Nat /\ Base' = Base
      /\ Restarts \in Nat /\ Restarts' = Restarts
  BY <1>0, <1>1, Bases, BasesGrow
<1>3. \A r \in Slots \ {s} : \A l \in Levels :
         /\ r \in Recording(l)' <=> r \in Recording(l)
         /\ r \in Marking(l)' <=> r \in Marking(l)
  BY <1>0, OtherSets
<1>4. \A l \in Levels : s \notin Marking(l) /\ s \notin Marking(l)'
  BY <1>1 DEF Marking
<1>5. \A l \in Levels : Marking(l)' = Marking(l)
  BY <1>3, <1>4 DEF Marking
<1>6. ASSUME NEW l \in Early PROVE EarlyRows(l)'
  <2> DEFINE c == Cardinality(Marking(l))
  <2> DEFINE b == Cardinality(Recording(l)')
  <2> DEFINE a == Cardinality(Recording(l))
  <2>1. l \in Levels /\ alerts[l][month] \in Nat
    BY <1>0, EarlyLevels, RowTypes
  <2>2. /\ Marking(l) \subseteq Slots /\ Recording(l)' \subseteq Slots
        /\ Recording(l)' \cap Marking(l)' = {} /\ Recording(l) \subseteq Slots
    BY DEF Marking, Recording
  <2>3. a \in Nat /\ b \in Nat /\ c \in Nat /\ b + c <= N
    BY <1>5, <2>1, <2>2, Counts, Apart
  <2>4. /\ <<l, month>> \notin sent => alerts[l][month] <= Restarts + c
        /\ alerts[l][month] + a <= Restarts + N
    BY DEF AlertInv, EarlyRows
  <2>5. l # call[s].level => b = a
    <3>1. l # call[s].level => s \notin Recording(l) /\ s \notin Recording(l)'
      BY <1>1 DEF Recording
    <3>2. ASSUME l # call[s].level PROVE Recording(l)' = Recording(l)
      <4>1. \A r \in Slots : r \in Recording(l)' <=> r \in Recording(l)
        BY <1>3, <2>1, <3>1, <3>2
      <4> QED BY <2>2, <4>1
    <3> QED BY <3>2
  <2> HIDE DEF a, b, c
  <2>6. alerts[l][month] + b <= Restarts + N
    <3>1. CASE l = call[s].level
      <4>1. alerts[l][month] <= Restarts + c
        BY <1>1, <2>4, <3>1
      <4> QED BY <1>2, <2>1, <2>3, <4>1
    <3>2. CASE l # call[s].level
      BY <2>4, <2>5, <3>2
    <3> QED BY <3>1, <3>2
  <2>7. Cardinality(Marking(l)') = c
    BY <1>5, <2>1 DEF c
  <2> QED BY <1>1, <1>2, <2>4, <2>6, <2>7 DEF EarlyRows, N, b
<1>7. BlockRows'
  <2>1. /\ s \notin Blockers /\ s \notin Blockers'
        /\ s \notin Recording(AlertLevelBlock) /\ s \notin Recording(AlertLevelBlock)'
    BY <1>0, <1>1, EarlyLevels DEF Blockers, Recording
  <2>2. Blockers' = Blockers
    <3>1. Blockers' \subseteq Slots /\ Blockers \subseteq Slots
      BY DEF Blockers, Recording
    <3> QED BY <1>0, <2>1, <3>1, OtherSets
  <2>3. Recording(AlertLevelBlock)' = Recording(AlertLevelBlock)
    BY <1>3, <2>1, EarlyLevels DEF Recording
  <2>4. BlockRows
    BY DEF AlertInv
  <2> QED BY <1>1, <1>2, <2>2, <2>3, <2>4 DEF BlockRows, N, AlertLevelBlock
<1>8. NothingAhead'
  BY <1>1 DEF AlertInv, NothingAhead, Levels, AlertLevelWarning, AlertLevelCritical,
         AlertLevelBlock, Months
<1> QED BY <1>0, <1>1, <1>2, <1>6, <1>7, <1>8, RowsKept

(* A row is written.                                                        *)
LEMMA RecordRows ==
    ASSUME AlertInv, NEW s \in Slots, RecordAlert(s)
    PROVE  AlertInv'
<1> DEFINE k == call[s].level
<1>0. /\ TypeOK /\ TypeOK' /\ \A r \in Slots : LevelKnown(r)
      /\ \A r \in Slots : LevelKnown(r)' /\ Step(s)
  <2>1. Step(s)
    BY DEF Step
  <2> QED BY <2>1, StepTypes, AllLevelsKept DEF AlertInv
<1>1. /\ UNCHANGED <<month, sent, blocked, crashes, lapses>> /\ pc[s] = "record"
      /\ k \in Levels /\ month \in Months
      /\ alerts' = [alerts EXCEPT ![k][month] = @ + 1]
      /\ k = AlertLevelBlock => pc'[s] = "idle"
      /\ k # AlertLevelBlock => pc'[s] = "mark" /\ call' = call
  BY <1>0, Moves, Leaves DEF RecordAlert, keys, Labels, TypeOK, Calls
<1> HIDE DEF k
<1>2. /\ Base \in Nat /\ N \in Nat /\ Base' = Base
      /\ Restarts \in Nat /\ Restarts' = Restarts
  BY <1>0, <1>1, Bases, BasesGrow
<1>3. \A r \in Slots \ {s} : \A l \in Levels :
         /\ r \in Recording(l)' <=> r \in Recording(l)
         /\ r \in Marking(l)' <=> r \in Marking(l)
  BY <1>0, OtherSets
<1>4. \A l \in Levels : /\ s \in Recording(l) <=> l = k
                        /\ s \notin Recording(l)' /\ s \notin Marking(l)
                        /\ s \in Marking(l)' <=> (l = k /\ k # AlertLevelBlock)
  BY <1>1 DEF Recording, Marking, k
<1>5. \A l \in Levels, m \in Months :
         /\ (l = k /\ m = month) => alerts'[l][m] = alerts[l][m] + 1
         /\ ~(l = k /\ m = month) => alerts'[l][m] = alerts[l][m]
  BY <1>0, <1>1 DEF TypeOK
<1>6. ASSUME NEW l \in Early PROVE EarlyRows(l)'
  <2> DEFINE a == Cardinality(Recording(l))
  <2> DEFINE b == Cardinality(Recording(l)')
  <2> DEFINE c == Cardinality(Marking(l))
  <2> DEFINE d == Cardinality(Marking(l)')
  <2>1. l \in Levels /\ l # AlertLevelBlock /\ alerts[l][month] \in Nat
    BY <1>0, EarlyLevels, RowTypes
  <2>2. /\ Recording(l) \subseteq Slots /\ Marking(l) \subseteq Slots
        /\ Recording(l)' \subseteq Slots /\ Marking(l)' \subseteq Slots
    BY DEF Recording, Marking
  <2>3. /\ <<l, month>> \notin sent => alerts[l][month] <= Restarts + c
        /\ alerts[l][month] + a <= Restarts + N
    BY DEF AlertInv, EarlyRows
  <2>4. CASE l = k
    <3>1. Recording(l)' = Recording(l) \ {s} /\ Marking(l)' = Marking(l) \cup {s}
      BY <1>3, <1>4, <2>1, <2>2, <2>4
    <3>2. a \in Nat /\ c \in Nat /\ b = a - 1 /\ d = c + 1
      BY <1>4, <2>1, <2>2, <2>4, <3>1, OneMore
    <3>3. alerts'[l][month] = alerts[l][month] + 1
      BY <1>1, <1>5, <2>1, <2>4
    <3> HIDE DEF a, b, c, d
    <3>4. /\ <<l, month>> \notin sent => alerts'[l][month] <= Restarts + d
          /\ alerts'[l][month] + b <= Restarts + N
      BY <1>2, <2>1, <2>3, <3>2, <3>3
    <3> QED BY <1>1, <1>2, <3>4 DEF EarlyRows, N, b, d
  <2>5. CASE l # k
    <3>1. Recording(l)' = Recording(l) /\ Marking(l)' = Marking(l)
      <4>1. \A r \in Slots : /\ r \in Recording(l)' <=> r \in Recording(l)
                             /\ r \in Marking(l)' <=> r \in Marking(l)
        BY <1>3, <1>4, <2>1, <2>5
      <4>2. Recording(l)' = Recording(l)
        BY <2>2, <4>1
      <4>3. Marking(l)' = Marking(l)
        BY <2>2, <4>1
      <4> QED BY <4>2, <4>3
    <3>2. alerts'[l][month] = alerts[l][month]
      BY <1>1, <1>5, <2>1, <2>5
    <3> QED BY <1>1, <1>2, <2>3, <3>1, <3>2 DEF EarlyRows, N
  <2> QED BY <2>4, <2>5
<1>7. BlockRows'
  <2> DEFINE R == Recording(AlertLevelBlock)
  <2> DEFINE a == Cardinality(R)
  <2> DEFINE b == Cardinality(R')
  <2> DEFINE c == Cardinality(Blockers)
  <2> DEFINE d == Cardinality(Blockers')
  <2> DEFINE rows == alerts[AlertLevelBlock][month]
  <2>1. rows \in Nat
    BY <1>0, EarlyLevels, RowTypes
  <2>2. R \subseteq Slots /\ R' \subseteq Slots /\ Blockers \subseteq Slots /\ Blockers' \subseteq Slots
    BY DEF Recording, Blockers
  <2>3. (~blocked => rows + a <= Base) /\ rows + c <= Base + N
    BY DEF AlertInv, BlockRows
  <2>4. \A r \in Slots \ {s} : (r \in R' <=> r \in R) /\ (r \in Blockers' <=> r \in Blockers)
    BY <1>0, <1>3, OtherSets, EarlyLevels
  <2>5. CASE k = AlertLevelBlock
    <3>1. s \in R /\ s \notin R' /\ s \in Blockers /\ s \notin Blockers'
      BY <1>1, <1>4, <2>5, EarlyLevels DEF Blockers
    <3>2. R' = R \ {s} /\ Blockers' = Blockers \ {s}
      BY <2>2, <2>4, <3>1
    <3>3. a \in Nat /\ c \in Nat /\ b = a - 1 /\ d = c - 1
      BY <2>2, <3>1, <3>2, OneMore
    <3>4. rows' = rows + 1
      <4>1. alerts'[AlertLevelBlock][month] = alerts[AlertLevelBlock][month] + 1
        BY <1>1, <1>5, <2>5, EarlyLevels
      <4> QED BY <1>1, <4>1 DEF AlertLevelBlock
    <3> HIDE DEF a, b, c, d, rows
    <3>5. (~blocked => rows' + b <= Base) /\ rows' + d <= Base + N
      BY <1>2, <2>1, <2>3, <3>3, <3>4
    <3> QED BY <1>1, <1>2, <3>5 DEF BlockRows, N, b, d, rows, R, AlertLevelBlock
  <2>6. CASE k # AlertLevelBlock
    <3>1. s \notin R /\ s \notin R'
      BY <1>4, <2>6, EarlyLevels
    <3>2. s \notin Blockers /\ s \notin Blockers'
      BY <1>1, <2>6, <3>1 DEF Blockers
    <3>3. R' = R /\ Blockers' = Blockers
      BY <2>2, <2>4, <3>1, <3>2
    <3>4. rows' = rows
      <4>1. alerts'[AlertLevelBlock][month] = alerts[AlertLevelBlock][month]
        BY <1>1, <1>5, <2>6, EarlyLevels
      <4> QED BY <1>1, <4>1 DEF AlertLevelBlock
    <3> HIDE DEF rows
    <3> QED BY <1>1, <1>2, <2>3, <3>3, <3>4 DEF BlockRows, N, rows, AlertLevelBlock
  <2> QED BY <2>5, <2>6
<1>8. NothingAhead'
  <2>1. \A l \in Levels, m \in Months :
           m > month' => alerts'[l][m] = 0 /\ <<l, m>> \notin sent'
    BY <1>1, <1>5 DEF AlertInv, NothingAhead, Months
  <2> QED BY <2>1 DEF NothingAhead, Levels, AlertLevelWarning, AlertLevelCritical,
         AlertLevelBlock, Months
<1>9. \A l \in Levels, m \in Months : m # month' => alerts'[l][m] = alerts[l][m]
  BY <1>1, <1>5
<1> QED BY <1>0, <1>2, <1>6, <1>7, <1>8, <1>9, RowsKept

(* The month's key is set: from now on only slots past the check write.     *)
LEMMA MarkRows ==
    ASSUME AlertInv, NEW s \in Slots, MarkAlertSent(s)
    PROVE  AlertInv'
<1> DEFINE k == call[s].level
<1>0. /\ TypeOK /\ TypeOK' /\ \A r \in Slots : LevelKnown(r)
      /\ \A r \in Slots : LevelKnown(r)' /\ Step(s)
  <2>1. Step(s)
    BY DEF Step
  <2> QED BY <2>1, StepTypes, AllLevelsKept DEF AlertInv
<1>1. /\ UNCHANGED <<month, alerts, blocked, crashes, lapses>> /\ pc[s] = "mark"
      /\ k \in Early /\ month \in Months /\ pc'[s] = "idle"
      /\ sent' = sent \cup {<<k, month>>}
  BY <1>0, Leaves DEF MarkAlertSent, history, TypeOK, LevelKnown
<1> HIDE DEF k
<1>2. /\ Base \in Nat /\ N \in Nat /\ Base' = Base
      /\ Restarts \in Nat /\ Restarts' = Restarts
  BY <1>0, <1>1, Bases, BasesGrow
<1>3. \A l \in Levels : /\ s \notin Recording(l) /\ s \notin Recording(l)'
                        /\ s \notin Marking(l)' /\ (s \in Marking(l) <=> l = k)
  BY <1>1 DEF Recording, Marking, k
<1>4. \A r \in Slots : \A l \in Levels :
         /\ r \in Recording(l)' <=> r \in Recording(l)
         /\ l # k => (r \in Marking(l)' <=> r \in Marking(l))
  <2>1. \A r \in Slots \ {s} : \A l \in Levels :
           /\ r \in Recording(l)' <=> r \in Recording(l)
           /\ r \in Marking(l)' <=> r \in Marking(l)
    BY <1>0, OtherSets
  <2>2. ASSUME NEW r \in Slots, NEW l \in Levels
        PROVE  /\ r \in Recording(l)' <=> r \in Recording(l)
               /\ l # k => (r \in Marking(l)' <=> r \in Marking(l))
    <3>1. CASE r = s
      BY <1>3, <3>1
    <3>2. CASE r # s
      BY <2>1, <3>2
    <3> QED BY <3>1, <3>2
  <2> QED BY <2>2
<1>5. ASSUME NEW l \in Levels
      PROVE  Recording(l)' = Recording(l) /\ (l # k => Marking(l)' = Marking(l))
  <2>1. /\ Recording(l) \subseteq Slots /\ Marking(l) \subseteq Slots
        /\ Recording(l)' \subseteq Slots /\ Marking(l)' \subseteq Slots
    BY DEF Recording, Marking
  <2>2. Recording(l)' = Recording(l)
    BY <1>4, <2>1
  <2>3. l # k => Marking(l)' = Marking(l)
    BY <1>4, <2>1
  <2> QED BY <2>2, <2>3
<1>6. ASSUME NEW l \in Early PROVE EarlyRows(l)'
  <2>1. EarlyRows(l) /\ l \in Levels
    BY EarlyLevels DEF AlertInv
  <2>2. <<l, month>> \notin sent' => l # k /\ <<l, month>> \notin sent
    BY <1>1
  <2> QED BY <1>1, <1>2, <1>5, <2>1, <2>2 DEF EarlyRows, N
<1>7. BlockRows'
  <2>1. Recording(AlertLevelBlock)' = Recording(AlertLevelBlock)
    BY <1>5, EarlyLevels
  <2>2. Blockers' = Blockers
    <3>1. /\ Blockers' \subseteq Slots /\ Blockers \subseteq Slots
          /\ s \notin Blockers /\ s \notin Blockers'
      BY <1>1 DEF Blockers, Recording
    <3>2. \A r \in Slots : r \in Blockers' <=> r \in Blockers
      BY <1>0, <3>1, OtherSets
    <3> QED BY <3>1, <3>2
  <2>3. BlockRows
    BY DEF AlertInv
  <2> QED BY <1>1, <1>2, <2>1, <2>2, <2>3 DEF BlockRows, N, AlertLevelBlock
<1>8. NothingAhead'
  <2>1. \A l \in Levels, m \in Months :
           m > month' => alerts'[l][m] = 0 /\ <<l, m>> \notin sent'
    BY <1>1 DEF AlertInv, NothingAhead, Months
  <2> QED BY <2>1 DEF NothingAhead, Levels, AlertLevelWarning, AlertLevelCritical,
         AlertLevelBlock, Months
<1> QED BY <1>0, <1>1, <1>2, <1>6, <1>7, <1>8, RowsKept

LEMMA StepRows ==
    ASSUME AlertInv, NEW s \in Slots, Step(s)
    PROVE  AlertInv'
<1>0. TypeOK
  BY DEF AlertInv
<1>1. CASE pc[s] = "record"
  <2>1. RecordAlert(s)
    BY <1>1 DEF Step, CheckMonthly, Fail, IncrUserQuota, FindLimit, IsUserBlocked, BlockUser,
         IsAlertSent, RecordAlert, MarkAlertSent
  <2> QED BY <2>1, RecordRows
<1>2. CASE pc[s] = "mark"
  <2>1. MarkAlertSent(s)
    BY <1>2 DEF Step, CheckMonthly, Fail, IncrUserQuota, FindLimit, IsUserBlocked, BlockUser,
         IsAlertSent, RecordAlert, MarkAlertSent
  <2> QED BY <2>1, MarkRows
<1>3. CASE pc[s] \notin {"record", "mark"}
  <2>1. CASE IsAlertSent(s) /\ pc'[s] = "record"
    BY <2>1, PassRows
  <2>2. CASE ~(IsAlertSent(s) /\ pc'[s] = "record")
    <3>1. pc'[s] = "record" => BlockUser(s)
      <4>1. ~IsAlertSent(s) /\ ~BlockUser(s) =>
               Leave(s) \/ \E l \in Labels \ {"record"} : Goto(s, l)
        BY <1>3 DEF Step, CheckMonthly, Fail, IncrUserQuota, FindLimit, IsUserBlocked,
             RecordAlert, MarkAlertSent, Labels
      <4> QED BY <1>0, <2>2, <4>1, Moves, Leaves
    <3> QED BY <1>3, <3>1, QuietStepRows
  <2> QED BY <2>1, <2>2
<1> QED BY <1>1, <1>2, <1>3

(* The month turns: no row of it, and no key, is there yet.                 *)
LEMMA MonthRows ==
    ASSUME AlertInv, TypeOK', NextMonth
    PROVE  AlertInv'
<1>1. /\ TypeOK /\ UNCHANGED <<usage, blocked, sent, pc, call, alerts, crashes, lapses>>
      /\ month' = month + 1 /\ month \in Nat /\ month \in Months /\ month' \in Months
  BY DEF AlertInv, NextMonth, keys, history, TypeOK, Months
<1>2. /\ Base \in Nat /\ N \in Nat /\ Base' = Base
      /\ Restarts \in Nat /\ Restarts' = Restarts
  BY <1>1, Bases, BasesGrow
<1>3. /\ \A l : Recording(l)' = Recording(l) /\ Marking(l)' = Marking(l)
      /\ Blockers' = Blockers /\ \A r \in Slots : LevelKnown(r)'
  <2>1. /\ \A l : Recording(l)' = Recording(l) /\ Marking(l)' = Marking(l)
    BY <1>1 DEF Recording, Marking
  <2>2. Blockers' = Blockers
    BY <1>1 DEF Blockers, Recording
  <2>3. \A r \in Slots : LevelKnown(r)'
    BY <1>1 DEF AlertInv, LevelKnown, Early
  <2> QED BY <2>1, <2>2, <2>3
<1>4. \A l \in Levels : /\ alerts[l][month'] = 0 /\ alerts[l][month] \in Nat
  <2>1. month' > month
    BY <1>1
  <2>2. \A l \in Levels : alerts[l][month'] = 0
    BY <1>1, <2>1 DEF AlertInv, NothingAhead
  <2> QED BY <1>1, <2>2, RowTypes
<1>5. ASSUME NEW l \in Early PROVE EarlyRows(l)'
  <2> DEFINE b == Cardinality(Recording(l))
  <2> DEFINE d == Cardinality(Marking(l))
  <2>1. Recording(l) \subseteq Slots /\ Marking(l) \subseteq Slots
    BY DEF Recording, Marking
  <2>2. b \in Nat /\ b <= N /\ d \in Nat
    BY <2>1, Counts
  <2> HIDE DEF b, d
  <2>3. alerts'[l][month'] <= Restarts + d /\ alerts'[l][month'] + b <= Restarts + N
    BY <1>1, <1>2, <1>4, <2>2, EarlyLevels
  <2> QED BY <1>1, <1>2, <1>3, <2>3 DEF EarlyRows, N, b, d
<1>6. BlockRows'
  <2> DEFINE a == Cardinality(Recording(AlertLevelBlock))
  <2> DEFINE c == Cardinality(Blockers)
  <2> DEFINE rows == alerts[AlertLevelBlock][month]
  <2>1. Recording(AlertLevelBlock) \subseteq Slots /\ Blockers \subseteq Slots
    BY DEF Recording, Blockers
  <2>2. a \in Nat /\ c \in Nat /\ c <= N /\ rows \in Nat
    BY <1>4, <2>1, Counts, EarlyLevels
  <2>3. ~blocked => rows + a <= Base
    BY DEF AlertInv, BlockRows
  <2> HIDE DEF a, c, rows
  <2>4. (~blocked => 0 + a <= Base) /\ 0 + c <= Base + N
    BY <1>2, <2>2, <2>3
  <2>5. alerts'[AlertLevelBlock][month'] = 0
    BY <1>1, <1>4, EarlyLevels
  <2>6. /\ ~blocked' => alerts'[AlertLevelBlock][month'] + a <= Base'
        /\ alerts'[AlertLevelBlock][month'] + c <= Base' + N
    BY <1>1, <1>2, <2>4, <2>5
  <2> QED BY <1>3, <2>6 DEF BlockRows, N, a, c, AlertLevelBlock
<1>7. NothingAhead'
  <2>1. \A l \in Levels, m \in Months :
           m > month' => alerts'[l][m] = 0 /\ <<l, m>> \notin sent'
    BY <1>1 DEF AlertInv, NothingAhead, Months
  <2> QED BY <2>1 DEF NothingAhead, Levels, AlertLevelWarning, AlertLevelCritical,
         AlertLevelBlock, Months
<1> QED BY <1>1, <1>2, <1>3, <1>5, <1>6, <1>7, RowsKept

(* The blocked key expires, or the process restarts: a chance more.         *)
LEMMA ChanceRows ==
    ASSUME AlertInv, TypeOK', BlockedExpires \/ Crash
    PROVE  AlertInv'
<1>1. /\ TypeOK /\ UNCHANGED <<month, sent, alerts>>
      /\ Base \in Nat /\ N \in Nat /\ Base' = Base + N
      /\ Restarts \in Nat /\ Restarts' \in Nat /\ Restarts <= Restarts'
      /\ Crash => Restarts' = Restarts + N
  <2>1. /\ TypeOK /\ UNCHANGED <<month, sent, alerts>>
        /\ (crashes' = crashes /\ lapses' = lapses + 1) \/ (lapses' = lapses /\ crashes' = crashes + 1)
        /\ Crash => lapses' = lapses /\ crashes' = crashes + 1
    BY DEF AlertInv, BlockedExpires, Crash, keys
  <2>2. Base \in Nat /\ N \in Nat /\ Restarts \in Nat
    BY <2>1, Bases
  <2>3. Base' = Base + N /\ (Restarts' = Restarts \/ Restarts' = Restarts + N)
        /\ (Crash => Restarts' = Restarts + N)
    BY <2>1, BasesGrow
  <2> QED BY <2>1, <2>2, <2>3
<1>2. /\ \A l : Recording(l)' \subseteq Recording(l)
      /\ Crash => \A l : Recording(l)' = {} /\ Marking(l)' = {}
      /\ ~Crash => \A l : Marking(l)' = Marking(l)
      /\ Blockers' \subseteq Blockers
      /\ ~blocked' \/ Blockers' = {}
  <2>1. CASE Crash
    BY <2>1 DEF Crash, Recording, Marking, Blockers
  <2>2. CASE BlockedExpires /\ ~Crash
    BY <2>2 DEF BlockedExpires, Recording, Marking, Blockers
  <2> QED BY <2>1, <2>2
<1>3. \A r \in Slots : LevelKnown(r)'
  BY DEF BlockedExpires, Crash, AlertInv, LevelKnown, Early
<1>4. ASSUME NEW l \in Early PROVE EarlyRows(l)'
  <2> DEFINE a == Cardinality(Recording(l))
  <2> DEFINE b == Cardinality(Recording(l)')
  <2> DEFINE c == Cardinality(Marking(l))
  <2> DEFINE d == Cardinality(Marking(l)')
  <2>1. alerts[l][month] \in Nat
    BY <1>1, EarlyLevels, RowTypes
  <2>2. /\ Recording(l) \subseteq Slots /\ Marking(l) \subseteq Slots
        /\ Recording(l)' \subseteq Slots /\ Marking(l)' \subseteq Slots
        /\ Recording(l)' \subseteq Recording(l)
    BY <1>2 DEF Recording, Marking
  <2>3. /\ a \in Nat /\ b \in Nat /\ c \in Nat /\ d \in Nat /\ b <= a /\ c <= N
        /\ ~Crash => c = d
    BY <1>2, <2>2, Less, Counts
  <2>4. /\ <<l, month>> \notin sent => alerts[l][month] <= Restarts + c
        /\ alerts[l][month] + a <= Restarts + N
    BY DEF AlertInv, EarlyRows
  <2> HIDE DEF a, b, c, d
  <2>5. /\ <<l, month>> \notin sent => alerts[l][month] <= Restarts' + d
        /\ alerts[l][month] + b <= Restarts' + N
    BY <1>1, <2>1, <2>3, <2>4
  <2> QED BY <1>1, <2>5 DEF EarlyRows, N, b, d
<1>5. BlockRows'
  <2> DEFINE R == Recording(AlertLevelBlock)
  <2> DEFINE a == Cardinality(R)
  <2> DEFINE b == Cardinality(R')
  <2> DEFINE c == Cardinality(Blockers)
  <2> DEFINE d == Cardinality(Blockers')
  <2> DEFINE rows == alerts[AlertLevelBlock][month]
  <2>1. rows \in Nat
    BY <1>1, EarlyLevels, RowTypes
  <2>2. /\ Blockers' \subseteq Blockers /\ Blockers \subseteq Slots
        /\ R' \subseteq Blockers
    <3>1. R' \subseteq R /\ R \subseteq Blockers
      BY <1>2 DEF Blockers
    <3> QED BY <1>2, <3>1 DEF Blockers, Recording
  <2>3. b \in Nat /\ c \in Nat /\ d \in Nat /\ b <= c /\ d <= c
    BY <2>2, Less
  <2>4. rows + c <= Base + N
    BY DEF AlertInv, BlockRows
  <2> HIDE DEF a, b, c, d, rows
  <2>5. rows + b <= Base + N /\ rows + d <= (Base + N) + N
    BY <1>1, <2>1, <2>3, <2>4
  <2>6. rows' = rows
    BY <1>1 DEF rows, AlertLevelBlock
  <2>7. rows' + b <= Base' /\ rows' + d <= Base' + N
    BY <1>1, <2>5, <2>6
  <2> QED BY <2>7 DEF BlockRows, N, rows, b, d, AlertLevelBlock
<1>6. NothingAhead'
  BY <1>1 DEF AlertInv, NothingAhead, Levels, AlertLevelWarning, AlertLevelCritical,
         AlertLevelBlock, Months
<1> QED BY <1>1, <1>3, <1>4, <1>5, <1>6, RowsKept

LEMMA NextRows == AlertInv /\ [Next]_vars => AlertInv'
<1> SUFFICES ASSUME AlertInv, [Next]_vars PROVE AlertInv'
  OBVIOUS
<1>0. TypeOK /\ TypeOK' /\ \A r \in Slots : LevelKnown(r)
  BY NextTypes DEF AlertInv
<1>1. ASSUME NEW s \in Slots, NEW t \in Tokens, NEW c \in Costs, Arrive(s, t, c)
      PROVE  AlertInv'
  <2>1. /\ UNCHANGED <<month, alerts, sent, blocked, crashes, lapses>>
        /\ pc' = [pc EXCEPT ![s] = "monthly"] /\ pc[s] = "idle"
        /\ call' = [call EXCEPT ![s] = Request(t, c)]
    BY <1>1 DEF Arrive, keys, history, Goto
  <2>2. \A r \in Slots : LevelKnown(r)'
    BY <1>0, <2>1 DEF LevelKnown, Request, TypeOK, Early
  <2>3. \A l \in Levels : Recording(l)' \subseteq Recording(l) /\ Marking(l) \subseteq Marking(l)'
    BY <1>0, <2>1 DEF Recording, Marking, TypeOK
  <2>4. Blockers' \subseteq Blockers
    BY <1>0, <2>1 DEF Blockers, Recording, TypeOK
  <2> QED BY <1>0, <2>1, <2>2, <2>3, <2>4, EarlyLevels, QuietRows
<1>2. ASSUME NEW s \in Slots, Step(s) PROVE AlertInv'
  BY <1>2, StepRows
<1>3. CASE NextMonth
  BY <1>0, <1>3, MonthRows
<1>4. CASE BlockedExpires \/ Crash
  BY <1>0, <1>4, ChanceRows
<1>5. CASE UNCHANGED vars
  <2>1. UNCHANGED <<month, alerts, sent, blocked, crashes, lapses, pc, call>>
    BY <1>5 DEF vars, keys, history
  <2>2. \A r \in Slots : LevelKnown(r)'
    BY <1>0, <2>1 DEF LevelKnown, Early
  <2>3. \A l \in Levels : Recording(l)' \subseteq Recording(l) /\ Marking(l) \subseteq Marking(l)'
    BY <2>1 DEF Recording, Marking
  <2>4. Blockers' \subseteq Blockers
    BY <2>1 DEF Blockers, Recording
  <2> QED BY <1>0, <2>1, <2>2, <2>3, <2>4, EarlyLevels, QuietRows
<1> QED BY <1>1, <1>2, <1>3, <1>4, <1>5 DEF Next

LEMMA InitRows == Init => AlertInv
<1> SUFFICES ASSUME Init PROVE AlertInv
  OBVIOUS
<1>1. TypeOK /\ month \in Months /\ \A l \in Levels, m \in Months : alerts[l][m] = 0
  BY InitTypes, AlertAssumption DEF Init, Months
<1>2. Base \in Nat /\ Restarts \in Nat /\ N \in Nat /\ Chances = Base + N
  BY <1>1, Bases
<1>3. Cardinality({}) = 0
  BY FS_EmptySet
<1>4. \A l : Recording(l) = {} /\ Marking(l) = {}
  BY DEF Init, Recording, Marking
<1>5. Blockers = {}
  BY <1>4 DEF Init, Blockers
<1>6. \A l \in Early : EarlyRows(l)
  <2>1. 0 <= Restarts + 0 /\ 0 + 0 <= Restarts + N
    BY <1>2
  <2> QED BY <1>1, <1>3, <1>4, <2>1, EarlyLevels DEF EarlyRows
<1>7. BlockRows
  <2>1. 0 + 0 <= Base /\ 0 + 0 <= Base + N
    BY <1>2
  <2> QED BY <1>1, <1>3, <1>4, <1>5, <2>1, EarlyLevels DEF BlockRows
<1>8. NothingAhead /\ (\A s \in Slots : LevelKnown(s))
  BY <1>1 DEF Init, NothingAhead, LevelKnown
<1>9. AlertsBounded
  <2>1. 0 <= Chances
    BY <1>2
  <2> QED BY <1>1, <2>1 DEF AlertsBounded
<1> QED BY <1>1, <1>6, <1>7, <1>8, <1>9 DEF AlertInv

(* An alert of one level and month is recorded at most once per slot and    *)
(* chance, however the trackers overlap.                                    *)
THEOREM AlertsAreBounded == Spec => []AlertsBounded
<1>1. Init => AlertInv
  BY InitRows
<1>2. AlertInv /\ [Next]_vars => AlertInv'
  BY NextRows
<1>3. AlertInv => AlertsBounded
  BY DEF AlertInv
<1> QED BY <1>1, <1>2, <1>3, PTL DEF Spec
===============================================================================
