-------------------------- MODULE RelayBillingProofs --------------------------
(***************************************************************************)
(* First the batch updater, with arbitrary callers: it is type correct and *)
(* implements DirectUpdates, for any set of rows, any amounts and any      *)
(* number of calls and faults.  Then billing, for any number of users,     *)
(* tokens, overlapping requests, prices and grants: RelayBilling is type   *)
(* correct; with the database read and written directly a user's debt is   *)
(* bounded; what is paid, counted as used and on its way always adds up;   *)
(* and nothing is created.                                                 *)
(***************************************************************************)
EXTENDS RelayBilling, BatchUpdater, FiniteSetTheorems, TLAPS

(* What the updater still owes a row is an integer.                         *)
LEMMA UnflushedType ==
    ASSUME StoreTypeOK, NEW t \in Types, NEW i \in Ids
    PROVE  Unflushed(t, i) \in Int
<1>1. InBatch(t, i) \in Int
  BY DEF InBatch, StoreTypeOK
<1>2. store[t][i] \in Int
  BY DEF StoreTypeOK
<1> QED BY <1>1, <1>2 DEF Unflushed

(* The steps of the updater and of its callers preserve the types.          *)
LEMMA StoreTypeStep ==
    ASSUME StoreTypeOK,
           \/ \E t \in Types, i \in Ids, v \in Int : Update(t, i, v)
           \/ Swap
           \/ \E i \in Ids : Apply(i)
           \/ \E i \in Ids : ApplyFails(i)
           \/ Advance
           \/ Crash
    PROVE  StoreTypeOK'
<1> USE StoreAssumption DEF StoreTypeOK
<1>0. \A c \in Columns, v \in Int : Signed(c, v) \in Int
  BY DEF Signed
<1>0a. ASSUME NEW t \in Types, NEW i \in Ids, NEW v \in Int
       PROVE  Updated(db, t, i, v) \in [Columns -> [Ids -> Int]]
  BY <1>0 DEF Updated
<1>0b. NoRecords \in [Ids -> Int]
  BY DEF NoRecords
<1>1. ASSUME NEW t \in Types, NEW i \in Ids, NEW v \in Int, Update(t, i, v)
      PROVE  StoreTypeOK'
  <2>1. Recorded(store, t, i, v) \in [Types -> [Ids -> Int]]
    BY DEF Recorded
  <2>2. db' \in [Columns -> [Ids -> Int]] /\ store' \in [Types -> [Ids -> Int]]
    <3>1. CASE BatchUpdateEnabled
      BY <1>1, <2>1, <3>1 DEF Update
    <3>2. CASE ~ BatchUpdateEnabled
      BY <1>1, <1>0a, <3>2 DEF Update
    <3> QED BY <3>1, <3>2
  <2> QED BY <1>1, <2>2 DEF Update, updaterVars
<1>2. CASE Swap
  BY <1>2, <1>0b DEF Swap
<1>3. ASSUME NEW i \in Ids, Apply(i)
      PROVE  StoreTypeOK'
  BY <1>3, <1>0a DEF Apply
<1>4. ASSUME NEW i \in Ids, ApplyFails(i)
      PROVE  StoreTypeOK'
  <2>1. lost' \in [Types -> [Ids -> Int]]
    BY <1>4 DEF ApplyFails
  <2> QED BY <1>4, <2>1 DEF ApplyFails
<1>5. CASE Advance
  BY <1>5 DEF Advance, Types
<1>6. CASE Crash
  <2>1. \A t \in Types, i \in Ids : Unflushed(t, i) \in Int
    BY UnflushedType
  <2>2. lost' \in [Types -> [Ids -> Int]]
    BY <1>6, <2>1 DEF Crash
  <2> QED BY <1>6, <2>2, <1>0b DEF Crash, Types
<1> QED BY <1>1, <1>2, <1>3, <1>4, <1>5, <1>6

(* So do the other calls: counting a request as used, and UPDATEs that fail.*)
LEMMA StoreCallTypes ==
    ASSUME StoreTypeOK, NEW t \in Types, NEW i \in Ids, NEW v \in Int,
           \/ UpdateUsedAndCount(i, v)
           \/ UsedAndCountFails(i, v)
           \/ UpdateFails(t, i, v)
           \/ Abandoned
    PROVE  StoreTypeOK'
<1> USE StoreAssumption DEF StoreTypeOK
<1>0. \A c \in Columns, w \in Int : Signed(c, w) \in Int
  BY DEF Signed
<1>1. CASE UpdateUsedAndCount(i, v)
  <2>1. \A m \in [Columns -> [Ids -> Int]], k \in Types, w \in Int :
            Updated(m, k, i, w) \in [Columns -> [Ids -> Int]]
    BY <1>0 DEF Updated
  <2>2. \A m \in [Types -> [Ids -> Int]], k \in Types, w \in Int :
            Recorded(m, k, i, w) \in [Types -> [Ids -> Int]]
    BY DEF Recorded
  <2>3. UsedQuota \in Types /\ RequestCount \in Types
    BY DEF UsedQuota, RequestCount, Types
  <2>4. Updated(Updated(db, UsedQuota, i, v), RequestCount, i, 1)
            \in [Columns -> [Ids -> Int]]
    <3> DEFINE once == Updated(db, UsedQuota, i, v)
    <3>1. once \in [Columns -> [Ids -> Int]]
      BY <2>1, <2>3
    <3> HIDE DEF once
    <3>2. Updated(once, RequestCount, i, 1) \in [Columns -> [Ids -> Int]]
      BY <1>0, <3>1 DEF Updated
    <3> QED BY <3>2 DEF once
  <2>5. Recorded(Recorded(store, UsedQuota, i, v), RequestCount, i, 1)
            \in [Types -> [Ids -> Int]]
    <3> DEFINE once == Recorded(store, UsedQuota, i, v)
    <3>1. once \in [Types -> [Ids -> Int]]
      BY <2>2, <2>3
    <3> HIDE DEF once
    <3>2. Recorded(once, RequestCount, i, 1) \in [Types -> [Ids -> Int]]
      BY <2>3, <3>1 DEF Recorded
    <3> QED BY <3>2 DEF once
  <2>6. db' \in [Columns -> [Ids -> Int]] /\ store' \in [Types -> [Ids -> Int]]
    <3>1. CASE BatchUpdateEnabled
      BY <1>1, <2>5, <3>1 DEF UpdateUsedAndCount
    <3>2. CASE ~BatchUpdateEnabled
      BY <1>1, <2>4, <3>2 DEF UpdateUsedAndCount
    <3> QED BY <3>1, <3>2
  <2> QED BY <1>1, <2>6 DEF UpdateUsedAndCount, updaterVars
<1>2. CASE UsedAndCountFails(i, v)
  <2>1. lost' \in [Types -> [Ids -> Int]]
    BY <1>2 DEF UsedAndCountFails, UsedQuota, RequestCount, Types
  <2>2. faults < MaxFaults /\ faults' = faults + 1
        /\ UNCHANGED <<db, store, type, stage, batch, todo>>
    BY <1>2 DEF UsedAndCountFails
  <2> QED BY <2>1, <2>2
<1>3. CASE UpdateFails(t, i, v)
  <2>1. lost' \in [Types -> [Ids -> Int]]
    BY <1>3 DEF UpdateFails
  <2> QED BY <1>3, <2>1 DEF UpdateFails
<1>4. CASE Abandoned
  BY <1>4 DEF Abandoned, updaterVars
<1> QED BY <1>1, <1>2, <1>3, <1>4

-----------------------------------------------------------------------------
(* Every column belongs to one type of update, and what the columns would   *)
(* read is an integer table.                                                *)
LEMMA ColumnTypes == \A c \in Columns : TypeOf[c] \in Types
BY DEF Columns, TypeOf, Types, UserQuota, TokenQuota, UsedQuota, ChannelUsedQuota,
       RequestCount

LEMMA EffectiveType ==
    ASSUME StoreTypeOK
    PROVE  /\ \A t \in Types, i \in Ids : Unflushed(t, i) \in Int
           /\ Effective \in [Columns -> [Ids -> Int]]
<1>1. \A t \in Types, i \in Ids : Unflushed(t, i) \in Int
  BY UnflushedType
<1>2. \A c \in Columns, i \in Ids :
         db[c][i] + Signed(c, Unflushed(TypeOf[c], i) + lost[TypeOf[c]][i]) \in Int
  BY <1>1, ColumnTypes DEF Signed, StoreTypeOK
<1> QED BY <1>1, <1>2 DEF Effective

(* The strengthened invariant of the store, step by step.                   *)
LEMMA StoreInvStep ==
    ASSUME StoreInv,
           \/ \E t \in Types, i \in Ids, v \in Int : Update(t, i, v)
           \/ Swap
           \/ \E i \in Ids : Apply(i)
           \/ \E i \in Ids : ApplyFails(i)
           \/ Advance
           \/ Crash
    PROVE  StoreInv'
<1>1. StoreTypeOK'
  BY StoreTypeStep DEF StoreInv
<1>2. (stage = "swap" => todo = {})'
  BY DEF StoreInv, Update, updaterVars, Swap, Apply, ApplyFails, Advance, Crash
<1> QED BY <1>1, <1>2 DEF StoreInv

-----------------------------------------------------------------------------
(* One cell of Effective.                                                   *)
Cell(c, i) == db[c][i] + Signed(c, Unflushed(TypeOf[c], i) + lost[TypeOf[c]][i])

(* Swapping, applying, losing and crashing move an update between the       *)
(* database, memory and lost, and leave every cell as it was.               *)
LEMMA UpdaterKeepsCells ==
    ASSUME StoreInv,
           \/ Swap
           \/ \E k \in Ids : Apply(k)
           \/ \E k \in Ids : ApplyFails(k)
           \/ Advance
           \/ Crash,
           NEW c \in Columns, NEW i \in Ids
    PROVE  Cell(c, i)' = Cell(c, i)
<1> DEFINE t == TypeOf[c]
<1>1. t \in Types
  BY ColumnTypes
<1>2. /\ db[c][i] \in Int
      /\ store[t][i] \in Int
      /\ lost[t][i] \in Int
      /\ batch[i] \in Int
  BY <1>1 DEF StoreInv, StoreTypeOK
<1> HIDE DEF t
<1>3. CASE Swap
  <2>1. UNCHANGED <<db, lost, type>> /\ todo = {}
    BY <1>3 DEF Swap, StoreInv
  <2>2. Unflushed(t, i)' = Unflushed(t, i)
    <3>1. CASE t = type
      <4>1. store'[t][i] = 0 /\ batch'[i] = store[t][i]
        BY <1>1, <1>3, <3>1 DEF Swap, StoreInv, StoreTypeOK, NoRecords
      <4>2. i \in todo' <=> store[t][i] # 0
        BY <1>3, <3>1 DEF Swap
      <4> QED BY <1>2, <2>1, <3>1, <4>1, <4>2 DEF Unflushed, InBatch
    <3>2. CASE t # type
      <4>1. store'[t][i] = store[t][i]
        BY <1>1, <1>3, <3>2 DEF Swap, StoreInv, StoreTypeOK
      <4> QED BY <2>1, <3>2, <4>1 DEF Unflushed, InBatch
    <3> QED BY <3>1, <3>2
  <2> QED BY <2>1, <2>2 DEF Cell, t
<1>4. ASSUME NEW k \in Ids, Apply(k)
      PROVE  Cell(c, i)' = Cell(c, i)
  <2>1. UNCHANGED <<store, type, batch, lost>> /\ k \in todo /\ todo' = todo \ {k}
    BY <1>4 DEF Apply
  <2>2. CASE t = type /\ i = k
    <3>1. db'[c][i] = db[c][i] + Signed(c, batch[i])
      BY <1>4, <2>2 DEF Apply, Updated, StoreInv, StoreTypeOK, t
    <3>2. Unflushed(t, i) = store[t][i] + batch[i] /\ Unflushed(t, i)' = store[t][i]
      BY <1>2, <2>1, <2>2 DEF Unflushed, InBatch
    <3> QED BY <1>2, <2>1, <3>1, <3>2 DEF Cell, Signed, t
  <2>3. CASE ~ (t = type /\ i = k)
    <3>1. db'[c][i] = db[c][i]
      BY <1>4, <2>3 DEF Apply, Updated, StoreInv, StoreTypeOK, t
    <3>2. Unflushed(t, i)' = Unflushed(t, i)
      BY <2>1, <2>3 DEF Unflushed, InBatch
    <3> QED BY <2>1, <3>1, <3>2 DEF Cell, t
  <2> QED BY <2>2, <2>3
<1>5. ASSUME NEW k \in Ids, ApplyFails(k)
      PROVE  Cell(c, i)' = Cell(c, i)
  <2>1. UNCHANGED <<db, store, type, batch>> /\ k \in todo /\ todo' = todo \ {k}
    BY <1>5 DEF ApplyFails
  <2>2. CASE t = type /\ i = k
    <3>1. lost'[t][i] = lost[t][i] + batch[i]
      BY <1>1, <1>5, <2>2 DEF ApplyFails, StoreInv, StoreTypeOK
    <3>2. Unflushed(t, i) = store[t][i] + batch[i] /\ Unflushed(t, i)' = store[t][i]
      BY <1>2, <2>1, <2>2 DEF Unflushed, InBatch
    <3> QED BY <1>2, <2>1, <3>1, <3>2 DEF Cell, Signed, t
  <2>3. CASE ~ (t = type /\ i = k)
    <3>1. lost'[t][i] = lost[t][i]
      BY <1>1, <1>5, <2>3 DEF ApplyFails, StoreInv, StoreTypeOK
    <3>2. Unflushed(t, i)' = Unflushed(t, i)
      BY <2>1, <2>3 DEF Unflushed, InBatch
    <3> QED BY <2>1, <3>1, <3>2 DEF Cell, t
  <2> QED BY <2>2, <2>3
<1>6. CASE Advance
  <2>1. UNCHANGED <<db, store, lost, todo>> /\ todo = {}
    BY <1>6 DEF Advance
  <2>2. Unflushed(t, i)' = Unflushed(t, i)
    BY <2>1 DEF Unflushed, InBatch
  <2> QED BY <2>1, <2>2 DEF Cell, t
<1>7. CASE Crash
  <2>1. UNCHANGED db /\ lost'[t][i] = lost[t][i] + Unflushed(t, i)
    BY <1>1, <1>7 DEF Crash
  <2>2. Unflushed(t, i)' = 0
    BY <1>1, <1>7 DEF Crash, Unflushed, InBatch, NoRecords
  <2>3. Unflushed(t, i) \in Int
    BY <1>1, UnflushedType DEF StoreInv
  <2> QED BY <1>2, <2>1, <2>2, <2>3 DEF Cell, t
<1> QED BY <1>3, <1>4, <1>5, <1>6, <1>7

(* A call adds its amount to the cells of its row and type, whichever path  *)
(* it takes.                                                                *)
LEMMA UpdateChangesCells ==
    ASSUME StoreInv, NEW t \in Types, NEW k \in Ids, NEW v \in Int, Update(t, k, v),
           NEW c \in Columns, NEW i \in Ids
    PROVE  Cell(c, i)' = IF TypeOf[c] = t /\ i = k THEN Cell(c, i) + Signed(c, v)
                                                   ELSE Cell(c, i)
<1>1. TypeOf[c] \in Types
  BY ColumnTypes
<1>2. /\ db[c][i] \in Int
      /\ store[TypeOf[c]][i] \in Int
      /\ lost[TypeOf[c]][i] \in Int
      /\ InBatch(TypeOf[c], i) \in Int
  BY <1>1 DEF StoreInv, StoreTypeOK, InBatch
<1>3. UNCHANGED <<type, batch, todo, lost>>
  BY DEF Update, updaterVars
<1>4. InBatch(TypeOf[c], i)' = InBatch(TypeOf[c], i)
  BY <1>3 DEF InBatch
<1>5. CASE BatchUpdateEnabled
  <2>1. /\ db' = db
        /\ store'[TypeOf[c]][i] = IF TypeOf[c] = t /\ i = k
                                  THEN store[TypeOf[c]][i] + v
                                  ELSE store[TypeOf[c]][i]
    BY <1>1, <1>5 DEF Update, Recorded, StoreInv, StoreTypeOK
  <2> QED BY <1>2, <1>3, <1>4, <2>1 DEF Cell, Unflushed, Signed
<1>6. CASE ~ BatchUpdateEnabled
  <2>1. /\ store' = store
        /\ db'[c][i] = IF TypeOf[c] = t /\ i = k THEN db[c][i] + Signed(c, v)
                                                 ELSE db[c][i]
    BY <1>6 DEF Update, Updated, StoreInv, StoreTypeOK
  <2> QED BY <1>2, <1>3, <1>4, <2>1 DEF Cell, Unflushed, Signed
<1> QED BY <1>5, <1>6

(* An update that fails is lost, and counts the same.                       *)
LEMMA FailureChangesCells ==
    ASSUME StoreInv, NEW t \in Types, NEW k \in Ids, NEW v \in Int, UpdateFails(t, k, v),
           NEW c \in Columns, NEW i \in Ids
    PROVE  Cell(c, i)' = IF TypeOf[c] = t /\ i = k THEN Cell(c, i) + Signed(c, v)
                                                   ELSE Cell(c, i)
<1>1. TypeOf[c] \in Types
  BY ColumnTypes
<1>2. /\ db[c][i] \in Int
      /\ lost[TypeOf[c]][i] \in Int
      /\ Unflushed(TypeOf[c], i) \in Int
  BY <1>1, UnflushedType DEF StoreInv, StoreTypeOK
<1>3. UNCHANGED <<db, store, type, batch, todo>>
  BY DEF UpdateFails
<1>4. Unflushed(TypeOf[c], i)' = Unflushed(TypeOf[c], i)
  BY <1>3 DEF Unflushed, InBatch
<1>5. lost'[TypeOf[c]][i] = IF TypeOf[c] = t /\ i = k THEN lost[TypeOf[c]][i] + v
                                                      ELSE lost[TypeOf[c]][i]
  BY <1>1 DEF UpdateFails, StoreInv, StoreTypeOK
<1> QED BY <1>2, <1>3, <1>4, <1>5 DEF Cell, Signed

(* Nothing the store holds has moved.                                       *)
LEMMA QuietStore ==
    ASSUME UNCHANGED <<db, store, type, batch, todo, lost>>, NEW c \in Columns, NEW i \in Ids
    PROVE  Cell(c, i)' = Cell(c, i)
<1>1. Unflushed(TypeOf[c], i)' = Unflushed(TypeOf[c], i)
  BY DEF Unflushed, InBatch
<1> QED BY <1>1 DEF Cell

(* The consumption that is counted, or lost, moves the two columns of the   *)
(* user, and no other.                                                      *)
LEMMA CountChangesCells ==
    ASSUME StoreInv, NEW k \in Ids, NEW v \in Int,
           UpdateUsedAndCount(k, v) \/ UsedAndCountFails(k, v),
           NEW c \in Columns, NEW i \in Ids
    PROVE  Cell(c, i)' = IF i # k THEN Cell(c, i)
                         ELSE IF TypeOf[c] = UsedQuota THEN Cell(c, i) + v
                         ELSE IF TypeOf[c] = RequestCount THEN Cell(c, i) + 1
                         ELSE Cell(c, i)
<1> DEFINE t == TypeOf[c]
           More == IF i # k THEN 0 ELSE IF t = UsedQuota THEN v
                   ELSE IF t = RequestCount THEN 1 ELSE 0
<1>0. UsedQuota \in Types /\ RequestCount \in Types /\ UsedQuota # RequestCount
  BY DEF UsedQuota, RequestCount, Types
<1>1. t \in Types
  BY ColumnTypes
<1>2. /\ db[c][i] \in Int /\ store[t][i] \in Int /\ lost[t][i] \in Int
      /\ InBatch(t, i) \in Int /\ More \in Int
  BY <1>1 DEF StoreInv, StoreTypeOK, InBatch
<1>2a. Cell(c, i) \in Int
  BY <1>2 DEF Cell, Signed, Unflushed
<1>3. UNCHANGED <<type, batch, todo>>
  BY DEF UpdateUsedAndCount, UsedAndCountFails, updaterVars
<1>4. InBatch(t, i)' = InBatch(t, i)
  BY <1>3 DEF InBatch
<1>5. \A w \in Int : More # 0 => Signed(c, w) = w
  <2>1. t = UsedQuota \/ t = RequestCount => c # "tokens.used_quota"
    BY DEF TypeOf, Columns, UsedQuota, RequestCount, TokenQuota
  <2> QED BY <2>1 DEF Signed
<1>6. CASE UsedAndCountFails(k, v)
  <2>1. lost' = [lost EXCEPT ![UsedQuota][k] = @ + v, ![RequestCount][k] = @ + 1]
        /\ UNCHANGED <<db, store>>
    BY <1>6 DEF UsedAndCountFails
  <2>2. lost'[t][i] = lost[t][i] + More
    BY <1>0, <1>1, <1>2, <2>1 DEF StoreInv, StoreTypeOK
  <2> HIDE DEF t, More
  <2>3. Cell(c, i)' = Cell(c, i) + More
    BY <1>2, <1>4, <1>5, <2>1, <2>2 DEF Cell, Unflushed, Signed, t
  <2> QED BY <1>2a, <2>3 DEF t, More
<1>7. CASE UpdateUsedAndCount(k, v) /\ BatchUpdateEnabled
  <2>1. store' = Recorded(Recorded(store, UsedQuota, k, v), RequestCount, k, 1)
        /\ UNCHANGED <<db, lost>>
    BY <1>7 DEF UpdateUsedAndCount, updaterVars
  <2>2. store'[t][i] = store[t][i] + More
    BY <1>0, <1>1, <1>2, <2>1 DEF StoreInv, StoreTypeOK, Recorded
  <2> HIDE DEF t, More
  <2>3. Cell(c, i)' = Cell(c, i) + More
    BY <1>2, <1>4, <1>5, <2>1, <2>2 DEF Cell, Unflushed, Signed, t
  <2> QED BY <1>2a, <2>3 DEF t, More
<1>8. CASE UpdateUsedAndCount(k, v) /\ ~BatchUpdateEnabled
  <2>1. db' = Updated(Updated(db, UsedQuota, k, v), RequestCount, k, 1)
        /\ UNCHANGED <<store, lost>>
    BY <1>8 DEF UpdateUsedAndCount, updaterVars
  <2>2. db'[c][i] = db[c][i] + More
    <3>0. t \in {UsedQuota, RequestCount} => \A w : Signed(c, w) = w
      BY DEF Signed, TypeOf, Columns, UsedQuota, RequestCount, TokenQuota
    <3>1. Updated(db, UsedQuota, k, v)[c] =
              IF t = UsedQuota THEN [db[c] EXCEPT ![k] = @ + v] ELSE db[c]
      BY <3>0 DEF Updated
    <3>2. db'[c] = IF t = RequestCount
                   THEN [Updated(db, UsedQuota, k, v)[c] EXCEPT ![k] = @ + 1]
                   ELSE Updated(db, UsedQuota, k, v)[c]
      <4>1. PICK d : d = Updated(db, UsedQuota, k, v)
        OBVIOUS
      <4>2. Updated(d, RequestCount, k, 1)[c] =
                IF t = RequestCount THEN [d[c] EXCEPT ![k] = @ + 1] ELSE d[c]
        BY <3>0 DEF Updated
      <4> QED BY <2>1, <4>1, <4>2
    <3>3. db[c] \in [Ids -> Int]
      BY DEF StoreInv, StoreTypeOK
    <3> DEFINE D == Updated(db, UsedQuota, k, v)[c]
    <3>4. D \in [Ids -> Int] /\ D[i] = IF t = UsedQuota /\ i = k THEN db[c][i] + v ELSE db[c][i]
      BY <3>1, <3>3
    <3> HIDE DEF D
    <3>5. db'[c][i] = IF t = RequestCount /\ i = k THEN D[i] + 1 ELSE D[i]
      BY <3>2, <3>4 DEF D
    <3> QED BY <1>0, <1>2, <3>4, <3>5
  <2> HIDE DEF t, More
  <2>3. Cell(c, i)' = Cell(c, i) + More
    BY <1>2, <1>4, <1>5, <2>1, <2>2 DEF Cell, Unflushed, Signed, t
  <2> QED BY <1>2a, <2>3 DEF t, More
<1> QED BY <1>6, <1>7, <1>8

-----------------------------------------------------------------------------
(* Every reachable state of the updater has the types its fields have in    *)
(* model/utils.go.                                                          *)
THEOREM TypeCorrect == BatchSpec => []BatchTypeOK
<1>1. BatchInit => BatchTypeOK
  BY StoreAssumption, BatchAssumption
  DEF BatchInit, BatchTypeOK, StoreInit, StoreTypeOK, NoRecords, Types
<1>2. BatchTypeOK /\ [BatchNext]_batchVars => BatchTypeOK'
  <2> SUFFICES ASSUME BatchTypeOK, [BatchNext]_batchVars PROVE BatchTypeOK'
    OBVIOUS
  <2>1. CASE UNCHANGED batchVars
    BY <2>1 DEF batchVars, storeVars, BatchTypeOK, StoreTypeOK
  <2>2. ASSUME NEW t \in Types, NEW i \in Ids, NEW v \in Deltas, Call(t, i, v)
        PROVE  BatchTypeOK'
    BY <2>2, StoreTypeStep, BatchAssumption DEF Call, BatchTypeOK
  <2>3. ASSUME UNCHANGED calls,
               \/ Swap
               \/ \E i \in Ids : Apply(i)
               \/ \E i \in Ids : ApplyFails(i)
               \/ Advance
               \/ Crash
        PROVE  BatchTypeOK'
    BY <2>3, StoreTypeStep DEF BatchTypeOK
  <2> QED BY <2>1, <2>2, <2>3 DEF BatchNext
<1> QED BY <1>1, <1>2, PTL DEF BatchSpec

(* The invariant the refinement rests on: no record is in the updater's     *)
(* hands when it swaps a map, so the swap cannot overwrite one.             *)
THEOREM StoreInvariant == BatchSpec => []StoreInv
<1>1. BatchInit => StoreInv
  BY StoreAssumption DEF BatchInit, StoreInit, StoreInv, StoreTypeOK, NoRecords, Types
<1>2. StoreInv /\ [BatchNext]_batchVars => StoreInv'
  <2> SUFFICES ASSUME StoreInv, [BatchNext]_batchVars PROVE StoreInv'
    OBVIOUS
  <2>1. CASE UNCHANGED batchVars
    BY <2>1 DEF batchVars, storeVars, StoreInv, StoreTypeOK
  <2>2. ASSUME NEW t \in Types, NEW i \in Ids, NEW v \in Deltas, Call(t, i, v)
        PROVE  StoreInv'
    BY <2>2, StoreInvStep, BatchAssumption DEF Call
  <2>3. ASSUME \/ Swap
               \/ \E i \in Ids : Apply(i)
               \/ \E i \in Ids : ApplyFails(i)
               \/ Advance
               \/ Crash
        PROVE  StoreInv'
    BY <2>3, StoreInvStep
  <2> QED BY <2>1, <2>2, <2>3 DEF BatchNext
<1> QED BY <1>1, <1>2, PTL DEF BatchSpec

(* A table equal to Effective cell by cell, before and after a step.        *)
LEMMA EffectiveCells == Effective = [c \in Columns |-> [i \in Ids |-> Cell(c, i)]]
BY DEF Effective, Cell

(* A step of the updater is a stuttering step of DirectUpdates, a call is   *)
(* one of its updates.                                                      *)
LEMMA StepImplementsDirect == StoreInv /\ [BatchNext]_batchVars => [Direct!Next]_Effective
<1> SUFFICES ASSUME StoreInv, [BatchNext]_batchVars PROVE [Direct!Next]_Effective
  OBVIOUS
<1>1. CASE UNCHANGED batchVars
  BY <1>1 DEF batchVars, storeVars, Effective, Unflushed, InBatch
<1>2. ASSUME NEW t \in Types, NEW k \in Ids, NEW v \in Deltas, Call(t, k, v)
      PROVE  Direct!Next
  <2>1. Update(t, k, v) /\ v \in Int
    BY <1>2, BatchAssumption DEF Call
  <2>2. \A c \in Columns, i \in Ids :
           Cell(c, i)' = IF TypeOf[c] = t /\ i = k THEN Cell(c, i) + Signed(c, v)
                                                  ELSE Cell(c, i)
    BY <2>1, UpdateChangesCells
  <2>3. Effective' = [c \in Columns |-> [i \in Ids |->
           IF TypeOf[c] = t /\ i = k THEN Cell(c, i) + Signed(c, v) ELSE Cell(c, i)]]
    BY <2>2 DEF Effective, Cell
  <2>4. Direct!Update(t, k, v)
    BY <2>3, EffectiveCells DEF Direct!Update
  <2> QED BY <2>4 DEF Direct!Next
<1>3. ASSUME \/ Swap
             \/ \E i \in Ids : Apply(i)
             \/ \E i \in Ids : ApplyFails(i)
             \/ Advance
             \/ Crash
      PROVE  UNCHANGED Effective
  <2>1. \A c \in Columns, i \in Ids : Cell(c, i)' = Cell(c, i)
    BY <1>3, UpdaterKeepsCells
  <2> QED BY <2>1 DEF Effective, Cell
<1> QED BY <1>1, <1>2, <1>3 DEF BatchNext

(* Batching is transparent to callers: for any rows, amounts and schedule,  *)
(* what is in the database, in memory and lost adds up to what executing    *)
(* every update at once would have produced.                                *)
THEOREM BatchingIsTransparent == BatchSpec => DirectSpec
<1>1. BatchInit => Direct!Init
  <2> SUFFICES ASSUME BatchInit PROVE \A c \in Columns, i \in Ids : Cell(c, i) = 0
    BY EffectiveCells DEF Direct!Init
  <2> TAKE c \in Columns, i \in Ids
  <2> QED BY ColumnTypes DEF BatchInit, StoreInit, NoRecords, Cell, Unflushed, InBatch,
                             Signed
<1>2. StoreInv /\ [BatchNext]_batchVars => [Direct!Next]_Effective
  BY StepImplementsDirect
<1> QED BY <1>1, <1>2, StoreInvariant, PTL DEF BatchSpec, DirectSpec, Direct!Spec

(***************************************************************************)
(* Relay billing                                                           *)
(***************************************************************************)
LEMMA StoreUnchanged == StoreTypeOK /\ UNCHANGED storeVars => StoreTypeOK'
BY DEF StoreTypeOK, storeVars

LEMMA BlankType == Blank \in Requests
<1>1. (CHOOSE t \in Tokens : TRUE) \in Tokens
  BY BillingAssumption
<1> QED BY <1>1, BillingAssumption DEF Blank, Request, Requests

(* The assignments to a request's local variables keep its type. *)
LEMMA RequestTypes ==
    ASSUME TypeOK, NEW s \in Slots
    PROVE  /\ req[s] \in Requests
           /\ User(s) \in Users /\ User(s) \in Ids
           /\ req[s].tok \in Tokens /\ req[s].tok \in Ids
           /\ Delta(s) \in Int
           /\ \A x \in Int : [req EXCEPT ![s].seen = x] \in [Slots -> Requests]
           /\ \A x \in 0..MaxCost : [req EXCEPT ![s].pre = x] \in [Slots -> Requests]
           /\ \A q \in Int : PreConsumed(s, q) \in 0..MaxCost
           /\ [req EXCEPT ![s].kind = "rollback"] \in [Slots -> Requests]
           /\ [req EXCEPT ![s] = Blank] \in [Slots -> Requests]
<1>1. req[s] \in Requests
  BY DEF TypeOK
<1>2. /\ req[s].tok \in Tokens /\ req[s].tok \in Ids
      /\ User(s) \in Users /\ User(s) \in Ids
  BY <1>1, BillingAssumption DEF Requests, User
<1>3. req[s].cost \in 0..MaxCost /\ req[s].pre \in 0..MaxCost
  BY <1>1 DEF Requests
<1>4. Delta(s) \in Int /\ \A q \in Int : PreConsumed(s, q) \in 0..MaxCost
  BY <1>3, BillingAssumption DEF Delta, Price, PreConsumed
<1>5. \A x \in Int : [req EXCEPT ![s].seen = x] \in [Slots -> Requests]
  BY <1>1 DEF TypeOK, Requests
<1>6. \A x \in 0..MaxCost : [req EXCEPT ![s].pre = x] \in [Slots -> Requests]
  BY <1>1 DEF TypeOK, Requests
<1>7. [req EXCEPT ![s].kind = "rollback"] \in [Slots -> Requests]
  BY <1>1 DEF TypeOK, Requests
<1>8. [req EXCEPT ![s] = Blank] \in [Slots -> Requests]
  BY BlankType DEF TypeOK
<1> QED BY <1>1, <1>2, <1>4, <1>5, <1>6, <1>7, <1>8

(* What every action that leaves the histories and the store alone must     *)
(* still show.                                                              *)
LEMMA SlotTypes ==
    ASSUME TypeOK, StoreTypeOK', NEW s \in Slots,
           UNCHANGED <<tokens, ledgers>>,
           NEW l \in Labels, Goto(s, l),
           req' \in [Slots -> Requests],
           cached' \subseteq Users, cache' \in [Users -> Int]
    PROVE  TypeOK'
<1>1. pc' \in [Slots -> Labels]
  BY DEF TypeOK, Goto
<1> QED BY <1>1 DEF TypeOK, tokens, ledgers

(* Deciding on an integer balance leads to an existing label.               *)
LEMMA DecideTypes ==
    ASSUME TypeOK, NEW s \in Slots, NEW q \in Int, Decide(s, q)
    PROVE  /\ req' \in [Slots -> Requests]
           /\ \E l \in Labels : Goto(s, l)
<1>1. CASE ~Sufficient(s, q)
  BY <1>1, RequestTypes DEF Decide, Leave, Labels
<1>2. CASE Sufficient(s, q)
  <2>1. req' \in [Slots -> Requests]
    <3>1. PreConsumed(s, q) \in 0..MaxCost
      BY RequestTypes
    <3>2. req' = [req EXCEPT ![s].pre = PreConsumed(s, q)]
      BY <1>2 DEF Decide
    <3>3. \A x \in 0..MaxCost : [req EXCEPT ![s].pre = x] \in [Slots -> Requests]
      BY RequestTypes
    <3> HIDE DEF PreConsumed
    <3> QED BY <3>1, <3>2, <3>3
  <2>2. CASE req[s].kind = "speech" /\ RedisEnabled
    BY <1>2, <2>1, <2>2 DEF Decide, Labels
  <2>3. CASE ~(req[s].kind = "speech" /\ RedisEnabled) /\ PreConsumed(s, q) > 0
    BY <1>2, <2>1, <2>3 DEF Decide, Labels
  <2>4. CASE ~(req[s].kind = "speech" /\ RedisEnabled) /\ ~(PreConsumed(s, q) > 0)
    BY <1>2, <2>1, <2>4 DEF Decide, Labels
  <2> QED BY <2>2, <2>3, <2>4
<1> QED BY <1>1, <1>2

(* The calls a slot makes of the store, with any amount.                    *)
LEMMA UpdateTypes ==
    ASSUME StoreTypeOK, NEW t \in Types, NEW i \in Ids, NEW v \in Int,
           Update(t, i, v) \/ UpdateFails(t, i, v)
    PROVE  StoreTypeOK'
BY StoreTypeStep, StoreCallTypes

(* A value that was read goes into seen.                                    *)
LEMMA SeeTypes ==
    ASSUME TypeOK, StoreTypeOK', NEW s \in Slots, NEW x \in Int, NEW l \in Labels,
           See(s, x, l), UNCHANGED <<tokens, ledgers>>,
           cached' \subseteq Users, cache' \in [Users -> Int]
    PROVE  TypeOK'
<1>1. req' \in [Slots -> Requests]
  BY RequestTypes DEF See
<1>2. Goto(s, l)
  BY DEF See
<1> QED BY <1>1, <1>2, SlotTypes

LEMMA StepTypes ==
    ASSUME TypeOK, NEW s \in Slots, Step(s)
    PROVE  TypeOK'
<1> DEFINE u == User(s)
<1>0. /\ u \in Users /\ quota(u) \in Int
      /\ req[s] \in Requests /\ req[s].seen \in Int /\ req[s].cost \in Int
  <2>1. u \in Users /\ u \in Ids /\ req[s] \in Requests
    BY RequestTypes
  <2>2. req[s].seen \in Int /\ req[s].cost \in Int
    BY <2>1 DEF Requests
  <2>3. "users.quota" \in Columns
    BY DEF Columns
  <2>4. quota(u) \in Int
    BY <2>1, <2>3 DEF quota, TypeOK, StoreTypeOK
  <2> QED BY <2>1, <2>2, <2>4
<1>0a. cached \subseteq Users /\ cache \in [Users -> Int] /\ req \in [Slots -> Requests]
       /\ StoreTypeOK
  BY DEF TypeOK
<1>0b. ASSUME UNCHANGED storeVars PROVE StoreTypeOK'
  BY <1>0a, <1>0b, StoreUnchanged
<1>0c. ASSUME UNCHANGED caches PROVE cached' \subseteq Users /\ cache' \in [Users -> Int]
  BY <1>0a, <1>0c DEF caches
<1>0d. ASSUME Fill(s) PROVE cached' \subseteq Users /\ cache' \in [Users -> Int]
  BY <1>0, <1>0a, <1>0d DEF Fill
<1> HIDE DEF u
<1>1. CASE CheckQuota(s)
  <2>1. See(s, quota(u), "used")
    BY <1>1 DEF CheckQuota, u
  <2> QED BY <1>1, <2>1, <1>0, <1>0b, <1>0c, SeeTypes
      DEF CheckQuota, Labels
<1>2. CASE CheckUsed(s)
  BY <1>2, <1>0a, <1>0b, <1>0c, RequestTypes, SlotTypes DEF CheckUsed, Leave, Labels
<1>3. CASE GetBalance(s)
  <2>1. req' \in [Slots -> Requests] /\ \E l \in Labels : Goto(s, l)
    <3>1. CASE ~RedisEnabled
      BY <1>3, <3>1, <1>0, DecideTypes DEF GetBalance, u
    <3>2. CASE RedisEnabled /\ u \in cached /\ cache[u] > 0
      BY <1>3, <3>2, <1>0, <1>0a, DecideTypes DEF GetBalance, u
    <3>3. CASE RedisEnabled /\ ~(u \in cached /\ cache[u] > 0)
      BY <1>3, <3>3, <1>0a DEF GetBalance, Labels, u
    <3> QED BY <3>1, <3>2, <3>3, BillingAssumption
  <2> QED BY <1>3, <2>1, <1>0b, <1>0c, SlotTypes DEF GetBalance
<1>4. CASE FetchBalance(s)
  <2>1. See(s, quota(u), "fill")
    BY <1>4 DEF FetchBalance, u
  <2> QED BY <1>4, <2>1, <1>0, <1>0b, <1>0c, SeeTypes
      DEF FetchBalance, Labels
<1>5. CASE FillBalance(s)
  BY <1>5, <1>0, <1>0b, <1>0d, DecideTypes, SlotTypes DEF FillBalance
<1>6. CASE Reserve(s)
  <2>0. Reserved(s) \in Int
    BY <1>0 DEF Reserved
  <2>1. cached' \subseteq Users /\ cache' \in [Users -> Int]
    BY <1>6, <2>0, <1>0, <1>0a DEF Reserve, u
  <2> QED BY <1>6, <2>1, <1>0a, <1>0b, SlotTypes DEF Reserve, Labels
<1>7. CASE PreCheckToken(s)
  BY <1>7, <1>0a, <1>0b, <1>0c, RequestTypes, SlotTypes DEF PreCheckToken, Leave, Labels
<1>8. CASE PreCheckUser(s)
  BY <1>8, <1>0a, <1>0b, <1>0c, RequestTypes, SlotTypes DEF PreCheckUser, Leave, Labels
<1> DEFINE pre == -req[s].pre
           delta == -Delta(s)
<1>9. pre \in Int /\ delta \in Int /\ Delta(s) \in Int /\ req[s].pre \in Int
  <2>1. req[s].pre \in Int
    BY <1>0 DEF Requests
  <2>2. Delta(s) \in Int
    BY RequestTypes
  <2> QED BY <2>1, <2>2
<1>9a. TokenQuota \in Types /\ UserQuota \in Types /\ ChannelUsedQuota \in Types
  BY DEF TokenQuota, UserQuota, ChannelUsedQuota, Types
<1>9b. User(s) \in Ids /\ User(s) \in Users /\ req[s].tok \in Ids
  BY RequestTypes
<1>10. CASE TakeFromToken(s)
  <2>1. Update(TokenQuota, req[s].tok, pre)
    BY <1>10 DEF TakeFromToken
  <2>2. StoreTypeOK'
    <3> HIDE DEF pre
    <3> QED BY <2>1, <1>0a, <1>9, <1>9a, <1>9b, UpdateTypes
  <2> QED BY <1>10, <2>2, <1>0a, <1>0c, SlotTypes DEF TakeFromToken, Labels
<1>11. CASE TakeFromUser(s)
  <2>1. Update(UserQuota, User(s), pre)
    BY <1>11 DEF TakeFromUser
  <2>2. StoreTypeOK'
    <3> HIDE DEF pre
    <3> QED BY <2>1, <1>0a, <1>9, <1>9a, <1>9b, UpdateTypes
  <2> QED BY <1>11, <2>2, <1>0a, <1>0c, SlotTypes DEF TakeFromUser, Labels
<1>12. CASE TakeFails(s)
  <2>1. StoreTypeOK'
    BY <1>12, <1>0, <1>0a, <1>9a, <1>9b, StoreCallTypes DEF TakeFails
  <2>2. leak' \in [Slots -> [Users -> Int]]
    <3>1. leak \in [Slots -> [Users -> Int]]
      BY DEF TypeOK
    <3>2. CASE pc[s] = "takeUser" /\ req[s].tok \notin Unlimited
      BY <1>12, <1>9, <1>9b, <3>1, <3>2 DEF TakeFails
    <3>3. CASE ~(pc[s] = "takeUser" /\ req[s].tok \notin Unlimited)
      BY <1>12, <1>9b, <3>1, <3>3 DEF TakeFails
    <3> QED BY <3>2, <3>3
  <2>3. req' \in [Slots -> Requests] /\ pc' \in [Slots -> Labels]
    BY <1>12, RequestTypes DEF TakeFails, Leave, Goto, TypeOK, Labels
  <2> QED BY <1>12, <2>1, <2>2, <2>3, <1>0c DEF TakeFails, TypeOK, tokens
<1>13. CASE Answer(s)
  BY <1>13, <1>0a, <1>0b, <1>0c, SlotTypes DEF Answer, Labels
<1>14. CASE Fail(s)
  BY <1>14, <1>0b, <1>0c, RequestTypes, SlotTypes DEF Fail, Leave, Labels
<1>15. ASSUME AfterCharge(s)
       PROVE  req' \in [Slots -> Requests] /\ \E l \in Labels : Goto(s, l)
  BY <1>15, <1>0a, RequestTypes DEF AfterCharge, Leave, Labels
<1>16. ASSUME AfterUser(s)
       PROVE  req' \in [Slots -> Requests] /\ \E l \in Labels : Goto(s, l)
  BY <1>15, <1>16, <1>0a DEF AfterUser, Labels
<1>17. CASE FindToken(s)
  <2>1. req' \in [Slots -> Requests] /\ \E l \in Labels : Goto(s, l)
    <3>1. CASE req[s].tok \in live
      BY <1>17, <3>1, <1>0a DEF FindToken, Labels
    <3>2. CASE req[s].tok \notin live
      BY <1>17, <3>2, <1>15 DEF FindToken
    <3> QED BY <3>1, <3>2
  <2>2. pc' \in [Slots -> Labels]
    BY <2>1 DEF Goto, TypeOK
  <2>3. offBook' \in [Slots -> [Users -> Int]]
    <3>1. offBook \in [Slots -> [Users -> Int]]
      BY DEF TypeOK
    <3>2. CASE req[s].tok \in live
      BY <1>17, <3>1, <3>2 DEF FindToken
    <3>3. CASE req[s].tok \notin live
      <4> HIDE DEF delta
      <4>1. offBook' = [offBook EXCEPT ![s][User(s)] = @ - Delta(s)]
        BY <1>17, <3>3 DEF FindToken
      <4> QED BY <4>1, <1>9, <1>9b, <3>1
    <3> QED BY <3>2, <3>3
  <2> QED BY <1>17, <2>1, <2>2, <2>3, <1>0b, <1>0c DEF FindToken, TypeOK, tokens
<1>18. CASE ChargeUser(s)
  <2>0. Update(UserQuota, User(s), delta)
    BY <1>18 DEF ChargeUser
  <2>1. StoreTypeOK'
    <3> HIDE DEF delta
    <3> QED BY <2>0, <1>0a, <1>9, <1>9a, <1>9b, UpdateTypes
  <2> QED BY <1>18, <2>1, <1>16, <1>0c, SlotTypes DEF ChargeUser
<1>19. CASE ChargeUserFails(s)
  <2>0. UpdateFails(UserQuota, User(s), delta)
    BY <1>19 DEF ChargeUserFails
  <2>1. StoreTypeOK'
    <3> HIDE DEF delta
    <3> QED BY <2>0, <1>0a, <1>9, <1>9a, <1>9b, UpdateTypes
  <2> QED BY <1>19, <2>1, <1>16, <1>0c, SlotTypes DEF ChargeUserFails
<1>20. CASE ChargeToken(s)
  <2>0. \/ Update(TokenQuota, req[s].tok, delta)
        \/ UpdateFails(TokenQuota, req[s].tok, delta)
    BY <1>20 DEF ChargeToken
  <2>1. StoreTypeOK'
    <3> HIDE DEF delta
    <3> QED BY <2>0, <1>0a, <1>9, <1>9a, <1>9b, UpdateTypes
  <2> QED BY <1>20, <2>1, <1>15, <1>0c, SlotTypes DEF ChargeToken
<1>21. CASE Refresh(s)
  <2>1. cache[u] \in Int
    BY <1>0, <1>0a
  <2>2. req' \in [Slots -> Requests] /\ \E l \in Labels : Goto(s, l)
    <3>1. CASE User(s) \in cached /\ cache[User(s)] > 0
      <4>1. See(s, cache[u], "store")
        BY <1>21, <3>1 DEF Refresh, u
      <4> QED BY <4>1, <2>1, RequestTypes DEF See, Labels
    <3>2. CASE ~(User(s) \in cached /\ cache[User(s)] > 0)
      BY <1>21, <3>2, <1>0a DEF Refresh, Labels
    <3> QED BY <3>1, <3>2
  <2> QED BY <1>21, <2>2, <1>0b, <1>0c, SlotTypes DEF Refresh
<1>22. CASE Refetch(s)
  <2>1. See(s, quota(u), "refill")
    BY <1>22 DEF Refetch, u
  <2> QED BY <1>22, <2>1, <1>0, <1>0b, <1>0c, SeeTypes
      DEF Refetch, Labels
<1>23. CASE Store(s)
  BY <1>23, <1>0a, <1>0b, <1>0d, SlotTypes DEF Store, Labels
<1>24. CASE Count(s)
  <2>1. StoreTypeOK'
    <3>1. CASE UNCHANGED storeVars
      BY <3>1, <1>0b
    <3>2. CASE \/ UpdateUsedAndCount(User(s), req[s].cost)
               \/ UsedAndCountFails(User(s), req[s].cost)
      BY <3>2, <1>0, <1>0a, <1>9a, <1>9b, StoreCallTypes
    <3> QED BY <1>24, <3>1, <3>2 DEF Count
  <2>2. req' \in [Slots -> Requests] /\ \E l \in Labels : Goto(s, l)
    BY <1>24, <1>0a, RequestTypes DEF Count, Leave, Labels
  <2> QED BY <1>24, <2>1, <2>2, <1>0c, SlotTypes DEF Count
<1>25. CASE CountChannel(s)
  <2>1. StoreTypeOK'
    BY <1>25, <1>0, <1>0a, <1>9a, BillingAssumption, UpdateTypes DEF CountChannel
  <2> QED BY <1>25, <2>1, <1>0c, RequestTypes, SlotTypes DEF CountChannel, Leave, Labels
<1> QED BY <1>1, <1>2, <1>3, <1>4, <1>5, <1>6, <1>7, <1>8, <1>10, <1>11, <1>12,
           <1>13, <1>14, <1>17, <1>18, <1>19, <1>20, <1>21, <1>22, <1>23, <1>24,
           <1>25 DEF Step, Proceed, Upstream

(* Every reachable state has the types the fields and variables have in the *)
(* relay, its cache and its store, whatever fails or dies on the way.       *)
THEOREM RelayTypeCorrect == Spec => []TypeOK
<1>1. Init => TypeOK
  <2> SUFFICES ASSUME Init PROVE TypeOK
    OBVIOUS
  <2>1. Initially \in [Columns -> [Ids -> Int]]
    BY BillingAssumption DEF Initially
  <2>2. StoreTypeOK
    BY <2>1, StoreAssumption DEF Init, StoreInit, StoreTypeOK, NoRecords, Types
  <2> QED BY <2>2, BlankType, BillingAssumption DEF Init, TypeOK, Labels
<1>2. TypeOK /\ [Next]_vars => TypeOK'
  <2> SUFFICES ASSUME TypeOK, [Next]_vars PROVE TypeOK'
    OBVIOUS
  <2>0. StoreTypeOK
    BY DEF TypeOK
  <2>1. CASE UNCHANGED vars
    BY <2>1, StoreUnchanged DEF vars, billingVars, TypeOK
  <2>2. ASSUME NEW s \in Slots, NEW t \in Tokens, NEW k \in Kinds, NEW c \in Costs,
               Arrive(s, t, k, c)
        PROVE  TypeOK'
    <3>1. Request(t, k, c) \in Requests
      BY BillingAssumption DEF Request, Requests
    <3>2. req' \in [Slots -> Requests] /\ pc' \in [Slots -> Labels]
      BY <2>2, <3>1 DEF Arrive, Goto, TypeOK, Labels
    <3>3. StoreTypeOK'
      BY <2>0, <2>2, StoreUnchanged DEF Arrive
    <3>4. requests' \in 0..MaxRequests
      BY <2>2, BillingAssumption DEF Arrive, TypeOK
    <3> QED BY <2>2, <3>2, <3>3, <3>4 DEF Arrive, TypeOK, caches, ledgers
  <2>3. ASSUME NEW s \in Slots, Step(s) PROVE TypeOK'
    BY <2>3, StepTypes
  <2>4. ASSUME NEW t \in Tokens, Exhaust(t) \/ Delete(t) PROVE TypeOK'
    <3>1. StoreTypeOK'
      BY <2>0, <2>4, StoreUnchanged DEF Exhaust, Delete
    <3> QED BY <2>4, <3>1 DEF Exhaust, Delete, TypeOK, caches, ledgers
  <2>5. ASSUME NEW u \in Users, Expire(u) PROVE TypeOK'
    <3>1. StoreTypeOK'
      BY <2>0, <2>5, StoreUnchanged DEF Expire
    <3> QED BY <2>5, <3>1 DEF Expire, TypeOK, tokens, ledgers
  <2>6. ASSUME Updater \/ \E i \in Ids : ApplyFails(i), UNCHANGED billingVars
        PROVE  TypeOK'
    BY <2>0, <2>6, StoreTypeStep DEF Updater, billingVars, TypeOK
  <2>7. CASE Die
    <3>1. StoreTypeOK'
      BY <2>0, <2>7, StoreTypeStep DEF Die
    <3>2. \A s \in Slots, u \in Users : Uncounted(s, u) \in Int /\ TokenAhead(s, u) \in Int
      <4> TAKE s \in Slots, u \in Users
      <4>1. req[s] \in Requests /\ Delta(s) \in Int
        BY RequestTypes
      <4>2. req[s].pre \in Int /\ Price(s) \in Int
        BY <4>1, BillingAssumption DEF Requests, Price
      <4>3. -Delta(s) \in Int
        BY <4>1
      <4> QED BY <4>1, <4>2, <4>3 DEF Uncounted, TokenAhead
    <3>3. offBook' \in [Slots -> [Users -> Int]] /\ leak' \in [Slots -> [Users -> Int]]
      BY <2>7, <3>2 DEF Die, TypeOK
    <3> QED BY <2>7, <3>1, <3>3, BlankType DEF Die, TypeOK, Labels, caches, tokens
  <2> QED BY <2>1, <2>2, <2>3, <2>4, <2>5, <2>6, <2>7 DEF Next
<1> QED BY <1>1, <1>2, PTL DEF Spec

-----------------------------------------------------------------------------
(* The bound on a user's debt, for a database that is read and written      *)
(* directly.  What makes it inductive: no Redis step is ever due, the       *)
(* updater has nothing in its hands, and whatever was pre-consumed is the   *)
(* whole price, so settling such a request takes nothing more.              *)
Uncached == ~RedisEnabled /\ ~BatchUpdateEnabled

DirectInv ==
    /\ TypeOK
    /\ stage = "swap"
    /\ \A s \in Slots : pc[s] \notin {"fetch", "fill", "reserve"}
    /\ \A s \in Slots : req[s].pre # 0 => req[s].pre = req[s].cost
    /\ OverdraftBounded

LEMMA Monotone ==
    ASSUME NEW m \in Nat, NEW a \in Int, NEW b \in Int, a <= b
    PROVE  m * a <= m * b /\ m * (a - 1) = m * a - m
OBVIOUS

Bound(u) == quota(u) >= MaxCost * (Cardinality(Charging(u)) - Cardinality(Slots))

(* The three ways in which a step keeps the bound: nobody starts charging u *)
(* and u loses nothing; a request charges its price and is done; a request  *)
(* starts while there is no debt.                                           *)
LEMMA BoundKept ==
    ASSUME NEW u \in Users, Bound(u), quota(u) \in Int, quota(u)' \in Int,
           \/ Charging(u)' \subseteq Charging(u) /\ quota(u)' >= quota(u)
           \/ \E s \in Charging(u) : /\ Charging(u)' \subseteq Charging(u) \ {s}
                                     /\ quota(u)' >= quota(u) - MaxCost
           \/ quota(u)' >= 0
    PROVE  Bound(u)'
<1> DEFINE C == Charging(u)
           D == Charging(u)'
           N == Cardinality(Slots)
<1>0. C \subseteq Slots /\ D \subseteq Slots /\ IsFiniteSet(Slots) /\ MaxCost \in Nat
  BY BillingAssumption DEF Charging
<1>1. /\ IsFiniteSet(C) /\ IsFiniteSet(D)
      /\ Cardinality(C) \in Nat /\ Cardinality(D) \in Nat /\ N \in Nat
      /\ Cardinality(D) <= N
  BY <1>0, FS_Subset, FS_CardinalityType
<1>2. SUFFICES quota(u)' >= MaxCost * (Cardinality(D) - N)
  BY DEF Bound
<1>3. quota(u) >= MaxCost * (Cardinality(C) - N)
  BY DEF Bound
<1> HIDE DEF C, D, N
<1>4. CASE D \subseteq C /\ quota(u)' >= quota(u)
  <2>1. Cardinality(D) <= Cardinality(C)
    BY <1>1, <1>4, FS_Subset
  <2>2. Cardinality(D) - N <= Cardinality(C) - N
    BY <1>1, <2>1
  <2>3. MaxCost * (Cardinality(D) - N) <= MaxCost * (Cardinality(C) - N)
    BY <1>0, <1>1, <2>2, Monotone
  <2>4. MaxCost * (Cardinality(D) - N) \in Int /\ MaxCost * (Cardinality(C) - N) \in Int
    BY <1>0, <1>1
  <2> QED BY <1>3, <1>4, <2>3, <2>4
<1>5. ASSUME NEW s \in C, D \subseteq C \ {s}, quota(u)' >= quota(u) - MaxCost
      PROVE  quota(u)' >= MaxCost * (Cardinality(D) - N)
  <2>1. /\ IsFiniteSet(C \ {s})
        /\ Cardinality(C \ {s}) = Cardinality(C) - 1
    BY <1>1, <1>5, FS_RemoveElement
  <2>2. Cardinality(D) <= Cardinality(C) - 1
    BY <1>1, <1>5, <2>1, FS_Subset
  <2>3. Cardinality(D) - N <= (Cardinality(C) - N) - 1
    BY <1>1, <2>2
  <2>4. MaxCost * (Cardinality(D) - N) <= MaxCost * ((Cardinality(C) - N) - 1)
    BY <1>0, <1>1, <2>3, Monotone
  <2>5. MaxCost * ((Cardinality(C) - N) - 1) = MaxCost * (Cardinality(C) - N) - MaxCost
    BY <1>0, <1>1, Monotone
  <2>6. MaxCost * (Cardinality(D) - N) \in Int /\ MaxCost * (Cardinality(C) - N) \in Int
    BY <1>0, <1>1
  <2> QED BY <1>0, <1>3, <1>5, <2>4, <2>5, <2>6
<1>6. CASE quota(u)' >= 0
  <2>1. MaxCost * (Cardinality(D) - N) <= MaxCost * 0
    <3>1. Cardinality(D) - N <= 0
      BY <1>1
    <3> QED BY <1>0, <1>1, <3>1, Monotone
  <2>2. MaxCost * (Cardinality(D) - N) \in Int /\ MaxCost * 0 = 0
    BY <1>0, <1>1
  <2> QED BY <1>6, <2>1, <2>2
<1> QED BY <1>4, <1>5, <1>6 DEF C, D

-----------------------------------------------------------------------------
(* With batching off an update of a row is one of the database.             *)
LEMMA QuotaAfterUpdate ==
    ASSUME Uncached, TypeOK, NEW u \in Users,
           NEW t \in Types, NEW i \in Ids, NEW v \in Int, Update(t, i, v)
    PROVE  quota(u)' = IF t = UserQuota /\ i = u THEN quota(u) + v ELSE quota(u)
<1>1. "users.quota" \in Columns /\ TypeOf["users.quota"] = UserQuota
  BY DEF Columns, TypeOf
<1>2. db' = Updated(db, t, i, v)
  BY DEF Uncached, Update
<1>3. u \in Ids /\ db["users.quota"] \in [Ids -> Int]
  BY <1>1, BillingAssumption DEF TypeOK, StoreTypeOK
<1>4. db'["users.quota"] = IF UserQuota = t
                           THEN [db["users.quota"] EXCEPT ![i] = @ + Signed("users.quota", v)]
                           ELSE db["users.quota"]
  BY <1>1, <1>2 DEF Updated
<1>5. Signed("users.quota", v) = v
  BY DEF Signed
<1> QED BY <1>3, <1>4, <1>5 DEF quota

LEMMA QuotaAfterCount ==
    ASSUME Uncached, TypeOK, NEW u \in Users, NEW i \in Ids, NEW v \in Int,
           UpdateUsedAndCount(i, v)
    PROVE  quota(u)' = quota(u)
<1>1. /\ "users.quota" \in Columns
      /\ TypeOf["users.quota"] # UsedQuota /\ TypeOf["users.quota"] # RequestCount
  BY DEF Columns, TypeOf, UserQuota, UsedQuota, RequestCount
<1>2. db' = Updated(Updated(db, UsedQuota, i, v), RequestCount, i, 1)
  BY DEF Uncached, UpdateUsedAndCount
<1>3. \A m, t : \A w \in Int : TypeOf["users.quota"] # t
          => Updated(m, t, i, w)["users.quota"] = m["users.quota"]
  BY <1>1 DEF Updated
<1>4. Updated(db, UsedQuota, i, v)["users.quota"] = db["users.quota"]
  BY <1>1, <1>3
<1>5. db'["users.quota"] = db["users.quota"]
  BY <1>1, <1>2, <1>3, <1>4 DEF Updated
<1> QED BY <1>5 DEF quota

(* A step of a slot leaves the others where they are.                       *)
LEMMA OneSlotMoves ==
    ASSUME TypeOK, NEW s \in Slots, Step(s), NEW r \in Slots, r # s
    PROVE  pc'[r] = pc[r] /\ req'[r] = req[r]
<1>1. \A l : Goto(s, l) => pc'[r] = pc[r]
  BY DEF Goto, TypeOK
<1>2. \A l, x : See(s, x, l) => pc'[r] = pc[r] /\ req'[r] = req[r]
  BY <1>1 DEF See, TypeOK
<1>3. Leave(s) => pc'[r] = pc[r] /\ req'[r] = req[r]
  BY <1>1 DEF Leave, TypeOK
<1>4. \A q : Decide(s, q) => pc'[r] = pc[r] /\ req'[r] = req[r]
  BY <1>1, <1>3 DEF Decide, TypeOK
<1>5. AfterCharge(s) => pc'[r] = pc[r] /\ req'[r] = req[r]
  BY <1>1, <1>3 DEF AfterCharge
<1>6. AfterUser(s) => pc'[r] = pc[r] /\ req'[r] = req[r]
  BY <1>1, <1>5 DEF AfterUser
<1>7. [req EXCEPT ![s].kind = "rollback"][r] = req[r]
  BY DEF TypeOK
<1> QED BY <1>1, <1>2, <1>3, <1>4, <1>5, <1>6, <1>7
    DEF Step, Proceed, Upstream,
        CheckQuota, CheckUsed, GetBalance, FetchBalance, FillBalance, Reserve,
        PreCheckToken, PreCheckUser, TakeFromToken, TakeFromUser, TakeFails, Answer,
        Fail, FindToken, ChargeUser, ChargeUserFails, ChargeToken, Refresh, Refetch,
        Store, Count, CountChannel

(* So a step charges nobody new unless its own slot starts to charge.       *)
LEMMA ChargingMoves ==
    ASSUME TypeOK, NEW s \in Slots, Step(s), NEW u \in Users
    PROVE  Charging(u)' \ {s} \subseteq Charging(u) \ {s}
BY OneSlotMoves DEF Charging, User

(* Steps that charge nobody new and take nothing from a balance.            *)
LEMMA QuietStep ==
    ASSUME Uncached, TypeOK, TypeOK', NEW s \in Slots, Step(s), NEW u \in Users, Bound(u),
           s \in Charging(u)' => s \in Charging(u),
           quota(u)' >= quota(u)
    PROVE  Bound(u)'
<1>1. Charging(u)' \subseteq Charging(u)
  BY ChargingMoves
<1>2. "users.quota" \in Columns /\ u \in Ids
  BY BillingAssumption DEF Columns
<1>3. quota(u) \in Int /\ quota(u)' \in Int
  BY <1>2 DEF quota, TypeOK, StoreTypeOK
<1> QED BY <1>1, <1>3, BoundKept

(* A balance only changes in the steps that take or return quota.           *)
LEMMA OtherStepsKeepQuota ==
    ASSUME Uncached, TypeOK, NEW s \in Slots, Step(s), NEW u \in Users,
           ~TakeFromUser(s), ~ChargeUser(s)
    PROVE  quota(u)' = quota(u)
<1>1. User(s) \in Ids /\ req[s].tok \in Ids /\ req[s] \in Requests /\ Delta(s) \in Int
  BY RequestTypes
<1>2. CASE db' = db
  BY <1>2 DEF quota
<1> DEFINE pre == -req[s].pre
           delta == -Delta(s)
           cost == req[s].cost
<1>3. pre \in Int /\ delta \in Int /\ cost \in Int
  BY <1>1 DEF Requests
<1>4. /\ TokenQuota \in Types /\ ChannelUsedQuota \in Types
      /\ TokenQuota # UserQuota /\ ChannelUsedQuota # UserQuota
  BY DEF TokenQuota, ChannelUsedQuota, UserQuota, Types
<1> HIDE DEF pre, delta, cost
<1>5. CASE Update(TokenQuota, req[s].tok, pre)
  BY <1>1, <1>3, <1>4, <1>5, QuotaAfterUpdate
<1>6. CASE Update(TokenQuota, req[s].tok, delta)
  BY <1>1, <1>3, <1>4, <1>6, QuotaAfterUpdate
<1>7. CASE Update(ChannelUsedQuota, Channel, cost)
  BY <1>1, <1>3, <1>4, <1>7, QuotaAfterUpdate, BillingAssumption
<1>8. CASE UpdateUsedAndCount(User(s), cost)
  BY <1>1, <1>3, <1>8, QuotaAfterCount
<1>9. \/ db' = db
      \/ Update(TokenQuota, req[s].tok, pre)
      \/ Update(TokenQuota, req[s].tok, delta)
      \/ Update(ChannelUsedQuota, Channel, cost)
      \/ UpdateUsedAndCount(User(s), cost)
  BY DEF Step, Proceed, Upstream,
         CheckQuota, CheckUsed, GetBalance, FetchBalance, FillBalance, Reserve,
         PreCheckToken, PreCheckUser, TakeFromToken, TakeFails, Answer,
         Fail, FindToken, ChargeUserFails, ChargeToken, Refresh, Refetch,
         Store, Count, CountChannel, storeVars, Abandoned, UpdateFails,
         UsedAndCountFails, pre, delta, cost
<1> QED BY <1>2, <1>5, <1>6, <1>7, <1>8, <1>9

(* Where a slot stands after a move.                                        *)
LEMMA Moves ==
    ASSUME TypeOK, NEW s \in Slots
    PROVE  /\ \A l : Goto(s, l) => pc'[s] = l
           /\ \A l, x : See(s, x, l) => pc'[s] = l
           /\ Leave(s) => pc'[s] = "idle"
           /\ AfterCharge(s) => pc'[s] \in {"idle", "refresh", "count"}
           /\ AfterUser(s) => pc'[s] \in {"idle", "refresh", "count", "chargeToken"}
<1>1. \A l : Goto(s, l) => pc'[s] = l
  BY DEF Goto, TypeOK
<1> QED BY <1>1 DEF See, Leave, AfterCharge, AfterUser

(* Without Redis only a decision on the balance makes a slot start to charge.*)
LEMMA OtherStepsStartNothing ==
    ASSUME TypeOK, NEW s \in Slots, Step(s), NEW u \in Users,
           pc[s] \notin {"fetch", "fill", "reserve"}, ~GetBalance(s),
           s \in Charging(u)'
    PROVE  s \in Charging(u)
<1>0. /\ User(s)' = u
      /\ pc'[s] \in {"preToken", "preUser", "takeToken", "takeUser",
                     "upstream", "settle", "chargeUser"}
      /\ pc'[s] \in {"upstream", "settle", "chargeUser"} => req'[s].pre = 0
  BY DEF Charging
<1>1. CASE req' = req /\ (pc[s] \in {"preToken", "preUser", "takeToken", "takeUser"}
                          \/ (pc[s] \in {"upstream", "settle"}
                              /\ pc'[s] \in {"settle", "chargeUser"}))
  BY <1>0, <1>1 DEF Charging, User
<1>2. CASE TakeFromUser(s)
  BY <1>1, <1>2 DEF TakeFromUser
<1>3. CASE PreCheckToken(s)
  BY <1>0, <1>1, <1>3, Moves DEF PreCheckToken
<1>4. CASE PreCheckUser(s)
  BY <1>0, <1>1, <1>4, Moves DEF PreCheckUser
<1>5. CASE TakeFromToken(s)
  BY <1>1, <1>5 DEF TakeFromToken
<1>6. CASE Answer(s)
  BY <1>0, <1>1, <1>6, Moves DEF Answer
<1>7. CASE FindToken(s)
  BY <1>0, <1>1, <1>7, Moves DEF FindToken
<1>8. CASE Fail(s)
  <2>1. CASE req[s].pre > 0
    <3>1. req'[s].pre = req[s].pre
      BY <1>8, <2>1 DEF Fail, TypeOK, Requests
    <3> QED BY <1>0, <1>8, <2>1, <3>1, Moves DEF Fail
  <2>2. CASE ~(req[s].pre > 0)
    BY <1>0, <1>8, <2>2, Moves DEF Fail
  <2> QED BY <2>1, <2>2
<1>9. CASE CheckQuota(s) \/ CheckUsed(s) \/ TakeFails(s) \/ Refresh(s) \/ Refetch(s)
           \/ Store(s) \/ Count(s) \/ CountChannel(s)
  BY <1>0, <1>9, Moves
  DEF CheckQuota, CheckUsed, TakeFails, Refresh, Refetch, Store, Count, CountChannel
<1>10. CASE ChargeUser(s) \/ ChargeUserFails(s) \/ ChargeToken(s)
  BY <1>0, <1>10, Moves DEF ChargeUser, ChargeUserFails, ChargeToken
<1>11. ~FetchBalance(s) /\ ~FillBalance(s) /\ ~Reserve(s)
  BY DEF FetchBalance, FillBalance, Reserve
<1> QED BY <1>2, <1>3, <1>4, <1>5, <1>6, <1>7, <1>8, <1>9, <1>10, <1>11
        DEF Step, Proceed, Upstream

LEMMA BoundStep ==
    ASSUME Uncached, DirectInv, TypeOK', NEW s \in Slots, Step(s), NEW u \in Users
    PROVE  Bound(u)'
<1>1. TypeOK /\ Bound(u) /\ pc[s] \notin {"fetch", "fill", "reserve"}
      /\ (req[s].pre # 0 => req[s].pre = req[s].cost)
  BY DEF DirectInv, OverdraftBounded, Bound
<1>2. /\ User(s) \in Ids /\ User(s) \in Users /\ req[s].tok \in Tokens
      /\ req[s] \in Requests /\ Delta(s) \in Int
  BY <1>1, RequestTypes
<1>3. quota(u) \in Int /\ quota(u)' \in Int
  <2>1. "users.quota" \in Columns /\ u \in Ids
    BY BillingAssumption DEF Columns
  <2> QED BY <1>1, <2>1 DEF quota, TypeOK, StoreTypeOK
<1>4. req[s].pre \in 0..MaxCost /\ req[s].cost \in 0..MaxCost /\ MaxCost \in Nat
  BY <1>2, BillingAssumption DEF Requests
<1>5. UserQuota \in Types
  BY DEF UserQuota, Types
<1>6. ASSUME ~GetBalance(s), quota(u)' >= quota(u)
      PROVE  Bound(u)'
  BY <1>1, <1>6, OtherStepsStartNothing, QuietStep
<1>7. CASE GetBalance(s)
  <2>1. ~TakeFromUser(s) /\ ~ChargeUser(s)
    BY <1>7 DEF GetBalance, TakeFromUser, ChargeUser
  <2>2. quota(u)' = quota(u)
    BY <1>1, <2>1, OtherStepsKeepQuota
  <2>3. CASE s \in Charging(u)'
    <3>1. pc'[s] # "idle" /\ User(s)' = u
      BY <2>3 DEF Charging
    <3>2. Decide(s, quota(User(s)))
      BY <1>7 DEF GetBalance, Uncached
    <3>3. /\ Sufficient(s, quota(User(s)))
          /\ req' = [req EXCEPT ![s].pre = PreConsumed(s, quota(User(s)))]
      BY <1>1, <3>1, <3>2, Moves DEF Decide
    <3>4. User(s)' = User(s)
      BY <1>1, <3>3 DEF User, TypeOK, Requests
    <3>5. quota(u) >= 0
      BY <1>3, <1>4, <3>1, <3>3, <3>4 DEF Sufficient
    <3> QED BY <1>1, <1>3, <2>2, <3>5, BoundKept
  <2>4. CASE s \notin Charging(u)'
    BY <1>1, <1>3, <2>2, <2>4, QuietStep
  <2> QED BY <2>3, <2>4
<1>8. CASE TakeFromUser(s)
  <2> DEFINE v == -req[s].pre
  <2>1. v \in Int /\ v <= 0 /\ v >= -MaxCost
    BY <1>4
  <2>2. Update(UserQuota, User(s), v) /\ pc[s] = "takeUser" /\ pc'[s] = "upstream"
        /\ req' = req
    BY <1>1, <1>8, Moves DEF TakeFromUser
  <2>3. quota(u)' = IF User(s) = u THEN quota(u) + v ELSE quota(u)
    <3> HIDE DEF v
    <3> QED BY <1>1, <1>2, <1>5, <2>1, <2>2, QuotaAfterUpdate
  <2>4. ~GetBalance(s)
    BY <2>2 DEF GetBalance
  <2>5. CASE User(s) # u \/ req[s].pre = 0
    BY <1>3, <1>6, <2>3, <2>4, <2>5
  <2>6. CASE User(s) = u /\ req[s].pre # 0
    <3>1. s \in Charging(u) /\ s \notin Charging(u)'
      BY <2>2, <2>6 DEF Charging
    <3>2. Charging(u)' \subseteq Charging(u) \ {s}
      BY <1>1, <3>1, ChargingMoves
    <3>3. quota(u)' >= quota(u) - MaxCost
      BY <1>3, <1>4, <2>1, <2>3, <2>6
    <3> QED BY <1>1, <1>3, <3>1, <3>2, <3>3, BoundKept
  <2> QED BY <2>5, <2>6
<1>9. CASE ChargeUser(s)
  <2> DEFINE v == -Delta(s)
  <2>1. v \in Int /\ v >= -MaxCost /\ (req[s].pre # 0 => v >= 0)
    BY <1>1, <1>4 DEF Delta, Price
  <2>2. Update(UserQuota, User(s), v) /\ pc[s] = "chargeUser"
        /\ pc'[s] \in {"idle", "refresh", "count", "chargeToken"}
    BY <1>1, <1>9, Moves DEF ChargeUser
  <2>3. quota(u)' = IF User(s) = u THEN quota(u) + v ELSE quota(u)
    <3> HIDE DEF v
    <3> QED BY <1>1, <1>2, <1>5, <2>1, <2>2, QuotaAfterUpdate
  <2>4. ~GetBalance(s)
    BY <2>2 DEF GetBalance
  <2>5. CASE User(s) # u \/ req[s].pre # 0
    <3> HIDE DEF v
    <3> QED BY <1>3, <1>6, <2>1, <2>3, <2>4, <2>5
  <2>6. CASE User(s) = u /\ req[s].pre = 0
    <3>1. s \in Charging(u) /\ s \notin Charging(u)'
      BY <2>2, <2>6 DEF Charging
    <3>2. Charging(u)' \subseteq Charging(u) \ {s}
      BY <1>1, <3>1, ChargingMoves
    <3>3. quota(u)' >= quota(u) - MaxCost
      <4> HIDE DEF v
      <4> QED BY <1>3, <1>4, <2>1, <2>3, <2>6
    <3> QED BY <1>1, <1>3, <3>1, <3>2, <3>3, BoundKept
  <2> QED BY <2>5, <2>6
<1>10. CASE ~GetBalance(s) /\ ~TakeFromUser(s) /\ ~ChargeUser(s)
  BY <1>1, <1>3, <1>6, <1>10, OtherStepsKeepQuota
<1> QED BY <1>7, <1>8, <1>9, <1>10

(* The rest of the invariant, for the slot that moves.                      *)
LEMMA ShapeStep ==
    ASSUME Uncached, DirectInv, NEW s \in Slots, Step(s)
    PROVE  /\ stage' = "swap"
           /\ \A r \in Slots : pc'[r] \notin {"fetch", "fill", "reserve"}
           /\ \A r \in Slots : req'[r].pre # 0 => req'[r].pre = req'[r].cost
<1>1. TypeOK /\ stage = "swap"
      /\ pc[s] \notin {"fetch", "fill", "reserve"}
      /\ (req[s].pre # 0 => req[s].pre = req[s].cost)
  BY DEF DirectInv
<1>2. stage' = "swap"
  BY <1>1 DEF Step, Proceed, Upstream,
              CheckQuota, CheckUsed, GetBalance, FetchBalance, FillBalance, Reserve,
         PreCheckToken, PreCheckUser, TakeFromToken, TakeFromUser, TakeFails, Answer,
         Fail, FindToken, ChargeUser, ChargeUserFails, ChargeToken, Refresh, Refetch,
         Store, Count, CountChannel, storeVars, Abandoned, UpdateFails, Update,
         UpdateUsedAndCount, UsedAndCountFails, updaterVars
<1> DEFINE Good == pc'[s] \notin {"fetch", "fill", "reserve"}
           Whole == req'[s].pre # 0 => req'[s].pre = req'[s].cost
<1>3. req' = req => Whole
  BY <1>1
<1>4. \A x, l : See(s, x, l) => Whole
  BY <1>1 DEF See, TypeOK, Requests
<1>5. Leave(s) => Good /\ Whole
  <2>1. Blank.pre = 0
    BY DEF Blank, Request
  <2> QED BY <1>1, <2>1, Moves DEF Leave, TypeOK
<1>6. AfterCharge(s) => Good /\ Whole
  BY <1>1, <1>3, <1>5, Moves DEF AfterCharge
<1>7. AfterUser(s) => Good /\ Whole
  BY <1>1, <1>3, <1>6, Moves DEF AfterUser
<1>8. Good /\ Whole
  <2>1. CASE GetBalance(s)
    <3>1. Decide(s, quota(User(s)))
      BY <2>1 DEF GetBalance, Uncached
    <3>2. CASE ~Sufficient(s, quota(User(s)))
      BY <1>5, <3>1, <3>2 DEF Decide
    <3>3. CASE Sufficient(s, quota(User(s)))
      <4>1. Good
        BY <1>1, <3>1, <3>3, Moves DEF Decide, Uncached
      <4>2. req' = [req EXCEPT ![s].pre = PreConsumed(s, quota(User(s)))]
        BY <3>1, <3>3 DEF Decide
      <4>3. /\ req'[s].pre = PreConsumed(s, quota(User(s)))
            /\ req'[s].cost = req[s].cost
        BY <1>1, <4>2 DEF TypeOK, Requests
      <4> QED BY <4>1, <4>3 DEF PreConsumed
    <3> QED BY <3>2, <3>3
  <2>2. CASE Fail(s)
    <3>1. [req EXCEPT ![s].kind = "rollback"][s].pre = req[s].pre
          /\ [req EXCEPT ![s].kind = "rollback"][s].cost = req[s].cost
      BY <1>1 DEF TypeOK, Requests
    <3> QED BY <1>1, <1>5, <2>2, <3>1, Moves DEF Fail
  <2>3. CASE CheckQuota(s) \/ Refresh(s) \/ Refetch(s)
    BY <1>1, <1>3, <1>4, <2>3, Moves DEF CheckQuota, Refresh, Refetch
  <2>4. CASE CheckUsed(s) \/ PreCheckToken(s) \/ PreCheckUser(s) \/ TakeFromToken(s)
             \/ TakeFromUser(s) \/ TakeFails(s) \/ Answer(s) \/ Store(s) \/ Count(s)
             \/ CountChannel(s)
    BY <1>1, <1>3, <1>5, <2>4, Moves
    DEF CheckUsed, PreCheckToken, PreCheckUser, TakeFromToken, TakeFromUser,
        TakeFails, Answer, Store, Count, CountChannel
  <2>5. CASE FindToken(s) \/ ChargeUser(s) \/ ChargeUserFails(s) \/ ChargeToken(s)
    BY <1>1, <1>3, <1>6, <1>7, <2>5, Moves
    DEF FindToken, ChargeUser, ChargeUserFails, ChargeToken
  <2>6. ~FetchBalance(s) /\ ~FillBalance(s) /\ ~Reserve(s)
    BY <1>1 DEF FetchBalance, FillBalance, Reserve
  <2> QED BY <2>1, <2>2, <2>3, <2>4, <2>5, <2>6 DEF Step, Proceed, Upstream
<1>9. ASSUME NEW r \in Slots
      PROVE  /\ pc'[r] \notin {"fetch", "fill", "reserve"}
             /\ req'[r].pre # 0 => req'[r].pre = req'[r].cost
  BY <1>1, <1>8, OneSlotMoves DEF DirectInv
<1> QED BY <1>2, <1>9

(* With neither Redis nor batching, whatever the number of overlapping      *)
(* requests, their prices and the failures: a user's debt never exceeds the *)
(* price of the requests that may overlap.                                  *)
THEOREM OverdraftIsBounded == Uncached => (Spec => []OverdraftBounded)
<1> SUFFICES ASSUME Uncached PROVE Spec => []OverdraftBounded
  OBVIOUS
<1>1. TypeOK /\ Init => DirectInv
  <2> SUFFICES ASSUME TypeOK, Init PROVE DirectInv
    OBVIOUS
  <2>1. /\ stage = "swap"
        /\ \A s \in Slots : pc[s] = "idle" /\ req[s].pre = 0
    BY DEF Init, StoreInit, Blank, Request
  <2>2. ASSUME NEW u \in Users PROVE Bound(u)
    <3>1. quota(u) = Grant[u] /\ Grant[u] \in Nat
      BY BillingAssumption DEF quota, Init, StoreInit, Initially, Columns
    <3>2. Charging(u) = {}
      BY <2>1 DEF Charging
    <3>3. Cardinality(Charging(u)) = 0 /\ Cardinality(Slots) \in Nat
      BY <3>2, FS_EmptySet, FS_CardinalityType, BillingAssumption
    <3>4. MaxCost * (0 - Cardinality(Slots)) <= MaxCost * 0 /\ MaxCost * 0 = 0
          /\ MaxCost * (0 - Cardinality(Slots)) \in Int
      BY <3>3, Monotone, BillingAssumption
    <3> QED BY <3>1, <3>3, <3>4 DEF Bound
  <2> QED BY <2>1, <2>2 DEF DirectInv, OverdraftBounded, Bound
<1>2. DirectInv /\ TypeOK' /\ [Next]_vars => DirectInv'
  <2> SUFFICES ASSUME DirectInv, TypeOK', [Next]_vars PROVE DirectInv'
    OBVIOUS
  <2>0. /\ TypeOK /\ stage = "swap" /\ \A u \in Users : Bound(u)
        /\ \A s \in Slots : pc[s] \notin {"fetch", "fill", "reserve"}
        /\ \A s \in Slots : req[s].pre # 0 => req[s].pre = req[s].cost
    BY DEF DirectInv, OverdraftBounded, Bound
  <2>1. CASE \E s \in Slots : Step(s)
    BY <2>1, BoundStep, ShapeStep DEF DirectInv, OverdraftBounded, Bound
  <2>2. ASSUME stage' = stage, db' = db,
               \A s \in Slots : \/ pc'[s] = pc[s] /\ req'[s] = req[s]
                                \/ pc'[s] \in {"idle", "quota"} /\ req'[s].pre = 0
        PROVE  DirectInv'
    <3>1. ASSUME NEW u \in Users PROVE Bound(u)'
      <4>1. Charging(u)' \subseteq Charging(u)
        BY <2>2 DEF Charging, User
      <4>2. "users.quota" \in Columns /\ u \in Ids
        BY BillingAssumption DEF Columns
      <4>3. quota(u) \in Int /\ quota(u)' = quota(u)
        BY <2>0, <2>2, <4>2 DEF quota, TypeOK, StoreTypeOK
      <4> QED BY <2>0, <4>1, <4>3, BoundKept
    <3>2. /\ stage' = "swap"
          /\ \A s \in Slots : pc'[s] \notin {"fetch", "fill", "reserve"}
          /\ \A s \in Slots : req'[s].pre # 0 => req'[s].pre = req'[s].cost
      BY <2>0, <2>2
    <3> QED BY <3>1, <3>2 DEF DirectInv, OverdraftBounded, Bound
  <2>3. CASE UNCHANGED vars
    BY <2>2, <2>3 DEF vars, storeVars, billingVars
  <2>4. ASSUME NEW s \in Slots, NEW t \in Tokens, NEW k \in Kinds, NEW c \in Costs,
               Arrive(s, t, k, c)
        PROVE  DirectInv'
    <3>1. Request(t, k, c).pre = 0
      BY DEF Request
    <3> QED BY <2>0, <2>2, <2>4, <3>1 DEF Arrive, Goto, TypeOK, storeVars
  <2>5. CASE \E t \in Tokens : Exhaust(t) \/ Delete(t)
    BY <2>2, <2>5 DEF Exhaust, Delete, storeVars
  <2>6. CASE \E u \in Users : Expire(u)
    BY <2>2, <2>6 DEF Expire, storeVars
  <2>7. ~Updater /\ \A i \in Ids : ~ApplyFails(i)
    BY <2>0 DEF Updater, Swap, Apply, ApplyFails, Advance, Uncached
  <2>8. CASE Die
    <3>1. Blank.pre = 0
      BY DEF Blank, Request
    <3> QED BY <2>0, <2>2, <2>8, <3>1 DEF Die, Crash
  <2> QED BY <2>1, <2>3, <2>4, <2>5, <2>6, <2>7, <2>8 DEF Next
<1>3. DirectInv => OverdraftBounded
  BY DEF DirectInv
<1> QED BY <1>1, <1>2, <1>3, RelayTypeCorrect, PTL DEF Spec

-----------------------------------------------------------------------------
(* SumFunction of the community module Functions: what its recursion over   *)
(* the subsets of the domain computes.                                      *)
Pick(T) == CHOOSE x \in T : TRUE

Unfolded(f, h, A) ==
    h = [T \in A |-> IF T = {} THEN 0 ELSE f[Pick(T)] + h[T \ {Pick(T)}]]

SumsOf(f) == CHOOSE h : Unfolded(f, h, SUBSET DOMAIN f)

LEMMA SumFunctionDef == \A f : SumFunction(f) = SumsOf(f)[DOMAIN f]
BY DEF SumFunction, SumFunctionOnSet, FoldFunctionOnSet, MapThenFoldSet, SumsOf, Unfolded,
       Pick

(* Induction over the naturals and over the subsets of a finite set, each   *)
(* by a least counterexample.                                               *)
LEMMA NaturalsByInduction ==
    ASSUME NEW A, 0 \in A, \A n \in Nat : n \in A => n + 1 \in A
    PROVE  Nat \subseteq A
<1> SUFFICES ASSUME Nat \ A # {} PROVE FALSE
  OBVIOUS
<1> DEFINE R == OpToRel(<, Nat)
<1>1. IsWellFoundedOn(R, Nat)
  BY NatLessThanWellFounded
<1>2. \A m, n \in Nat : m < n => <<m, n>> \in R
  BY DEF OpToRel
<1> HIDE DEF R
<1>3. PICK n \in Nat \ A : \A m \in Nat \ A : ~ (<<m, n>> \in R)
  BY <1>1, WFMin
<1>4. n \in Nat \ {0} /\ n - 1 \in Nat /\ n - 1 < n /\ (n - 1) + 1 = n
  BY <1>3
<1>5. n - 1 \in A
  BY <1>2, <1>3, <1>4
<1> QED BY <1>3, <1>4, <1>5

LEMMA SubsetsByInduction ==
    ASSUME NEW D, IsFiniteSet(D), NEW A,
           \A T \in SUBSET D : (\A U \in SUBSET T : U # T => U \in A) => T \in A
    PROVE  SUBSET D \subseteq A
<1> SUFFICES ASSUME (SUBSET D) \ A # {} PROVE FALSE
  OBVIOUS
<1> DEFINE R == StrictSubsetOrdering(D)
<1>1. IsWellFoundedOn(R, FiniteSubsetsOf(D))
  BY FS_StrictSubsetOrderingWellFounded
<1>2. \A U, T \in SUBSET D : U \subseteq T /\ U # T => <<U, T>> \in R
  BY DEF StrictSubsetOrdering
<1> DEFINE B == (SUBSET D) \ A
<1>3. B \subseteq FiniteSubsetsOf(D) /\ B # {}
  BY FS_Subset DEF FiniteSubsetsOf
<1> HIDE DEF R, B
<1>4. PICK T \in B : \A U \in B : ~ (<<U, T>> \in R)
  BY <1>1, <1>3, WFMin
<1>5. T \in SUBSET D /\ T \notin A
  BY DEF B
<1>6. ASSUME NEW U \in SUBSET T, U # T PROVE U \in A
  <2>1. U \in SUBSET D
    BY <1>5
  <2>2. <<U, T>> \in R
    BY <1>2, <1>5, <1>6, <2>1
  <2> QED BY <1>4, <2>1, <2>2 DEF B
<1> QED BY <1>5, <1>6

LEMMA PickIn == \A T : T # {} => Pick(T) \in T
BY DEF Pick

(* The recursion has a solution, so the function CHOOSE takes is one.       *)
LEMMA SumsExist ==
    ASSUME NEW f, IsFiniteSet(DOMAIN f)
    PROVE  Unfolded(f, SumsOf(f), SUBSET DOMAIN f)
<1> DEFINE D == DOMAIN f
           UpTo(n) == {T \in SUBSET D : Cardinality(T) <= n}
           A == {n \in Nat : \E h : Unfolded(f, h, UpTo(n))}
<1>0. \A T \in SUBSET D : IsFiniteSet(T) /\ Cardinality(T) \in Nat
  BY FS_Subset, FS_CardinalityType
<1>0a. \A T \in SUBSET D : T # {} =>
           /\ T \ {Pick(T)} \in SUBSET D
           /\ Cardinality(T \ {Pick(T)}) = Cardinality(T) - 1
  BY <1>0, PickIn, FS_RemoveElement
<1>1. 0 \in A
  <2> DEFINE h == [T \in UpTo(0) |-> 0]
  <2>1. \A T \in UpTo(0) : T = {}
    BY <1>0, FS_EmptySet
  <2>2. Unfolded(f, h, UpTo(0))
    BY <2>1 DEF Unfolded
  <2> QED BY <2>2
<1>2. ASSUME NEW n \in Nat, n \in A PROVE n + 1 \in A
  <2>1. PICK h : Unfolded(f, h, UpTo(n))
    BY <1>2
  <2> DEFINE g == [T \in UpTo(n + 1) |->
                      IF T = {} THEN 0 ELSE f[Pick(T)] + h[T \ {Pick(T)}]]
  <2>2. \A T \in UpTo(n) : T \in UpTo(n + 1) /\ g[T] = h[T]
    <3> TAKE T \in UpTo(n)
    <3>1. T \in UpTo(n + 1)
      BY <1>0
    <3>2. h[T] = IF T = {} THEN 0 ELSE f[Pick(T)] + h[T \ {Pick(T)}]
      <4> HIDE DEF UpTo
      <4> QED BY <2>1 DEF Unfolded
    <3>3. g[T] = IF T = {} THEN 0 ELSE f[Pick(T)] + h[T \ {Pick(T)}]
      <4> HIDE DEF UpTo
      <4> QED BY <3>1
    <3> QED BY <3>1, <3>2, <3>3
  <2>3. \A T \in UpTo(n + 1) : T # {} => T \ {Pick(T)} \in UpTo(n)
    BY <1>0, <1>0a
  <2>4. \A T \in UpTo(n + 1) :
           g[T] = IF T = {} THEN 0 ELSE f[Pick(T)] + g[T \ {Pick(T)}]
    BY <2>2, <2>3
  <2>5. Unfolded(f, g, UpTo(n + 1))
    BY <2>4 DEF Unfolded
  <2>6. \E k : Unfolded(f, k, UpTo(n + 1))
    <3> HIDE DEF g, UpTo
    <3> QED BY <2>5
  <2> HIDE DEF UpTo
  <2> QED BY <2>6
<1>3. Cardinality(D) \in A
  <2> HIDE DEF A
  <2>1. Nat \subseteq A
    BY <1>1, <1>2, NaturalsByInduction
  <2>2. Cardinality(D) \in Nat
    BY FS_CardinalityType
  <2> QED BY <2>1, <2>2
<1>4. UpTo(Cardinality(D)) = SUBSET D
  BY <1>0, FS_Subset
<1>5. \E h : Unfolded(f, h, SUBSET D)
  BY <1>3, <1>4
<1> HIDE DEF Unfolded
<1> QED BY <1>5 DEF SumsOf

(* The sums are integers, and any element of the set may come first.        *)
LEMMA Sums ==
    ASSUME NEW D, IsFiniteSet(D), NEW f \in [D -> Int]
    PROVE  /\ SumsOf(f)[{}] = 0
           /\ \A T \in SUBSET D : SumsOf(f)[T] \in Int
           /\ \A T \in SUBSET D : \A x \in T :
                  SumsOf(f)[T] = f[x] + SumsOf(f)[T \ {x}]
<1> DEFINE h == SumsOf(f)
           A == {T \in SUBSET D : h[T] \in Int}
           B == {T \in SUBSET D : \A x \in T : h[T] = f[x] + h[T \ {x}]}
<1>1. \A T \in SUBSET D : h[T] = IF T = {} THEN 0 ELSE f[Pick(T)] + h[T \ {Pick(T)}]
  BY SumsExist DEF Unfolded
<1>2. \A T \in SUBSET D : T # {} =>
          Pick(T) \in T /\ T \ {Pick(T)} \in SUBSET T /\ T \ {Pick(T)} # T
  BY PickIn
<1> HIDE DEF h
<1>3. SUBSET D \subseteq A
  <2>1. ASSUME NEW T \in SUBSET D, \A U \in SUBSET T : U # T => U \in A
        PROVE  T \in A
    <3>1. CASE T = {}
      <4>1. h[T] = 0
        BY <1>1, <3>1
      <4> QED BY <4>1
    <3>2. CASE T # {}
      <4>1. T \ {Pick(T)} \in A /\ f[Pick(T)] \in Int
        BY <1>2, <2>1, <3>2
      <4>2. h[T] = f[Pick(T)] + h[T \ {Pick(T)}]
        BY <1>1, <3>2
      <4> QED BY <4>1, <4>2
    <3> QED BY <3>1, <3>2
  <2> HIDE DEF A
  <2> QED BY <2>1, SubsetsByInduction
<1>4. \A T \in SUBSET D : h[T] \in Int
  BY <1>3
<1>5. SUBSET D \subseteq B
  <2>1. ASSUME NEW T \in SUBSET D, \A U \in SUBSET T : U # T => U \in B
        PROVE  T \in B
    <3>1. ASSUME NEW x \in T PROVE h[T] = f[x] + h[T \ {x}]
      <4> DEFINE p == Pick(T)
      <4>0. p \in T /\ T # {}
        BY <1>2
      <4>1. h[T] = f[p] + h[T \ {p}]
        BY <1>1, <4>0
      <4> HIDE DEF p
      <4>2. CASE x = p
        BY <4>1, <4>2
      <4>3. CASE x # p
        <5>1. T \ {p} \in B /\ x \in T \ {p}
          BY <2>1, <4>0, <4>3
        <5>2. T \ {x} \in B /\ p \in T \ {x}
          BY <2>1, <4>0, <4>3
        <5>3. h[T \ {p}] = f[x] + h[(T \ {p}) \ {x}]
          BY <5>1
        <5>4. h[T \ {x}] = f[p] + h[(T \ {x}) \ {p}]
          BY <5>2
        <5>5. (T \ {p}) \ {x} = (T \ {x}) \ {p}
          OBVIOUS
        <5>6. h[(T \ {x}) \ {p}] \in Int /\ f[x] \in Int /\ f[p] \in Int
          BY <1>4, <4>0
        <5>7. h[T] = f[p] + (f[x] + h[(T \ {x}) \ {p}])
          BY <4>1, <5>3, <5>5
        <5>8. \A a, b, c \in Int : a + (b + c) = b + (a + c)
          OBVIOUS
        <5>9. h[T] = f[x] + (f[p] + h[(T \ {x}) \ {p}])
          BY <5>6, <5>7, <5>8
        <5> HIDE DEF A, B
        <5> QED BY <5>4, <5>9
      <4> QED BY <4>2, <4>3
    <3> QED BY <3>1
  <2> HIDE DEF B
  <2> QED BY <2>1, SubsetsByInduction
<1>6. h[{}] = 0
  BY <1>1
<1> QED BY <1>4, <1>5, <1>6 DEF h

(* Two functions that agree on a set have the same sum over it.             *)
LEMMA SumsAgree ==
    ASSUME NEW D, IsFiniteSet(D), NEW f \in [D -> Int], NEW g \in [D -> Int],
           NEW E \in SUBSET D, \A x \in E : f[x] = g[x]
    PROVE  SumsOf(f)[E] = SumsOf(g)[E]
<1> DEFINE h == SumsOf(f)
           k == SumsOf(g)
           A == {T \in SUBSET E : h[T] = k[T]}
<1> HIDE DEF A
<1>1. /\ h[{}] = 0 /\ k[{}] = 0
      /\ \A T \in SUBSET D : \A x \in T : h[T] = f[x] + h[T \ {x}]
      /\ \A T \in SUBSET D : \A x \in T : k[T] = g[x] + k[T \ {x}]
  <2>1. ASSUME NEW T \in SUBSET D, NEW x \in T
        PROVE  h[T] = f[x] + h[T \ {x}] /\ k[T] = g[x] + k[T \ {x}]
    BY Sums
  <2>2. h[{}] = 0 /\ k[{}] = 0
    BY Sums
  <2> QED BY <2>1, <2>2
<1> HIDE DEF h, k
<1> USE DEF A
<1>2. IsFiniteSet(E)
  BY FS_Subset
<1>3. ASSUME NEW T \in SUBSET E, \A U \in SUBSET T : U # T => U \in A
      PROVE  T \in A
  <2>1. CASE T = {}
    BY <1>1, <2>1
  <2>2. ASSUME NEW x \in T PROVE T \in A
    <3>1. h[T \ {x}] = k[T \ {x}]
      BY <1>3, <2>2
    <3> QED BY <1>1, <2>2, <3>1
  <2> QED BY <2>1, <2>2
<1>4. SUBSET E \subseteq A
  <2> HIDE DEF A
  <2> QED BY <1>2, <1>3, SubsetsByInduction
<1> QED BY <1>4 DEF h, k

(* What the proofs use: a sum over a finite domain is an integer, it moves  *)
(* by what one of its terms moves, and zeros add up to nothing.             *)
LEMMA SumType ==
    ASSUME NEW D, IsFiniteSet(D), NEW f \in [D -> Int]
    PROVE  SumFunction(f) \in Int
<1>1. DOMAIN f = D /\ D \in SUBSET D
  OBVIOUS
<1> QED BY <1>1, Sums, SumFunctionDef

LEMMA SumMoves ==
    ASSUME NEW D, IsFiniteSet(D), NEW f \in [D -> Int], NEW g \in [D -> Int],
           NEW x \in D, \A y \in D : y # x => g[y] = f[y]
    PROVE  SumFunction(g) = SumFunction(f) + (g[x] - f[x])
<1> DEFINE h == SumsOf(f)
           k == SumsOf(g)
<1>0. DOMAIN f = D /\ DOMAIN g = D /\ D \in SUBSET D /\ D \ {x} \in SUBSET D
  OBVIOUS
<1>1. h[D] = f[x] + h[D \ {x}] /\ h[D \ {x}] \in Int
  BY <1>0, Sums
<1>2. k[D] = g[x] + k[D \ {x}]
  <2>1. ASSUME NEW T \in SUBSET D, NEW y \in T PROVE k[T] = g[y] + k[T \ {y}]
    BY Sums
  <2> HIDE DEF k
  <2> QED BY <1>0, <2>1
<1>3. k[D \ {x}] = h[D \ {x}]
  <2>1. PICK E \in SUBSET D : E = D \ {x}
    BY <1>0
  <2>2. \A y \in E : f[y] = g[y]
    BY <2>1
  <2>3. h[E] = k[E]
    BY <2>2, SumsAgree
  <2> QED BY <2>1, <2>3
<1>4. SumFunction(f) = h[D] /\ SumFunction(g) = k[D]
  BY <1>0, SumFunctionDef
<1> HIDE DEF h, k
<1> QED BY <1>1, <1>2, <1>3, <1>4

LEMMA SumOfZeros ==
    ASSUME NEW D, IsFiniteSet(D), NEW f \in [D -> Int], \A x \in D : f[x] = 0
    PROVE  SumFunction(f) = 0
<1> DEFINE h == SumsOf(f)
           A == {T \in SUBSET D : h[T] = 0}
<1> HIDE DEF A
<1>1. /\ h[{}] = 0
      /\ \A T \in SUBSET D : \A x \in T : h[T] = f[x] + h[T \ {x}]
  <2>1. ASSUME NEW T \in SUBSET D, NEW x \in T PROVE h[T] = f[x] + h[T \ {x}]
    BY Sums
  <2>2. h[{}] = 0
    BY Sums
  <2> QED BY <2>1, <2>2
<1> USE DEF A
<1>2. DOMAIN f = D /\ D \in SUBSET D
  OBVIOUS
<1> HIDE DEF h
<1>3. ASSUME NEW T \in SUBSET D, \A U \in SUBSET T : U # T => U \in A
      PROVE  T \in A
  <2>1. CASE T = {}
    BY <1>1, <2>1
  <2>2. ASSUME NEW x \in T PROVE T \in A
    <3>1. h[T \ {x}] = 0
      BY <1>3, <2>2
    <3> QED BY <1>1, <2>2, <3>1
  <2> QED BY <2>1, <2>2
<1>4. SUBSET D \subseteq A
  <2> HIDE DEF A
  <2> QED BY <1>3, SubsetsByInduction
<1> QED BY <1>2, <1>4, SumFunctionDef DEF h

LEMMA SumOfNaturals ==
    ASSUME NEW D, IsFiniteSet(D), NEW f \in [D -> Int]
    PROVE  (\A x \in D : f[x] >= 0) => SumFunction(f) >= 0
<1> DEFINE h == SumsOf(f)
           A == {T \in SUBSET D : h[T] >= 0}
<1> HIDE DEF A
<1>1. /\ h[{}] = 0
      /\ \A T \in SUBSET D : h[T] \in Int
      /\ \A T \in SUBSET D : \A x \in T : h[T] = f[x] + h[T \ {x}]
  <2>1. ASSUME NEW T \in SUBSET D, NEW x \in T PROVE h[T] = f[x] + h[T \ {x}]
    BY Sums
  <2>2. h[{}] = 0
    BY Sums
  <2>3. \A T \in SUBSET D : h[T] \in Int
    BY Sums
  <2> QED BY <2>1, <2>2, <2>3
<1> SUFFICES ASSUME \A x \in D : f[x] >= 0 PROVE SumFunction(f) >= 0
  OBVIOUS
<1> USE DEF A
<1>2. DOMAIN f = D /\ D \in SUBSET D
  OBVIOUS
<1> HIDE DEF h
<1>3. ASSUME NEW T \in SUBSET D, \A U \in SUBSET T : U # T => U \in A
      PROVE  T \in A
  <2>1. CASE T = {}
    <3>1. h[T] = 0
      BY <1>1, <2>1
    <3> QED BY <3>1
  <2>2. ASSUME NEW x \in T PROVE T \in A
    <3>1. h[T \ {x}] >= 0 /\ h[T \ {x}] \in Int /\ f[x] \in Int /\ f[x] >= 0
      <4>1. T \ {x} \in SUBSET T /\ T \ {x} # T /\ x \in D
        BY <2>2
      <4>2. T \ {x} \in A
        BY <1>3, <4>1
      <4> QED BY <1>1, <4>1, <4>2
    <3>2. h[T] = f[x] + h[T \ {x}]
      BY <1>1, <2>2
    <3> QED BY <3>1, <3>2
  <2> QED BY <2>1, <2>2
<1>4. SUBSET D \subseteq A
  <2> HIDE DEF A
  <2> QED BY <1>3, SubsetsByInduction
<1> QED BY <1>2, <1>4, SumFunctionDef DEF h

-----------------------------------------------------------------------------
(* The books of a user.  Two sums over the slots say where its quota is on  *)
(* the way; every step of a slot moves the slot's own term by what it moves *)
(* the columns, so the totals stay.                                         *)
Paid(u)   == Cell("users.quota", u)
Used(u)   == Cell("users.used_quota", u)
Drawn(t)  == Cell("tokens.used_quota", t)
Owed(s, u)  == Uncounted(s, u) + offBook[s][u]
Ahead(s, u) == TokenAhead(s, u) + leak[s][u]

(* A rollback never reaches the consume log: past the charge the kind of a  *)
(* request is still that of a helper.                                       *)
Settling ==
    \A s \in Slots : pc[s] \in {"refresh", "refetch", "refill", "store", "count"}
        => req[s].kind # "rollback"

StoreTables == <<db, store, type, batch, todo, lost>>

LEMMA QuotaColumns ==
    /\ "users.quota" \in Columns /\ TypeOf["users.quota"] = UserQuota
    /\ "users.used_quota" \in Columns /\ TypeOf["users.used_quota"] = UsedQuota
    /\ "tokens.used_quota" \in Columns /\ TypeOf["tokens.used_quota"] = TokenQuota
    /\ \A v \in Int : /\ Signed("users.quota", v) = v
                      /\ Signed("users.used_quota", v) = v
                      /\ Signed("tokens.used_quota", v) = -v
BY DEF Columns, TypeOf, Signed

LEMMA TermTypes ==
    ASSUME TypeOK, NEW s \in Slots, NEW u \in Users
    PROVE  Uncounted(s, u) \in Int /\ TokenAhead(s, u) \in Int
<1>1. req[s] \in Requests /\ Delta(s) \in Int
  BY RequestTypes
<1>2. req[s].pre \in Int /\ Price(s) \in Int
  BY <1>1, BillingAssumption DEF Requests, Price
<1>3. -Delta(s) \in Int
  BY <1>1
<1> QED BY <1>2, <1>3 DEF Uncounted, TokenAhead

LEMMA BookTypes ==
    ASSUME TypeOK
    PROVE  /\ \A u \in Users : u \in Ids /\ Paid(u) \in Int /\ Used(u) \in Int
           /\ \A t \in Tokens : t \in Ids /\ Drawn(t) \in Int
           /\ \A s \in Slots, u \in Users : Owed(s, u) \in Int /\ Ahead(s, u) \in Int
<1>1. \A c \in Columns, i \in Ids : Cell(c, i) \in Int
  <2> TAKE c \in Columns, i \in Ids
  <2>1. /\ TypeOf[c] \in Types /\ db[c][i] \in Int /\ lost[TypeOf[c]][i] \in Int
        /\ Unflushed(TypeOf[c], i) \in Int
    BY ColumnTypes, UnflushedType DEF TypeOK, StoreTypeOK
  <2> QED BY <2>1 DEF Cell, Signed
<1>2. Users \subseteq Ids /\ Tokens \subseteq Ids
  BY BillingAssumption
<1>3. ASSUME NEW s \in Slots, NEW u \in Users
      PROVE  Owed(s, u) \in Int /\ Ahead(s, u) \in Int
  <2>4. Uncounted(s, u) \in Int /\ TokenAhead(s, u) \in Int
    BY TermTypes
  <2>5. offBook[s][u] \in Int /\ leak[s][u] \in Int
    BY DEF TypeOK
  <2> QED BY <2>4, <2>5 DEF Owed, Ahead
<1> QED BY <1>1, <1>2, <1>3, QuotaColumns DEF Paid, Used, Drawn

BookTyped ==
    /\ \A u \in Users : Paid(u) \in Int /\ Used(u) \in Int
    /\ \A t \in Tokens : Drawn(t) \in Int
    /\ \A s \in Slots, u \in Users : Owed(s, u) \in Int /\ Ahead(s, u) \in Int

LEMMA BookTypesKept == TypeOK' => BookTyped'
<1>1. TypeOK => BookTyped
  BY BookTypes DEF BookTyped
<1> QED BY <1>1, PTL

(* What a call of the store does to the books, whether it succeeds or fails.*)
LEMMA UserPaid ==
    ASSUME TypeOK, StoreInv, NEW k \in Users, NEW v \in Int,
           Update(UserQuota, k, v) \/ UpdateFails(UserQuota, k, v)
    PROVE  /\ \A u \in Users : Paid(u)' = IF u = k THEN Paid(u) + v ELSE Paid(u)
           /\ \A u \in Users : Used(u)' = Used(u)
           /\ \A t \in Tokens : Drawn(t)' = Drawn(t)
<1>1. UserQuota \in Types /\ UserQuota # UsedQuota /\ UserQuota # TokenQuota
  BY DEF UserQuota, UsedQuota, TokenQuota, Types
<1>2. k \in Ids
  BY BookTypes
<1>3. \A c \in Columns, i \in Ids :
         Cell(c, i)' = IF TypeOf[c] = UserQuota /\ i = k THEN Cell(c, i) + Signed(c, v)
                                                         ELSE Cell(c, i)
  BY <1>1, <1>2, UpdateChangesCells, FailureChangesCells
<1> QED BY <1>1, <1>3, QuotaColumns, BookTypes DEF Paid, Used, Drawn

LEMMA TokenDrawn ==
    ASSUME TypeOK, StoreInv, NEW k \in Tokens, NEW v \in Int,
           Update(TokenQuota, k, v) \/ UpdateFails(TokenQuota, k, v)
    PROVE  /\ \A u \in Users : Paid(u)' = Paid(u) /\ Used(u)' = Used(u)
           /\ \A t \in Tokens : Drawn(t)' = IF t = k THEN Drawn(t) - v ELSE Drawn(t)
<1>1. TokenQuota \in Types /\ TokenQuota # UsedQuota /\ UserQuota # TokenQuota
  BY DEF UserQuota, UsedQuota, TokenQuota, Types
<1>2. k \in Ids
  BY BookTypes
<1>3. \A c \in Columns, i \in Ids :
         Cell(c, i)' = IF TypeOf[c] = TokenQuota /\ i = k THEN Cell(c, i) + Signed(c, v)
                                                          ELSE Cell(c, i)
  BY <1>1, <1>2, UpdateChangesCells, FailureChangesCells
<1>4. \A t \in Tokens : Drawn(t)' = IF t = k THEN Drawn(t) + (-v) ELSE Drawn(t)
  BY <1>3, QuotaColumns, BookTypes DEF Drawn
<1> QED BY <1>1, <1>3, <1>4, QuotaColumns, BookTypes DEF Paid, Used

LEMMA ChannelCounted ==
    ASSUME TypeOK, StoreInv, NEW k \in Ids, NEW v \in Int,
           Update(ChannelUsedQuota, k, v) \/ UpdateFails(ChannelUsedQuota, k, v)
    PROVE  /\ \A u \in Users : Paid(u)' = Paid(u) /\ Used(u)' = Used(u)
           /\ \A t \in Tokens : Drawn(t)' = Drawn(t)
<1>1. /\ ChannelUsedQuota \in Types /\ ChannelUsedQuota # UsedQuota
      /\ ChannelUsedQuota # UserQuota /\ ChannelUsedQuota # TokenQuota
  BY DEF UserQuota, UsedQuota, TokenQuota, ChannelUsedQuota, Types
<1>2. \A c \in Columns, i \in Ids :
         Cell(c, i)' = IF TypeOf[c] = ChannelUsedQuota /\ i = k
                       THEN Cell(c, i) + Signed(c, v) ELSE Cell(c, i)
  BY <1>1, UpdateChangesCells, FailureChangesCells
<1> QED BY <1>1, <1>2, QuotaColumns, BookTypes DEF Paid, Used, Drawn

LEMMA UseCounted ==
    ASSUME TypeOK, StoreInv, NEW k \in Users, NEW v \in Int,
           UpdateUsedAndCount(k, v) \/ UsedAndCountFails(k, v)
    PROVE  /\ \A u \in Users : Used(u)' = IF u = k THEN Used(u) + v ELSE Used(u)
           /\ \A u \in Users : Paid(u)' = Paid(u)
           /\ \A t \in Tokens : Drawn(t)' = Drawn(t)
<1>1. /\ UserQuota # UsedQuota /\ UserQuota # RequestCount
      /\ TokenQuota # UsedQuota /\ TokenQuota # RequestCount
  BY DEF UserQuota, UsedQuota, TokenQuota, RequestCount
<1>2. k \in Ids
  BY BookTypes
<1>3. \A c \in Columns, i \in Ids :
         Cell(c, i)' = IF i # k THEN Cell(c, i)
                       ELSE IF TypeOf[c] = UsedQuota THEN Cell(c, i) + v
                       ELSE IF TypeOf[c] = RequestCount THEN Cell(c, i) + 1
                       ELSE Cell(c, i)
  BY <1>2, CountChangesCells
<1> QED BY <1>1, <1>3, QuotaColumns, BookTypes DEF Paid, Used, Drawn

LEMMA NothingMoved ==
    ASSUME TypeOK, UNCHANGED StoreTables
    PROVE  /\ \A u \in Users : Paid(u)' = Paid(u) /\ Used(u)' = Used(u)
           /\ \A t \in Tokens : Drawn(t)' = Drawn(t)
<1>1. \A c \in Columns, i \in Ids : Cell(c, i)' = Cell(c, i)
  BY QuietStore DEF StoreTables
<1> QED BY <1>1, QuotaColumns, BookTypes DEF Paid, Used, Drawn

LEMMA UpdaterMovesNothing ==
    ASSUME TypeOK, StoreInv, Updater \/ Crash \/ \E i \in Ids : ApplyFails(i)
    PROVE  /\ \A u \in Users : Paid(u)' = Paid(u) /\ Used(u)' = Used(u)
           /\ \A t \in Tokens : Drawn(t)' = Drawn(t)
<1>1. \A c \in Columns, i \in Ids : Cell(c, i)' = Cell(c, i)
  BY UpdaterKeepsCells DEF Updater
<1> QED BY <1>1, QuotaColumns, BookTypes DEF Paid, Used, Drawn

-----------------------------------------------------------------------------
(* The terms of a slot that leaves, is past the token, or past the user.    *)
LEMMA TermsAfter ==
    ASSUME TypeOK, NEW s \in Slots, NEW u \in Users
    PROVE  /\ Leave(s) => Uncounted(s, u)' = 0 /\ TokenAhead(s, u)' = 0
           /\ AfterCharge(s) => /\ Uncounted(s, u)' = IF User(s) = u THEN Price(s) ELSE 0
                                /\ TokenAhead(s, u)' = 0
           /\ AfterUser(s) =>
                 /\ Uncounted(s, u)' = IF User(s) = u THEN Price(s) ELSE 0
                 /\ TokenAhead(s, u)' = IF User(s) = u /\ req[s].tok \notin Unlimited
                                        THEN -Delta(s) ELSE 0
<1>1. ASSUME Leave(s) PROVE Uncounted(s, u)' = 0 /\ TokenAhead(s, u)' = 0
  <2>1. pc'[s] = "idle"
    BY <1>1, Moves
  <2> QED BY <2>1 DEF Uncounted, TokenAhead
<1>2. ASSUME AfterCharge(s)
      PROVE  /\ Uncounted(s, u)' = IF User(s) = u THEN Price(s) ELSE 0
             /\ TokenAhead(s, u)' = 0
  <2>1. CASE req[s].kind = "rollback"
    BY <1>1, <1>2, <2>1 DEF AfterCharge, Price
  <2>2. CASE req[s].kind # "rollback"
    <3>1. req' = req /\ pc'[s] \in {"refresh", "count"}
      BY <1>2, <2>2, Moves DEF AfterCharge
    <3> QED BY <3>1 DEF Uncounted, TokenAhead, User, Price
  <2> QED BY <2>1, <2>2
<1>3. ASSUME AfterUser(s)
      PROVE  /\ Uncounted(s, u)' = IF User(s) = u THEN Price(s) ELSE 0
             /\ TokenAhead(s, u)' = IF User(s) = u /\ req[s].tok \notin Unlimited
                                    THEN -Delta(s) ELSE 0
  <2>1. CASE req[s].tok \in Unlimited
    BY <1>2, <1>3, <2>1 DEF AfterUser
  <2>2. CASE req[s].tok \notin Unlimited
    <3>1. req' = req /\ pc'[s] = "chargeToken"
      BY <1>3, <2>2, Moves DEF AfterUser
    <3> QED BY <2>2, <3>1 DEF Uncounted, TokenAhead, User, Price, Delta
  <2> QED BY <2>1, <2>2
<1> QED BY <1>1, <1>2, <1>3

(* Where nothing has been taken from u yet, or nothing is left to count.    *)
Unbilled == {"idle", "quota", "used", "balance", "fetch", "fill", "reserve", "preToken",
             "preUser", "takeToken", "channel"}

LEMMA UnbilledTerms ==
    ASSUME NEW s \in Slots, NEW u \in Users
    PROVE  /\ pc[s] \in Unbilled => Uncounted(s, u) = 0 /\ TokenAhead(s, u) = 0
           /\ pc'[s] \in Unbilled => Uncounted(s, u)' = 0 /\ TokenAhead(s, u)' = 0
BY DEF Unbilled, Uncounted, TokenAhead

(* The steps that leave the store alone leave the slot's terms alone.  One  *)
(* of them writes off what it does not charge: the token is gone.           *)
LEMMA QuietTerms ==
    ASSUME TypeOK, NEW s \in Slots, NEW u \in Users,
           \/ CheckQuota(s) \/ CheckUsed(s)
           \/ GetBalance(s) \/ FetchBalance(s) \/ FillBalance(s) \/ Reserve(s)
           \/ PreCheckToken(s) \/ PreCheckUser(s) \/ Answer(s) \/ Fail(s)
           \/ FindToken(s) \/ Refresh(s) \/ Refetch(s) \/ Store(s)
    PROVE  Owed(s, u)' = Owed(s, u) /\ Ahead(s, u)' = Ahead(s, u)
<1>1. /\ req[s] \in Requests /\ Delta(s) \in Int /\ Price(s) \in Int
      /\ req[s].pre \in Nat /\ req \in [Slots -> Requests]
  <2>1. req[s] \in Requests /\ Delta(s) \in Int
    BY RequestTypes
  <2>2. req[s].pre \in 0..MaxCost /\ req[s].cost \in 0..MaxCost
    BY <2>1 DEF Requests
  <2>3. Price(s) \in Int /\ req[s].pre \in Nat
    BY <2>2, BillingAssumption DEF Price
  <2> QED BY <2>1, <2>3 DEF TypeOK
<1>2. ASSUME Uncounted(s, u)' = Uncounted(s, u), TokenAhead(s, u)' = TokenAhead(s, u),
             UNCHANGED ledgers
      PROVE  Owed(s, u)' = Owed(s, u) /\ Ahead(s, u)' = Ahead(s, u)
  BY <1>2 DEF Owed, Ahead, ledgers
<1>3. ASSUME pc[s] \in Unbilled, pc'[s] \in Unbilled, UNCHANGED ledgers
      PROVE  Owed(s, u)' = Owed(s, u) /\ Ahead(s, u)' = Ahead(s, u)
  BY <1>2, <1>3, UnbilledTerms
<1>4. ASSUME NEW q \in Int, Decide(s, q), pc[s] \in {"balance", "fill"}, UNCHANGED ledgers
      PROVE  Owed(s, u)' = Owed(s, u) /\ Ahead(s, u)' = Ahead(s, u)
  <2>1. CASE ~Sufficient(s, q)
    <3>1. pc'[s] = "idle"
      BY <1>4, <2>1, Moves DEF Decide
    <3> QED BY <1>3, <1>4, <3>1 DEF Unbilled
  <2>2. CASE Sufficient(s, q)
    <3>1. /\ req' = [req EXCEPT ![s].pre = PreConsumed(s, q)]
          /\ pc'[s] \in {"reserve", "preToken", "upstream"}
          /\ pc'[s] = "upstream" => ~(PreConsumed(s, q) > 0)
      BY <1>4, <2>2, Moves DEF Decide
    <3>2. PreConsumed(s, q) \in Nat
      <4>1. PreConsumed(s, q) \in 0..MaxCost
        BY RequestTypes
      <4> QED BY <4>1, BillingAssumption
    <3>3. CASE pc'[s] = "upstream"
      <4>1. PreConsumed(s, q) = 0
        BY <3>1, <3>2, <3>3
      <4>2. req'[s].pre = 0
        BY <1>1, <3>1, <4>1 DEF Requests
      <4>3. Uncounted(s, u)' = 0 /\ TokenAhead(s, u)' = 0
        BY <3>3, <4>2 DEF Uncounted, TokenAhead
      <4>4. Uncounted(s, u) = 0 /\ TokenAhead(s, u) = 0
        BY <1>4, UnbilledTerms DEF Unbilled
      <4> QED BY <1>2, <1>4, <4>3, <4>4
    <3>4. CASE pc'[s] # "upstream"
      BY <1>3, <1>4, <3>1, <3>4 DEF Unbilled
    <3> QED BY <3>3, <3>4
  <2> QED BY <2>1, <2>2
<1>5. quota(User(s)) \in Int /\ cache[User(s)] \in Int /\ req[s].seen \in Int
  <2>1. User(s) \in Users /\ User(s) \in Ids /\ "users.quota" \in Columns
    BY RequestTypes DEF Columns
  <2> QED BY <1>1, <2>1 DEF quota, TypeOK, StoreTypeOK, Requests
<1>6. CASE CheckQuota(s) \/ CheckUsed(s) \/ FetchBalance(s) \/ PreCheckToken(s)
           \/ PreCheckUser(s)
  <2>1. \/ pc[s] \in Unbilled /\ pc'[s] \in Unbilled /\ UNCHANGED ledgers
        \/ PreCheckUser(s) /\ pc'[s] = "takeUser" /\ req' = req
    BY <1>6, Moves
    DEF CheckQuota, CheckUsed, FetchBalance, PreCheckToken, PreCheckUser, Unbilled
  <2>2. CASE PreCheckUser(s) /\ pc'[s] = "takeUser" /\ req' = req
    <3>1. req[s].tok \in Unlimited /\ pc[s] = "preUser" /\ UNCHANGED ledgers
      BY <2>2, Moves DEF PreCheckUser
    <3>2. Uncounted(s, u)' = 0 /\ TokenAhead(s, u)' = 0
      BY <2>2, <3>1 DEF Uncounted, TokenAhead
    <3>3. Uncounted(s, u) = 0 /\ TokenAhead(s, u) = 0
      BY <3>1, UnbilledTerms DEF Unbilled
    <3> QED BY <1>2, <3>1, <3>2, <3>3
  <2> QED BY <1>3, <2>1, <2>2
<1>7. CASE GetBalance(s)
  <2>1. CASE Decide(s, quota(User(s))) \/ Decide(s, cache[User(s)])
    BY <1>4, <1>5, <1>7, <2>1 DEF GetBalance
  <2>2. CASE Goto(s, "fetch")
    BY <1>3, <1>7, <2>2, Moves DEF GetBalance, Unbilled
  <2> QED BY <1>7, <2>1, <2>2 DEF GetBalance
<1>8. CASE FillBalance(s)
  BY <1>4, <1>5, <1>8 DEF FillBalance
<1>9. CASE Reserve(s)
  <2>1. CASE req[s].pre > 0
    BY <1>3, <1>9, <2>1, Moves DEF Reserve, Unbilled
  <2>2. CASE ~(req[s].pre > 0)
    <3>1. req[s].pre = 0
      BY <1>1, <2>2
    <3>2. pc'[s] = "upstream" /\ req' = req /\ pc[s] = "reserve" /\ UNCHANGED ledgers
      BY <1>9, <2>2, Moves DEF Reserve
    <3>3. Uncounted(s, u)' = 0 /\ TokenAhead(s, u)' = 0
      BY <3>1, <3>2 DEF Uncounted, TokenAhead
    <3>4. Uncounted(s, u) = 0 /\ TokenAhead(s, u) = 0
      BY <3>2, UnbilledTerms DEF Unbilled
    <3> QED BY <1>2, <3>2, <3>3, <3>4
  <2> QED BY <2>1, <2>2
<1>10. CASE Answer(s)
  <2>1. pc[s] = "upstream" /\ pc'[s] = "settle" /\ req' = req /\ UNCHANGED ledgers
    BY <1>10, Moves DEF Answer
  <2>2. Uncounted(s, u)' = Uncounted(s, u) /\ TokenAhead(s, u)' = TokenAhead(s, u)
    BY <2>1 DEF Uncounted, TokenAhead, User
  <2> QED BY <1>2, <2>1, <2>2
<1>11. CASE Fail(s)
  <2>1. CASE req[s].pre > 0
    <3>1. /\ pc[s] = "upstream" /\ pc'[s] = "settle" /\ UNCHANGED ledgers
          /\ req' = [req EXCEPT ![s].kind = "rollback"]
      BY <1>11, <2>1, Moves DEF Fail
    <3>2. req'[s].tok = req[s].tok /\ req'[s].pre = req[s].pre
      BY <1>1, <3>1 DEF Requests
    <3>3. Uncounted(s, u)' = Uncounted(s, u) /\ TokenAhead(s, u)' = TokenAhead(s, u)
      BY <3>1, <3>2 DEF Uncounted, TokenAhead, User
    <3> QED BY <1>2, <3>1, <3>3
  <2>2. CASE ~(req[s].pre > 0)
    <3>1. req[s].pre = 0 /\ pc[s] = "upstream" /\ Leave(s) /\ UNCHANGED ledgers
      BY <1>1, <1>11, <2>2 DEF Fail
    <3>2. Uncounted(s, u) = 0 /\ TokenAhead(s, u) = 0
      BY <3>1 DEF Uncounted, TokenAhead
    <3> QED BY <1>2, <3>1, <3>2, TermsAfter
  <2> QED BY <2>1, <2>2
<1>12. CASE FindToken(s)
  <2>1. CASE req[s].tok \in live
    <3>1. /\ pc[s] = "settle" /\ pc'[s] = "chargeUser" /\ req' = req
          /\ UNCHANGED ledgers
      BY <1>12, <2>1, Moves DEF FindToken, ledgers
    <3>2. Uncounted(s, u)' = Uncounted(s, u) /\ TokenAhead(s, u)' = TokenAhead(s, u)
      BY <3>1 DEF Uncounted, TokenAhead, User
    <3> QED BY <1>2, <3>1, <3>2
  <2>2. CASE req[s].tok \notin live
    <3>1. /\ pc[s] = "settle" /\ AfterCharge(s) /\ leak' = leak
          /\ offBook' = [offBook EXCEPT ![s][User(s)] = @ - Delta(s)]
      BY <1>12, <2>2 DEF FindToken
    <3>2. /\ Uncounted(s, u) = IF User(s) = u THEN req[s].pre ELSE 0
          /\ TokenAhead(s, u) = 0
      BY <3>1 DEF Uncounted, TokenAhead
    <3>3. /\ Uncounted(s, u)' = IF User(s) = u THEN Price(s) ELSE 0
          /\ TokenAhead(s, u)' = 0
      BY <3>1, TermsAfter
    <3>4. /\ offBook'[s][u] = IF User(s) = u THEN offBook[s][u] - Delta(s)
                                             ELSE offBook[s][u]
          /\ offBook[s][u] \in Int
      BY <3>1 DEF TypeOK
    <3>5. Owed(s, u)' = Owed(s, u)
      BY <1>1, <3>2, <3>3, <3>4 DEF Owed, Delta
    <3>6. Ahead(s, u)' = Ahead(s, u)
      BY <3>1, <3>2, <3>3 DEF Ahead
    <3> QED BY <3>5, <3>6
  <2> QED BY <2>1, <2>2
<1>13. CASE Refresh(s) \/ Refetch(s) \/ Store(s)
  <2>1. /\ pc[s] \in {"refresh", "refetch", "refill", "store"}
        /\ pc'[s] \in {"refetch", "refill", "store", "count"}
        /\ UNCHANGED ledgers
    BY <1>13, Moves DEF Refresh, Refetch, Store, See
  <2>2. \A x : [req EXCEPT ![s].seen = x][s].tok = req[s].tok
            /\ [req EXCEPT ![s].seen = x][s].kind = req[s].kind
            /\ [req EXCEPT ![s].seen = x][s].cost = req[s].cost
    BY <1>1 DEF Requests
  <2>3. req'[s].tok = req[s].tok /\ req'[s].kind = req[s].kind /\ req'[s].cost = req[s].cost
    <3>1. req' = req \/ \E x \in Int : req' = [req EXCEPT ![s].seen = x]
      BY <1>5, <1>13 DEF Refresh, Refetch, Store, See
    <3> QED BY <2>2, <3>1
  <2>4. Uncounted(s, u)' = Uncounted(s, u)
    BY <2>1, <2>3 DEF Uncounted, User, Price
  <2>5. TokenAhead(s, u)' = TokenAhead(s, u)
    BY <2>1, <2>3 DEF TokenAhead
  <2> QED BY <1>2, <2>1, <2>4, <2>5
<1> QED BY <1>6, <1>7, <1>8, <1>9, <1>10, <1>11, <1>12, <1>13

(* Every step of a slot balances: what a user's two columns lose the slot's *)
(* term gains, and what a limited token is drawn beyond its owner the other *)
(* term does.                                                               *)
Moved(s, u, t) ==
    /\ Paid(u)' + Used(u)' + Owed(s, u)' = Paid(u) + Used(u) + Owed(s, u)
    /\ User(s) # u => Paid(u)' = Paid(u) /\ Ahead(s, u)' = Ahead(s, u)
    /\ User(s) = u /\ t \notin Unlimited =>
          Drawn(t)' + Paid(u)' - Ahead(s, u)' = Drawn(t) + Paid(u) - Ahead(s, u)
    /\ \A k \in Tokens \ {t} : Drawn(k)' = Drawn(k)

LEMMA StepMoves ==
    ASSUME TypeOK, StoreInv, Settling, NEW s \in Slots, Step(s), NEW u \in Users,
           NEW t \in Tokens, t = req[s].tok
    PROVE  Moved(s, u, t)
<1> DEFINE pre == -req[s].pre
           delta == -Delta(s)
           cost == req[s].cost
<1>1. /\ req[s] \in Requests /\ Delta(s) \in Int /\ Price(s) \in Int
      /\ req[s].pre \in Int /\ pre \in Int /\ delta \in Int /\ cost \in Int
      /\ User(s) \in Users
      /\ Delta(s) = Price(s) - req[s].pre
  <2>1. req[s] \in Requests /\ Delta(s) \in Int /\ User(s) \in Users
    BY RequestTypes
  <2>2. req[s].pre \in 0..MaxCost /\ req[s].cost \in 0..MaxCost
    BY <2>1 DEF Requests
  <2>3. Price(s) \in Int /\ req[s].pre \in Int /\ cost \in Int
    BY <2>2, BillingAssumption DEF Price
  <2>4. pre \in Int /\ delta \in Int
    BY <2>1, <2>3
  <2> QED BY <2>1, <2>3, <2>4 DEF Delta
<1>2. /\ Paid(u) \in Int /\ Used(u) \in Int /\ \A k \in Tokens : Drawn(k) \in Int
      /\ Owed(s, u) \in Int /\ Ahead(s, u) \in Int
  BY BookTypes
<1>3. offBook[s][u] \in Int /\ leak[s][u] \in Int
  BY DEF TypeOK
<1>4. ASSUME UNCHANGED StoreTables, Owed(s, u)' = Owed(s, u), Ahead(s, u)' = Ahead(s, u)
      PROVE  Moved(s, u, t)
  <2>1. /\ Paid(u)' = Paid(u) /\ Used(u)' = Used(u)
        /\ \A k \in Tokens : Drawn(k)' = Drawn(k)
    BY <1>4, NothingMoved
  <2>2. Drawn(t)' = Drawn(t)
    BY <1>1, <2>1
  <2> QED BY <1>2, <1>4, <2>1, <2>2 DEF Moved
<1>5. CASE \/ CheckQuota(s) \/ CheckUsed(s)
           \/ GetBalance(s) \/ FetchBalance(s) \/ FillBalance(s) \/ Reserve(s)
           \/ PreCheckToken(s) \/ PreCheckUser(s) \/ Answer(s) \/ Fail(s)
           \/ FindToken(s) \/ Refresh(s) \/ Refetch(s) \/ Store(s)
  <2>1. UNCHANGED StoreTables
    BY <1>5
    DEF CheckQuota, CheckUsed, GetBalance, FetchBalance, FillBalance, Reserve,
        PreCheckToken, PreCheckUser, Answer, Fail, FindToken, Refresh, Refetch, Store,
        storeVars, StoreTables
  <2>2. Owed(s, u)' = Owed(s, u) /\ Ahead(s, u)' = Ahead(s, u)
    BY <1>5, QuietTerms
  <2> QED BY <1>4, <2>1, <2>2
<1>6. CASE TakeFromToken(s)
  <2>1. /\ pc[s] = "takeToken" /\ pc'[s] = "takeUser" /\ req' = req /\ UNCHANGED ledgers
        /\ Update(TokenQuota, t, pre)
    BY <1>6, Moves DEF TakeFromToken
  <2>2. /\ Paid(u)' = Paid(u) /\ Used(u)' = Used(u)
        /\ Drawn(t)' = Drawn(t) - pre
        /\ \A k \in Tokens \ {t} : Drawn(k)' = Drawn(k)
    <3> HIDE DEF pre
    <3> QED BY <1>1, <2>1, TokenDrawn
  <2>3. /\ Uncounted(s, u) = 0 /\ TokenAhead(s, u) = 0 /\ Uncounted(s, u)' = 0
        /\ TokenAhead(s, u)' = IF User(s) # u \/ t \in Unlimited THEN 0 ELSE req[s].pre
    BY <2>1 DEF Uncounted, TokenAhead, User
  <2>4. offBook'[s][u] = offBook[s][u] /\ leak'[s][u] = leak[s][u]
    BY <2>1 DEF ledgers
  <2>5. Owed(s, u)' = Owed(s, u)
    BY <2>3, <2>4 DEF Owed
  <2>6. Ahead(s, u)' = IF User(s) # u \/ t \in Unlimited THEN Ahead(s, u)
                       ELSE Ahead(s, u) + req[s].pre
    BY <1>1, <1>3, <2>3, <2>4 DEF Ahead
  <2>7. User(s) = u /\ t \notin Unlimited =>
            Drawn(t)' + Paid(u)' - Ahead(s, u)' = Drawn(t) + Paid(u) - Ahead(s, u)
    BY <1>1, <1>2, <2>2, <2>6
  <2> QED BY <1>2, <2>2, <2>5, <2>6, <2>7 DEF Moved
<1>7. CASE TakeFromUser(s)
  <2>1. /\ pc[s] = "takeUser" /\ pc'[s] = "upstream" /\ req' = req /\ UNCHANGED ledgers
        /\ Update(UserQuota, User(s), pre)
    BY <1>7, Moves DEF TakeFromUser
  <2>2. /\ Paid(u)' = IF u = User(s) THEN Paid(u) + pre ELSE Paid(u)
        /\ Used(u)' = Used(u)
        /\ \A k \in Tokens : Drawn(k)' = Drawn(k)
    <3> HIDE DEF pre
    <3> QED BY <1>1, <2>1, UserPaid
  <2>3. /\ Uncounted(s, u) = 0 /\ TokenAhead(s, u)' = 0
        /\ Uncounted(s, u)' = IF User(s) # u THEN 0 ELSE req[s].pre
        /\ TokenAhead(s, u) = IF User(s) # u \/ t \in Unlimited THEN 0 ELSE req[s].pre
    BY <2>1 DEF Uncounted, TokenAhead, User
  <2>4. offBook'[s][u] = offBook[s][u] /\ leak'[s][u] = leak[s][u]
    BY <2>1 DEF ledgers
  <2>5. Owed(s, u)' = IF User(s) # u THEN Owed(s, u) ELSE Owed(s, u) + req[s].pre
    BY <1>1, <1>3, <2>3, <2>4 DEF Owed
  <2>6. Ahead(s, u)' = IF User(s) # u \/ t \in Unlimited THEN Ahead(s, u)
                       ELSE Ahead(s, u) - req[s].pre
    BY <1>1, <1>3, <2>3, <2>4 DEF Ahead
  <2>7. Paid(u)' + Used(u)' + Owed(s, u)' = Paid(u) + Used(u) + Owed(s, u)
    BY <1>1, <1>2, <2>2, <2>5
  <2>8. Drawn(t)' = Drawn(t)
    BY <1>1, <2>2
  <2>9. User(s) = u /\ t \notin Unlimited =>
            Drawn(t)' + Paid(u)' - Ahead(s, u)' = Drawn(t) + Paid(u) - Ahead(s, u)
    BY <1>1, <1>2, <2>2, <2>6, <2>8
  <2> QED BY <2>2, <2>6, <2>7, <2>9 DEF Moved
<1>8. CASE TakeFails(s)
  <2>1. /\ pc[s] \in {"takeToken", "takeUser"} /\ Leave(s) /\ offBook' = offBook
        /\ UNCHANGED StoreTables
        /\ leak' = [leak EXCEPT ![s][User(s)] =
                       IF pc[s] = "takeUser" /\ req[s].tok \notin Unlimited
                       THEN @ + req[s].pre ELSE @]
    BY <1>8 DEF TakeFails, Abandoned, updaterVars, StoreTables
  <2>2. Uncounted(s, u)' = 0 /\ TokenAhead(s, u)' = 0 /\ Uncounted(s, u) = 0
    <3>1. Uncounted(s, u) = 0
      BY <2>1 DEF Uncounted
    <3> QED BY <2>1, <3>1, TermsAfter
  <2>3. TokenAhead(s, u) = IF User(s) = u /\ pc[s] = "takeUser" /\ req[s].tok \notin Unlimited
                           THEN req[s].pre ELSE 0
    BY <2>1 DEF TokenAhead
  <2>4. leak'[s][u] = IF User(s) = u /\ pc[s] = "takeUser" /\ req[s].tok \notin Unlimited
                      THEN leak[s][u] + req[s].pre ELSE leak[s][u]
    BY <1>1, <2>1 DEF TypeOK
  <2>5. Owed(s, u)' = Owed(s, u)
    BY <2>1, <2>2 DEF Owed
  <2>6. Ahead(s, u)' = Ahead(s, u)
    BY <1>1, <1>3, <2>2, <2>3, <2>4 DEF Ahead
  <2> QED BY <1>4, <2>1, <2>5, <2>6
<1>9. CASE ChargeUser(s) \/ ChargeUserFails(s)
  <2>1. /\ pc[s] = "chargeUser" /\ AfterUser(s) /\ UNCHANGED ledgers
        /\ Update(UserQuota, User(s), delta) \/ UpdateFails(UserQuota, User(s), delta)
    BY <1>9 DEF ChargeUser, ChargeUserFails
  <2>2. /\ Paid(u)' = IF u = User(s) THEN Paid(u) + delta ELSE Paid(u)
        /\ Used(u)' = Used(u)
        /\ \A k \in Tokens : Drawn(k)' = Drawn(k)
    <3> HIDE DEF delta
    <3> QED BY <1>1, <2>1, UserPaid
  <2>3. /\ Uncounted(s, u) = IF User(s) # u THEN 0 ELSE req[s].pre
        /\ TokenAhead(s, u) = 0
    BY <2>1 DEF Uncounted, TokenAhead
  <2>4. /\ Uncounted(s, u)' = IF User(s) = u THEN Price(s) ELSE 0
        /\ TokenAhead(s, u)' = IF User(s) = u /\ t \notin Unlimited THEN delta ELSE 0
    BY <2>1, TermsAfter
  <2>5. offBook'[s][u] = offBook[s][u] /\ leak'[s][u] = leak[s][u]
    BY <2>1 DEF ledgers
  <2>6. Owed(s, u)' = IF User(s) # u THEN Owed(s, u) ELSE Owed(s, u) + Delta(s)
    BY <1>1, <1>3, <2>3, <2>4, <2>5 DEF Owed
  <2>7. Ahead(s, u)' = IF User(s) = u /\ t \notin Unlimited THEN Ahead(s, u) + delta
                       ELSE Ahead(s, u)
    <3> HIDE DEF delta
    <3> QED BY <1>1, <1>3, <2>3, <2>4, <2>5 DEF Ahead
  <2>8. Paid(u)' + Used(u)' + Owed(s, u)' = Paid(u) + Used(u) + Owed(s, u)
    BY <1>1, <1>2, <2>2, <2>6
  <2>9. Drawn(t)' = Drawn(t)
    BY <1>1, <2>2
  <2>10. User(s) = u /\ t \notin Unlimited =>
            Drawn(t)' + Paid(u)' - Ahead(s, u)' = Drawn(t) + Paid(u) - Ahead(s, u)
    <3> HIDE DEF delta
    <3> QED BY <1>1, <1>2, <2>2, <2>7, <2>9
  <2>11. User(s) # u => Paid(u)' = Paid(u) /\ Ahead(s, u)' = Ahead(s, u)
    BY <2>2, <2>7
  <2> QED BY <2>2, <2>8, <2>10, <2>11 DEF Moved
<1>10. CASE ChargeToken(s)
  <2>1. /\ pc[s] = "chargeToken" /\ AfterCharge(s) /\ UNCHANGED ledgers
        /\ Update(TokenQuota, t, delta) \/ UpdateFails(TokenQuota, t, delta)
    BY <1>10 DEF ChargeToken
  <2>2. /\ Paid(u)' = Paid(u) /\ Used(u)' = Used(u)
        /\ Drawn(t)' = Drawn(t) - delta
        /\ \A k \in Tokens \ {t} : Drawn(k)' = Drawn(k)
    <3> HIDE DEF delta
    <3> QED BY <1>1, <2>1, TokenDrawn
  <2>3. /\ Uncounted(s, u) = IF User(s) = u THEN Price(s) ELSE 0
        /\ TokenAhead(s, u) = IF User(s) # u \/ t \in Unlimited THEN 0 ELSE delta
    BY <2>1 DEF Uncounted, TokenAhead
  <2>4. Uncounted(s, u)' = Uncounted(s, u) /\ TokenAhead(s, u)' = 0
    BY <2>1, <2>3, TermsAfter
  <2>5. offBook'[s][u] = offBook[s][u] /\ leak'[s][u] = leak[s][u]
    BY <2>1 DEF ledgers
  <2>6. Owed(s, u)' = Owed(s, u)
    BY <2>4, <2>5 DEF Owed
  <2>7. Ahead(s, u)' = IF User(s) # u \/ t \in Unlimited THEN Ahead(s, u)
                       ELSE Ahead(s, u) - delta
    <3> HIDE DEF delta
    <3> QED BY <1>1, <1>3, <2>3, <2>4, <2>5 DEF Ahead
  <2>8. User(s) = u /\ t \notin Unlimited =>
            Drawn(t)' + Paid(u)' - Ahead(s, u)' = Drawn(t) + Paid(u) - Ahead(s, u)
    <3> HIDE DEF delta
    <3> QED BY <1>1, <1>2, <2>2, <2>7
  <2> QED BY <1>2, <2>2, <2>6, <2>7, <2>8 DEF Moved
<1>11. CASE Count(s)
  <2>1. pc[s] = "count" /\ req[s].kind # "rollback" /\ UNCHANGED ledgers
    BY <1>11 DEF Count, Settling
  <2>2. /\ Uncounted(s, u) = IF User(s) = u THEN cost ELSE 0
        /\ TokenAhead(s, u) = 0
    BY <2>1 DEF Uncounted, TokenAhead, Price
  <2>3. Uncounted(s, u)' = 0 /\ TokenAhead(s, u)' = 0
    <3>1. pc'[s] \in Unbilled
      BY <1>11, Moves DEF Count, Unbilled
    <3> QED BY <3>1, UnbilledTerms
  <2>4. offBook'[s][u] = offBook[s][u] /\ leak'[s][u] = leak[s][u]
    BY <2>1 DEF ledgers
  <2>5. Ahead(s, u)' = Ahead(s, u)
    BY <2>2, <2>3, <2>4 DEF Ahead
  <2>6. Owed(s, u)' = IF User(s) = u THEN Owed(s, u) - cost ELSE Owed(s, u)
    <3> HIDE DEF cost
    <3> QED BY <1>1, <1>3, <2>2, <2>3, <2>4 DEF Owed
  <2>7. CASE cost = 0 /\ UNCHANGED storeVars
    <3>1. UNCHANGED StoreTables
      BY <2>7 DEF storeVars, StoreTables
    <3>2. Owed(s, u)' = Owed(s, u)
      BY <1>2, <2>6, <2>7
    <3> QED BY <1>4, <2>5, <3>1, <3>2
  <2>8. CASE UpdateUsedAndCount(User(s), cost) \/ UsedAndCountFails(User(s), cost)
    <3>1. /\ Used(u)' = IF u = User(s) THEN Used(u) + cost ELSE Used(u)
          /\ Paid(u)' = Paid(u)
          /\ \A k \in Tokens : Drawn(k)' = Drawn(k)
      <4> HIDE DEF cost
      <4> QED BY <1>1, <2>8, UseCounted
    <3>2. Paid(u)' + Used(u)' + Owed(s, u)' = Paid(u) + Used(u) + Owed(s, u)
      <4> HIDE DEF cost
      <4> QED BY <1>1, <1>2, <2>6, <3>1
    <3>3. Drawn(t)' = Drawn(t)
      BY <1>1, <3>1
    <3> QED BY <1>2, <2>5, <3>1, <3>2, <3>3 DEF Moved
  <2> QED BY <1>11, <2>7, <2>8 DEF Count
<1>12. CASE CountChannel(s)
  <2>1. /\ pc[s] = "channel" /\ Leave(s) /\ UNCHANGED ledgers
        /\ \/ Update(ChannelUsedQuota, Channel, cost)
           \/ UpdateFails(ChannelUsedQuota, Channel, cost)
    BY <1>12 DEF CountChannel
  <2>2. /\ Paid(u)' = Paid(u) /\ Used(u)' = Used(u)
        /\ \A k \in Tokens : Drawn(k)' = Drawn(k)
    <3> HIDE DEF cost
    <3> QED BY <1>1, <2>1, ChannelCounted, BillingAssumption
  <2>3. Uncounted(s, u) = 0 /\ TokenAhead(s, u) = 0
    BY <2>1, UnbilledTerms DEF Unbilled
  <2>4. Uncounted(s, u)' = 0 /\ TokenAhead(s, u)' = 0
    BY <2>1, TermsAfter
  <2>5. Owed(s, u)' = Owed(s, u) /\ Ahead(s, u)' = Ahead(s, u)
    BY <2>1, <2>3, <2>4 DEF Owed, Ahead, ledgers
  <2>6. Drawn(t)' = Drawn(t)
    BY <1>1, <2>2
  <2> QED BY <1>2, <2>2, <2>5, <2>6 DEF Moved
<1> QED BY <1>5, <1>6, <1>7, <1>8, <1>9, <1>10, <1>11, <1>12 DEF Step, Proceed, Upstream

-----------------------------------------------------------------------------
(* The two ledgers in terms of the books, before and after a step.          *)
OwedBy(u)  == [s \in Slots |-> Owed(s, u)]
AheadBy(u) == [s \in Slots |-> Ahead(s, u)]
Owned(u)   == {t \in Tokens : Owner[t] = u}
DrawnBy(u) == [t \in Owned(u) |-> Drawn(t)]

Balanced(u) == Paid(u) + Used(u) + SumFunction(OwedBy(u)) = Grant[u]

TokensBalanced(u) ==
    Owned(u) \cap Unlimited = {} =>
        SumFunction(DrawnBy(u)) = Grant[u] - Paid(u) + SumFunction(AheadBy(u))

AllBalanced == \A u \in Users : Balanced(u) /\ TokensBalanced(u)

LEMMA LedgersAreBooks == Ledger /\ TokenLedger <=> AllBalanced
<1>1. Users \subseteq Ids /\ Tokens \subseteq Ids
  BY BillingAssumption
<1>2. \A c \in Columns, i \in Ids : Effective[c][i] = Cell(c, i)
  BY DEF Effective, Cell
<1>3. \A u \in Users : /\ Effective["users.quota"][u] = Paid(u)
                       /\ Effective["users.used_quota"][u] = Used(u)
  BY <1>1, <1>2, QuotaColumns DEF Paid, Used
<1>4. \A t \in Tokens : Effective["tokens.used_quota"][t] = Drawn(t)
  BY <1>1, <1>2, QuotaColumns DEF Drawn
<1>5. \A u \in Users :
         [t \in Owned(u) |-> Effective["tokens.used_quota"][t]] = DrawnBy(u)
  BY <1>4 DEF Owned, DrawnBy
<1>6. Ledger <=> \A u \in Users : Balanced(u)
  BY <1>3 DEF Ledger, Balanced, OwedBy, Owed
<1>7. TokenLedger <=> \A u \in Users : TokensBalanced(u)
  BY <1>3, <1>5 DEF TokenLedger, TokensBalanced, AheadBy, Ahead, Owned
<1> QED BY <1>6, <1>7 DEF AllBalanced

LEMMA BookFunctions ==
    ASSUME TypeOK, TypeOK', NEW u \in Users
    PROVE  /\ OwedBy(u) \in [Slots -> Int] /\ AheadBy(u) \in [Slots -> Int]
           /\ DrawnBy(u) \in [Owned(u) -> Int]
           /\ OwedBy(u)' \in [Slots -> Int] /\ AheadBy(u)' \in [Slots -> Int]
           /\ DrawnBy(u)' \in [Owned(u) -> Int]
           /\ Owned(u) \subseteq Tokens /\ IsFiniteSet(Owned(u)) /\ IsFiniteSet(Slots)
           /\ Grant[u] \in Int
<1>1. Owned(u) \subseteq Tokens /\ IsFiniteSet(Tokens) /\ IsFiniteSet(Slots)
      /\ Grant[u] \in Int
  BY BillingAssumption DEF Owned
<1>2. IsFiniteSet(Owned(u))
  BY <1>1, FS_Subset
<1>3. /\ \A s \in Slots : Owed(s, u) \in Int /\ Ahead(s, u) \in Int
      /\ \A t \in Tokens : Drawn(t) \in Int
  BY BookTypes
<1>4. /\ \A s \in Slots : Owed(s, u)' \in Int /\ Ahead(s, u)' \in Int
      /\ \A t \in Tokens : Drawn(t)' \in Int
  BY BookTypesKept DEF BookTyped
<1> QED BY <1>1, <1>2, <1>3, <1>4 DEF OwedBy, AheadBy, DrawnBy

(* The balance survives a step that moves nothing, and one that moves the   *)
(* terms of one slot.                                                       *)
LEMMA StillBalanced ==
    ASSUME NEW u \in Users, Balanced(u), TokensBalanced(u),
           Paid(u)' = Paid(u), Used(u)' = Used(u),
           \A t \in Tokens : Drawn(t)' = Drawn(t),
           \A s \in Slots : Owed(s, u)' = Owed(s, u) /\ Ahead(s, u)' = Ahead(s, u)
    PROVE  Balanced(u)' /\ TokensBalanced(u)'
<1>1. OwedBy(u)' = OwedBy(u) /\ AheadBy(u)' = AheadBy(u)
  BY DEF OwedBy, AheadBy
<1>2. DrawnBy(u)' = DrawnBy(u)
  BY DEF DrawnBy, Owned
<1>3. Balanced(u)'
  BY <1>1 DEF Balanced
<1>4. TokensBalanced(u)'
  BY <1>1, <1>2 DEF TokensBalanced
<1> QED BY <1>3, <1>4

LEMMA MovedBalances ==
    ASSUME TypeOK, TypeOK', NEW u \in Users, Balanced(u), TokensBalanced(u),
           NEW s \in Slots, NEW t \in Tokens, t = req[s].tok, Moved(s, u, t),
           \A r \in Slots \ {s} : Owed(r, u)' = Owed(r, u) /\ Ahead(r, u)' = Ahead(r, u)
    PROVE  Balanced(u)' /\ TokensBalanced(u)'
<1> DEFINE f == OwedBy(u)
           g == OwedBy(u)'
           a == AheadBy(u)
           b == AheadBy(u)'
           d == DrawnBy(u)
           e == DrawnBy(u)'
<1>0. /\ f \in [Slots -> Int] /\ g \in [Slots -> Int]
      /\ a \in [Slots -> Int] /\ b \in [Slots -> Int]
      /\ d \in [Owned(u) -> Int] /\ e \in [Owned(u) -> Int]
      /\ IsFiniteSet(Slots) /\ IsFiniteSet(Owned(u)) /\ Grant[u] \in Int
      /\ Owned(u) \subseteq Tokens
  BY BookFunctions
<1>1. /\ \A r \in Slots \ {s} : g[r] = f[r] /\ b[r] = a[r]
      /\ f[s] = Owed(s, u) /\ g[s] = Owed(s, u)'
      /\ a[s] = Ahead(s, u) /\ b[s] = Ahead(s, u)'
  BY DEF OwedBy, AheadBy
<1>2. /\ \A k \in Owned(u) \ {t} : e[k] = d[k]
      /\ t \in Owned(u) => d[t] = Drawn(t) /\ e[t] = Drawn(t)'
  BY <1>0 DEF DrawnBy, Moved
<1>3. /\ Paid(u) \in Int /\ Used(u) \in Int /\ Drawn(t) \in Int
      /\ Owed(s, u) \in Int /\ Ahead(s, u) \in Int
      /\ Paid(u)' \in Int /\ Used(u)' \in Int /\ Drawn(t)' \in Int
      /\ Owed(s, u)' \in Int /\ Ahead(s, u)' \in Int
  BY BookTypes, BookTypesKept DEF BookTyped
<1> HIDE DEF f, g, a, b, d, e
<1>4. /\ SumFunction(g) = SumFunction(f) + (g[s] - f[s])
      /\ SumFunction(b) = SumFunction(a) + (b[s] - a[s])
      /\ SumFunction(f) \in Int /\ SumFunction(a) \in Int
  <2>1. SumFunction(g) = SumFunction(f) + (g[s] - f[s])
    BY <1>0, <1>1, SumMoves
  <2>2. SumFunction(b) = SumFunction(a) + (b[s] - a[s])
    BY <1>0, <1>1, SumMoves
  <2>3. SumFunction(f) \in Int /\ SumFunction(a) \in Int
    BY <1>0, SumType
  <2> QED BY <2>1, <2>2, <2>3
<1>5. Balanced(u)'
  <2>1. Paid(u) + Used(u) + SumFunction(f) = Grant[u]
    BY DEF Balanced, f
  <2>2. Paid(u)' + Used(u)' + Owed(s, u)' = Paid(u) + Used(u) + Owed(s, u)
    BY DEF Moved
  <2>3. Paid(u)' + Used(u)' + SumFunction(g) = Grant[u]
    BY <1>0, <1>1, <1>3, <1>4, <2>1, <2>2
  <2> QED BY <2>3 DEF Balanced, g
<1>6. SumFunction(d) \in Int
  BY <1>0, SumType
<1>7. ASSUME Owned(u) \cap Unlimited = {}
      PROVE  SumFunction(e) = Grant[u] - Paid(u)' + SumFunction(b)
  <2>1. SumFunction(d) = Grant[u] - Paid(u) + SumFunction(a)
    BY <1>7 DEF TokensBalanced, d, a
  <2>2. CASE t \in Owned(u)
    <3>1. User(s) = u /\ t \notin Unlimited
      BY <1>7, <2>2 DEF Owned, User
    <3>2. SumFunction(e) = SumFunction(d) + (e[t] - d[t])
      BY <1>0, <1>2, <2>2, SumMoves
    <3>3. Drawn(t)' + Paid(u)' - Ahead(s, u)' = Drawn(t) + Paid(u) - Ahead(s, u)
      BY <3>1 DEF Moved
    <3> QED BY <1>0, <1>1, <1>2, <1>3, <1>4, <1>6, <2>1, <2>2, <3>2, <3>3
  <2>3. CASE t \notin Owned(u)
    <3>1. User(s) # u
      BY <2>3 DEF Owned, User
    <3>2. Paid(u)' = Paid(u) /\ Ahead(s, u)' = Ahead(s, u)
      BY <3>1 DEF Moved
    <3>3. e = d
      BY <1>0, <1>2, <2>3
    <3> QED BY <1>0, <1>1, <1>3, <1>4, <2>1, <3>2, <3>3
  <2> QED BY <2>2, <2>3
<1>8. TokensBalanced(u)'
  BY <1>7 DEF TokensBalanced, Owned, b, e
<1> QED BY <1>5, <1>8

-----------------------------------------------------------------------------
(* The inductive invariant: both ledgers, the store between two types with  *)
(* nothing in hand, and no rollback on its way to the consume log.          *)
BooksInv == TypeOK /\ StoreInv /\ Settling /\ AllBalanced

(* What a step of one slot does to the rest.                                *)
LEMMA StepSettles ==
    ASSUME TypeOK, Settling, NEW s \in Slots, Step(s)
    PROVE  Settling'
<1> DEFINE Late == {"refresh", "refetch", "refill", "store", "count"}
           Good == pc'[s] \in Late => req'[s].kind # "rollback"
<1>1. req[s] \in Requests /\ req \in [Slots -> Requests]
  BY RequestTypes DEF TypeOK
<1>2. /\ Leave(s) => Good
      /\ AfterCharge(s) => Good
      /\ AfterUser(s) => Good
      /\ \A l : l \notin Late /\ Goto(s, l) => Good
  <2>1. \A l : l \notin Late /\ Goto(s, l) => Good
    BY Moves
  <2>2. Leave(s) => Good
    BY Moves
  <2>3. AfterCharge(s) => Good
    BY <2>2 DEF AfterCharge
  <2>4. AfterUser(s) => Good
    BY <2>1, <2>3 DEF AfterUser
  <2> QED BY <2>1, <2>2, <2>3, <2>4
<1>3. ASSUME NEW q, Decide(s, q) PROVE Good
  <2>1. Leave(s) \/ Goto(s, "reserve") \/ Goto(s, "preToken") \/ Goto(s, "upstream")
    BY <1>3 DEF Decide
  <2> QED BY <1>2, <2>1
<1>4. ASSUME CheckQuota(s) \/ CheckUsed(s) \/ FetchBalance(s) \/ Reserve(s)
             \/ PreCheckToken(s) \/ PreCheckUser(s) \/ TakeFromToken(s) \/ TakeFromUser(s)
             \/ TakeFails(s) \/ Answer(s) \/ Fail(s)
      PROVE  Good
  <2>1. \/ Leave(s)
        \/ Goto(s, "used") \/ Goto(s, "balance") \/ Goto(s, "fill") \/ Goto(s, "preToken")
        \/ Goto(s, "upstream") \/ Goto(s, "preUser") \/ Goto(s, "takeUser")
        \/ Goto(s, "takeToken") \/ Goto(s, "settle")
    BY <1>4
    DEF CheckQuota, CheckUsed, FetchBalance, Reserve, PreCheckToken, PreCheckUser,
        TakeFromToken, TakeFromUser, TakeFails, Answer, Fail, See
  <2> QED BY <1>2, <2>1
<1>5. ASSUME GetBalance(s) \/ FillBalance(s)
      PROVE  Good
  <2>1. (\E q : Decide(s, q)) \/ Goto(s, "fetch")
    BY <1>5 DEF GetBalance, FillBalance
  <2> QED BY <1>2, <1>3, <2>1
<1>6. ASSUME FindToken(s) \/ ChargeUser(s) \/ ChargeUserFails(s) \/ ChargeToken(s)
             \/ Count(s) \/ CountChannel(s)
      PROVE  Good
  <2>1. AfterCharge(s) \/ AfterUser(s) \/ Leave(s)
        \/ Goto(s, "chargeUser") \/ Goto(s, "channel")
    BY <1>6 DEF FindToken, ChargeUser, ChargeUserFails, ChargeToken, Count, CountChannel
  <2> QED BY <1>2, <2>1
<1>7. ASSUME Refresh(s) \/ Refetch(s) \/ Store(s)
      PROVE  Good
  <2>1. pc[s] \in Late
    BY <1>7 DEF Refresh, Refetch, Store
  <2>2. req' = req \/ \E x : req' = [req EXCEPT ![s].seen = x]
    BY <1>7 DEF Refresh, Refetch, Store, See
  <2>3. \A x : [req EXCEPT ![s].seen = x][s].kind = req[s].kind
    BY <1>1 DEF Requests
  <2>4. req'[s].kind = req[s].kind
    BY <2>2, <2>3
  <2> QED BY <2>1, <2>4 DEF Settling
<1>8. Good
  BY <1>4, <1>5, <1>6, <1>7 DEF Step, Proceed, Upstream
<1>9. \A r \in Slots : r # s => pc'[r] = pc[r] /\ req'[r] = req[r]
  BY OneSlotMoves
<1> QED BY <1>8, <1>9 DEF Settling

LEMMA StepLeavesStore ==
    ASSUME StoreInv, TypeOK', NEW s \in Slots, Step(s)
    PROVE  StoreInv'
<1>1. stage' = stage /\ todo' = todo
  BY DEF Step, Proceed, Upstream,
         CheckQuota, CheckUsed, GetBalance, FetchBalance, FillBalance, Reserve,
         PreCheckToken, PreCheckUser, TakeFromToken, TakeFromUser, TakeFails, Answer,
         Fail, FindToken, ChargeUser, ChargeUserFails, ChargeToken, Refresh, Refetch,
         Store, Count, CountChannel, storeVars, Abandoned, UpdateFails, Update,
         UpdateUsedAndCount, UsedAndCountFails, updaterVars
<1> QED BY <1>1 DEF StoreInv, TypeOK

LEMMA StepLeavesOthers ==
    ASSUME TypeOK, NEW s \in Slots, Step(s), NEW r \in Slots \ {s}, NEW u \in Users
    PROVE  Owed(r, u)' = Owed(r, u) /\ Ahead(r, u)' = Ahead(r, u)
<1>1. pc'[r] = pc[r] /\ req'[r] = req[r]
  BY OneSlotMoves
<1>2. offBook'[r] = offBook[r] /\ leak'[r] = leak[r]
  <2>1. offBook' = offBook \/ \E x : offBook' = [offBook EXCEPT ![s] = x]
    BY DEF Step, Proceed, Upstream,
           CheckQuota, CheckUsed, GetBalance, FetchBalance, FillBalance, Reserve,
           PreCheckToken, PreCheckUser, TakeFromToken, TakeFromUser, TakeFails, Answer,
           Fail, FindToken, ChargeUser, ChargeUserFails, ChargeToken, Refresh, Refetch,
           Store, Count, CountChannel, ledgers
  <2>2. leak' = leak \/ \E x : leak' = [leak EXCEPT ![s] = x]
    BY DEF Step, Proceed, Upstream,
           CheckQuota, CheckUsed, GetBalance, FetchBalance, FillBalance, Reserve,
           PreCheckToken, PreCheckUser, TakeFromToken, TakeFromUser, TakeFails, Answer,
           Fail, FindToken, ChargeUser, ChargeUserFails, ChargeToken, Refresh, Refetch,
           Store, Count, CountChannel, ledgers
  <2> QED BY <2>1, <2>2 DEF TypeOK
<1> QED BY <1>1, <1>2
    DEF Owed, Ahead, Uncounted, TokenAhead, User, Price, Delta

LEMMA BooksStart == Init /\ TypeOK => BooksInv
<1> SUFFICES ASSUME Init, TypeOK PROVE BooksInv
  OBVIOUS
<1>1. StoreInv /\ Settling
  BY DEF Init, StoreInit, StoreInv, TypeOK, Settling
<1>2. \A c \in Columns, i \in Ids : Cell(c, i) = Initially[c][i]
  <2> TAKE c \in Columns, i \in Ids
  <2>1. TypeOf[c] \in Types
    BY ColumnTypes
  <2>2. Unflushed(TypeOf[c], i) = 0 /\ lost[TypeOf[c]][i] = 0
    BY <2>1 DEF Init, StoreInit, Unflushed, InBatch, NoRecords
  <2>3. Cell(c, i) = db[c][i] /\ db[c][i] \in Int
    BY <2>2 DEF Cell, Signed, TypeOK, StoreTypeOK
  <2> QED BY <2>3 DEF Init, StoreInit
<1>3. ASSUME NEW u \in Users PROVE Balanced(u) /\ TokensBalanced(u)
  <2>1. u \in Ids /\ Grant[u] \in Int
    BY BillingAssumption
  <2>2. Paid(u) = Grant[u] /\ Used(u) = 0
    BY <1>2, <2>1, QuotaColumns DEF Paid, Used, Initially
  <2>3. \A t \in Tokens : Drawn(t) = 0
    BY <1>2, BillingAssumption, QuotaColumns DEF Drawn, Initially
  <2>4. \A s \in Slots : Owed(s, u) = 0 /\ Ahead(s, u) = 0
    <3> TAKE s \in Slots
    <3>1. Uncounted(s, u) = 0 /\ TokenAhead(s, u) = 0
      BY UnbilledTerms DEF Init, Unbilled
    <3>2. offBook[s][u] = 0 /\ leak[s][u] = 0
      BY DEF Init
    <3> QED BY <3>1, <3>2 DEF Owed, Ahead
  <2>5. /\ OwedBy(u) \in [Slots -> Int] /\ AheadBy(u) \in [Slots -> Int]
        /\ DrawnBy(u) \in [Owned(u) -> Int]
        /\ \A s \in Slots : OwedBy(u)[s] = 0 /\ AheadBy(u)[s] = 0
        /\ \A t \in Owned(u) : DrawnBy(u)[t] = 0
    BY <2>3, <2>4 DEF OwedBy, AheadBy, DrawnBy, Owned
  <2>6. IsFiniteSet(Slots) /\ IsFiniteSet(Owned(u))
    <3>1. Owned(u) \in SUBSET Tokens /\ IsFiniteSet(Tokens) /\ IsFiniteSet(Slots)
      BY BillingAssumption DEF Owned
    <3> QED BY <3>1, FS_Subset
  <2>7. SumFunction(OwedBy(u)) = 0 /\ SumFunction(AheadBy(u)) = 0
        /\ SumFunction(DrawnBy(u)) = 0
    BY <2>5, <2>6, SumOfZeros
  <2> QED BY <2>1, <2>2, <2>7 DEF Balanced, TokensBalanced
<1> QED BY <1>1, <1>3 DEF BooksInv, AllBalanced

LEMMA BooksStep == BooksInv /\ TypeOK' /\ [Next]_vars => BooksInv'
<1> SUFFICES ASSUME BooksInv, TypeOK', [Next]_vars PROVE BooksInv'
  OBVIOUS
<1>1. /\ TypeOK /\ StoreInv /\ Settling
      /\ \A u \in Users : Balanced(u) /\ TokensBalanced(u)
  BY DEF BooksInv, AllBalanced
<1>2. CASE \E s \in Slots : Step(s)
  <2>1. PICK s \in Slots : Step(s)
    BY <1>2
  <2>2. StoreInv' /\ Settling'
    BY <1>1, <2>1, StepSettles, StepLeavesStore
  <2>3. PICK t \in Tokens : t = req[s].tok
    BY <1>1, RequestTypes
  <2>4. ASSUME NEW u \in Users PROVE Balanced(u)' /\ TokensBalanced(u)'
    <3>1. Moved(s, u, t)
      BY <1>1, <2>1, <2>3, StepMoves
    <3>2. \A r \in Slots \ {s} : Owed(r, u)' = Owed(r, u) /\ Ahead(r, u)' = Ahead(r, u)
      BY <1>1, <2>1, StepLeavesOthers
    <3>3. TypeOK /\ Balanced(u) /\ TokensBalanced(u)
      BY <1>1
    <3> QED BY <2>3, <3>1, <3>2, <3>3, MovedBalances
  <2> QED BY <2>2, <2>4 DEF BooksInv, AllBalanced
<1>3. ASSUME StoreInv', Settling',
             \A u \in Users : Paid(u)' = Paid(u) /\ Used(u)' = Used(u),
             \A t \in Tokens : Drawn(t)' = Drawn(t),
             \A s \in Slots, u \in Users :
                 Owed(s, u)' = Owed(s, u) /\ Ahead(s, u)' = Ahead(s, u)
      PROVE  BooksInv'
  <2>1. ASSUME NEW u \in Users PROVE Balanced(u)' /\ TokensBalanced(u)'
    BY <1>1, <1>3, StillBalanced
  <2> QED BY <1>3, <2>1 DEF BooksInv, AllBalanced
<1>4. ASSUME UNCHANGED storeVars
      PROVE  /\ StoreInv'
             /\ \A u \in Users : Paid(u)' = Paid(u) /\ Used(u)' = Used(u)
             /\ \A t \in Tokens : Drawn(t)' = Drawn(t)
  <2>1. StoreInv'
    BY <1>1, <1>4 DEF StoreInv, storeVars, TypeOK
  <2>2. UNCHANGED StoreTables
    BY <1>4 DEF StoreTables, storeVars
  <2> QED BY <1>1, <2>1, <2>2, NothingMoved
<1>5. ASSUME UNCHANGED <<pc, req, offBook, leak>>
      PROVE  /\ Settling'
             /\ \A s \in Slots, u \in Users :
                    Owed(s, u)' = Owed(s, u) /\ Ahead(s, u)' = Ahead(s, u)
  <2>1. Settling'
    BY <1>1, <1>5 DEF Settling
  <2>2. \A s \in Slots, u \in Users :
            Owed(s, u)' = Owed(s, u) /\ Ahead(s, u)' = Ahead(s, u)
    BY <1>5 DEF Owed, Ahead, Uncounted, TokenAhead, User, Price, Delta
  <2> QED BY <2>1, <2>2
<1>6. ASSUME NEW s \in Slots, NEW t \in Tokens, NEW k \in Kinds, NEW c \in Costs,
             Arrive(s, t, k, c)
      PROVE  BooksInv'
  <2>1. /\ pc[s] = "idle" /\ pc'[s] = "quota"
        /\ \A r \in Slots \ {s} : pc'[r] = pc[r] /\ req'[r] = req[r]
        /\ UNCHANGED <<storeVars, offBook, leak>>
    BY <1>1, <1>6, Moves DEF Arrive, Goto, TypeOK, ledgers
  <2>2. Settling'
    BY <1>1, <2>1 DEF Settling
  <2>3. ASSUME NEW r \in Slots, NEW u \in Users
        PROVE  Owed(r, u)' = Owed(r, u) /\ Ahead(r, u)' = Ahead(r, u)
    <3>1. CASE r = s
      <4>1. /\ Uncounted(s, u) = 0 /\ TokenAhead(s, u) = 0
            /\ Uncounted(s, u)' = 0 /\ TokenAhead(s, u)' = 0
        BY <2>1, UnbilledTerms DEF Unbilled
      <4> QED BY <2>1, <3>1, <4>1 DEF Owed, Ahead
    <3>2. CASE r # s
      BY <2>1, <3>2 DEF Owed, Ahead, Uncounted, TokenAhead, User, Price, Delta
    <3> QED BY <3>1, <3>2
  <2> QED BY <1>3, <1>4, <2>1, <2>2, <2>3
<1>7. CASE \/ UNCHANGED vars
           \/ \E t \in Tokens : Exhaust(t) \/ Delete(t)
           \/ \E u \in Users : Expire(u)
  <2>1. UNCHANGED <<storeVars, pc, req, offBook, leak>>
    BY <1>7 DEF vars, billingVars, Exhaust, Delete, Expire, ledgers
  <2> QED BY <1>3, <1>4, <1>5, <2>1
<1>8. CASE (Updater \/ \E i \in Ids : ApplyFails(i)) /\ UNCHANGED billingVars
  <2>1. StoreInv'
    BY <1>1, <1>8, StoreInvStep DEF Updater
  <2>2. /\ \A u \in Users : Paid(u)' = Paid(u) /\ Used(u)' = Used(u)
        /\ \A t \in Tokens : Drawn(t)' = Drawn(t)
    BY <1>1, <1>8, UpdaterMovesNothing
  <2>3. UNCHANGED <<pc, req, offBook, leak>>
    BY <1>8 DEF billingVars
  <2> QED BY <1>3, <1>5, <2>1, <2>2, <2>3
<1>9. CASE Die
  <2>1. StoreInv'
    BY <1>1, <1>9, StoreInvStep DEF Die
  <2>2. /\ \A u \in Users : Paid(u)' = Paid(u) /\ Used(u)' = Used(u)
        /\ \A t \in Tokens : Drawn(t)' = Drawn(t)
    BY <1>1, <1>9, UpdaterMovesNothing DEF Die
  <2>3. \A s \in Slots : pc'[s] = "idle"
    BY <1>9 DEF Die
  <2>4. Settling'
    BY <2>3 DEF Settling
  <2>5. ASSUME NEW s \in Slots, NEW u \in Users
        PROVE  Owed(s, u)' = Owed(s, u) /\ Ahead(s, u)' = Ahead(s, u)
    <3>1. Uncounted(s, u)' = 0 /\ TokenAhead(s, u)' = 0
      BY <2>3, UnbilledTerms DEF Unbilled
    <3>2. /\ offBook'[s][u] = offBook[s][u] + Uncounted(s, u)
          /\ leak'[s][u] = leak[s][u] + TokenAhead(s, u)
      BY <1>9 DEF Die
    <3>3. /\ Owed(s, u) \in Int /\ Ahead(s, u) \in Int
          /\ Owed(s, u)' \in Int /\ Ahead(s, u)' \in Int
      BY <1>1, BookTypes, BookTypesKept DEF BookTyped
    <3>4. offBook[s][u] \in Int /\ leak[s][u] \in Int
          /\ offBook'[s][u] \in Int /\ leak'[s][u] \in Int
      BY <1>1 DEF TypeOK
    <3>5. Uncounted(s, u) \in Int /\ TokenAhead(s, u) \in Int
      BY <1>1, TermTypes
    <3> QED BY <3>1, <3>2, <3>4, <3>5 DEF Owed, Ahead
  <2> QED BY <1>3, <2>1, <2>2, <2>4, <2>5
<1> QED BY <1>2, <1>6, <1>7, <1>8, <1>9 DEF Next

LEMMA BooksBalance == Spec => []BooksInv
<1> QED BY BooksStart, BooksStep, RelayTypeCorrect, PTL DEF Spec

(* No quota of a user appears or vanishes, whatever requests, rollbacks,    *)
(* settling goroutines and the batch updater do in whatever order, with     *)
(* tokens deleted, UPDATEs failing and the process dying in between: what   *)
(* is left, what is counted as used, what is on its way and what offBook    *)
(* records add up to the grant.                                             *)
THEOREM QuotaIsConserved == Spec => []Ledger
<1>1. BooksInv => Ledger
  BY LedgersAreBooks DEF BooksInv
<1> QED BY <1>1, BooksBalance, PTL

(* The limited tokens of a user are drawn by exactly what the user has paid,*)
(* but for what a slot has taken from one and not yet from the other, and   *)
(* what leak records.                                                       *)
THEOREM TokensFollowUsers == Spec => []TokenLedger
<1>1. BooksInv => TokenLedger
  BY LedgersAreBooks DEF BooksInv
<1> QED BY <1>1, BooksBalance, PTL

-----------------------------------------------------------------------------
(* Nothing is created: the bound on a balance and on the copy of it in      *)
(* Redis.  What makes it inductive: it covers what the updater has in its   *)
(* hands and what is in the store together with all that running requests   *)
(* may still give back, and whatever a slot has read and may write to Redis.*)
(* A failed UPDATE of the updater would break it (a debit is lost and its   *)
(* refund is not), one that is executed at once does not.                   *)
NoDebitLost == ~BatchUpdateEnabled \/ MaxFaults = 0

Held(s, u) ==
    IF User(s) = u /\ pc[s] \in {"upstream", "settle", "chargeUser"} THEN req[s].pre ELSE 0

HeldBy(u) == [s \in Slots |-> Held(s, u)]

InHand(u) == InBatch(UserQuota, u)
Stored(u) == store[UserQuota][u]

Capped(u) ==
    /\ quota(u) <= Grant[u]
    /\ quota(u) + InHand(u) <= Grant[u]
    /\ quota(u) + InHand(u) + Stored(u) + SumFunction(HeldBy(u)) <= Grant[u]

IdleStore == ~BatchUpdateEnabled => stage = "swap" /\ \A u \in Users : Stored(u) = 0

SeenCapped == \A s \in Slots : req[s].seen <= Grant[User(s)]

CacheCapped == \A u \in Users : cache[u] <= Grant[u]

CapInv ==
    /\ TypeOK /\ StoreInv /\ IdleStore
    /\ \A u \in Users : Capped(u)
    /\ SeenCapped /\ CacheCapped
LEMMA CapTypes ==
    ASSUME TypeOK, NEW u \in Users
    PROVE  /\ u \in Ids /\ Grant[u] \in Nat
           /\ quota(u) \in Int /\ InHand(u) \in Int /\ Stored(u) \in Int /\ cache[u] \in Int
           /\ HeldBy(u) \in [Slots -> Int]
           /\ \A s \in Slots : /\ Held(s, u) \in Nat /\ Held(s, u) <= MaxCost
                               /\ HeldBy(u)[s] = Held(s, u)
           /\ SumFunction(HeldBy(u)) \in Int /\ SumFunction(HeldBy(u)) >= 0
<1>1. u \in Ids /\ Grant[u] \in Nat /\ cache[u] \in Int
  BY BillingAssumption DEF TypeOK
<1>2. UserQuota \in Types /\ "users.quota" \in Columns
  BY DEF UserQuota, Types, Columns
<1>3. quota(u) \in Int /\ InHand(u) \in Int /\ Stored(u) \in Int
  BY <1>1, <1>2 DEF quota, InHand, Stored, InBatch, TypeOK, StoreTypeOK
<1>4. \A s \in Slots : Held(s, u) \in Nat /\ Held(s, u) <= MaxCost
  <2> TAKE s \in Slots
  <2>1. req[s] \in Requests
    BY RequestTypes
  <2>2. req[s].pre \in 0..MaxCost
    BY <2>1 DEF Requests
  <2> QED BY <2>2, BillingAssumption DEF Held
<1>5. HeldBy(u) \in [Slots -> Int] /\ \A s \in Slots : HeldBy(u)[s] = Held(s, u)
  BY <1>4 DEF HeldBy
<1>6. IsFiniteSet(Slots) /\ \A s \in Slots : HeldBy(u)[s] >= 0
  BY <1>4, <1>5, BillingAssumption
<1>7. SumFunction(HeldBy(u)) \in Int /\ SumFunction(HeldBy(u)) >= 0
  <2> DEFINE f == HeldBy(u)
  <2>1. f \in [Slots -> Int] /\ IsFiniteSet(Slots) /\ \A s \in Slots : f[s] >= 0
    BY <1>5, <1>6
  <2> HIDE DEF f
  <2>2. SumFunction(f) \in Int /\ SumFunction(f) >= 0
    BY <2>1, SumType, SumOfNaturals
  <2> QED BY <2>2 DEF f
<1> QED BY <1>1, <1>3, <1>4, <1>5, <1>7

CapTyped ==
    \A u \in Users :
        /\ quota(u) \in Int /\ InHand(u) \in Int /\ Stored(u) \in Int
        /\ HeldBy(u) \in [Slots -> Int]
        /\ \A s \in Slots : Held(s, u) \in Nat /\ HeldBy(u)[s] = Held(s, u)
        /\ SumFunction(HeldBy(u)) \in Int /\ SumFunction(HeldBy(u)) >= 0

LEMMA CapTypesKept == TypeOK' => CapTyped'
<1>1. TypeOK => CapTyped
  BY CapTypes DEF CapTyped
<1> QED BY <1>1, PTL

(* What the calls of a slot do to the three places of a balance.            *)
LEMMA PlacesAfterUpdate ==
    ASSUME TypeOK, NEW u \in Users,
           NEW t \in Types, NEW i \in Ids, NEW v \in Int, Update(t, i, v)
    PROVE  /\ InHand(u)' = InHand(u) /\ stage' = stage
           /\ ~(t = UserQuota /\ i = u) => quota(u)' = quota(u) /\ Stored(u)' = Stored(u)
           /\ t = UserQuota /\ i = u =>
                 \/ BatchUpdateEnabled /\ quota(u)' = quota(u) /\ Stored(u)' = Stored(u) + v
                 \/ ~BatchUpdateEnabled /\ quota(u)' = quota(u) + v /\ Stored(u)' = Stored(u)
<1>1. "users.quota" \in Columns /\ TypeOf["users.quota"] = UserQuota /\ UserQuota \in Types
      /\ u \in Ids
  BY BillingAssumption DEF Columns, TypeOf, Types, UserQuota
<1>2. InHand(u)' = InHand(u) /\ stage' = stage
  BY DEF InHand, InBatch, Update, updaterVars
<1>3. CASE BatchUpdateEnabled
  <2>1. db' = db /\ store' = [store EXCEPT ![t][i] = @ + v]
    BY <1>3 DEF Update, Recorded
  <2>2. quota(u)' = quota(u)
    BY <2>1 DEF quota
  <2>3. Stored(u)' = IF t = UserQuota /\ i = u THEN Stored(u) + v ELSE Stored(u)
    BY <1>1, <2>1 DEF Stored, TypeOK, StoreTypeOK
  <2> QED BY <1>2, <1>3, <2>2, <2>3
<1>4. CASE ~BatchUpdateEnabled
  <2>1. db' = Updated(db, t, i, v) /\ store' = store
    BY <1>4 DEF Update
  <2>2. db'["users.quota"] = IF UserQuota = t
                             THEN [db["users.quota"] EXCEPT ![i] = @ + Signed("users.quota", v)]
                             ELSE db["users.quota"]
    BY <1>1, <2>1 DEF Updated
  <2>3. Signed("users.quota", v) = v /\ db["users.quota"] \in [Ids -> Int]
    BY <1>1 DEF Signed, TypeOK, StoreTypeOK
  <2>4. quota(u)' = IF t = UserQuota /\ i = u THEN quota(u) + v ELSE quota(u)
    BY <1>1, <2>2, <2>3 DEF quota
  <2>5. Stored(u)' = Stored(u)
    BY <2>1 DEF Stored
  <2> QED BY <1>2, <1>4, <2>4, <2>5
<1> QED BY <1>3, <1>4, StoreAssumption

LEMMA PlacesAfterCount ==
    ASSUME TypeOK, NEW u \in Users, NEW i \in Ids, NEW v \in Int,
           UpdateUsedAndCount(i, v)
    PROVE  /\ InHand(u)' = InHand(u) /\ stage' = stage
           /\ quota(u)' = quota(u) /\ Stored(u)' = Stored(u)
<1>1. /\ "users.quota" \in Columns /\ UserQuota \in Types
      /\ TypeOf["users.quota"] # UsedQuota /\ TypeOf["users.quota"] # RequestCount
      /\ UserQuota # UsedQuota /\ UserQuota # RequestCount
  BY DEF Columns, TypeOf, UserQuota, UsedQuota, RequestCount, Types
<1>2. InHand(u)' = InHand(u) /\ stage' = stage
  BY DEF InHand, InBatch, UpdateUsedAndCount, updaterVars
<1>3. db'["users.quota"] = db["users.quota"]
  <2>1. \A m, k, w : TypeOf["users.quota"] # k
            => Updated(m, k, i, w)["users.quota"] = m["users.quota"]
    BY <1>1 DEF Updated
  <2>2. db' = db \/ db' = Updated(Updated(db, UsedQuota, i, v), RequestCount, i, 1)
    BY DEF UpdateUsedAndCount
  <2>3. CASE db' = Updated(Updated(db, UsedQuota, i, v), RequestCount, i, 1)
    <3> DEFINE m == Updated(db, UsedQuota, i, v)
    <3>1. m["users.quota"] = db["users.quota"]
      BY <1>1, <2>1
    <3>2. db' = Updated(m, RequestCount, i, 1)
      BY <2>3
    <3> HIDE DEF m
    <3>3. Updated(m, RequestCount, i, 1)["users.quota"] = m["users.quota"]
      BY <1>1, <2>1
    <3> QED BY <3>1, <3>2, <3>3
  <2> QED BY <2>2, <2>3
<1>4. store'[UserQuota] = store[UserQuota]
  BY <1>1 DEF UpdateUsedAndCount, Recorded, TypeOK, StoreTypeOK
<1> QED BY <1>2, <1>3, <1>4 DEF quota, Stored

(* A step of a slot is one of four: it pre-consumes, it charges (or gives   *)
(* back), or it leaves the balance alone and holds no more than before.     *)
LEMMA BalanceMoves ==
    ASSUME TypeOK, NEW s \in Slots, Step(s), NEW u \in Users
    PROVE  /\ InHand(u)' = InHand(u) /\ stage' = stage
           /\ \/ /\ quota(u)' = quota(u) /\ Stored(u)' = Stored(u)
                 /\ Held(s, u)' <= Held(s, u)
              \/ \E v \in Int :
                 /\ v + Held(s, u)' <= Held(s, u)
                 /\ \/ /\ BatchUpdateEnabled
                       /\ quota(u)' = quota(u) /\ Stored(u)' = Stored(u) + v
                    \/ /\ ~BatchUpdateEnabled
                       /\ quota(u)' = quota(u) + v /\ Stored(u)' = Stored(u)
<1> DEFINE Same == quota(u)' = quota(u) /\ Stored(u)' = Stored(u)
           Rest == InHand(u)' = InHand(u) /\ stage' = stage
           pre == -req[s].pre
           delta == -Delta(s)
           cost == req[s].cost
<1>1. /\ req[s] \in Requests /\ req \in [Slots -> Requests]
      /\ req[s].pre \in Nat /\ req[s].pre \in Int
      /\ pre \in Int /\ delta \in Int /\ cost \in Int
      /\ User(s) \in Users /\ User(s) \in Ids /\ req[s].tok \in Ids
      /\ delta <= req[s].pre
      /\ Held(s, u) \in Nat
      /\ quota(User(s)) \in Int /\ cache[User(s)] \in Int /\ req[s].seen \in Int
  <2>1. /\ req[s] \in Requests /\ req \in [Slots -> Requests] /\ Delta(s) \in Int
        /\ User(s) \in Users /\ User(s) \in Ids /\ req[s].tok \in Ids
    BY RequestTypes DEF TypeOK
  <2>2. req[s].pre \in 0..MaxCost /\ req[s].cost \in 0..MaxCost /\ req[s].seen \in Int
    BY <2>1 DEF Requests
  <2>3. /\ pre \in Int /\ cost \in Int /\ req[s].pre \in Nat /\ req[s].pre \in Int
        /\ Price(s) \in Nat
    BY <2>2, BillingAssumption DEF Price
  <2>4. delta \in Int /\ delta <= req[s].pre
    BY <2>1, <2>3 DEF Delta
  <2>5. Held(s, u) \in Nat /\ quota(User(s)) \in Int /\ cache[User(s)] \in Int
    BY <2>1, CapTypes
  <2> QED BY <2>1, <2>2, <2>3, <2>4, <2>5
<1>2. ASSUME UNCHANGED storeVars \/ UNCHANGED <<db, store, type, stage, batch, todo>>
      PROVE  Same /\ Rest
  BY <1>2 DEF storeVars, quota, Stored, InHand, InBatch
<1>3. ASSUME pc'[s] \notin {"upstream", "settle", "chargeUser"} PROVE Held(s, u)' = 0
  BY <1>3 DEF Held
<1>4. ASSUME pc'[s] \in {"upstream", "settle", "chargeUser"}, req'[s].pre = 0
      PROVE  Held(s, u)' = 0
  BY <1>4 DEF Held
<1> DEFINE Calm == Same /\ Rest /\ Held(s, u)' <= Held(s, u)
<1>5. ASSUME Same, Rest, Held(s, u)' = 0 PROVE Calm
  BY <1>1, <1>5
<1>6. ASSUME NEW q \in Int, Decide(s, q), UNCHANGED storeVars PROVE Calm
  <2>1. CASE ~Sufficient(s, q)
    <3>1. pc'[s] = "idle"
      BY <1>6, <2>1, Moves DEF Decide
    <3> QED BY <1>2, <1>3, <1>5, <1>6, <3>1
  <2>2. CASE Sufficient(s, q)
    <3>1. /\ req' = [req EXCEPT ![s].pre = PreConsumed(s, q)]
          /\ pc'[s] \in {"reserve", "preToken", "upstream"}
          /\ pc'[s] = "upstream" => ~(PreConsumed(s, q) > 0)
      BY <1>6, <2>2, Moves DEF Decide
    <3>2. PreConsumed(s, q) \in Nat
      <4>1. PreConsumed(s, q) \in 0..MaxCost
        BY RequestTypes
      <4> QED BY <4>1, BillingAssumption
    <3>3. CASE pc'[s] = "upstream"
      <4>1. PreConsumed(s, q) = 0
        BY <3>1, <3>2, <3>3
      <4>2. req'[s].pre = 0
        BY <1>1, <3>1, <4>1 DEF Requests
      <4> QED BY <1>2, <1>4, <1>5, <1>6, <3>3, <4>2
    <3>4. CASE pc'[s] # "upstream"
      BY <1>2, <1>3, <1>5, <1>6, <3>1, <3>4
    <3> QED BY <3>3, <3>4
  <2> QED BY <2>1, <2>2
<1>7. ASSUME GetBalance(s) \/ FillBalance(s) PROVE Calm
  <2>1. UNCHANGED storeVars
    BY <1>7 DEF GetBalance, FillBalance
  <2>2. CASE \E q \in Int : Decide(s, q)
    BY <1>6, <2>1, <2>2
  <2>3. CASE Goto(s, "fetch")
    <3>1. pc'[s] = "fetch"
      BY <2>3, Moves
    <3> QED BY <1>2, <1>3, <1>5, <2>1, <3>1
  <2>4. (\E q \in Int : Decide(s, q)) \/ Goto(s, "fetch")
    BY <1>1, <1>7 DEF GetBalance, FillBalance
  <2> QED BY <2>2, <2>3, <2>4
<1>8. ASSUME CheckQuota(s) \/ CheckUsed(s) \/ FetchBalance(s) \/ PreCheckToken(s)
             \/ PreCheckUser(s) \/ Refresh(s) \/ Refetch(s) \/ Store(s) \/ TakeFails(s)
      PROVE  Calm
  <2>1. pc'[s] \notin {"upstream", "settle", "chargeUser"}
    BY <1>8, Moves
    DEF CheckQuota, CheckUsed, FetchBalance, PreCheckToken, PreCheckUser, Refresh,
        Refetch, Store, TakeFails
  <2>2. UNCHANGED storeVars \/ UNCHANGED <<db, store, type, stage, batch, todo>>
    BY <1>8
    DEF CheckQuota, CheckUsed, FetchBalance, PreCheckToken, PreCheckUser, Refresh,
        Refetch, Store, TakeFails, Abandoned, updaterVars
  <2> QED BY <1>2, <1>3, <1>5, <2>1, <2>2
<1>9. ASSUME Reserve(s) PROVE Calm
  <2>1. UNCHANGED storeVars /\ req' = req
    BY <1>9 DEF Reserve
  <2>2. Held(s, u)' = 0
    <3>1. CASE req[s].pre > 0
      BY <1>3, <1>9, <3>1, Moves DEF Reserve
    <3>2. CASE ~(req[s].pre > 0)
      <4>1. pc'[s] = "upstream" /\ req'[s].pre = 0
        BY <1>1, <1>9, <2>1, <3>2, Moves DEF Reserve
      <4> QED BY <1>4, <4>1
    <3> QED BY <3>1, <3>2
  <2> QED BY <1>2, <1>5, <2>1, <2>2
<1>10. ASSUME Answer(s) \/ Fail(s) \/ FindToken(s) PROVE Calm
  <2>1. UNCHANGED storeVars /\ pc[s] \in {"upstream", "settle"}
    BY <1>10 DEF Answer, Fail, FindToken
  <2>2. Held(s, u)' <= Held(s, u)
    <3>1. CASE pc'[s] \notin {"upstream", "settle", "chargeUser"}
      BY <1>1, <1>3, <3>1
    <3>2. CASE pc'[s] \in {"upstream", "settle", "chargeUser"}
      <4>1. req' = req \/ req' = [req EXCEPT ![s].kind = "rollback"]
        BY <1>10, <3>2, Moves DEF Answer, Fail, FindToken, AfterCharge
      <4>2. req'[s].pre = req[s].pre /\ req'[s].tok = req[s].tok
        BY <1>1, <4>1 DEF Requests
      <4>3. Held(s, u)' = Held(s, u)
        BY <2>1, <3>2, <4>2 DEF Held, User
      <4> QED BY <1>1, <4>3
    <3> QED BY <3>1, <3>2
  <2> QED BY <1>2, <2>1, <2>2
<1>11. /\ TokenQuota \in Types /\ ChannelUsedQuota \in Types /\ UserQuota \in Types
       /\ TokenQuota # UserQuota /\ ChannelUsedQuota # UserQuota
  BY DEF TokenQuota, ChannelUsedQuota, UserQuota, Types
<1>12. ASSUME TakeFromToken(s) PROVE Calm
  <2>1. Update(TokenQuota, req[s].tok, pre) /\ pc'[s] = "takeUser"
    BY <1>12, Moves DEF TakeFromToken
  <2>2. Same /\ Rest
    <3> HIDE DEF pre
    <3> QED BY <1>1, <1>11, <2>1, PlacesAfterUpdate
  <2> QED BY <1>3, <1>5, <2>1, <2>2
<1>13. ASSUME ChargeToken(s) PROVE Calm
  <2>1. /\ Update(TokenQuota, req[s].tok, delta) \/ UpdateFails(TokenQuota, req[s].tok, delta)
        /\ pc'[s] \in {"idle", "refresh", "count"}
    BY <1>13, Moves DEF ChargeToken
  <2>2. Same /\ Rest
    <3>1. CASE Update(TokenQuota, req[s].tok, delta)
      <4> HIDE DEF delta
      <4> QED BY <1>1, <1>11, <3>1, PlacesAfterUpdate
    <3>2. CASE UpdateFails(TokenQuota, req[s].tok, delta)
      BY <1>2, <3>2 DEF UpdateFails
    <3> QED BY <2>1, <3>1, <3>2
  <2> QED BY <1>3, <1>5, <2>1, <2>2
<1>14. ASSUME CountChannel(s) PROVE Calm
  <2>1. /\ \/ Update(ChannelUsedQuota, Channel, cost)
           \/ UpdateFails(ChannelUsedQuota, Channel, cost)
        /\ pc'[s] = "idle"
    BY <1>14, Moves DEF CountChannel
  <2>2. Same /\ Rest
    <3>1. CASE Update(ChannelUsedQuota, Channel, cost)
      <4> HIDE DEF cost
      <4> QED BY <1>1, <1>11, <3>1, PlacesAfterUpdate, BillingAssumption
    <3>2. CASE UpdateFails(ChannelUsedQuota, Channel, cost)
      BY <1>2, <3>2 DEF UpdateFails
    <3> QED BY <2>1, <3>1, <3>2
  <2> QED BY <1>3, <1>5, <2>1, <2>2
<1>15. ASSUME Count(s) PROVE Calm
  <2>1. /\ \/ UNCHANGED storeVars
           \/ UpdateUsedAndCount(User(s), cost) \/ UsedAndCountFails(User(s), cost)
        /\ pc'[s] \in {"idle", "channel"}
    BY <1>15, Moves DEF Count
  <2>2. Same /\ Rest
    <3>1. CASE UpdateUsedAndCount(User(s), cost)
      <4> HIDE DEF cost
      <4> QED BY <1>1, <3>1, PlacesAfterCount
    <3>2. CASE UsedAndCountFails(User(s), cost)
      BY <1>2, <3>2 DEF UsedAndCountFails
    <3> QED BY <1>2, <2>1, <3>1, <3>2
  <2> QED BY <1>3, <1>5, <2>1, <2>2
<1> DEFINE Shift(v) == \/ /\ BatchUpdateEnabled
                          /\ quota(u)' = quota(u) /\ Stored(u)' = Stored(u) + v
                       \/ /\ ~BatchUpdateEnabled
                          /\ quota(u)' = quota(u) + v /\ Stored(u)' = Stored(u)
<1>16. ASSUME TakeFromUser(s)
       PROVE  Rest /\ (Calm \/ \E v \in Int : v + Held(s, u)' <= Held(s, u) /\ Shift(v))
  <2>1. /\ Update(UserQuota, User(s), pre) /\ pc[s] = "takeUser" /\ pc'[s] = "upstream"
        /\ req' = req
    BY <1>16, Moves DEF TakeFromUser
  <2>2. /\ Rest
        /\ User(s) # u => Same
        /\ User(s) = u => Shift(pre)
    <3> HIDE DEF pre
    <3> QED BY <1>1, <1>11, <2>1, PlacesAfterUpdate
  <2>3. Held(s, u) = 0 /\ Held(s, u)' = IF User(s) = u THEN req[s].pre ELSE 0
    BY <2>1 DEF Held, User
  <2>4. CASE User(s) # u
    BY <1>1, <2>2, <2>3, <2>4
  <2>5. CASE User(s) = u
    <3>1. pre + Held(s, u)' <= Held(s, u)
      BY <1>1, <2>3, <2>5
    <3> HIDE DEF pre
    <3> QED BY <1>1, <2>2, <2>5, <3>1
  <2> QED BY <2>4, <2>5
<1>17. ASSUME ChargeUser(s) \/ ChargeUserFails(s)
       PROVE  Rest /\ (Calm \/ \E v \in Int : v + Held(s, u)' <= Held(s, u) /\ Shift(v))
  <2>1. /\ Update(UserQuota, User(s), delta) \/ UpdateFails(UserQuota, User(s), delta)
        /\ pc[s] = "chargeUser" /\ pc'[s] \in {"idle", "refresh", "count", "chargeToken"}
    BY <1>17, Moves DEF ChargeUser, ChargeUserFails
  <2>2. Held(s, u)' = 0 /\ Held(s, u) = IF User(s) = u THEN req[s].pre ELSE 0
    BY <1>3, <2>1 DEF Held
  <2>3. CASE UpdateFails(UserQuota, User(s), delta)
    BY <1>1, <1>2, <2>2, <2>3 DEF UpdateFails
  <2>4. CASE Update(UserQuota, User(s), delta)
    <3>1. /\ Rest
          /\ User(s) # u => Same
          /\ User(s) = u => Shift(delta)
      <4> HIDE DEF delta
      <4> QED BY <1>1, <1>11, <2>4, PlacesAfterUpdate
    <3>2. CASE User(s) # u
      BY <1>1, <2>2, <3>1, <3>2
    <3>3. CASE User(s) = u
      <4> HIDE DEF delta
      <4>1. delta + Held(s, u)' <= Held(s, u)
        BY <1>1, <2>2, <3>3
      <4> QED BY <1>1, <3>1, <3>3, <4>1
    <3> QED BY <3>2, <3>3
  <2> QED BY <2>1, <2>3, <2>4
<1> HIDE DEF pre, delta, cost
<1> QED BY <1>7, <1>8, <1>9, <1>10, <1>12, <1>13, <1>14, <1>15, <1>16, <1>17
        DEF Step, Proceed, Upstream

(* The bound survives a step of one slot ...                                *)
LEMMA StepKeepsCap ==
    ASSUME TypeOK, TypeOK', StoreInv, IdleStore, NEW u \in Users, Capped(u),
           NEW s \in Slots, Step(s)
    PROVE  Capped(u)'
<1> DEFINE f == HeldBy(u)
           g == HeldBy(u)'
           q == quota(u)
           i == InHand(u)
           o == Stored(u)
           c == SumFunction(f)
           d == SumFunction(g)
<1>0. /\ f \in [Slots -> Int] /\ g \in [Slots -> Int] /\ IsFiniteSet(Slots)
      /\ f[s] = Held(s, u) /\ g[s] = Held(s, u)'
      /\ Held(s, u) \in Int /\ Held(s, u)' \in Int /\ Grant[u] \in Int
      /\ q \in Int /\ i \in Int /\ o \in Int /\ c \in Int
      /\ d \in Int /\ d >= 0
  BY CapTypes, CapTypesKept, BillingAssumption DEF CapTyped
<1>1. \A r \in Slots : r # s => g[r] = f[r]
  <2>1. \A r \in Slots : r # s => pc'[r] = pc[r] /\ req'[r] = req[r]
    BY OneSlotMoves
  <2> QED BY <2>1 DEF HeldBy, Held, User
<1>2. /\ q <= Grant[u] /\ q + i <= Grant[u] /\ q + i + o + c <= Grant[u]
  BY DEF Capped
<1>3. /\ InHand(u)' = i
      /\ \/ /\ quota(u)' = q /\ Stored(u)' = o
            /\ Held(s, u)' <= Held(s, u)
         \/ \E v \in Int :
            /\ v + Held(s, u)' <= Held(s, u)
            /\ \/ BatchUpdateEnabled /\ quota(u)' = q /\ Stored(u)' = o + v
               \/ ~BatchUpdateEnabled /\ quota(u)' = q + v /\ Stored(u)' = o
  BY BalanceMoves
<1>4. ~BatchUpdateEnabled => i = 0 /\ o = 0
  BY DEF IdleStore, StoreInv, InHand, InBatch
<1> DEFINE Below == /\ quota(u)' <= Grant[u]
                    /\ quota(u)' + InHand(u)' <= Grant[u]
                    /\ quota(u)' + InHand(u)' + Stored(u)' + d <= Grant[u]
<1> HIDE DEF f, g, q, i, o
<1>5. d = c + (Held(s, u)' - Held(s, u))
  <2>1. d = c + (g[s] - f[s])
    BY <1>0, <1>1, SumMoves
  <2> QED BY <1>0, <2>1
<1> HIDE DEF c, d
<1>6. Below
  <2>1. CASE quota(u)' = q /\ Stored(u)' = o /\ Held(s, u)' <= Held(s, u)
    BY <1>0, <1>2, <1>3, <1>5, <2>1
  <2>2. ASSUME NEW v \in Int, v + Held(s, u)' <= Held(s, u),
               BatchUpdateEnabled, quota(u)' = q, Stored(u)' = o + v
        PROVE  Below
    BY <1>0, <1>2, <1>3, <1>5, <2>2
  <2>3. ASSUME NEW v \in Int, v + Held(s, u)' <= Held(s, u),
               ~BatchUpdateEnabled, quota(u)' = q + v, Stored(u)' = o
        PROVE  Below
    BY <1>0, <1>2, <1>3, <1>4, <1>5, <2>3
  <2> QED BY <1>3, <2>1, <2>2, <2>3
<1> QED BY <1>6 DEF Capped, d, g

(* ... and steps that move neither a balance nor what the slots hold.       *)
LEMMA CapUntouched ==
    ASSUME NEW u \in Users, Capped(u),
           quota(u)' = quota(u), InHand(u)' = InHand(u), Stored(u)' = Stored(u),
           \A s \in Slots : Held(s, u)' = Held(s, u)
    PROVE  Capped(u)'
<1>1. HeldBy(u)' = HeldBy(u)
  BY DEF HeldBy
<1> QED BY <1>1 DEF Capped

(* The updater moves a record from the store to its hands, and from there   *)
(* to the balance.                                                          *)
LEMMA UpdaterKeepsCap ==
    ASSUME TypeOK, TypeOK', StoreInv, NEW u \in Users, Capped(u),
           Updater, UNCHANGED <<pc, req>>
    PROVE  Capped(u)'
<1> DEFINE c == SumFunction(HeldBy(u))
<1>0. /\ quota(u) \in Int /\ InHand(u) \in Int /\ Stored(u) \in Int /\ Grant[u] \in Int
      /\ c \in Int /\ c >= 0 /\ u \in Ids
  BY CapTypes
<1>1. SumFunction(HeldBy(u))' = c /\ \A s \in Slots : Held(s, u)' = Held(s, u)
  <2>1. \A s \in Slots : Held(s, u)' = Held(s, u)
    BY DEF Held, User
  <2>2. HeldBy(u)' = HeldBy(u)
    BY <2>1 DEF HeldBy
  <2> QED BY <2>1, <2>2
<1> HIDE DEF c
<1>2. /\ quota(u) <= Grant[u] /\ quota(u) + InHand(u) <= Grant[u]
      /\ quota(u) + InHand(u) + Stored(u) + c <= Grant[u]
  BY DEF Capped, c
<1>3. /\ UserQuota \in Types /\ "users.quota" \in Columns
      /\ TypeOf["users.quota"] = UserQuota /\ type \in Types
      /\ db["users.quota"] \in [Ids -> Int] /\ batch \in [Ids -> Int]
      /\ store \in [Types -> [Ids -> Int]]
  BY DEF UserQuota, Types, Columns, TypeOf, TypeOK, StoreTypeOK
<1>4. ASSUME /\ quota(u)' <= Grant[u] /\ quota(u)' + InHand(u)' <= Grant[u]
             /\ quota(u)' + InHand(u)' + Stored(u)' + c <= Grant[u]
      PROVE  Capped(u)'
  BY <1>1, <1>4 DEF Capped
<1>5. CASE Swap
  <2>1. quota(u)' = quota(u) /\ InHand(u) = 0
    BY <1>5 DEF Swap, quota, StoreInv, InHand, InBatch
  <2>2. CASE type = UserQuota
    <3>1. Stored(u)' = 0
      BY <1>0, <1>3, <1>5, <2>2 DEF Swap, Stored, NoRecords
    <3>2. InHand(u)' = Stored(u)
      BY <1>0, <1>3, <1>5, <2>2 DEF Swap, Stored, InHand, InBatch
    <3> QED BY <1>0, <1>2, <1>4, <2>1, <3>1, <3>2
  <2>3. CASE type # UserQuota
    <3>1. Stored(u)' = Stored(u) /\ InHand(u)' = 0
      BY <1>3, <1>5, <2>3 DEF Swap, Stored, InHand, InBatch
    <3> QED BY <1>1, <2>1, <3>1, CapUntouched
  <2> QED BY <2>2, <2>3
<1>6. ASSUME NEW k \in Ids, Apply(k) PROVE Capped(u)'
  <2>1. Stored(u)' = Stored(u) /\ k \in todo
    BY <1>6 DEF Apply, Stored
  <2>2. db'["users.quota"] = IF UserQuota = type
                THEN [db["users.quota"] EXCEPT ![k] = @ + Signed("users.quota", batch[k])]
                ELSE db["users.quota"]
    BY <1>3, <1>6 DEF Apply, Updated
  <2>3. CASE type = UserQuota /\ k = u
    <3>1. quota(u)' = quota(u) + InHand(u)
      BY <1>3, <2>1, <2>2, <2>3 DEF quota, Signed, InHand, InBatch
    <3>2. InHand(u)' = 0
      BY <1>6, <2>3 DEF Apply, InHand, InBatch
    <3> QED BY <1>0, <1>2, <1>4, <2>1, <3>1, <3>2
  <2>4. CASE ~(type = UserQuota /\ k = u)
    <3>1. quota(u)' = quota(u)
      BY <1>0, <1>3, <2>2, <2>4 DEF quota
    <3>2. InHand(u)' = InHand(u)
      BY <1>6, <2>4 DEF Apply, InHand, InBatch
    <3> QED BY <1>1, <2>1, <3>1, <3>2, CapUntouched
  <2> QED BY <2>3, <2>4
<1>7. CASE Advance
  <2>1. /\ quota(u)' = quota(u) /\ Stored(u)' = Stored(u)
        /\ InHand(u)' = 0 /\ InHand(u) = 0
    BY <1>7 DEF Advance, quota, Stored, InHand, InBatch
  <2> QED BY <1>1, <2>1, CapUntouched
<1> QED BY <1>5, <1>6, <1>7 DEF Updater

(* What a slot has read, after any of its steps ...                         *)
LEMMA StepKeepsSeen ==
    ASSUME TypeOK, TypeOK', \A u \in Users : Capped(u), SeenCapped, CacheCapped,
           NEW s \in Slots, Step(s)
    PROVE  SeenCapped'
<1> DEFINE Good == req'[s].seen <= Grant[User(s)']
<1>1. /\ req[s] \in Requests /\ req \in [Slots -> Requests]
      /\ User(s) \in Users /\ quota(User(s)) \in Int /\ cache[User(s)] \in Int
      /\ req[s].seen <= Grant[User(s)]
      /\ quota(User(s)) <= Grant[User(s)] /\ cache[User(s)] <= Grant[User(s)]
  <2>1. req[s] \in Requests /\ req \in [Slots -> Requests] /\ User(s) \in Users
    BY RequestTypes DEF TypeOK
  <2>2. quota(User(s)) \in Int /\ cache[User(s)] \in Int
    BY <2>1, CapTypes
  <2> QED BY <2>1, <2>2 DEF Capped, SeenCapped, CacheCapped
<1>2. req' = req => Good
  BY <1>1 DEF User
<1>3. req' = [req EXCEPT ![s] = Blank] => Good
  <2>1. Blank.seen = 0 /\ Blank.tok \in Tokens
    BY BlankType DEF Blank, Request, Requests
  <2>2. Owner[Blank.tok] \in Users
    BY <2>1, BillingAssumption
  <2>3. Grant[Owner[Blank.tok]] \in Nat
    BY <2>2, BillingAssumption
  <2> QED BY <1>1, <2>1, <2>3 DEF User
<1>4. \A x \in Int : x <= Grant[User(s)] /\ req' = [req EXCEPT ![s].seen = x] => Good
  BY <1>1 DEF User, Requests
<1>5. \A x : req' = [req EXCEPT ![s].pre = x] => Good
  BY <1>1 DEF User, Requests
<1>6. req' = [req EXCEPT ![s].kind = "rollback"] => Good
  BY <1>1 DEF User, Requests
<1>7. Leave(s) => Good
  BY <1>3 DEF Leave
<1>8. \A q : Decide(s, q) => Good
  BY <1>5, <1>7 DEF Decide
<1>9. AfterCharge(s) => Good
  BY <1>2, <1>7 DEF AfterCharge
<1>10. AfterUser(s) => Good
  BY <1>2, <1>9 DEF AfterUser
<1>11. ASSUME CheckQuota(s) \/ FetchBalance(s) \/ Refresh(s) \/ Refetch(s) PROVE Good
  <2>1. \/ req' = req
        \/ req' = [req EXCEPT ![s].seen = quota(User(s))]
        \/ req' = [req EXCEPT ![s].seen = cache[User(s)]]
    BY <1>11 DEF CheckQuota, FetchBalance, Refresh, Refetch, See
  <2> QED BY <1>1, <1>2, <1>4, <2>1
<1>12. ASSUME CheckUsed(s) \/ Reserve(s) \/ PreCheckToken(s) \/ PreCheckUser(s)
              \/ TakeFromToken(s) \/ TakeFromUser(s) \/ TakeFails(s) \/ Answer(s)
              \/ Store(s) \/ Count(s) \/ CountChannel(s)
       PROVE  Good
  <2>1. req' = req \/ Leave(s)
    BY <1>12 DEF CheckUsed, Reserve, PreCheckToken, PreCheckUser, TakeFromToken,
                 TakeFromUser, TakeFails, Answer, Store, Count, CountChannel
  <2> QED BY <1>2, <1>7, <2>1
<1>13. ASSUME GetBalance(s) \/ FillBalance(s) PROVE Good
  <2>1. req' = req \/ \E q : Decide(s, q)
    BY <1>13 DEF GetBalance, FillBalance
  <2> QED BY <1>2, <1>8, <2>1
<1>14. ASSUME Fail(s) \/ FindToken(s) \/ ChargeUser(s) \/ ChargeUserFails(s) \/ ChargeToken(s)
       PROVE  Good
  <2>1. \/ req' = req \/ Leave(s) \/ AfterCharge(s) \/ AfterUser(s)
        \/ req' = [req EXCEPT ![s].kind = "rollback"]
    BY <1>14 DEF Fail, FindToken, ChargeUser, ChargeUserFails, ChargeToken
  <2> QED BY <1>2, <1>6, <1>7, <1>9, <1>10, <2>1
<1>15. Good
  BY <1>11, <1>12, <1>13, <1>14 DEF Step, Proceed, Upstream
<1>16. \A r \in Slots : r # s => req'[r] = req[r]
  BY OneSlotMoves
<1> QED BY <1>15, <1>16 DEF SeenCapped, User

(* ... and what it leaves in Redis: what it has read, or less than was there.*)
LEMMA StepKeepsCache ==
    ASSUME TypeOK, SeenCapped, CacheCapped, NEW s \in Slots, Step(s)
    PROVE  CacheCapped'
<1>1. /\ req[s] \in Requests /\ User(s) \in Users /\ req[s].seen <= Grant[User(s)]
      /\ cache \in [Users -> Int] /\ cache[User(s)] <= Grant[User(s)]
      /\ Grant[User(s)] \in Nat /\ Reserved(s) \in Nat
  <2>1. req[s] \in Requests /\ User(s) \in Users /\ cache \in [Users -> Int]
    BY RequestTypes DEF TypeOK
  <2>2. Grant[User(s)] \in Nat
    BY <2>1, BillingAssumption
  <2>3. Reserved(s) \in Nat
    <3>1. req[s].cost \in 0..MaxCost
      BY <2>1 DEF Requests
    <3> QED BY <3>1, BillingAssumption DEF Reserved
  <2> QED BY <2>1, <2>2, <2>3 DEF SeenCapped, CacheCapped
<1>2. cache' = cache => CacheCapped'
  BY DEF CacheCapped
<1>3. \A x \in Int : x <= Grant[User(s)] /\ cache' = [cache EXCEPT ![User(s)] = x]
          => CacheCapped'
  BY <1>1 DEF CacheCapped
<1>4. CASE FillBalance(s) \/ Store(s)
  <2>1. cache' = [cache EXCEPT ![User(s)] = req[s].seen] /\ req[s].seen \in Int
    BY <1>1, <1>4 DEF FillBalance, Store, Fill, Requests
  <2> QED BY <1>1, <1>3, <2>1
<1>5. CASE Reserve(s)
  <2> DEFINE x == (IF User(s) \in cached THEN cache[User(s)] ELSE 0) - Reserved(s)
  <2>1. x \in Int /\ x <= Grant[User(s)]
    BY <1>1
  <2>2. cache' = [cache EXCEPT ![User(s)] = x]
    BY <1>5 DEF Reserve
  <2> HIDE DEF x
  <2> QED BY <1>3, <2>1, <2>2
<1>6. CASE ~FillBalance(s) /\ ~Store(s) /\ ~Reserve(s)
  <2>1. cache' = cache
    BY <1>6
    DEF Step, Proceed, Upstream,
        CheckQuota, CheckUsed, GetBalance, FetchBalance, PreCheckToken, PreCheckUser,
        TakeFromToken, TakeFromUser, TakeFails, Answer, Fail, FindToken, ChargeUser,
        ChargeUserFails, ChargeToken, Refresh, Refetch, Count, CountChannel, caches
  <2> QED BY <1>2, <2>1
<1> QED BY <1>4, <1>5, <1>6

LEMMA CapStart == Init /\ TypeOK => CapInv
<1> SUFFICES ASSUME Init, TypeOK PROVE CapInv
  OBVIOUS
<1>1. StoreInv
  BY DEF Init, StoreInit, StoreInv, TypeOK
<1>2. \A u \in Users : u \in Ids /\ Grant[u] \in Nat
  BY BillingAssumption
<1>3. \A u \in Users : Stored(u) = 0 /\ InHand(u) = 0 /\ quota(u) = Grant[u]
  <2> TAKE u \in Users
  <2>1. UserQuota \in Types /\ "users.quota" \in Columns
    BY DEF UserQuota, Types, Columns
  <2>2. Stored(u) = 0 /\ InHand(u) = 0
    BY <1>2, <2>1 DEF Init, StoreInit, NoRecords, Stored, InHand, InBatch
  <2>3. quota(u) = Grant[u]
    BY <1>2, <2>1 DEF Init, StoreInit, Initially, quota
  <2> QED BY <2>2, <2>3
<1>4. IdleStore
  BY <1>3 DEF IdleStore, Init, StoreInit
<1>5. ASSUME NEW u \in Users PROVE Capped(u)
  <2> DEFINE f == HeldBy(u)
  <2>1. f \in [Slots -> Int] /\ IsFiniteSet(Slots)
    BY CapTypes, BillingAssumption
  <2>2. \A s \in Slots : f[s] = 0
    BY DEF Init, HeldBy, Held
  <2> HIDE DEF f
  <2>3. SumFunction(f) = 0
    BY <2>1, <2>2, SumOfZeros
  <2> QED BY <1>2, <1>3, <2>3 DEF Capped, f
<1>6. SeenCapped
  <2>1. \A s \in Slots : req[s].seen = 0 /\ User(s) \in Users
    BY RequestTypes DEF Init, Blank, Request
  <2> QED BY <1>2, <2>1 DEF SeenCapped
<1>7. CacheCapped
  BY <1>2 DEF CacheCapped, Init
<1> QED BY <1>1, <1>4, <1>5, <1>6, <1>7 DEF CapInv

LEMMA CapStep == NoDebitLost /\ CapInv /\ TypeOK' /\ [Next]_vars => CapInv'
<1> SUFFICES ASSUME NoDebitLost, CapInv, TypeOK', [Next]_vars PROVE CapInv'
  OBVIOUS
<1>1. /\ TypeOK /\ StoreInv /\ IdleStore /\ SeenCapped /\ CacheCapped
      /\ \A u \in Users : Capped(u)
  BY DEF CapInv
<1>2. \A u \in Users : /\ u \in Ids /\ Grant[u] \in Nat
                       /\ quota(u) \in Int /\ InHand(u) \in Int /\ Stored(u) \in Int
  BY <1>1, CapTypes
<1>3. CASE \E s \in Slots : Step(s)
  <2>1. PICK s \in Slots : Step(s)
    BY <1>3
  <2>2. StoreInv'
    BY <1>1, <2>1, StepLeavesStore
  <2>3. \A u \in Users : Capped(u)'
    BY <1>1, <2>1, StepKeepsCap
  <2>4. SeenCapped' /\ CacheCapped'
    BY <1>1, <2>1, StepKeepsSeen, StepKeepsCache
  <2>5. IdleStore'
    <3> SUFFICES ASSUME ~BatchUpdateEnabled
                 PROVE  stage' = "swap" /\ \A u \in Users : Stored(u)' = 0
      BY DEF IdleStore
    <3>1. ASSUME NEW u \in Users PROVE Stored(u)' = 0
      <4>1. Stored(u) = 0
        BY <1>1 DEF IdleStore
      <4>2. Stored(u)' = Stored(u)
        BY <1>1, <2>1, BalanceMoves
      <4> QED BY <4>1, <4>2
    <3>2. stage' = stage
      BY <2>1
      DEF Step, Proceed, Upstream,
          CheckQuota, CheckUsed, GetBalance, FetchBalance, FillBalance, Reserve,
          PreCheckToken, PreCheckUser, TakeFromToken, TakeFromUser, TakeFails, Answer,
          Fail, FindToken, ChargeUser, ChargeUserFails, ChargeToken, Refresh, Refetch,
          Store, Count, CountChannel, storeVars, Abandoned, UpdateFails, Update,
          UpdateUsedAndCount, UsedAndCountFails, updaterVars
    <3> QED BY <1>1, <3>1, <3>2 DEF IdleStore
  <2> QED BY <2>2, <2>3, <2>4, <2>5 DEF CapInv
<1>4. ASSUME UNCHANGED storeVars
      PROVE  /\ StoreInv' /\ IdleStore'
             /\ \A u \in Users : quota(u)' = quota(u) /\ InHand(u)' = InHand(u)
                                 /\ Stored(u)' = Stored(u)
  BY <1>1, <1>4 DEF storeVars, StoreInv, TypeOK, IdleStore, quota, InHand, InBatch, Stored
<1>5. ASSUME UNCHANGED <<pc, req>>
      PROVE  /\ SeenCapped'
             /\ \A s \in Slots, u \in Users : Held(s, u)' = Held(s, u)
  BY <1>1, <1>5 DEF SeenCapped, Held, User
<1>6. ASSUME NEW s \in Slots, NEW t \in Tokens, NEW k \in Kinds, NEW c \in Costs,
             Arrive(s, t, k, c)
      PROVE  CapInv'
  <2>1. /\ pc[s] = "idle" /\ pc'[s] = "quota"
        /\ \A r \in Slots \ {s} : pc'[r] = pc[r] /\ req'[r] = req[r]
        /\ UNCHANGED <<storeVars, cache>>
    BY <1>1, <1>6, Moves DEF Arrive, Goto, TypeOK, caches
  <2>2. \A r \in Slots, u \in Users : Held(r, u)' = Held(r, u)
    BY <2>1 DEF Held, User
  <2>3. \A u \in Users : Capped(u)'
    BY <1>1, <1>4, <2>1, <2>2, CapUntouched
  <2>4. SeenCapped'
    <3>1. req'[s].seen = 0 /\ User(s)' \in Users
      <4>1. req'[s] = Request(t, k, c)
        BY <1>1, <1>6 DEF Arrive, TypeOK
      <4> QED BY <4>1, BillingAssumption DEF Request, User
    <3>2. \A r \in Slots \ {s} : req'[r].seen <= Grant[User(r)']
      BY <1>1, <2>1 DEF SeenCapped, User
    <3> QED BY <1>2, <3>1, <3>2 DEF SeenCapped
  <2>5. CacheCapped'
    BY <1>1, <2>1 DEF CacheCapped
  <2> QED BY <1>4, <2>1, <2>3, <2>4, <2>5 DEF CapInv
<1>7. CASE \/ UNCHANGED vars
           \/ \E t \in Tokens : Exhaust(t) \/ Delete(t)
           \/ \E u \in Users : Expire(u)
  <2>1. UNCHANGED <<storeVars, pc, req>>
    BY <1>7 DEF vars, billingVars, Exhaust, Delete, Expire
  <2>2. \A u \in Users : Capped(u)'
    BY <1>1, <1>4, <1>5, <2>1, CapUntouched
  <2>3. CacheCapped'
    <3>1. CASE \E u \in Users : Expire(u)
      BY <1>1, <1>2, <3>1 DEF Expire, CacheCapped, TypeOK
    <3>2. CASE cache' = cache
      BY <1>1, <3>2 DEF CacheCapped
    <3> QED BY <1>7, <3>1, <3>2 DEF vars, billingVars, Exhaust, Delete, caches
  <2> QED BY <1>4, <1>5, <2>1, <2>2, <2>3 DEF CapInv
<1>8. CASE Updater /\ UNCHANGED billingVars
  <2>1. UNCHANGED <<pc, req, cache>>
    BY <1>8 DEF billingVars
  <2>2. StoreInv'
    BY <1>1, <1>8, StoreInvStep DEF Updater
  <2>3. BatchUpdateEnabled
    BY <1>1, <1>8 DEF Updater, Swap, Apply, Advance, IdleStore
  <2>4. \A u \in Users : Capped(u)'
    BY <1>1, <1>8, <2>1, UpdaterKeepsCap
  <2>5. CacheCapped' /\ IdleStore'
    BY <1>1, <2>1, <2>3 DEF CacheCapped, IdleStore
  <2> QED BY <1>5, <2>1, <2>2, <2>4, <2>5 DEF CapInv
<1>9. CASE \E i \in Ids : ApplyFails(i)
  <2>1. stage = "apply" /\ faults < MaxFaults /\ faults \in Nat
    BY <1>1, <1>9, StoreAssumption DEF ApplyFails, TypeOK, StoreTypeOK
  <2> QED BY <1>1, <2>1 DEF NoDebitLost, IdleStore
<1>10. CASE Die
  <2>1. ~BatchUpdateEnabled
    <3>1. faults < MaxFaults /\ faults \in Nat
      BY <1>1, <1>10, StoreAssumption DEF Die, Crash, TypeOK, StoreTypeOK
    <3> QED BY <3>1 DEF NoDebitLost
  <2>2. StoreInv'
    BY <1>1, <1>10, StoreInvStep DEF Die
  <2>3. /\ stage' = "swap"
        /\ \A u \in Users : Stored(u)' = 0 /\ InHand(u)' = 0 /\ quota(u)' = quota(u)
    <3>1. UserQuota \in Types
      BY DEF UserQuota, Types
    <3> QED BY <1>2, <1>10, <3>1
            DEF Die, Crash, NoRecords, Stored, InHand, InBatch, quota
  <2>4. ASSUME NEW u \in Users PROVE Capped(u)'
    <3> DEFINE f == HeldBy(u)'
    <3>1. f \in [Slots -> Int] /\ IsFiniteSet(Slots)
      BY CapTypesKept, BillingAssumption DEF CapTyped
    <3>2. \A s \in Slots : f[s] = 0
      BY <1>10 DEF Die, HeldBy, Held
    <3> HIDE DEF f
    <3>3. SumFunction(f) = 0
      BY <3>1, <3>2, SumOfZeros
    <3>4. quota(u) <= Grant[u]
      BY <1>1 DEF Capped
    <3> QED BY <1>2, <2>3, <3>3, <3>4 DEF Capped, f
  <2>5. SeenCapped'
    <3> SUFFICES ASSUME NEW s \in Slots PROVE req'[s].seen <= Grant[User(s)']
      BY DEF SeenCapped, User
    <3>1. req'[s] = Blank
      BY <1>10 DEF Die
    <3>2. Blank.seen = 0 /\ Blank.tok \in Tokens
      BY BlankType DEF Blank, Request, Requests
    <3>3. Owner[Blank.tok] \in Users
      BY <3>2, BillingAssumption
    <3> QED BY <1>2, <3>1, <3>2, <3>3 DEF User
  <2>6. CacheCapped' /\ IdleStore'
    BY <1>1, <1>10, <2>3 DEF Die, caches, CacheCapped, IdleStore
  <2> QED BY <2>2, <2>4, <2>5, <2>6 DEF CapInv
<1> QED BY <1>3, <1>6, <1>7, <1>8, <1>9, <1>10 DEF Next

(* No balance, and no copy of one in Redis, ever exceeds the grant: what is *)
(* pre-consumed is given back once at most, and what the cache is filled    *)
(* with was a balance.  NoDebitLost is needed: a batched UPDATE that fails, *)
(* or a crash of the updater, drops the debit of a request whose refund is  *)
(* still to come.                                                           *)
THEOREM NothingIsCreated == NoDebitLost => (Spec => []NothingCreated)
<1> SUFFICES ASSUME NoDebitLost PROVE Spec => []NothingCreated
  OBVIOUS
<1>1. CapInv /\ TypeOK' /\ [Next]_vars => CapInv'
  BY CapStep
<1>2. CapInv => NothingCreated
  BY DEF CapInv, Capped, CacheCapped, NothingCreated
<1> QED BY <1>1, <1>2, CapStart, RelayTypeCorrect, PTL DEF Spec
===============================================================================
