------------------------------ MODULE QuotaStore ------------------------------
(***************************************************************************)
(* The quota columns of the database and the in-memory batch updater in    *)
(* front of them (model/utils.go, and the Increase*/Decrease*/Update*      *)
(* functions of model/user.go, model/token.go and model/channel.go).       *)
(*                                                                         *)
(* This module has the state, the operations other modules perform on it   *)
(* and the steps of the updater's goroutine.  BatchUpdater closes it with  *)
(* arbitrary callers; RelayBilling with the relay's requests.              *)
(***************************************************************************)
EXTENDS Integers

CONSTANTS
    Ids,                 \* primary keys: of users, of tokens, of channels
    BatchUpdateEnabled,  \* config.BatchUpdateEnabled
    MaxFaults            \* bound: crashes and failed UPDATEs in a behaviour

ASSUME StoreAssumption ==
    /\ BatchUpdateEnabled \in BOOLEAN
    /\ MaxFaults \in Nat

-----------------------------------------------------------------------------
(* The kinds of batched update, in the order batchUpdate visits them.       *)

UserQuota        == 0
TokenQuota       == 1
UsedQuota        == 2
ChannelUsedQuota == 3
RequestCount     == 4

Types == 0..4

(* The columns those updates write.  An update of type TokenQuota writes    *)
(* two of them in one UPDATE: remain_quota + v and used_quota - v.          *)
Columns == {"users.quota", "tokens.remain_quota", "tokens.used_quota",
            "users.used_quota", "channels.used_quota", "users.request_count"}

TypeOf == [c \in Columns |->
    CASE c = "users.quota"         -> UserQuota
      [] c = "tokens.remain_quota" -> TokenQuota
      [] c = "tokens.used_quota"   -> TokenQuota
      [] c = "users.used_quota"    -> UsedQuota
      [] c = "channels.used_quota" -> ChannelUsedQuota
      [] c = "users.request_count" -> RequestCount]

Signed(c, v) == IF c = "tokens.used_quota" THEN -v ELSE v

-----------------------------------------------------------------------------
VARIABLES
    db,      \* db[c][i]: column c of row i
    store,   \* batchUpdateStores[t], total: 0 where the Go map has no key
    type,    \* loop variable i of batchUpdate
    stage,   \* "swap": before the lock of that type; "apply": in its for range
    batch,   \* the map taken from batchUpdateStores[type]
    todo,    \* its keys the for range has yet to visit
    lost,    \* lost[t][i]: updates a crash or a failed UPDATE dropped (history)
    faults   \* number of those events (history, bounded by MaxFaults)

storeVars == <<db, store, type, stage, batch, todo, lost, faults>>
updaterVars == <<type, stage, batch, todo, lost>>

NoRecords == [i \in Ids |-> 0]

StoreTypeOK ==
    /\ db     \in [Columns -> [Ids -> Int]]
    /\ store  \in [Types -> [Ids -> Int]]
    /\ type   \in Types
    /\ stage  \in {"swap", "apply"}
    /\ batch  \in [Ids -> Int]
    /\ todo   \in SUBSET Ids
    /\ lost   \in [Types -> [Ids -> Int]]
    /\ faults \in 0..MaxFaults

(* Between two types no record is in the updater's hands.                   *)
StoreInv == StoreTypeOK /\ (stage = "swap" => todo = {})

StoreInit(rows) ==
    /\ db = rows
    /\ store = [t \in Types |-> NoRecords]
    /\ type = 0
    /\ stage = "swap"
    /\ batch = NoRecords
    /\ todo = {}
    /\ lost = [t \in Types |-> NoRecords]
    /\ faults = 0

-----------------------------------------------------------------------------
(* One UPDATE ... SET col = col + v WHERE id = i: increaseUserQuota,        *)
(* increaseTokenQuota, updateUserUsedQuota, updateUserRequestCount,         *)
(* updateChannelUsedQuota.                                                  *)
Updated(rows, t, i, v) ==
    [c \in Columns |->
        IF TypeOf[c] = t THEN [rows[c] EXCEPT ![i] = @ + Signed(c, v)]
                         ELSE rows[c]]

(* addNewRecord on a batch store. *)
Recorded(stores, t, i, v) == [stores EXCEPT ![t][i] = @ + v]

(* IncreaseUserQuota, DecreaseUserQuota (v negative) and their siblings:    *)
(* record the update when batching is on, execute it otherwise.             *)
Update(t, i, v) ==
    /\ IF BatchUpdateEnabled
       THEN store' = Recorded(store, t, i, v) /\ UNCHANGED db
       ELSE db' = Updated(db, t, i, v) /\ UNCHANGED store
    /\ UNCHANGED <<updaterVars, faults>>

(* UpdateUserUsedQuotaAndRequestCount: two records, or one UPDATE of both   *)
(* columns.                                                                 *)
UpdateUsedAndCount(i, v) ==
    /\ IF BatchUpdateEnabled
       THEN /\ store' = Recorded(Recorded(store, UsedQuota, i, v), RequestCount, i, 1)
            /\ UNCHANGED db
       ELSE /\ db' = Updated(Updated(db, UsedQuota, i, v), RequestCount, i, 1)
            /\ UNCHANGED store
    /\ UNCHANGED <<updaterVars, faults>>

UsedAndCountFails(i, v) ==
    /\ ~BatchUpdateEnabled
    /\ faults < MaxFaults
    /\ faults' = faults + 1
    /\ lost' = [lost EXCEPT ![UsedQuota][i] = @ + v, ![RequestCount][i] = @ + 1]
    /\ UNCHANGED <<db, store, type, stage, batch, todo>>

(* An UPDATE that is executed at once returns an error.  The caller may go  *)
(* on as if nothing had happened (the update is lost) or give up.           *)
Abandoned ==
    /\ ~BatchUpdateEnabled
    /\ faults < MaxFaults
    /\ faults' = faults + 1
    /\ UNCHANGED <<db, store, updaterVars>>

UpdateFails(t, i, v) ==
    /\ ~BatchUpdateEnabled
    /\ faults < MaxFaults
    /\ faults' = faults + 1
    /\ lost' = [lost EXCEPT ![t][i] = @ + v]
    /\ UNCHANGED <<db, store, type, stage, batch, todo>>

-----------------------------------------------------------------------------
(* The updater's goroutine.  Between two passes it sleeps for               *)
(* BatchUpdateInterval; the model lets it sleep before any swap.            *)

(* Slips the runs must catch: the taken map stays in place as well; the loop *)
(* stops short of the last type.                                            *)
SwapKeepsMap ==
    /\ stage = "swap"
    /\ batch' = store[type]
    /\ todo' = {i \in Ids : store[type][i] # 0}
    /\ stage' = "apply"
    /\ UNCHANGED <<db, store, type, lost, faults>>

AdvanceTooShort ==
    /\ stage = "apply"
    /\ todo = {}
    /\ type' = (type + 1) % 4
    /\ stage' = "swap"
    /\ UNCHANGED <<db, store, batch, todo, lost, faults>>

(* Under the lock of the type: take the map and leave an empty one.         *)
Swap ==
    /\ BatchUpdateEnabled
    /\ stage = "swap"
    /\ batch' = store[type]
    /\ todo' = {i \in Ids : store[type][i] # 0}
    /\ store' = [store EXCEPT ![type] = NoRecords]
    /\ stage' = "apply"
    /\ UNCHANGED <<db, type, lost, faults>>

(* Without the lock: one UPDATE per key, in the map's (arbitrary) order.    *)
Apply(i) ==
    /\ stage = "apply"
    /\ i \in todo
    /\ db' = Updated(db, type, i, batch[i])
    /\ todo' = todo \ {i}
    /\ UNCHANGED <<store, type, stage, batch, lost, faults>>

(* The UPDATE fails: the error is logged and the record forgotten.          *)
ApplyFails(i) ==
    /\ stage = "apply"
    /\ i \in todo
    /\ faults < MaxFaults
    /\ faults' = faults + 1
    /\ lost' = [lost EXCEPT ![type][i] = @ + batch[i]]
    /\ todo' = todo \ {i}
    /\ UNCHANGED <<db, store, type, stage, batch>>

(* The range is exhausted: the next type, or the next pass.                 *)
Advance ==
    /\ stage = "apply"
    /\ todo = {}
    /\ type' = (type + 1) % 5
    /\ stage' = "swap"
    /\ UNCHANGED <<db, store, batch, todo, lost, faults>>

Updater == Swap \/ (\E i \in Ids : Apply(i)) \/ Advance

-----------------------------------------------------------------------------
(* What the updater still owes row i for type t: the record in the store    *)
(* and, while the type is being applied, the one in the map taken from it.  *)
InBatch(t, i) == IF t = type /\ i \in todo THEN batch[i] ELSE 0

Unflushed(t, i) == store[t][i] + InBatch(t, i)

(* The process dies: stores and the map being applied are gone.  Nothing    *)
(* flushes them on shutdown either.                                         *)
Crash ==
    /\ faults < MaxFaults
    /\ faults' = faults + 1
    /\ lost' = [t \in Types |-> [i \in Ids |-> lost[t][i] + Unflushed(t, i)]]
    /\ store' = [t \in Types |-> NoRecords]
    /\ type' = 0
    /\ stage' = "swap"
    /\ batch' = NoRecords
    /\ todo' = {}
    /\ UNCHANGED db

(* The columns as they would read with every update executed at once.       *)
Effective == [c \in Columns |-> [i \in Ids |->
                 db[c][i] + Signed(c, Unflushed(TypeOf[c], i)
                                      + lost[TypeOf[c]][i])]]
===============================================================================
