---------------------------- MODULE BatchUpdater ------------------------------
(***************************************************************************)
(* The batch updater (QuotaStore) with arbitrary callers: any number of    *)
(* goroutines that call the update functions while the updater swaps and   *)
(* applies its maps.  It implements DirectUpdates: with batching on, the   *)
(* database plus what is still in memory always reads as if every update   *)
(* had been executed when it was called.                                   *)
(***************************************************************************)
EXTENDS QuotaStore

CONSTANTS
    Deltas,    \* amounts callers pass (negative for the Decrease functions)
    MaxCalls   \* bound: calls in a behaviour

ASSUME BatchAssumption ==
    /\ Deltas \subseteq Int
    /\ MaxCalls \in Nat

VARIABLE calls   \* calls so far (history, bounded by MaxCalls)

batchVars == <<storeVars, calls>>

BatchInit ==
    /\ StoreInit([c \in Columns |-> NoRecords])
    /\ calls = 0

Call(t, i, v) ==
    /\ calls < MaxCalls
    /\ calls' = calls + 1
    /\ Update(t, i, v)

BatchNext ==
    \/ \E t \in Types, i \in Ids, v \in Deltas : Call(t, i, v)
    \/ Swap /\ UNCHANGED calls
    \/ \E i \in Ids : Apply(i) /\ UNCHANGED calls
    \/ \E i \in Ids : ApplyFails(i) /\ UNCHANGED calls
    \/ Advance /\ UNCHANGED calls
    \/ Crash /\ UNCHANGED calls

BatchSpec == BatchInit /\ [][BatchNext]_batchVars

(* The goroutine InitBatchUpdater starts loops for ever.                    *)
BatchFairSpec == BatchSpec /\ WF_batchVars(Updater /\ UNCHANGED calls)

-----------------------------------------------------------------------------
BatchTypeOK == StoreTypeOK /\ calls \in 0..MaxCalls

(* Batching is transparent: every call takes effect exactly once, no matter *)
(* how calls interleave with the swap of the maps (batchUpdate releases the *)
(* lock before it applies what it took) and with the pass over the types;   *)
(* swapping and applying change nothing.  What faults dropped is accounted  *)
(* for in lost.                                                             *)
Direct == INSTANCE DirectUpdates WITH row <- Effective
DirectSpec == Direct!Spec

(* Every update reaches the database: once callers pause, the updater       *)
(* empties all the stores, and they stay empty.                             *)
EventuallyFlushed ==
    <>[](\A t \in Types, i \in Ids : Unflushed(t, i) = 0)
===============================================================================
