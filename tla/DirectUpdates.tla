---------------------------- MODULE DirectUpdates -----------------------------
(***************************************************************************)
(* What a caller of IncreaseUserQuota, DecreaseTokenQuota and the other    *)
(* update functions is promised: its update takes effect, once and         *)
(* immediately.  It is the code with BatchUpdateEnabled = false and a      *)
(* database that answers, and the abstraction that BatchUpdater must       *)
(* implement.                                                              *)
(***************************************************************************)
EXTENDS Integers

CONSTANTS Ids, Types, Columns, TypeOf, Signed(_, _), Deltas

VARIABLE row    \* row[c][i]: column c of row i

Init == row = [c \in Columns |-> [i \in Ids |-> 0]]

(* One UPDATE of the columns of type t. *)
Update(t, i, v) ==
    row' = [c \in Columns |->
              IF TypeOf[c] = t THEN [row[c] EXCEPT ![i] = @ + Signed(c, v)]
                               ELSE row[c]]

Next == \E t \in Types, i \in Ids, v \in Deltas : Update(t, i, v)

Spec == Init /\ [][Next]_row
===============================================================================
