---------------------------- MODULE MCWebTables ----------------------------
(* Three records on pages of two, and one that somebody else may add. *)
EXTENDS WebTables

MCTables == {"default/channels", "default/tokens", "default/users", "default/logs",
             "air/channels", "air/tokens", "air/users", "air/logs",
             "berry/channels", "berry/tokens", "berry/users", "berry/logs"}
MCFirstRows == <<3, 2, 1>>
MCNewRow == 4
MCTouched == {2}
MCFound == {1, 3}
MCTyped == {2, 3, 4}
=============================================================================
