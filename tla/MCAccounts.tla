----------------------------- MODULE MCAccounts -----------------------------
(* Two users, of whom one may have the address or have to register first.   *)
EXTENDS AccountPages, TLC

CONSTANTS u1, u2, h1, h2
MCUsers == {u1, u2}
MCEmails == {"a"}
MCHandlers == {h1, h2}
MCStarts == {[u \in Users |-> IF u = u1 THEN "" ELSE "a"], [u \in Users |-> IF u = u1 THEN "absent" ELSE ""]}
MCForms == {0, 7}
MCPrices == {2}
MCTopUps == {1}
MCPages == {<<"", "none">>} \cup ({"default", "air", "berry"} \X {"mail", "confirm", "register", "bind"})
HandlerSymmetry == Permutations(Handlers)
=============================================================================
