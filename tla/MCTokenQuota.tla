----------------------------- MODULE MCTokenQuota -----------------------------
(* Instances of TokenQuota for TLC: one token with 2 left, a request for 3,  *)
(* relayed requests of 2, an editor that sets 1 and a monthly quota of 2,    *)
(* as much as at the start.                                                  *)
EXTENDS TokenQuota, TLC

CONSTANTS t1, r1, h1, h2

MCHandlers == {h1, h2}
OneHandler == {h1}
MCTokens == {t1}
MCReqs == {r1}
MCTokenOf == [r \in Reqs |-> t1]
MCAmount == [r \in Reqs |-> 3]
MCStart == [t \in Tokens |-> 2]
MCMonthly == [t \in Tokens |-> 2]
NoMonthly == [t \in Tokens |-> 0]
MCPrices == {2}
MCEdits == {1}
NoEdits == {}

HandlerSymmetry == Permutations(Handlers)
===============================================================================
