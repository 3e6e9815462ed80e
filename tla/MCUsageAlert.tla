----------------------------- MODULE MCUsageAlert -----------------------------
(* Instances of UsageAlert for TLC: a limit of 10, prices that reach 80, 90  *)
(* and 100 % of it in several ways, and a monthly quota just above it, which *)
(* is reached when the breaker misses; and a limit of ten yuan.  A price of 0*)
(* is that of a channel that is not billed by the token.                     *)
EXTENDS UsageAlert, TLC

CONSTANTS t1, s1, s2

MCTokens == {t1}
MCSlots == {s1, s2}
MCCosts == {0, 4, 5}
LimitOf10 == [t \in Tokens |-> 10]
LimitOf10Yuan == [t \in Tokens |-> 10 * Unit]

SlotSymmetry == Permutations(Slots)
===============================================================================
