---------------------------- MODULE MCRelayBilling ----------------------------
(* Instances of RelayBilling for TLC.  Grants and prices are chosen around   *)
(* the limit at which speech starts to pre-consume (100 times the price):    *)
(* with 150 left, a speech request for 1 does not and one for 100 does.      *)
EXTENDS RelayBilling, TLC

CONSTANTS u1, t1, ch, s1, s2

MCUsers == {u1}
OneToken == {t1}
MCIds == {u1, ch} \cup Tokens
MCOwner == [t \in Tokens |-> u1]
NoToken == {}
MCSlots == {s1, s2}
MCCosts == {1, 100}
ThreeCosts == {1, 100, 200}
AllKinds == {"text", "transcription", "speech", "image"}
TextAndSpeech == {"text", "speech"}
JustText == {"text"}
MCGrant == [i \in Ids |-> IF i = ch THEN 0 ELSE 150]

Slot2 == Permutations(MCSlots)
===============================================================================
