---------------------------- MODULE MCChannelTable ----------------------------
(* Instances of ChannelTable for TLC: two channels, of which one is inserted *)
(* in a group of its own.                                                    *)
EXTENDS ChannelTable, TLC

CONSTANTS c1, c2, g1, g2, h1, h2

MCChannels == {c1, c2}
MCGroups == {g1, g2}
MCGroupLists == {{g1}, {g2}}
MCHandlers == {h1, h2}
MCInitial == {c1}
MCHome == [c \in Channels |-> {g1}]

HandlerSymmetry == Permutations(Handlers)
===============================================================================
