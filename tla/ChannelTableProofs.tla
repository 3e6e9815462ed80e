-------------------------- MODULE ChannelTableProofs ---------------------------
(***************************************************************************)
(* Theorems about ChannelTable, for any channels, groups, handlers, writes *)
(* and faults.                                                             *)
(***************************************************************************)
EXTENDS ChannelTable, TLAPS

-----------------------------------------------------------------------------
(* Types.                                                                   *)

LEMMA Copy ==
    ASSUME NEW c \in Channels, NEW s \in {"enabled", "disabled"}, NEW gs \in GroupLists
    PROVE  /\ Channel(c, s, gs) \in Copies
           /\ Channel(c, s, gs).chan = c
           /\ Channel(c, s, gs).status = s
           /\ Channel(c, s, gs).groups = gs
BY DEF Channel, Copies

LEMMA BlankCopy == Blank \in Copies
<1> DEFINE c == CHOOSE x \in Channels : TRUE
<1> DEFINE gs == CHOOSE x \in GroupLists : TRUE
<1>1. c \in Channels /\ gs \in GroupLists
  BY ChannelAssumption
<1>2. Blank = Channel(c, "disabled", gs)
  BY DEF Blank
<1> HIDE DEF c, gs
<1> QED BY <1>1, <1>2, Copy

LEMMA RowsOfChannel ==
    ASSUME NEW c \in Channels, NEW gs \in GroupLists
    PROVE  /\ gs \X {c} \subseteq Pairs
           /\ gs \X {c} \subseteq Of(c)
           /\ Of(c) \subseteq Pairs
BY ChannelAssumption DEF Pairs, Of

LEMMA InitTypes == Init => TypeOK
<1> SUFFICES ASSUME Init PROVE TypeOK
  OBVIOUS
<1>1. status \in [Channels -> Statuses] /\ groups \in [Channels -> GroupLists]
  BY ChannelAssumption DEF Init, Statuses
<1>2. abilities \subseteq Pairs /\ enabled \subseteq abilities
  BY DEF Init, EnabledPairs
<1>3. pc \in [Handlers -> Labels] /\ op \in [Handlers -> Copies]
  BY BlankCopy DEF Init, Labels
<1>4. writes \in 0..MaxWrites /\ faults \in 0..MaxFaults
  BY ChannelAssumption DEF Init
<1> QED BY <1>1, <1>2, <1>3, <1>4 DEF Init, TypeOK

(* What the handlers' first and last statements do to the types.            *)
LEMMA StartTypes ==
    ASSUME TypeOK, NEW h \in Handlers, NEW l \in Labels, NEW ch \in Copies, Start(h, l, ch)
    PROVE  /\ pc' \in [Handlers -> Labels] /\ op' \in [Handlers -> Copies]
           /\ writes' \in 0..MaxWrites
BY ChannelAssumption DEF TypeOK, Start

LEMMA BeginTypes ==
    ASSUME TypeOK, NEW h \in Handlers, NEW l \in Labels, NEW ch \in Copies, Begin(h, l, ch)
    PROVE  /\ pc' \in [Handlers -> Labels] /\ op' \in [Handlers -> Copies]
           /\ writes' \in 0..MaxWrites /\ torn' \subseteq Channels
           /\ UNCHANGED <<cache, faults>>
<1>1. Start(h, l, ch) /\ UNCHANGED <<cache, faults>>
  BY DEF Begin, Start
<1>2. torn' \subseteq Channels
  BY DEF Begin, TypeOK, Copies
<1> QED BY <1>1, <1>2, StartTypes

LEMMA ReturnTypes ==
    ASSUME TypeOK, NEW h \in Handlers, Return(h)
    PROVE  pc' \in [Handlers -> Labels] /\ op' \in [Handlers -> Copies]
BY BlankCopy DEF TypeOK, Return, Labels

LEMMA DieTypes ==
    ASSUME TypeOK, Die, faults' \in 0..MaxFaults
    PROVE  TypeOK'
<1>1. pc' \in [Handlers -> Labels] /\ op' \in [Handlers -> Copies]
  BY BlankCopy DEF Die, Labels
<1>2. torn' \subseteq Channels
  BY DEF Die, TypeOK
<1> QED BY <1>1, <1>2 DEF TypeOK, Die, tables

LEMMA AbilityStatusTypes ==
    ASSUME TypeOK, NEW c \in Channels, NEW s \in {"enabled", "disabled"},
           UpdateAbilityStatus(c, s)
    PROVE  enabled' \subseteq abilities
BY DEF TypeOK, UpdateAbilityStatus

LEMMA RequestTypes ==
    ASSUME TypeOK, NEW h \in Handlers, NEW c \in Channels, Request(h, c)
    PROVE  TypeOK'
<1>0. groups[c] \in GroupLists /\ status[c] \in Statuses
  BY DEF TypeOK
<1>1. ASSUME NEW gs \in GroupLists, Insert(h, c, gs) PROVE TypeOK'
  <2>1. Begin(h, "addAbilities", Channel(c, "enabled", gs))
    BY <1>1 DEF Insert
  <2>2. /\ pc' \in [Handlers -> Labels] /\ op' \in [Handlers -> Copies]
        /\ writes' \in 0..MaxWrites /\ torn' \subseteq Channels /\ UNCHANGED <<cache, faults>>
    BY <2>1, BeginTypes, Copy DEF Labels
  <2> QED BY <1>1, <2>2 DEF TypeOK, Insert, cache, Statuses
<1>2. ASSUME NEW gs \in GroupLists, NEW s \in {"enabled", "disabled"}, Update(h, c, s, gs)
      PROVE  TypeOK'
  <2>1. Begin(h, "reread", Channel(c, s, gs))
    BY <1>2 DEF Update
  <2>2. /\ pc' \in [Handlers -> Labels] /\ op' \in [Handlers -> Copies]
        /\ writes' \in 0..MaxWrites /\ torn' \subseteq Channels /\ UNCHANGED <<cache, faults>>
    BY <2>1, BeginTypes, Copy DEF Labels
  <2> QED BY <1>2, <2>2 DEF TypeOK, Update, cache, Statuses
<1>3. CASE Delete(h, c)
  <2>1. Begin(h, "deleteAbilities", Channel(c, "disabled", groups[c]))
    BY <1>3 DEF Delete
  <2>2. /\ pc' \in [Handlers -> Labels] /\ op' \in [Handlers -> Copies]
        /\ writes' \in 0..MaxWrites /\ torn' \subseteq Channels /\ UNCHANGED <<cache, faults>>
    BY <1>0, <2>1, BeginTypes, Copy DEF Labels
  <2> QED BY <1>3, <2>2 DEF TypeOK, Delete, cache, Statuses
<1>4. CASE DisableChannel(h, c)
  <2>1. Begin(h, "setStatus", Channel(c, "disabled", groups[c]))
    BY <1>4 DEF DisableChannel
  <2>2. /\ pc' \in [Handlers -> Labels] /\ op' \in [Handlers -> Copies]
        /\ writes' \in 0..MaxWrites /\ torn' \subseteq Channels /\ UNCHANGED <<cache, faults>>
    BY <1>0, <2>1, BeginTypes, Copy DEF Labels
  <2>3. enabled' \subseteq abilities
    BY <1>4, AbilityStatusTypes DEF DisableChannel
  <2> QED BY <1>4, <2>2, <2>3 DEF TypeOK, DisableChannel, cache
<1>5. CASE EnableChannel(h, c)
  <2>1. Begin(h, "setStatus", Channel(c, "enabled", groups[c]))
    BY <1>5 DEF EnableChannel
  <2>2. /\ pc' \in [Handlers -> Labels] /\ op' \in [Handlers -> Copies]
        /\ writes' \in 0..MaxWrites /\ torn' \subseteq Channels /\ UNCHANGED <<cache, faults>>
    BY <1>0, <2>1, BeginTypes, Copy DEF Labels
  <2>3. enabled' \subseteq abilities
    BY <1>5, AbilityStatusTypes DEF EnableChannel
  <2> QED BY <1>5, <2>2, <2>3 DEF TypeOK, EnableChannel, cache
<1>6. CASE DisableChannelFails(h, c) \/ EnableChannelFails(h, c)
  <2>1. \E s \in {"enabled", "disabled"} : Start(h, "setStatus", Channel(c, s, groups[c]))
    BY <1>6 DEF DisableChannelFails, EnableChannelFails
  <2>2. /\ pc' \in [Handlers -> Labels] /\ op' \in [Handlers -> Copies]
        /\ writes' \in 0..MaxWrites
    BY <1>0, <2>1, StartTypes, Copy DEF Labels
  <2>3. UNCHANGED cache /\ faults' \in 0..MaxFaults /\ torn' \subseteq Channels
    BY <1>6, ChannelAssumption
       DEF TypeOK, DisableChannelFails, EnableChannelFails, Start, Fault
  <2> QED BY <1>6, <2>2, <2>3
          DEF TypeOK, DisableChannelFails, EnableChannelFails, tables, cache
<1> QED BY <1>1, <1>2, <1>3, <1>4, <1>5, <1>6 DEF Request

LEMMA WriteTypes ==
    ASSUME TypeOK, NEW h \in Handlers, Write(h)
    PROVE  TypeOK'
<1> DEFINE c == op[h].chan
<1>0. /\ op[h] \in Copies /\ c \in Channels /\ op[h].groups \in GroupLists
      /\ op[h].status \in {"enabled", "disabled"}
      /\ status[c] \in Statuses /\ groups[c] \in GroupLists
  BY DEF TypeOK, Copies
<1>r. op[h].groups \X {c} \subseteq Pairs
  BY <1>0, RowsOfChannel
<1>1. CASE AddAbilities(h)
  <2>1. pc' \in [Handlers -> Labels] /\ op' \in [Handlers -> Copies]
    BY <1>1, ReturnTypes DEF AddAbilities
  <2>2. abilities' \subseteq Pairs /\ enabled' \subseteq abilities'
    BY <1>1, <1>r DEF TypeOK, AddAbilities
  <2> QED BY <1>1, <2>1, <2>2 DEF TypeOK, AddAbilities, Return, cache
<1>2. CASE Reread(h)
  <2>1. pc' \in [Handlers -> Labels]
    BY <1>2 DEF TypeOK, Reread, Labels
  <2>2. op' \in [Handlers -> Copies]
    <3>1. CASE Exists(c)
      <4>1. Channel(c, status[c], groups[c]) \in Copies
        BY <1>0, <3>1, Copy DEF Exists
      <4> QED BY <1>2, <3>1, <4>1 DEF TypeOK, Reread
    <3>2. CASE ~Exists(c)
      BY <1>2, <3>2 DEF TypeOK, Reread
    <3> QED BY <3>1, <3>2
  <2> QED BY <1>2, <2>1, <2>2 DEF TypeOK, Reread, tables, cache
<1>3. CASE UpdateAbilities(h)
  <2>1. pc' \in [Handlers -> Labels] /\ op' \in [Handlers -> Copies]
    BY <1>3, ReturnTypes DEF UpdateAbilities
  <2>2. abilities' \subseteq Pairs /\ enabled' \subseteq abilities'
    BY <1>3, <1>r DEF TypeOK, UpdateAbilities
  <2> QED BY <1>3, <2>1, <2>2 DEF TypeOK, UpdateAbilities, Return, cache
<1>4. CASE DeleteAbilities(h)
  <2>1. pc' \in [Handlers -> Labels] /\ op' \in [Handlers -> Copies]
    BY <1>4, ReturnTypes DEF DeleteAbilities
  <2> QED BY <1>4, <2>1 DEF TypeOK, DeleteAbilities, Return, cache
<1>5. CASE SetStatus(h)
  <2>1. pc' \in [Handlers -> Labels] /\ op' \in [Handlers -> Copies]
    BY <1>5, ReturnTypes DEF SetStatus
  <2>2. status' \in [Channels -> Statuses]
    BY <1>0, <1>5 DEF TypeOK, SetStatus, Statuses
  <2> QED BY <1>5, <2>1, <2>2 DEF TypeOK, SetStatus, Return, cache
<1> QED BY <1>1, <1>2, <1>3, <1>4, <1>5 DEF Write

LEMMA StatementFailsTypes ==
    ASSUME TypeOK, NEW h \in Handlers, StatementFails(h)
    PROVE  TypeOK'
<1>1. pc' \in [Handlers -> Labels] /\ op' \in [Handlers -> Copies]
  BY BlankCopy DEF TypeOK, StatementFails, Labels
<1>2. torn' \subseteq Channels /\ faults' \in 0..MaxFaults
  BY ChannelAssumption DEF TypeOK, StatementFails, Copies, Fault
<1> QED BY <1>1, <1>2 DEF TypeOK, StatementFails, tables, cache

LEMMA NextTypes == TypeOK /\ [Next]_vars => TypeOK'
<1> SUFFICES ASSUME TypeOK, [Next]_vars PROVE TypeOK'
  OBVIOUS
<1>1. CASE DeleteDisabledChannel
  <2>1. writes' \in 0..MaxWrites /\ torn' \subseteq Channels
    BY <1>1, ChannelAssumption DEF TypeOK, DeleteDisabledChannel
  <2>2. status' \in [Channels -> Statuses]
    BY <1>1 DEF TypeOK, DeleteDisabledChannel, Statuses
  <2> QED BY <1>1, <2>1, <2>2 DEF TypeOK, DeleteDisabledChannel, writers, cache
<1>2. CASE TestChannels
  BY <1>2 DEF TypeOK, TestChannels, tables, writers, cache
<1>3. CASE ReadChannels \/ ReadChannelsFails
  <2>1. faults' \in 0..MaxFaults
    BY <1>3, ChannelAssumption DEF TypeOK, ReadChannels, ReadChannelsFails, Fault
  <2>2. snap' \subseteq EnabledPairs
    BY <1>3 DEF ReadChannels, ReadChannelsFails
  <2> QED BY <1>3, <2>1, <2>2
          DEF TypeOK, ReadChannels, ReadChannelsFails, tables, writers, EnabledPairs
<1>4. ASSUME NEW rows, Build(rows), faults' \in 0..MaxFaults PROVE TypeOK'
  <2>1. CASE Die
    BY <1>4, <2>1, DieTypes
  <2>2. CASE ~Die
    BY <1>4, <2>2 DEF TypeOK, Build, tables, writers
  <2> QED BY <2>1, <2>2
<1>5. CASE Crash
  <2>1. faults' \in 0..MaxFaults /\ Die
    BY <1>5, ChannelAssumption DEF TypeOK, Crash, Fault
  <2> QED BY <2>1, DieTypes
<1>6. CASE UNCHANGED vars
  BY <1>6 DEF TypeOK, vars, tables, writers, cache
<1>7. CASE ReadAbilities \/ ReadAbilitiesFails
  <2>1. faults' \in 0..MaxFaults
    BY <1>7, ChannelAssumption DEF TypeOK, ReadAbilities, ReadAbilitiesFails, Fault
  <2>2. \E rows \in SUBSET abilities : Build(rows)
    BY <1>7 DEF ReadAbilities, ReadAbilitiesFails
  <2> QED BY <1>4, <2>1, <2>2
<1> QED BY <1>1, <1>2, <1>3, <1>5, <1>6, <1>7, RequestTypes, WriteTypes, StatementFailsTypes
        DEF Next, Rebuild

(* In every behaviour the tables, the copies of handlers and the cache keep *)
(* their types; an enabled ability is an ability.                           *)
THEOREM ChannelTypeCorrect == Spec => []TypeOK
BY InitTypes, NextTypes, PTL DEF Spec

-----------------------------------------------------------------------------
(* The tables agree.                                                        *)

Busy(h, c) == pc[h] # "idle" /\ op[h].chan = c

(* What the next statement of handler h relies on, while no other handler   *)
(* writes the channel: a row just created has no abilities yet; a copy of a *)
(* row is current; the abilities that are being deleted belong to no        *)
(* channel; the abilities have the status the row is about to get.          *)
Holds(h) ==
    LET c == op[h].chan IN
    /\ pc[h] = "addAbilities" =>
          /\ status[c] = "enabled" /\ op[h].groups = groups[c]
          /\ abilities \cap Of(c) = {} /\ enabled \cap Of(c) = {}
    /\ pc[h] \in {"reread", "updateAbilities"} => status[c] # "none"
    /\ pc[h] = "updateAbilities" /\ Exists(c) =>
          op[h].status = status[c] /\ op[h].groups = groups[c]
    /\ pc[h] = "deleteAbilities" => ~Exists(c)
    /\ pc[h] = "setStatus" /\ Exists(c) =>
          /\ abilities \cap Of(c) = groups[c] \X {c}
          /\ enabled \cap Of(c) = IF op[h].status = "enabled" THEN groups[c] \X {c} ELSE {}

(* What is inductive, for each channel whose writers did not overlap.       *)
ChannelInv(c) ==
    c \notin torn =>
       /\ \A h, k \in Handlers : Busy(h, c) /\ Busy(k, c) => h = k
       /\ \A h \in Handlers : Busy(h, c) => Holds(h)
       /\ status[c] = "none" => abilities \cap Of(c) = {} /\ enabled \cap Of(c) = {}
       /\ Exists(c) /\ ~Writing(c) => Agrees(c)

Inv == TypeOK /\ \A c \in Channels : ChannelInv(c)

(* A step leaves channel d alone if its rows and the handlers that write it *)
(* stay as they are.                                                        *)
Alone(d) ==
    /\ status'[d] = status[d] /\ groups'[d] = groups[d]
    /\ abilities' \cap Of(d) = abilities \cap Of(d)
    /\ enabled' \cap Of(d) = enabled \cap Of(d)
    /\ \A h \in Handlers : Busy(h, d) \/ Busy(h, d)' => pc'[h] = pc[h] /\ op'[h] = op[h]

LEMMA AloneInv ==
    ASSUME NEW d \in Channels, ChannelInv(d), Alone(d), d \in torn => d \in torn'
    PROVE  ChannelInv(d)'
<1> SUFFICES ASSUME d \notin torn' PROVE ChannelInv(d)'
  BY DEF ChannelInv
<1>0. /\ \A h, k \in Handlers : Busy(h, d) /\ Busy(k, d) => h = k
      /\ \A h \in Handlers : Busy(h, d) => Holds(h)
      /\ status[d] = "none" => abilities \cap Of(d) = {} /\ enabled \cap Of(d) = {}
      /\ Exists(d) /\ ~Writing(d) => Agrees(d)
  BY DEF ChannelInv
<1>1. \A h \in Handlers : Busy(h, d)' <=> Busy(h, d)
  BY DEF Alone, Busy
<1>2. Exists(d)' <=> Exists(d)
  BY DEF Alone, Exists
<1>3. Writing(d)' <=> Writing(d)
  BY <1>1 DEF Writing, Busy
<1>4. ASSUME NEW h \in Handlers, Busy(h, d)' PROVE Holds(h)'
  <2>1. Holds(h) /\ pc'[h] = pc[h] /\ op'[h] = op[h] /\ op[h].chan = d
    BY <1>0, <1>1, <1>4 DEF Alone, Busy
  <2> QED BY <1>2, <2>1 DEF Alone, Holds, Of
<1>5. Exists(d)' /\ ~Writing(d)' => Agrees(d)'
  BY <1>0, <1>2, <1>3 DEF Alone, Agrees, Of
<1>6. status'[d] = "none" => abilities' \cap Of(d) = {} /\ enabled' \cap Of(d) = {}
  BY <1>0 DEF Alone
<1> QED BY <1>0, <1>1, <1>4, <1>5, <1>6 DEF ChannelInv, Of

(* Rows of one channel are no rows of another.                              *)
LEMMA OtherRows ==
    ASSUME NEW c \in Channels, NEW d \in Channels, c # d, NEW gs \in GroupLists
    PROVE  Of(c) \cap Of(d) = {} /\ (gs \X {c}) \cap Of(d) = {}
BY DEF Of

(* A handler begins a write of c: nobody else is writing it, or it is torn. *)
LEMMA BeginBusy ==
    ASSUME TypeOK, NEW h \in Handlers, NEW l \in Labels \ {"idle"}, NEW ch \in Copies,
           Begin(h, l, ch)
    PROVE  /\ pc'[h] = l /\ op'[h] = ch /\ Busy(h, ch.chan)'
           /\ \A k \in Handlers \ {h} : pc'[k] = pc[k] /\ op'[k] = op[k]
           /\ \A d \in Channels : d # ch.chan => ~Busy(h, d) /\ ~Busy(h, d)'
           /\ \A d \in Channels : d \in torn => d \in torn'
           /\ ch.chan \notin torn' => ~Writing(ch.chan) /\ ch.chan \notin torn
           /\ ch.chan \notin torn' => \A k \in Handlers : Busy(k, ch.chan)' => k = h
<1>1. /\ pc[h] = "idle" /\ pc' = [pc EXCEPT ![h] = l] /\ op' = [op EXCEPT ![h] = ch]
      /\ torn' = IF Writing(ch.chan) THEN torn \cup {ch.chan} ELSE torn
  BY DEF Begin, Start
<1>2. pc'[h] = l /\ op'[h] = ch /\ \A k \in Handlers \ {h} : pc'[k] = pc[k] /\ op'[k] = op[k]
  BY <1>1 DEF TypeOK
<1>3. ch.chan \notin torn' => ~Writing(ch.chan) /\ ch.chan \notin torn
  BY <1>1
<1>4. ch.chan \notin torn' => \A k \in Handlers : Busy(k, ch.chan)' => k = h
  BY <1>2, <1>3 DEF Writing, Busy
<1> QED BY <1>1, <1>2, <1>3, <1>4 DEF Busy

(* The other channels when a write of c begins ...                          *)
LEMMA BeginOthers ==
    ASSUME Inv, NEW h \in Handlers, NEW l \in Labels \ {"idle"}, NEW ch \in Copies,
           Begin(h, l, ch),
           NEW d \in Channels, d # ch.chan,
           status'[d] = status[d], groups'[d] = groups[d],
           abilities' \cap Of(d) = abilities \cap Of(d),
           enabled' \cap Of(d) = enabled \cap Of(d)
    PROVE  ChannelInv(d)'
<1>1. TypeOK /\ ChannelInv(d)
  BY DEF Inv
<1>2. Alone(d)
  BY <1>1, BeginBusy DEF Alone, Busy
<1> QED BY <1>1, <1>2, BeginBusy, AloneInv

(* ... and c itself.                                                        *)
LEMMA BeginThis ==
    ASSUME Inv, NEW h \in Handlers, NEW l \in Labels \ {"idle"}, NEW ch \in Copies,
           Begin(h, l, ch),
           status'[ch.chan] = "none" => UNCHANGED <<status, abilities, enabled>>,
           ch.chan \notin torn' => Holds(h)'
    PROVE  ChannelInv(ch.chan)'
<1> SUFFICES ASSUME ch.chan \notin torn' PROVE ChannelInv(ch.chan)'
  BY DEF ChannelInv
<1>1. TypeOK
  BY DEF Inv
<1>2. Busy(h, ch.chan)' /\ \A k \in Handlers : Busy(k, ch.chan)' => k = h
  BY <1>1, BeginBusy
<1>3. Writing(ch.chan)'
  BY <1>2 DEF Writing, Busy
<1>4. ch.chan \in Channels /\ ch.chan \notin torn
  BY <1>1, BeginBusy DEF Copies
<1>5. status'[ch.chan] = "none" => /\ abilities' \cap Of(ch.chan) = {}
                                  /\ enabled' \cap Of(ch.chan) = {}
  BY <1>4 DEF Inv, ChannelInv
<1> QED BY <1>2, <1>3, <1>5 DEF ChannelInv, Of

LEMMA RequestInv ==
    ASSUME Inv, NEW h \in Handlers, NEW c \in Channels, Request(h, c)
    PROVE  \A d \in Channels : ChannelInv(d)'
<1>0. TypeOK /\ groups[c] \in GroupLists /\ ChannelInv(c)
  BY DEF Inv, TypeOK
<1>1. ASSUME NEW gs \in GroupLists, Insert(h, c, gs)
      PROVE  \A d \in Channels : ChannelInv(d)'
  <2> DEFINE ch == Channel(c, "enabled", gs)
  <2>1. ch \in Copies /\ ch.chan = c /\ ch.groups = gs
    BY Copy
  <2> HIDE DEF ch
  <2>2. Begin(h, "addAbilities", ch) /\ status[c] = "none"
    BY <1>1 DEF Insert, ch
  <2>3. /\ status'[c] = "enabled" /\ groups'[c] = gs /\ abilities' = abilities
        /\ enabled' = enabled
        /\ \A d \in Channels \ {c} : status'[d] = status[d] /\ groups'[d] = groups[d]
    BY <1>0, <1>1 DEF Insert, TypeOK
  <2>4. c \notin torn' => Holds(h)'
    <3> SUFFICES ASSUME c \notin torn' PROVE Holds(h)'
      OBVIOUS
    <3>1. c \notin torn /\ pc'[h] = "addAbilities" /\ op'[h] = ch
      BY <1>0, <2>1, <2>2, BeginBusy DEF Labels
    <3>2. abilities \cap Of(c) = {} /\ enabled \cap Of(c) = {}
      BY <1>0, <2>2, <3>1 DEF ChannelInv
    <3> QED BY <2>1, <2>3, <3>1, <3>2 DEF Holds, Of
  <2>5. ChannelInv(ch.chan)'
    BY <2>1, <2>2, <2>3, <2>4, BeginThis DEF Labels
  <2>6. \A d \in Channels \ {c} : ChannelInv(d)'
    BY <2>1, <2>2, <2>3, BeginOthers DEF Labels
  <2> QED BY <2>1, <2>5, <2>6
<1>2. ASSUME NEW gs \in GroupLists, NEW s \in {"enabled", "disabled"}, Update(h, c, s, gs)
      PROVE  \A d \in Channels : ChannelInv(d)'
  <2> DEFINE ch == Channel(c, s, gs)
  <2>1. ch \in Copies /\ ch.chan = c
    BY Copy
  <2> HIDE DEF ch
  <2>2. Begin(h, "reread", ch)
    BY <1>2 DEF Update, ch
  <2>3. /\ status'[c] # "none" /\ abilities' = abilities /\ enabled' = enabled
        /\ \A d \in Channels \ {c} : status'[d] = status[d] /\ groups'[d] = groups[d]
    BY <1>0, <1>2 DEF Update, TypeOK
  <2>4. Holds(h)'
    BY <1>0, <2>1, <2>2, <2>3, BeginBusy DEF Labels, Holds
  <2>5. ChannelInv(ch.chan)'
    BY <2>1, <2>2, <2>3, <2>4, BeginThis DEF Labels
  <2>6. \A d \in Channels \ {c} : ChannelInv(d)'
    BY <2>1, <2>2, <2>3, BeginOthers DEF Labels
  <2> QED BY <2>1, <2>5, <2>6
<1>3. ASSUME Delete(h, c)
      PROVE  \A d \in Channels : ChannelInv(d)'
  <2> DEFINE ch == Channel(c, "disabled", groups[c])
  <2>1. ch \in Copies /\ ch.chan = c
    BY <1>0, Copy
  <2> HIDE DEF ch
  <2>2. Begin(h, "deleteAbilities", ch)
    BY <1>3 DEF Delete, ch
  <2>3. /\ status'[c] = "deleted" /\ status'[c] # "none" /\ groups' = groups
        /\ abilities' = abilities /\ enabled' = enabled
        /\ \A d \in Channels \ {c} : status'[d] = status[d]
    BY <1>0, <1>3 DEF Delete, TypeOK
  <2>4. Holds(h)'
    BY <1>0, <2>1, <2>2, <2>3, BeginBusy DEF Labels, Holds, Exists
  <2>5. ChannelInv(c)'
    BY <2>1, <2>2, <2>3, <2>4, BeginThis DEF Labels
  <2>6. \A d \in Channels \ {c} : ChannelInv(d)'
    BY <2>1, <2>2, <2>3, BeginOthers DEF Labels
  <2> QED BY <2>1, <2>5, <2>6
<1>4. ASSUME NEW s \in {"enabled", "disabled"},
             Begin(h, "setStatus", Channel(c, s, groups[c])), UpdateAbilityStatus(c, s),
             UNCHANGED <<status, groups, abilities>>
      PROVE  \A d \in Channels : ChannelInv(d)'
  <2> DEFINE ch == Channel(c, s, groups[c])
  <2>1. ch \in Copies /\ ch.chan = c /\ ch.status = s
    BY <1>0, Copy
  <2>2. Begin(h, "setStatus", ch)
    BY <1>4
  <2> HIDE DEF ch
  <2>3. enabled' = IF s = "enabled" THEN enabled \cup (abilities \cap Of(c)) ELSE enabled \ Of(c)
    BY <1>4 DEF UpdateAbilityStatus
  <2>4. \A d \in Channels \ {c} : enabled' \cap Of(d) = enabled \cap Of(d)
    BY <1>0, <2>3, OtherRows
  <2>5. enabled \subseteq abilities
    BY <1>0 DEF TypeOK
  <2>6. c \notin torn' => Holds(h)'
    <3> SUFFICES ASSUME c \notin torn', Exists(c)' PROVE Holds(h)'
      BY <1>0, <2>1, <2>2, BeginBusy DEF Holds, Labels
    <3>1. c \notin torn /\ ~Writing(c) /\ pc'[h] = "setStatus" /\ op'[h] = ch
      BY <1>0, <2>1, <2>2, BeginBusy DEF Labels
    <3>2. Agrees(c)
      BY <1>0, <1>4, <3>1 DEF ChannelInv, Exists
    <3>3. enabled' \cap Of(c) = IF s = "enabled" THEN groups[c] \X {c} ELSE {}
      BY <2>3, <2>5, <3>2 DEF Agrees
    <3> QED BY <1>4, <2>1, <3>1, <3>2, <3>3 DEF Holds, Agrees, Of
  <2>7. c \notin torn' /\ status[c] = "none" => enabled' = enabled
    <3> SUFFICES ASSUME c \notin torn', status[c] = "none" PROVE enabled' = enabled
      OBVIOUS
    <3>1. abilities \cap Of(c) = {} /\ enabled \cap Of(c) = {}
      BY <1>0, <2>1, <2>2, BeginBusy DEF ChannelInv, Labels
    <3> QED BY <2>3, <3>1
  <2>8. ChannelInv(c)'
    <3>1. CASE c \in torn'
      BY <3>1 DEF ChannelInv
    <3>2. CASE c \notin torn'
      BY <1>4, <2>1, <2>2, <2>6, <2>7, <3>2, BeginThis DEF Labels
    <3> QED BY <3>1, <3>2
  <2>9. \A d \in Channels \ {c} : ChannelInv(d)'
    BY <1>4, <2>1, <2>2, <2>4, BeginOthers DEF Labels
  <2> QED BY <2>8, <2>9
<1>5. ASSUME NEW s \in {"enabled", "disabled"},
             Start(h, "setStatus", Channel(c, s, groups[c])), torn' = torn \cup {c},
             UNCHANGED tables
      PROVE  \A d \in Channels : ChannelInv(d)'
  <2>1. /\ pc[h] = "idle" /\ op'[h].chan = c
        /\ \A k \in Handlers \ {h} : pc'[k] = pc[k] /\ op'[k] = op[k]
    BY <1>0, <1>5, Copy DEF Start, TypeOK
  <2>2. \A d \in Channels \ {c} : Alone(d)
    BY <1>5, <2>1 DEF Alone, Busy, tables
  <2>3. \A d \in Channels \ {c} : ChannelInv(d)'
    BY <1>5, <2>2, AloneInv DEF Inv
  <2>4. ChannelInv(c)'
    BY <1>5 DEF ChannelInv
  <2> QED BY <2>3, <2>4
<1>6. CASE DisableChannel(h, c)
  BY <1>4, <1>6 DEF DisableChannel
<1>7. CASE EnableChannel(h, c)
  BY <1>4, <1>7 DEF EnableChannel
<1>8. CASE DisableChannelFails(h, c)
  BY <1>5, <1>8 DEF DisableChannelFails, tables
<1>9. CASE EnableChannelFails(h, c)
  BY <1>5, <1>9 DEF EnableChannelFails, tables
<1> QED BY <1>1, <1>2, <1>3, <1>6, <1>7, <1>8, <1>9 DEF Request

(* A handler's last statement leaves the other channels alone.              *)
LEMMA ReturnInv ==
    ASSUME Inv, NEW h \in Handlers, Return(h), pc[h] # "idle",
           NEW c \in Channels, c = op[h].chan,
           UNCHANGED groups,
           \A d \in Channels : d # c => /\ status'[d] = status[d]
                                      /\ abilities' \cap Of(d) = abilities \cap Of(d)
                                      /\ enabled' \cap Of(d) = enabled \cap Of(d),
           c \notin torn /\ Holds(h) =>
              /\ status'[c] = "none" => abilities' \cap Of(c) = {} /\ enabled' \cap Of(c) = {}
              /\ Exists(c)' => Agrees(c)'
    PROVE  \A d \in Channels : ChannelInv(d)'
<1>0. TypeOK
  BY DEF Inv
<1>1. /\ pc'[h] = "idle" /\ torn' = torn
      /\ \A k \in Handlers \ {h} : pc'[k] = pc[k] /\ op'[k] = op[k]
  BY <1>0 DEF Return, TypeOK
<1>2. ASSUME NEW d \in Channels, d # c PROVE ChannelInv(d)'
  <2>1. Alone(d)
    BY <1>1, <1>2 DEF Alone, Busy
  <2> QED BY <1>1, <2>1, AloneInv DEF Inv
<1>3. ASSUME NEW d \in Channels, d = c PROVE ChannelInv(d)'
  <2> SUFFICES ASSUME d \notin torn PROVE ChannelInv(d)'
    BY <1>1 DEF ChannelInv
  <2>1. Busy(h, d) /\ ChannelInv(d)
    BY <1>3 DEF Busy, Inv
  <2>2. Holds(h) /\ \A k \in Handlers : Busy(k, d) => k = h
    BY <2>1 DEF ChannelInv
  <2>3. \A k \in Handlers : ~Busy(k, d)'
    BY <1>1, <2>2 DEF Busy
  <2>4. /\ status'[d] = "none" => abilities' \cap Of(d) = {} /\ enabled' \cap Of(d) = {}
        /\ Exists(d)' => Agrees(d)'
    BY <1>3, <2>2 DEF Exists, Agrees, Of
  <2> QED BY <2>3, <2>4 DEF ChannelInv, Of
<1> QED BY <1>2, <1>3

LEMMA WriteInv ==
    ASSUME Inv, NEW h \in Handlers, Write(h)
    PROVE  \A d \in Channels : ChannelInv(d)'
<1>t. TypeOK /\ op[h] \in Copies
  BY DEF Inv, TypeOK
<1>c. PICK c \in Channels : c = op[h].chan
  BY <1>t DEF Copies
<1>0. /\ TypeOK /\ op[h].groups \in GroupLists
      /\ op[h].status \in {"enabled", "disabled"}
  BY <1>t DEF Copies
<1> DEFINE rows == op[h].groups \X {c}
<1>r. rows \subseteq Of(c) /\ \A d \in Channels \ {c} : rows \cap Of(d) = {} /\ Of(c) \cap Of(d) = {}
  BY <1>0, RowsOfChannel, OtherRows
<1>1. CASE AddAbilities(h)
  <2>1. /\ IF rows \cap abilities # {}
           THEN UNCHANGED <<abilities, enabled>>
           ELSE abilities' = abilities \cup rows /\ enabled' = enabled \cup rows
        /\ UNCHANGED <<status, groups>> /\ pc[h] = "addAbilities" /\ Return(h)
    BY <1>c, <1>1 DEF AddAbilities
  <2> HIDE DEF rows
  <2>2. \A d \in Channels : d # c => /\ abilities' \cap Of(d) = abilities \cap Of(d)
                                    /\ enabled' \cap Of(d) = enabled \cap Of(d)
    BY <1>r, <2>1
  <2>3. ASSUME c \notin torn, Holds(h)
        PROVE  status'[c] # "none" /\ (Exists(c)' => Agrees(c)')
    <3>1. /\ status[c] = "enabled" /\ op[h].groups = groups[c]
          /\ abilities \cap Of(c) = {} /\ enabled \cap Of(c) = {}
      BY <1>c, <2>1, <2>3 DEF Holds
    <3>2. rows \cap abilities = {}
      BY <1>r, <3>1
    <3>3. abilities' \cap Of(c) = rows /\ enabled' \cap Of(c) = rows
      BY <1>r, <2>1, <3>1, <3>2
    <3> QED BY <2>1, <3>1, <3>3 DEF Agrees, rows, Of
  <2> QED BY <1>c, <2>1, <2>2, <2>3, ReturnInv
<1>2. CASE Reread(h)
  <2>1. /\ pc[h] = "reread" /\ pc'[h] = "updateAbilities" /\ UNCHANGED <<tables, torn>>
        /\ op'[h].chan = c
        /\ Exists(c) => op'[h].status = status[c] /\ op'[h].groups = groups[c]
        /\ \A k \in Handlers \ {h} : pc'[k] = pc[k] /\ op'[k] = op[k]
    BY <1>0, <1>c, <1>2, Copy DEF Reread, TypeOK, Channel
  <2>2. ASSUME NEW d \in Channels, d # c PROVE ChannelInv(d)'
    <3>1. Alone(d)
      BY <1>c, <2>1, <2>2 DEF Alone, Busy, tables
    <3> QED BY <2>1, <3>1, AloneInv DEF Inv
  <2>3. ASSUME NEW d \in Channels, d = c PROVE ChannelInv(d)'
    <3> SUFFICES ASSUME d \notin torn PROVE ChannelInv(d)'
      BY <2>1 DEF ChannelInv
    <3>1. Busy(h, d) /\ Busy(h, d)' /\ ChannelInv(d)
      BY <1>c, <2>1, <2>3 DEF Busy, Inv
    <3>2. /\ Holds(h) /\ \A k \in Handlers : Busy(k, d) => k = h
          /\ status[d] = "none" => abilities \cap Of(d) = {} /\ enabled \cap Of(d) = {}
      BY <3>1 DEF ChannelInv
    <3>3. \A k \in Handlers : Busy(k, d)' => k = h
      BY <2>1, <3>2 DEF Busy
    <3>4. Holds(h)'
      BY <1>c, <2>1, <3>2 DEF Holds, Exists, tables
    <3>5. Writing(d)'
      BY <3>1 DEF Writing, Busy
    <3> QED BY <2>1, <3>2, <3>3, <3>4, <3>5 DEF ChannelInv, tables, Of
  <2> QED BY <2>2, <2>3
<1>3. CASE UpdateAbilities(h)
  <2> DEFINE on == IF op[h].status = "enabled" THEN rows ELSE {}
  <2>1. /\ abilities' = (abilities \ Of(c)) \cup rows
        /\ enabled' = (enabled \ Of(c)) \cup on
        /\ UNCHANGED <<status, groups>> /\ pc[h] = "updateAbilities" /\ Return(h)
    BY <1>c, <1>3 DEF UpdateAbilities
  <2>2. on \subseteq rows
    OBVIOUS
  <2> HIDE DEF rows, on
  <2>3. \A d \in Channels : d # c => /\ abilities' \cap Of(d) = abilities \cap Of(d)
                                    /\ enabled' \cap Of(d) = enabled \cap Of(d)
    BY <1>0, <1>r, <2>1, <2>2
  <2>4. abilities' \cap Of(c) = rows /\ enabled' \cap Of(c) = on
    BY <1>r, <2>1, <2>2
  <2>5. ASSUME c \notin torn, Holds(h)
        PROVE  status'[c] # "none" /\ (Exists(c)' => Agrees(c)')
    <3>1. /\ status[c] # "none"
          /\ Exists(c) => op[h].status = status[c] /\ op[h].groups = groups[c]
      BY <1>c, <2>1, <2>5 DEF Holds
    <3>2. Exists(c)' <=> Exists(c)
      BY <2>1 DEF Exists
    <3> QED BY <2>1, <2>4, <3>1, <3>2 DEF Agrees, rows, on, Of
  <2> QED BY <1>c, <2>1, <2>3, <2>5, ReturnInv
<1>4. CASE DeleteAbilities(h)
  <2>1. /\ abilities' = abilities \ Of(c) /\ enabled' = enabled \ Of(c)
        /\ UNCHANGED <<status, groups>> /\ pc[h] = "deleteAbilities" /\ Return(h)
    BY <1>c, <1>4 DEF DeleteAbilities
  <2>2. \A d \in Channels : d # c => /\ abilities' \cap Of(d) = abilities \cap Of(d)
                                    /\ enabled' \cap Of(d) = enabled \cap Of(d)
    BY <1>0, <1>r, <2>1
  <2>3. abilities' \cap Of(c) = {} /\ enabled' \cap Of(c) = {}
    BY <2>1
  <2>4. Holds(h) => ~Exists(c)'
    BY <1>c, <2>1 DEF Holds, Exists
  <2> QED BY <1>c, <2>1, <2>2, <2>3, <2>4, ReturnInv
<1>5. CASE SetStatus(h)
  <2>1. /\ status' = [status EXCEPT ![c] = IF Exists(c) THEN op[h].status ELSE @]
        /\ UNCHANGED <<groups, abilities, enabled>> /\ pc[h] = "setStatus" /\ Return(h)
    BY <1>c, <1>5 DEF SetStatus
  <2>2. /\ status'[c] = IF Exists(c) THEN op[h].status ELSE status[c]
        /\ \A d \in Channels : d # c => status'[d] = status[d]
    BY <1>0, <2>1 DEF TypeOK
  <2>3. ASSUME c \notin torn, Holds(h), Exists(c)'
        PROVE  Agrees(c)'
    <3>1. Exists(c)
      BY <2>2, <2>3 DEF Exists
    <3>2. /\ abilities \cap Of(c) = groups[c] \X {c}
          /\ enabled \cap Of(c) = IF op[h].status = "enabled" THEN groups[c] \X {c} ELSE {}
      BY <1>c, <2>1, <2>3, <3>1 DEF Holds
    <3> QED BY <2>1, <2>2, <3>1, <3>2 DEF Agrees, Of
  <2>4. ASSUME c \notin torn, status'[c] = "none"
        PROVE  abilities' \cap Of(c) = {} /\ enabled' \cap Of(c) = {}
    <3>1. status[c] = "none" /\ ChannelInv(c)
      BY <1>0, <2>2, <2>4 DEF Inv
    <3> QED BY <2>1, <2>4, <3>1 DEF ChannelInv
  <2> QED BY <1>c, <2>1, <2>2, <2>3, <2>4, ReturnInv
<1> QED BY <1>1, <1>2, <1>3, <1>4, <1>5 DEF Write

(* A handler that dies leaves its channel torn.                             *)
LEMMA StatementFailsInv ==
    ASSUME Inv, NEW h \in Handlers, StatementFails(h)
    PROVE  \A d \in Channels : ChannelInv(d)'
<1>t. TypeOK /\ op[h] \in Copies
  BY DEF Inv, TypeOK
<1>c. PICK c \in Channels : c = op[h].chan
  BY <1>t DEF Copies
<1>1. /\ pc[h] # "idle" /\ (pc'[h] = "idle" \/ op'[h] = op[h])
      /\ \A k \in Handlers \ {h} : pc'[k] = pc[k] /\ op'[k] = op[k]
      /\ torn' = torn \cup {c} /\ UNCHANGED tables
  BY <1>c, <1>t DEF StatementFails, TypeOK
<1>2. ASSUME NEW d \in Channels, d # c PROVE ChannelInv(d)'
  <2>1. Alone(d)
    BY <1>c, <1>1, <1>2 DEF Alone, Busy, tables
  <2> QED BY <1>1, <2>1, AloneInv DEF Inv
<1>3. ChannelInv(c)'
  BY <1>1 DEF ChannelInv
<1> QED BY <1>2, <1>3

LEMMA DieInv ==
    ASSUME Inv, Die
    PROVE  \A d \in Channels : ChannelInv(d)'
<1>1. /\ UNCHANGED tables /\ \A h \in Handlers : pc'[h] = "idle"
      /\ torn' = torn \cup {c \in Channels : Writing(c)}
  BY DEF Die
<1>2. ASSUME NEW d \in Channels, d \notin torn' PROVE ChannelInv(d)'
  <2>1. ChannelInv(d) /\ d \notin torn /\ ~Writing(d)
    BY <1>1, <1>2 DEF Inv
  <2>2. /\ Exists(d)' <=> Exists(d)
        /\ Agrees(d)' <=> Agrees(d)
        /\ \A h \in Handlers : ~Busy(h, d)'
    BY <1>1 DEF Exists, Agrees, Busy, Of, tables
  <2> QED BY <1>1, <2>1, <2>2 DEF ChannelInv, Of, tables
<1> QED BY <1>2 DEF ChannelInv

LEMMA DeleteDisabledInv ==
    ASSUME Inv, DeleteDisabledChannel
    PROVE  \A d \in Channels : ChannelInv(d)'
<1> SUFFICES ASSUME NEW d \in Channels PROVE ChannelInv(d)'
  OBVIOUS
<1>1. /\ status'[d] = IF status[d] = "disabled" THEN "deleted" ELSE status[d]
      /\ UNCHANGED <<groups, abilities, enabled, pc, op>>
      /\ d \in torn => d \in torn'
      /\ status[d] = "disabled" /\ Writing(d) => d \in torn'
  BY DEF DeleteDisabledChannel, writers
<1>2. CASE status[d] = "disabled"
  <2> SUFFICES ASSUME d \notin torn' PROVE ChannelInv(d)'
    BY DEF ChannelInv
  <2>1. ~Exists(d)' /\ status'[d] # "none" /\ \A h \in Handlers : ~Busy(h, d)'
    BY <1>1, <1>2 DEF Exists, Writing, Busy
  <2> QED BY <2>1 DEF ChannelInv
<1>3. CASE status[d] # "disabled"
  <2>1. Alone(d)
    BY <1>1, <1>3 DEF Alone, Busy
  <2> QED BY <1>1, <2>1, AloneInv DEF Inv
<1> QED BY <1>2, <1>3

(* Steps that only read.                                                    *)
LEMMA ReadInv ==
    ASSUME Inv, UNCHANGED <<status, groups, abilities, enabled, pc, op, torn>>
    PROVE  \A d \in Channels : ChannelInv(d)'
<1>1. \A d \in Channels : Alone(d)
  BY DEF Alone, Busy
<1> QED BY <1>1, AloneInv DEF Inv

LEMMA InitInv == Init => Inv
<1> SUFFICES ASSUME Init PROVE Inv
  OBVIOUS
<1>1. TypeOK
  BY InitTypes
<1>2. ASSUME NEW d \in Channels PROVE ChannelInv(d)
  <2>1. /\ \A h \in Handlers : ~Busy(h, d)
        /\ abilities = EnabledPairs /\ enabled = EnabledPairs
        /\ status[d] = IF d \in Initial THEN "enabled" ELSE "none"
        /\ groups[d] \in GroupLists
    BY <1>1, <1>2 DEF Init, Busy, TypeOK
  <2>2. EnabledPairs \cap Of(d) = IF d \in Initial THEN groups[d] \X {d} ELSE {}
    BY <2>1, ChannelAssumption DEF EnabledPairs, Pairs, Of
  <2>3. Exists(d) => Agrees(d)
    BY <2>1, <2>2 DEF Exists, Agrees
  <2> QED BY <2>1, <2>2, <2>3 DEF ChannelInv
<1> QED BY <1>1, <1>2 DEF Inv

LEMMA NextInv == Inv /\ [Next]_vars => Inv'
<1> SUFFICES ASSUME Inv, [Next]_vars PROVE Inv'
  OBVIOUS
<1>0. TypeOK'
  BY NextTypes DEF Inv
<1> SUFFICES \A d \in Channels : ChannelInv(d)'
  BY <1>0 DEF Inv
<1>1. CASE TestChannels
  BY <1>1, ReadInv DEF TestChannels, tables, writers
<1>2. CASE ReadChannels \/ ReadChannelsFails
  BY <1>2, ReadInv DEF ReadChannels, ReadChannelsFails, tables, writers
<1>3. CASE ReadAbilities \/ ReadAbilitiesFails
  <2>1. PICK rows \in SUBSET abilities : Build(rows)
    BY <1>3 DEF ReadAbilities, ReadAbilitiesFails
  <2>2. CASE Die
    BY <2>2, DieInv
  <2>3. CASE ~Die
    BY <2>1, <2>3, ReadInv DEF Build, tables, writers
  <2> QED BY <2>2, <2>3
<1>4. CASE Crash
  BY <1>4, DieInv DEF Crash
<1>5. CASE UNCHANGED vars
  BY <1>5, ReadInv DEF vars, tables, writers
<1> QED BY <1>1, <1>2, <1>3, <1>4, <1>5, RequestInv, WriteInv, StatementFailsInv, DeleteDisabledInv
        DEF Next, Rebuild

(* Writers that follow one another, in any order and number, keep channels  *)
(* and abilities in agreement; only overlaps and failures set them at odds. *)
THEOREM TablesAlwaysAgree == Spec => []TablesAgree
<1>1. Inv => TablesAgree
  BY DEF Inv, ChannelInv, TablesAgree
<1> QED BY <1>1, InitInv, NextInv, PTL DEF Spec

-----------------------------------------------------------------------------
(* The process can start.                                                   *)

(* Before it serves, the process runs nothing but the first rebuild, so that*)
(* the channels it has read are in the table as it is.                      *)
Starting ==
    ~serving => /\ \A h \in Handlers : pc[h] = "idle"
                /\ sync = "abilities" => snap \subseteq EnabledPairs

(* Until main has built the cache, there is no step but its own.            *)
LEMMA OnlyRebuild ==
    ASSUME Starting, ~serving, Next
    PROVE  Rebuild \/ ReadChannelsFails \/ ReadAbilitiesFails
<1>1. ASSUME NEW h \in Handlers, NEW c \in Channels PROVE ~Request(h, c)
  BY DEF Request, Insert, Update, Delete, DisableChannel, EnableChannel,
         DisableChannelFails, EnableChannelFails, Begin, Start
<1>2. ASSUME NEW h \in Handlers PROVE ~Write(h) /\ ~StatementFails(h)
  BY DEF Starting, Write, AddAbilities, Reread, UpdateAbilities, DeleteAbilities, SetStatus,
         StatementFails
<1> QED BY <1>1, <1>2 DEF Next, DeleteDisabledChannel, TestChannels, Crash

LEMMA StartingInv == TypeOK /\ Starting /\ [Next]_vars => Starting'
<1> SUFFICES ASSUME TypeOK, Starting, [Next]_vars, ~serving' PROVE Starting'
  BY DEF Starting
<1>1. CASE Die
  BY <1>1 DEF Die, Starting
<1>2. CASE ~Die /\ serving
  <2>1. ASSUME NEW h \in Handlers, NEW c \in Channels, Request(h, c) PROVE FALSE
    BY <1>2, <2>1 DEF Request, Insert, Update, Delete, DisableChannel, EnableChannel,
         DisableChannelFails, EnableChannelFails, Begin, Start, cache
  <2>2. ASSUME NEW h \in Handlers, Write(h) \/ StatementFails(h) PROVE FALSE
    BY <1>2, <2>2 DEF Write, AddAbilities, Reread, UpdateAbilities, DeleteAbilities, SetStatus,
         StatementFails, Return, cache
  <2> QED BY <1>2, <2>1, <2>2
          DEF Next, DeleteDisabledChannel, TestChannels, Crash, Rebuild, ReadChannels,
              ReadChannelsFails, ReadAbilities, ReadAbilitiesFails, Build, vars, cache
<1>3. CASE ~Die /\ ~serving
  <2>1. CASE ReadChannels \/ ReadChannelsFails
    BY <1>3, <2>1
       DEF Starting, ReadChannels, ReadChannelsFails, EnabledPairs, Pairs, tables, writers
  <2>2. CASE ReadAbilities \/ ReadAbilitiesFails
    BY <1>3, <2>2 DEF ReadAbilities, ReadAbilitiesFails, Build
  <2>3. CASE UNCHANGED vars
    BY <1>3, <2>3 DEF Starting, EnabledPairs, Pairs, vars, tables, writers, cache
  <2> QED BY <1>3, <2>1, <2>2, <2>3, OnlyRebuild DEF Rebuild
<1> QED BY <1>1, <1>2, <1>3

(* A process whose tables nobody has torn builds its first cache and serves,*)
(* if its query for the abilities succeeds.                                 *)
THEOREM StartsIfNotTorn == Spec => StartsUnlessTorn
<1>1. Init => Starting
  BY DEF Init, Starting
<1>2. ASSUME Inv, Starting, [Next]_vars, ~serving, sync = "abilities", torn = {}, Next,
             faults' = faults
      PROVE  serving'
  <2>1. ReadAbilities
    BY <1>2, OnlyRebuild
       DEF Rebuild, ReadChannels, ReadChannelsFails, ReadAbilitiesFails, Fault, Inv, TypeOK
  <2>2. ASSUME NEW p \in snap PROVE \E r \in abilities : r[1] = p[1]
    <3>1. p \in Pairs /\ status[p[2]] = "enabled" /\ p[1] \in groups[p[2]]
      BY <1>2, <2>2 DEF Starting, EnabledPairs
    <3>2. PICK g \in Groups, c \in Channels : p = <<g, c>>
      BY <3>1 DEF Pairs
    <3>3. Agrees(c)
      BY <1>2, <3>1, <3>2 DEF Inv, ChannelInv, Starting, Writing, Exists
    <3>4. p \in abilities
      BY <3>1, <3>2, <3>3 DEF Agrees
    <3> QED BY <3>4
  <2> QED BY <2>1, <2>2 DEF ReadAbilities, Build
<1>3. Inv => TypeOK
  BY DEF Inv
<1>4. Inv /\ Starting /\ [Next]_vars
         => [~serving /\ sync = "abilities" /\ torn = {} /\ faults' = faults => serving']_vars
  BY <1>2
<1> QED BY <1>1, <1>3, <1>4, InitInv, NextInv, StartingInv, PTL DEF Spec, StartsUnlessTorn
===============================================================================
