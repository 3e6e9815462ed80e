----------------------------- MODULE ChannelTable ------------------------------
(***************************************************************************)
(* The tables channels and abilities, which are written together but in    *)
(* separate statements (model/channel.go, model/ability.go) by the         *)
(* administrators' handlers, by the goroutines that disable a channel after*)
(* an error and by the channel test that enables it again; and the cache   *)
(* the relay chooses channels from, which a goroutine rebuilds from both   *)
(* tables every SyncFrequency seconds (model/cache.go) and which main      *)
(* builds before it serves anything.                                       *)
(*                                                                         *)
(* One model stands for all: an ability is a row of one channel in one     *)
(* group.  Manually and automatically disabled are one status here.        *)
(***************************************************************************)
EXTENDS Integers

CONSTANTS
    Channels, Groups,
    GroupLists,    \* values of channels.group: nonempty sets of groups
    Handlers,      \* goroutines that may be writing
    Initial,       \* channels that exist in the beginning
    Home,          \* and their groups
    MaxWrites,     \* bound: write operations in a behaviour
    MaxFaults      \* bound: crashes, failed statements and queries in a behaviour

ASSUME ChannelAssumption ==
    /\ Initial \subseteq Channels /\ Channels # {}
    /\ GroupLists \subseteq SUBSET Groups /\ GroupLists # {} /\ {} \notin GroupLists
    /\ Home \in [Channels -> GroupLists]
    /\ MaxWrites \in Nat /\ MaxFaults \in Nat

VARIABLES
    status,     \* status[c]: channels.status, "none" before, "deleted" after the row
    groups,     \* groups[c]: channels.group
    abilities,  \* <<g, c>> with a row in abilities
    enabled,    \* and those whose row is enabled
    pc,         \* pc[h]: the statement handler h is about to execute
    op,         \* op[h]: the channel in its memory
    seen,       \* disabled channels the channel test has yet to try
    serving,    \* has main built the first cache?
    sync,       \* the statement InitChannelCache is about to execute
    snap,       \* <<g, c>> of the enabled channels it has read
    view,       \* group2model2channels, as pairs <<g, c>>
    torn,       \* channels whose writers overlapped or died (history)
    writes,     \* (history, bounded by MaxWrites)
    faults      \* (history, bounded by MaxFaults)

tables  == <<status, groups, abilities, enabled>>
writers == <<pc, op>>
cache   == <<serving, sync, snap, view>>
vars    == <<tables, writers, seen, cache, torn, writes, faults>>

Pairs == Groups \X Channels
Of(c) == Groups \X {c}
Exists(c) == status[c] \in {"enabled", "disabled"}
EnabledPairs == {p \in Pairs : status[p[2]] = "enabled" /\ p[1] \in groups[p[2]]}

Channel(c, s, gs) == [chan |-> c, status |-> s, groups |-> gs]
Blank == Channel(CHOOSE c \in Channels : TRUE, "disabled", CHOOSE gs \in GroupLists : TRUE)

Init ==
    /\ status = [c \in Channels |-> IF c \in Initial THEN "enabled" ELSE "none"]
    /\ groups = Home
    /\ abilities = EnabledPairs /\ enabled = EnabledPairs
    /\ pc = [h \in Handlers |-> "idle"]
    /\ op = [h \in Handlers |-> Blank]
    /\ seen = {}
    /\ serving = FALSE /\ sync = "channels" /\ snap = {} /\ view = {}
    /\ torn = {} /\ writes = 0 /\ faults = 0

-----------------------------------------------------------------------------
Writing(c) == \E h \in Handlers : pc[h] # "idle" /\ op[h].chan = c

(* Handler h starts a write of channel ch.chan and goes on at l.            *)
Start(h, l, ch) ==
    /\ serving
    /\ pc[h] = "idle"
    /\ writes < MaxWrites
    /\ writes' = writes + 1
    /\ pc' = [pc EXCEPT ![h] = l]
    /\ op' = [op EXCEPT ![h] = ch]
    /\ UNCHANGED cache

Begin(h, l, ch) ==
    /\ Start(h, l, ch)
    /\ torn' = IF Writing(ch.chan) THEN torn \cup {ch.chan} ELSE torn
    /\ UNCHANGED faults

Return(h) ==
    /\ pc' = [pc EXCEPT ![h] = "idle"]
    /\ op' = [op EXCEPT ![h] = Blank]
    /\ UNCHANGED <<seen, cache, torn, writes, faults>>

(* AddChannel: BatchInsertChannels creates the rows (one here for each key  *)
(* of the form), then the abilities of each; ids of channels are new.       *)
Insert(h, c, gs) ==
    /\ status[c] = "none"
    /\ Begin(h, "addAbilities", Channel(c, "enabled", gs))
    /\ status' = [status EXCEPT ![c] = "enabled"]
    /\ groups' = [groups EXCEPT ![c] = gs]
    /\ UNCHANGED <<abilities, enabled, seen>>

AddAbilities(h) ==
    /\ pc[h] = "addAbilities"
    /\ LET rows == op[h].groups \X {op[h].chan} IN
       IF rows \cap abilities # {}
       THEN UNCHANGED <<abilities, enabled>>
       ELSE /\ abilities' = abilities \cup rows
            /\ enabled' = enabled \cup rows
    /\ Return(h)
    /\ UNCHANGED <<status, groups>>

(* UpdateChannel: write the form, read the row back (nothing is read, and   *)
(* no error noticed, if it has been deleted) ...                            *)
Update(h, c, s, gs) ==
    /\ status[c] # "none"
    /\ Begin(h, "reread", Channel(c, s, gs))
    /\ IF Exists(c)
       THEN /\ status' = [status EXCEPT ![c] = s]
            /\ groups' = [groups EXCEPT ![c] = gs]
       ELSE UNCHANGED <<status, groups>>
    /\ UNCHANGED <<abilities, enabled, seen>>

Reread(h) ==
    /\ pc[h] = "reread"
    /\ pc' = [pc EXCEPT ![h] = "updateAbilities"]
    /\ LET c == op[h].chan IN
       IF Exists(c)
       THEN op' = [op EXCEPT ![h] = Channel(c, status[c], groups[c])]
       ELSE UNCHANGED op
    /\ UNCHANGED <<tables, seen, cache, torn, writes, faults>>

(* Slips for the runs to catch: the abilities of groups the channel has left*)
(* stay; a disabled channel gets none.                                      *)
UpdateAbilitiesKeeps(h) ==
    /\ pc[h] = "updateAbilities"
    /\ LET rows == op[h].groups \X {op[h].chan} IN
       /\ abilities' = abilities \cup rows
       /\ enabled' = IF op[h].status = "enabled" THEN enabled \cup rows ELSE enabled \ rows
    /\ Return(h)
    /\ UNCHANGED <<status, groups>>

UpdateAbilitiesEnabledOnly(h) ==
    /\ pc[h] = "updateAbilities"
    /\ LET c == op[h].chan
           rows == IF op[h].status = "enabled" THEN op[h].groups \X {c} ELSE {} IN
       /\ abilities' = (abilities \ Of(c)) \cup rows
       /\ enabled' = (enabled \ Of(c)) \cup rows
    /\ Return(h)
    /\ UNCHANGED <<status, groups>>

(* ... and UpdateAbilities: delete and add again, in a transaction.         *)
UpdateAbilities(h) ==
    /\ pc[h] = "updateAbilities"
    /\ LET c == op[h].chan
           rows == op[h].groups \X {c} IN
       /\ abilities' = (abilities \ Of(c)) \cup rows
       /\ enabled' = (enabled \ Of(c)) \cup (IF op[h].status = "enabled" THEN rows ELSE {})
    /\ Return(h)
    /\ UNCHANGED <<status, groups>>

(* DeleteChannel: the channel, then its abilities.                          *)
Delete(h, c) ==
    /\ Exists(c)
    /\ Begin(h, "deleteAbilities", Channel(c, "disabled", groups[c]))
    /\ status' = [status EXCEPT ![c] = "deleted"]
    /\ UNCHANGED <<groups, abilities, enabled, seen>>

DeleteAbilities(h) ==
    /\ pc[h] = "deleteAbilities"
    /\ abilities' = abilities \ Of(op[h].chan)
    /\ enabled' = enabled \ Of(op[h].chan)
    /\ Return(h)
    /\ UNCHANGED <<status, groups>>

(* DeleteDisabledChannel: one statement for all of them; their abilities,   *)
(* which are disabled, stay.                                                *)
DeleteDisabledChannel ==
    /\ serving
    /\ writes < MaxWrites
    /\ writes' = writes + 1
    /\ LET gone == {c \in Channels : status[c] = "disabled"} IN
       /\ status' = [c \in Channels |-> IF c \in gone THEN "deleted" ELSE status[c]]
       /\ torn' = torn \cup {c \in gone : Writing(c)}
    /\ UNCHANGED <<groups, abilities, enabled, writers, seen, cache, faults>>

-----------------------------------------------------------------------------
(* UpdateChannelStatusById: the abilities, if there are any, then the row,  *)
(* if it is there.  (Slip for the runs to catch: saving the abilities adds  *)
(* those that are missing.)                                                 *)
UpdateAbilityStatusSaves(c, s) ==
    enabled' = IF s = "enabled" THEN enabled \cup Of(c) ELSE enabled \ Of(c)

UpdateAbilityStatus(c, s) ==
    enabled' = IF s = "enabled" THEN enabled \cup (abilities \cap Of(c)) ELSE enabled \ Of(c)

(* DisableChannel: for an error of the upstream, a low success rate, an     *)
(* empty balance or a failed test; its request may have begun long before.  *)
DisableChannel(h, c) ==
    /\ status[c] # "none"
    /\ Begin(h, "setStatus", Channel(c, "disabled", groups[c]))
    /\ UpdateAbilityStatus(c, "disabled")
    /\ UNCHANGED <<status, groups, abilities, seen>>

(* testChannels reads all channels once, and enables those that were        *)
(* disabled then and now answer.  A flag admits one test at a time: when the*)
(* next begins, the one before is through with the channels it had seen.    *)
TestChannels ==
    /\ serving
    /\ seen' = {c \in Channels : status[c] = "disabled"}
    /\ UNCHANGED <<tables, writers, cache, torn, writes, faults>>

EnableChannel(h, c) ==
    /\ c \in seen
    /\ Begin(h, "setStatus", Channel(c, "enabled", groups[c]))
    /\ UpdateAbilityStatus(c, "enabled")
    /\ seen' = seen \ {c}
    /\ UNCHANGED <<status, groups, abilities>>

SetStatus(h) ==
    /\ pc[h] = "setStatus"
    /\ status' = [status EXCEPT ![op[h].chan] = IF Exists(op[h].chan) THEN op[h].status ELSE @]
    /\ Return(h)
    /\ UNCHANGED <<groups, abilities, enabled>>

-----------------------------------------------------------------------------
Fault == faults < MaxFaults /\ faults' = faults + 1

(* InitChannelCache reads the enabled channels and then the abilities, of   *)
(* which it needs the groups.  (Slip for the runs to catch: it reads all    *)
(* channels there are.)                                                     *)
ReadChannelsAll ==
    /\ sync = "channels"
    /\ sync' = "abilities"
    /\ snap' = {p \in Pairs : Exists(p[2]) /\ p[1] \in groups[p[2]]}
    /\ UNCHANGED <<tables, writers, seen, serving, view, torn, writes, faults>>

ReadChannels ==
    /\ sync = "channels"
    /\ sync' = "abilities"
    /\ snap' = EnabledPairs
    /\ UNCHANGED <<tables, writers, seen, serving, view, torn, writes, faults>>

(* An error of the query is not looked at: the rebuild goes on with those of*)
(* the channels that have arrived, or none.                                 *)
ReadChannelsFails ==
    /\ sync = "channels"
    /\ Fault
    /\ sync' = "abilities"
    /\ \E cs \in SUBSET Channels : snap' = EnabledPairs \cap (Groups \X cs)
    /\ UNCHANGED <<tables, writers, seen, serving, view, torn, writes>>

(* The process ends; whatever its goroutines were writing stays half done.  *)
Die ==
    /\ pc' = [h \in Handlers |-> "idle"]
    /\ op' = [h \in Handlers |-> Blank]
    /\ serving' = FALSE /\ sync' = "channels" /\ snap' = {} /\ view' = {} /\ seen' = {}
    /\ torn' = torn \cup {c \in Channels : Writing(c)}
    /\ UNCHANGED <<tables, writes>>

(* The abilities that were read name the groups of the new cache; a channel *)
(* in another group is an assignment to an entry of a nil map: a panic that *)
(* nothing recovers.                                                        *)
Build(rows) ==
    /\ sync = "abilities"
    /\ IF \A p \in snap : \E r \in rows : r[1] = p[1]
       THEN /\ sync' = "channels" /\ snap' = {}
            /\ view' = snap
            /\ serving' = TRUE
            /\ UNCHANGED <<tables, writers, seen, torn, writes>>
       ELSE Die

ReadAbilities == Build(abilities) /\ UNCHANGED faults

(* Nor is an error looked at here, though groups are missing then.          *)
ReadAbilitiesFails == Fault /\ \E rows \in SUBSET abilities : Build(rows)

-----------------------------------------------------------------------------
Crash == serving /\ Fault /\ Die

(* A statement fails, and with it the handler; UpdateChannel does not look  *)
(* at the error of its Reread.                                              *)
StatementFails(h) ==
    /\ pc[h] # "idle"
    /\ Fault
    /\ IF pc[h] = "reread"
       THEN pc' = [pc EXCEPT ![h] = "updateAbilities"] /\ UNCHANGED op
       ELSE pc' = [pc EXCEPT ![h] = "idle"] /\ op' = [op EXCEPT ![h] = Blank]
    /\ torn' = torn \cup {op[h].chan}
    /\ UNCHANGED <<tables, seen, cache, writes>>

(* UpdateChannelStatusById goes on when it could not update the abilities.  *)
DisableChannelFails(h, c) ==
    /\ status[c] # "none"
    /\ Fault
    /\ Start(h, "setStatus", Channel(c, "disabled", groups[c]))
    /\ torn' = torn \cup {c}
    /\ UNCHANGED <<tables, seen>>

EnableChannelFails(h, c) ==
    /\ c \in seen
    /\ Fault
    /\ Start(h, "setStatus", Channel(c, "enabled", groups[c]))
    /\ torn' = torn \cup {c}
    /\ seen' = seen \ {c}
    /\ UNCHANGED tables

-----------------------------------------------------------------------------
Write(h) ==
    \/ AddAbilities(h) \/ Reread(h) \/ UpdateAbilities(h) \/ DeleteAbilities(h)
    \/ SetStatus(h)

Request(h, c) ==
    \/ \E gs \in GroupLists :
          \/ Insert(h, c, gs)
          \/ \E s \in {"enabled", "disabled"} : Update(h, c, s, gs)
    \/ Delete(h, c)
    \/ DisableChannel(h, c) \/ EnableChannel(h, c)
    \/ DisableChannelFails(h, c) \/ EnableChannelFails(h, c)

Rebuild == ReadChannels \/ ReadAbilities

Next ==
    \/ \E h \in Handlers, c \in Channels : Request(h, c)
    \/ \E h \in Handlers : Write(h) \/ StatementFails(h)
    \/ DeleteDisabledChannel
    \/ TestChannels
    \/ Rebuild
    \/ ReadChannelsFails \/ ReadAbilitiesFails
    \/ Crash

Spec == Init /\ [][Next]_vars

(* SyncChannelCache loops for ever, and the process is started again.       *)
FairSpec == Spec /\ WF_vars(Rebuild)

-----------------------------------------------------------------------------
Statuses == {"none", "enabled", "disabled", "deleted"}
Labels == {"idle", "addAbilities", "reread", "updateAbilities", "deleteAbilities", "setStatus"}
Copies == [chan : Channels, status : {"enabled", "disabled"}, groups : GroupLists]

TypeOK ==
    /\ status \in [Channels -> Statuses]
    /\ groups \in [Channels -> GroupLists]
    /\ abilities \subseteq Pairs /\ enabled \subseteq abilities
    /\ pc \in [Handlers -> Labels]
    /\ op \in [Handlers -> Copies]
    /\ seen \subseteq Channels
    /\ serving \in BOOLEAN /\ sync \in {"channels", "abilities"}
    /\ snap \subseteq Pairs /\ view \subseteq Pairs
    /\ torn \subseteq Channels
    /\ writes \in 0..MaxWrites /\ faults \in 0..MaxFaults

(* The abilities of a channel are those of its groups, enabled if it is.    *)
Agrees(c) ==
    /\ abilities \cap Of(c) = groups[c] \X {c}
    /\ enabled \cap Of(c) = IF status[c] = "enabled" THEN groups[c] \X {c} ELSE {}

(* The two tables agree about every channel that exists, unless two writers *)
(* of that channel overlapped or one was cut short: no sequence of inserts, *)
(* edits, tests and deletions by itself sets them at odds.                  *)
TablesAgree ==
    \A c \in Channels \ torn : Exists(c) /\ ~Writing(c) => Agrees(c)

(* The process can be started: no channel keeps InitChannelCache from its   *)
(* end while nobody writes, unless its writers overlapped or were cut short,*)
(* or the query for the abilities fails: then channels are without groups.  *)
StartsUnlessTorn ==
    [][~serving /\ sync = "abilities" /\ torn = {} /\ faults' = faults => serving']_vars

(* The relay sees a channel's last status and groups in the end, whatever   *)
(* writers, rebuilds and restarts do meanwhile.                             *)
ViewConverges == <>[](serving => view = EnabledPairs)

-----------------------------------------------------------------------------
(* What docs/TEST_CASES.md says, and the code does not keep.                *)

(* TC-CH-08: once disabled, a channel takes no part in routing.  Without the*)
(* cache the relay chooses from the enabled abilities.                      *)
DisabledNotRouted ==
    serving /\ (\A h \in Handlers : pc[h] = "idle") =>
        \A p \in enabled : status[p[2]] # "disabled"
===============================================================================
