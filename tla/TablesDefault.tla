---------------------------- MODULE TablesDefault ----------------------------
(***************************************************************************)
(* The four tables of web/default/src/components: channels, tokens, users  *)
(* and logs.  A button of a row hands its handler the record's id and the  *)
(* row's index on the page; the handler finds the row object at            *)
(* (activePage - 1) * ITEMS_PER_PAGE + idx of the array it captured.       *)
(***************************************************************************)
EXTENDS WebTable

\* Slips: the index is taken for one of the whole list; a deletion is not shown.
RowAtIndex(r) == arrays[r.cap].rows[r.idx]
MarkNothing(ref) == UNCHANGED heap
\* the row object that a handler means by the index it was given
RowAt(r) == arrays[r.cap].rows[(r.page - 1) * PageSize + r.idx]
Mark(ref) == heap' = [heap EXCEPT ![ref[1]].deleted = @ \cup {ref[2]}]
Measure(field, ref, id) == heap' = [heap EXCEPT ![ref[1]][field][ref[2]] = id]

\* The handler wrote into a row object and sets a copy of the captured array.
ShowCopy(r) ==
  /\ CopyOf(r.cap)
  /\ UNCHANGED <<page, size, total, query, loading>>
  /\ KeepSwitches
  /\ Done(r)
Managed(dos) ==
  \/ \E r \in Fine(dos) :
       /\ IF r.do = "delete" THEN Mark(RowAt(r)) ELSE SetStatus(RowAt(r), r.ans.value)
       /\ ShowCopy(r)
  \/ Fails(dos)

Reload(start) ==
  /\ Ask([start |-> start])
  /\ loading' = TRUE
  /\ UNCHANGED <<heap, arrays, cur, page, size, total, query, switch>>
Refresh == Reload(page - 1)

SearchEnds ==
  \/ \E r \in Answers({"search"}) : SearchArrives(r) /\ UNCHANGED total
  \/ Fails({"search"})

(***************************************************************************)
(* ChannelsTable                                                           *)
(***************************************************************************)
DefaultChannels == table = "default/channels"

LoadChannels == DefaultChannels /\ (LoadEnds \/ HandlerDies({"load"}))
ManageChannel == DefaultChannels /\ Managed({"delete", "enable", "disable", "touch"})
SearchChannels == DefaultChannels /\ (Search("none") \/ SearchEnds)

\* The balance in a row calls updateChannelBalance with index 0.
BalanceUsage ==
  /\ DefaultChannels
  /\ \E i \in Shown : AskOnly([do |-> "balance", id |-> IdOf(List[i]), idx |-> 1])
UpdateBalance ==
  /\ DefaultChannels
  /\ \/ \E r \in Fine({"balance"}) :
          Measure("balance", RowAt(r), r.ans.value) /\ ShowCopy(r)
     \/ Fails({"balance"})

\* A failed test writes a response time as well, a lost one does not.
TestChannel ==
  /\ DefaultChannels
  /\ \/ \E r \in Answers({"test"}) :
          r.ans.ok # "lost" /\ Measure("tested", RowAt(r), r.id) /\ ShowCopy(r)
     \/ HandlerDies({"test"})

\* await refresh(): the page that was active when the button was clicked
DeleteDisabled ==
  /\ DefaultChannels
  /\ \/ \E r \in Fine({"sweep"}) :
          /\ ThenLoad(r, "none")
          /\ loading' = TRUE
          /\ UNCHANGED <<heap, arrays, cur, page, size, total, query, switch>>
     \/ Fails({"sweep"})

SortChannel(key) == DefaultChannels /\ SortRows(key)
ChannelHeader ==
  \E key \in {"id", "name", "group", "type", "billing_type", "status", "health_status",
              "response_time", "balance", "priority"} : SortChannel(key)
ChannelRow ==
  /\ DefaultChannels
  /\ \E i \in Shown : \/ AskRow("delete", i)
                      \/ AskToggle(i)
                      \/ AskRow("test", i)
                      \/ AskRow("touch", i)
ChannelFooter == DefaultChannels /\ (AskOnly([do |-> "sweep"]) \/ AwaitTurn \/ Refresh)

ChannelsTable ==
  \/ LoadChannels \/ ManageChannel \/ SearchChannels \/ BalanceUsage \/ UpdateBalance
  \/ TestChannel \/ DeleteDisabled \/ ChannelHeader \/ ChannelRow \/ ChannelFooter

(***************************************************************************)
(* TokensTable                                                             *)
(***************************************************************************)
DefaultTokens == table = "default/tokens"

LoadTokens == DefaultTokens /\ (LoadEnds \/ HandlerDies({"load"}))
\* The window regains the focus: the first page is loaded, the page stays.
TokensFocus == DefaultTokens /\ AskOnly([start |-> 0])
ManageToken == DefaultTokens /\ Managed({"delete", "enable", "disable"})
SearchTokens == DefaultTokens /\ (Search("clear") \/ SearchEnds)
SortToken(key) == DefaultTokens /\ SortRows(key)
TokenHeader ==
  \E key \in {"name", "status", "used_quota", "remain_quota", "created_time",
              "expired_time"} : SortToken(key)
TokenRow == DefaultTokens /\ \E i \in Shown : AskRow("delete", i) \/ AskToggle(i)
TokenFooter == DefaultTokens /\ ((ChooseQuery /\ UNCHANGED loading) \/ AwaitTurn \/ Refresh)

TokensTable ==
  \/ LoadTokens \/ TokensFocus \/ ManageToken \/ SearchTokens \/ TokenHeader
  \/ TokenRow \/ TokenFooter

(***************************************************************************)
(* UsersTable: promote and demote write the role; the status comes along.  *)
(***************************************************************************)
DefaultUsers == table = "default/users"

LoadUsers == DefaultUsers /\ (LoadEnds \/ HandlerDies({"load"}))
ManageUser == DefaultUsers /\ Managed({"delete", "enable", "disable", "touch"})
SearchUsers == DefaultUsers /\ (Search("clear") \/ SearchEnds)
SortUser(key) == DefaultUsers /\ SortRows(key)
UserHeader ==
  \E key \in {"id", "username", "group", "quota", "role", "status"} : SortUser(key)
UserRow ==
  /\ DefaultUsers
  /\ \E i \in Shown : AskRow("touch", i) \/ AskRow("delete", i) \/ AskToggle(i)
UserFooter == DefaultUsers /\ ((ChooseQuery /\ UNCHANGED loading) \/ AwaitTurn)

UsersTable ==
  \/ LoadUsers \/ ManageUser \/ SearchUsers \/ UserHeader \/ UserRow \/ UserFooter

(***************************************************************************)
(* LogsTable                                                               *)
(***************************************************************************)
DefaultLogs == table = "default/logs"

LoadLogs == DefaultLogs /\ (LoadEnds \/ HandlerDies({"load"}))
\* refresh makes the first page active before it loads it
RefreshLogs ==
  /\ DefaultLogs
  /\ Ask([start |-> 0])
  /\ loading' = TRUE
  /\ page' = 1
  /\ UNCHANGED <<heap, arrays, cur, size, total, query, switch>>
FilterLogs == DefaultLogs /\ (TypeFilter \/ RefreshLogs)
SortLog(key) == DefaultLogs /\ SortRows(key)
LogHeader ==
  \E key \in {"created_time", "channel", "type", "model_name", "username", "token_name",
              "prompt_tokens", "completion_tokens", "cached_tokens", "quota"} : SortLog(key)
LogFooter == DefaultLogs /\ ((ChooseQuery /\ loading' = TRUE) \/ RefreshLogs \/ AwaitTurn)

LogsTable == LoadLogs \/ FilterLogs \/ LogHeader \/ LogFooter

DefaultStep == ChannelsTable \/ TokensTable \/ UsersTable \/ LogsTable
=============================================================================
