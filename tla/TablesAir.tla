------------------------------ MODULE TablesAir ------------------------------
(***************************************************************************)
(* The tables of web/air/src/components: channels, tokens, users and logs. *)
(* A button of a row hands its handler the row object itself; a deleted    *)
(* row is taken out of the captured array; the pager is told a number of   *)
(* rows, and turns the page before the load that fills it.                 *)
(***************************************************************************)
EXTENDS WebTable

(***************************************************************************)
(* What setChannelFormat, setTokensFormat, setCount and setLogsFormat tell *)
(* the pager of len rows, with the page size and the active page of the    *)
(* render that sent the request                                            *)
(***************************************************************************)
CountBySize(r, len) == IF len >= r.closure THEN len + r.closure ELSE len
CountByPage(r, len) == IF len >= r.page * PageSize THEN len + 1 ELSE len
CountLogs(len) == len + PageSize

AirCount(r, len) ==
  CASE table \in {"air/channels", "air/tokens"} -> CountBySize(r, len)
    [] table = "air/users" -> CountByPage(r, len)
    [] table = "air/logs" -> CountLogs(len)

AirLoadEnds ==
  \E r \in Answers({"load"}) :
    \/ LoadRefused(r)
    \/ LoadArrives(r) /\ total' = AirCount(r, Len(List'))

\* setActivePage comes first, the load is not awaited.
EagerTurn(q, spins) ==
  \E p \in 1 .. Pages :
    /\ p # page
    /\ page' = p
    /\ IF IsNextPage(p)
       THEN /\ Ask([start |-> p - 1, query |-> q])
            /\ loading' = (loading \/ spins)
       ELSE /\ NoRequest
            /\ UNCHANGED loading
    /\ UNCHANGED <<heap, arrays, cur, size, total, query, switch>>

\* loadX of channels, tokens and logs shows the spinner first.
AirAskLoad(fields) ==
  /\ Ask(fields)
  /\ loading' = TRUE
  /\ UNCHANGED <<heap, arrays, cur, page, size, total, query, switch>>

\* removeRecord follows the deletion however it was answered.
Without(rs, id) == LET k == CHOOSE j \in DOMAIN rs : IdOf(rs[j]) = id
                   IN  SubSeq(rs, 1, k - 1) \o SubSeq(rs, k + 1, Len(rs))
RemoveRecord(r) ==
  /\ r.do = "delete"
  /\ r.ans.ok # "lost"
  /\ NewArray(Without(arrays[r.cap].rows, r.id), arrays[r.cap].src)
  /\ UNCHANGED <<heap, page, size, query, switch>>
  /\ Done(r)
SetRecord(r) ==
  /\ r.do \in {"enable", "disable", "touch"}
  /\ r.ans.ok = "ok"
  /\ SetStatus(r.ref, r.ans.value)
  /\ CopyOf(r.cap)
  /\ UNCHANGED <<page, size, query, switch>>
  /\ Done(r)
Manages == {"delete", "enable", "disable", "touch"}
AirManaged ==
  \/ \E r \in Answers(Manages) :
       (RemoveRecord(r) \/ SetRecord(r)) /\ UNCHANGED <<total, loading>>
  \/ HandlerDies(Manages)
  \/ Complain(Manages \ {"delete"})

Measured(do) ==
  \/ \E r \in Fine({do}) :
       /\ heap' = IF do = "test" THEN [heap EXCEPT ![r.ref[1]].tested[r.ref[2]] = r.id]
                  ELSE [heap EXCEPT ![r.ref[1]].balance[r.ref[2]] = r.ans.value]
       /\ UNCHANGED <<arrays, cur, page, size, total, query, loading, switch>>
       /\ Done(r)
  \/ Fails({do})

AirSearchEnds ==
  \/ \E r \in Answers({"search"}) : SearchArrives(r) /\ UNCHANGED total
  \/ Fails({"search"})

(***************************************************************************)
(* ChannelsTable                                                           *)
(***************************************************************************)
AirChannels == table = "air/channels"

AirChannelRow ==
  /\ AirChannels
  /\ \E i \in Shown : \/ AskRow("balance", i) \/ AskRow("touch", i) \/ AskRow("test", i)
                      \/ AskRow("delete", i) \/ AskToggle(i)
AirLoadChannels == AirChannels /\ (AirLoadEnds \/ HandlerDies({"load"}))
AirManageChannel == AirChannels /\ AirManaged
AirSearchChannels ==
  /\ AirChannels
  /\ AskOnly([do |-> "search"]) \/ AirAskLoad([goto |-> 1]) \/ AirSearchEnds
AirTestChannel == AirChannels /\ Measured("test")
AirDeleteDisabled ==
  /\ AirChannels
  /\ \/ \E r \in Fine({"sweep"}) :
          /\ ThenLoad(r, "none")
          /\ loading' = TRUE
          /\ UNCHANGED <<heap, arrays, cur, page, size, total, query, switch>>
     \/ Fails({"sweep"})
AirUpdateBalance == AirChannels /\ Measured("balance")
\* The new size goes to the server, setChannelFormat still counts with the old.
AirChannelSizes ==
  /\ AirChannels
  /\ \E s \in {PageSize, OtherSize} \ {size} :
       /\ size' = s
       /\ page' = 1
       /\ loading' = TRUE
       /\ Ask([size |-> s])
       /\ UNCHANGED <<heap, arrays, cur, total, query, switch>>
AirChannelPage == AirChannels /\ EagerTurn(query, TRUE)
\* Refresh, also after the editor has saved; delete the disabled channels
AirChannelBar == AirChannels /\ (AirAskLoad([start |-> page - 1]) \/ AskOnly([do |-> "sweep"]))

AirChannelsTable ==
  \/ AirChannelRow \/ AirLoadChannels \/ AirManageChannel \/ AirSearchChannels
  \/ AirTestChannel \/ AirDeleteDisabled \/ AirUpdateBalance \/ AirChannelSizes
  \/ AirChannelPage \/ AirChannelBar

(***************************************************************************)
(* TokensTable: manageToken shows the spinner, and what it sets is counted.*)
(***************************************************************************)
AirTokens == table = "air/tokens"

AirTokenRow ==
  /\ AirTokens
  /\ loading' = TRUE
  /\ \E i \in Shown, do \in {"delete", "toggle"} :
       Ask([do |-> IF do = "delete" THEN "delete"
                   ELSE IF heap[List[i][1]].status[IdOf(List[i])] = Enabled
                        THEN "disable" ELSE "enable",
            id |-> IdOf(List[i]), ref |-> List[i]])
  /\ UNCHANGED <<heap, arrays, cur, page, size, total, query, switch>>
AirLoadTokens == AirTokens /\ (AirLoadEnds \/ HandlerDies({"load"}))
AirManageToken ==
  /\ AirTokens
  /\ \/ \E r \in Answers(Manages) :
          \/ /\ RemoveRecord(r) \/ SetRecord(r)
             /\ total' = CountBySize(r, Len(List'))
             /\ loading' = FALSE
          \/ /\ r.do # "delete" /\ r.ans.ok = "refused"
             /\ loading' = FALSE
             /\ UNCHANGED <<heap, arrays, cur, page, size, total, query, switch>>
             /\ Done(r)
     \/ HandlerDies(Manages)
AirSearchTokens ==
  /\ AirTokens
  /\ \/ AskOnly([do |-> "search"])
     \/ AirAskLoad([goto |-> 1, then |-> "clear"])
     \/ \E r \in Answers({"search"}) :
          SearchArrives(r) /\ total' = CountBySize(r, Len(List'))
     \/ Fails({"search"})
AirTokenPage == AirTokens /\ EagerTurn(query, TRUE)
\* The effect on pageSize and orderBy loads the first page in the next render.
AirTokenEffect ==
  /\ AirTokens
  /\ \/ ChooseQuery /\ loading' = TRUE
     \/ \E s \in {PageSize, OtherSize} \ {size} :
          /\ size' = s
          /\ page' = 1
          /\ loading' = TRUE
          /\ Ask([size |-> s, closure |-> s, page |-> 1])
          /\ UNCHANGED <<heap, arrays, cur, total, query, switch>>
\* refresh, which only the editor calls
AirTokenSaved == AirTokens /\ AirAskLoad([start |-> page - 1])

AirTokensTable ==
  \/ AirTokenRow \/ AirLoadTokens \/ AirManageToken \/ AirSearchTokens
  \/ AirTokenPage \/ AirTokenEffect \/ AirTokenSaved

(***************************************************************************)
(* UsersTable                                                              *)
(***************************************************************************)
AirUsers == table = "air/users"

AirUserRow ==
  /\ AirUsers
  /\ \E i \in Shown : AskRow("touch", i) \/ AskToggle(i) \/ AskRow("delete", i)
AirLoadUsers == AirUsers /\ (AirLoadEnds \/ HandlerDies({"load"}))
AirManageUser == AirUsers /\ AirManaged
AirSearchUsers == AirUsers /\ (Search("clear") \/ AirSearchEnds)
AirUserPage == AirUsers /\ EagerTurn(query, FALSE)
\* refresh, which the editors call: loads the active page, or searches again
AirUserSaved == AirUsers /\ (AskOnly([start |-> page - 1]) \/ AskOnly([do |-> "search"]))
AirUserOrder == AirUsers /\ ChooseQuery /\ UNCHANGED loading

AirUsersTable ==
  \/ AirUserRow \/ AirLoadUsers \/ AirManageUser \/ AirSearchUsers \/ AirUserPage
  \/ AirUserSaved \/ AirUserOrder

(***************************************************************************)
(* LogsTable: only the selection of a type passes the type on; a turn of   *)
(* the page, another size, and the query button load entries of all types. *)
(* (The text filters are left out here.)                                   *)
(***************************************************************************)
AirLogs == table = "air/logs"

AirLoadLogs == AirLogs /\ (AirLoadEnds \/ HandlerDies({"load"}))
AirLogPage == AirLogs /\ EagerTurn("", TRUE)
AirLogSizes ==
  /\ AirLogs
  /\ \E s \in {PageSize, OtherSize} \ {size} :
       /\ size' = s
       /\ page' = 1
       /\ loading' = TRUE
       /\ Ask([size |-> s, query |-> ""])
       /\ UNCHANGED <<heap, arrays, cur, total, query, switch>>
AirLogQuery ==
  /\ AirLogs
  /\ page' = 1
  /\ loading' = TRUE
  /\ Ask([query |-> ""])
  /\ UNCHANGED <<heap, arrays, cur, size, total, query, switch>>
AirLogType == AirLogs /\ ChooseQuery /\ loading' = TRUE

AirLogsTable ==
  AirLoadLogs \/ AirLogPage \/ AirLogSizes \/ AirLogQuery \/ AirLogType

AirStep ==
  AirChannelsTable \/ AirTokensTable \/ AirUsersTable \/ AirLogsTable
=============================================================================
