----------------------------- MODULE TablesBerry -----------------------------
(***************************************************************************)
(* The tables of web/berry/src/views: channels, tokens, users and logs.    *)
(* The page holds the array, a row component holds the status its switch   *)
(* shows and changes it after its own request succeeded.  (The code counts *)
(* pages from 0.)                                                          *)
(***************************************************************************)
EXTENDS WebTable

\* setSearching(true) before each request that fills the table
BerryAskLoad(fields) ==
  /\ Ask(fields)
  /\ loading' = TRUE
  /\ UNCHANGED <<heap, arrays, cur, page, size, total, query, switch>>
\* The switch of a row forgets a change when the page is turned and turned back:
\* the row is mounted again with the status that was loaded.
Forgets == \E i \in Shown' : /\ IdOf(List[i]) \notin DOMAIN switch
                            /\ heap[List[i][1]].status[IdOf(List[i])] # status[IdOf(List[i])]
BerryTurn ==
  \E p \in 1 .. Pages :
    /\ p # page
    /\ IF IsNextPage(p) THEN BerryAskLoad([start |-> p - 1, goto |-> p])
       ELSE /\ page' = p
            /\ UNCHANGED <<heap, arrays, cur, size, total, query, loading>>
            /\ KeepSwitches
            /\ calm' = (calm /\ net = {} /\ ~Forgets)
            /\ UNCHANGED <<table, server, wire, faults, had>>
BerrySearch == BerryAskLoad([do |-> "search"]) \/ BerryAskLoad([goto |-> 1])
BerryLoadEnds ==
  \/ \E r \in Answers({"load"}) : r.then # "switch" /\ (LoadRefused(r) \/ (LoadArrives(r) /\ UNCHANGED total))
  \/ HandlerDies({"load"})
BerrySearchEnds ==
  \/ \E r \in Answers({"search"}) :
       \/ SearchArrives(r) /\ UNCHANGED total
       \/ /\ r.ans.ok = "refused"
          /\ loading' = FALSE
          /\ UNCHANGED <<heap, arrays, cur, page, size, total, query, switch>>
          /\ Done(r)
  \/ HandlerDies({"search"})

(***************************************************************************)
(* Rows                                                                    *)
(***************************************************************************)
\* handleStatus asks for the opposite of what the switch shows.
Flip(i) ==
  LET id == IdOf(List[i])
      to == IF StatusShown(List[i]) = Enabled THEN Disabled ELSE Enabled
  IN  /\ Ask([do |-> IF to = Enabled THEN "enable" ELSE "disable", id |-> id, value |-> to])
      /\ switch' = [switch EXCEPT ![id].waits = @ \cup {issued + 1}]
      /\ UNCHANGED <<heap, arrays, cur, page, size, total, query, loading>>
\* setStatusSwitch of the row component that asked, if it is still there
Flipped(sw, r) ==
  IF r.id \in DOMAIN sw /\ r.n \in sw[r.id].waits
  THEN [sw EXCEPT ![r.id] = [value |-> r.value, waits |-> @.waits \ {r.n}]]
  ELSE sw
FlipEnds ==
  \/ \E r \in Fine({"enable", "disable"}) :
       /\ switch' = Flipped(switch, r)
       /\ UNCHANGED <<heap, arrays, cur, page, size, total, query, loading>>
       /\ Done(r)
  \/ Fails({"enable", "disable"})
\* A row is deleted, or the disabled ones are; then the table is loaded again.
ThenRefresh(dos) ==
  \/ \E r \in Fine(dos) :
       /\ ThenLoad(r, "none")
       /\ loading' = TRUE
       /\ UNCHANGED <<heap, arrays, cur, page, size, total, query, switch>>
  \/ Fails(dos)

(***************************************************************************)
(* Channel                                                                 *)
(***************************************************************************)
BerryChannels == table = "berry/channels"

BerryLoadChannels == BerryChannels /\ BerryLoadEnds
BerrySearchChannels == BerryChannels /\ (BerrySearch \/ BerrySearchEnds)
\* The caller of manageChannel goes on: only a deletion refreshes here; a new
\* priority stays in the row.
BerryManageChannel ==
  /\ BerryChannels
  /\ \/ ThenRefresh({"delete"})
     \/ FlipEnds
     \/ \E r \in Fine({"touch"}) : UNCHANGED screen /\ Done(r)
     \/ Fails({"touch"})
BerrySweep == BerryChannels /\ ThenRefresh({"sweep"})
BerryChannelBar ==
  BerryChannels /\ (BerryAskLoad([start |-> page - 1]) \/ AskOnly([do |-> "sweep"]) \/ BerryTurn)
BerryChannelRow ==
  BerryChannels /\ \E i \in Shown : Flip(i) \/ AskRow("touch", i) \/ AskRow("delete", i)

BerryChannelPage ==
  \/ BerryLoadChannels \/ BerrySearchChannels \/ BerryManageChannel \/ BerrySweep
  \/ BerryChannelBar \/ BerryChannelRow

(***************************************************************************)
(* Token                                                                   *)
(***************************************************************************)
BerryTokens == table = "berry/tokens"

BerryLoadTokens == BerryTokens /\ BerryLoadEnds
BerrySearchTokens == BerryTokens /\ (BerrySearch \/ BerrySearchEnds)
BerryManageToken == BerryTokens /\ (ThenRefresh({"delete"}) \/ FlipEnds)
BerryTokenBar == BerryTokens /\ (BerryAskLoad([start |-> page - 1]) \/ BerryTurn)
BerryTokenRow == BerryTokens /\ \E i \in Shown : Flip(i) \/ AskRow("delete", i)

BerryTokenPage ==
  \/ BerryLoadTokens \/ BerrySearchTokens \/ BerryManageToken \/ BerryTokenBar
  \/ BerryTokenRow

(***************************************************************************)
(* User: every success loads the active page before the row goes on.       *)
(***************************************************************************)
BerryUsers == table = "berry/users"

BerryLoadUsers == BerryUsers /\ BerryLoadEnds
BerrySearchUsers == BerryUsers /\ (BerrySearch \/ BerrySearchEnds)
BerryManageUser ==
  /\ BerryUsers
  /\ \/ \E r \in Fine({"delete", "enable", "disable", "touch"}) :
          /\ ThenLoad(r, IF r.do \in {"enable", "disable"} THEN "switch" ELSE "none")
          /\ loading' = TRUE
          /\ UNCHANGED <<heap, arrays, cur, page, size, total, query, switch>>
     \/ Fails({"delete", "enable", "disable", "touch"})
\* the load that follows, and setStatusSwitch after it
BerryUserStatus ==
  /\ BerryUsers
  /\ \E r \in Answers({"load"}) :
       /\ r.then = "switch"
       /\ \/ /\ r.ans.ok = "ok"
             /\ heap' = Append(heap, Objects(r))
             /\ SpliceRows(r)
          \/ r.ans.ok = "refused" /\ UNCHANGED <<heap, arrays, cur>>
       /\ loading' = FALSE
       /\ UNCHANGED <<page, size, total, query>>
       /\ switch' = Flipped(Remount, r)
       /\ Done(r)
BerryUserBar == BerryUsers /\ (BerryAskLoad([start |-> page - 1]) \/ BerryTurn)
BerryUserRow ==
  BerryUsers /\ \E i \in Shown : Flip(i) \/ AskRow("touch", i) \/ AskRow("delete", i)

BerryUserPage ==
  \/ BerryLoadUsers \/ BerrySearchUsers \/ BerryManageUser \/ BerryUserStatus
  \/ BerryUserBar \/ BerryUserRow

(***************************************************************************)
(* Log                                                                     *)
(***************************************************************************)
BerryLogs == table = "berry/logs"

BerryLoadLogs == BerryLogs /\ BerryLoadEnds
BerrySearchLogs == BerryLogs /\ (TypeFilter \/ BerryAskLoad([goto |-> 1]))
\* setInitPage(true) runs the effect with the filter that was typed, and its
\* setInitPage(false) runs it once more with the filter cleared.
BerryRefreshLogs ==
  /\ BerryLogs
  /\ CanAsk
  /\ net' = net \cup {Request([query |-> query], issued + 1), Request([query |-> ""], issued + 2)}
  /\ issued' = issued + 2
  /\ query' = ""
  /\ page' = 1
  /\ loading' = TRUE
  /\ calm' = (calm /\ net = {} /\ query = "")
  /\ UNCHANGED <<table, server, faults, had, heap, arrays, cur, size, total, switch>>
BerryLogBar == BerryLogs /\ BerryTurn

BerryLogPage == BerryLoadLogs \/ BerrySearchLogs \/ BerryRefreshLogs \/ BerryLogBar

BerryStep ==
  BerryChannelPage \/ BerryTokenPage \/ BerryUserPage \/ BerryLogPage
=============================================================================
