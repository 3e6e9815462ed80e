------------------------------ MODULE WebTable ------------------------------
(***************************************************************************)
(* What the paged tables of the three front ends (web/default, web/air,    *)
(* web/berry) have in common: one table open in one browser tab, and the   *)
(* rows it shows, which live in the server.                                *)
(*                                                                         *)
(* A handler runs until its first `await', where its request goes out; it  *)
(* continues when the answer arrives, with the variables it captured when  *)
(* the button was clicked: the array of rows, the active page, the query.  *)
(* A row is a JavaScript object that several arrays share, so it is a      *)
(* reference: <<g, id>> is the object made for record id by the g-th       *)
(* answer.  Arrays are numbered too, because some handlers write into the  *)
(* array they captured.                                                    *)
(***************************************************************************)
EXTENDS Integers, Sequences, FiniteSets, SequencesExt, TLC

CONSTANTS
  Tables,          \* the components that may be open, "<theme>/<table>"
  PageSize,        \* ITEMS_PER_PAGE of the clients, ItemsPerPage of the server
  OtherSize,       \* another page size that the air theme offers, no smaller one
  FirstRows,       \* ids of the records at the start, newest first
  NewRow,          \* id of the record that somebody else may add
  Touched,         \* ids of the records that somebody else deletes or changes
  Found,           \* ids of the records that the keyword finds
  Typed,           \* ids of the log entries of the chosen type
  MaxRequests,     \* requests up to which the user clicks
  MaxArrays,       \* arrays of rows up to which the user sorts
  MaxOutstanding,  \* requests under way up to which the user clicks
  MaxFaults        \* refused or lost answers, changes by others

ASSUME TableAssumption ==
  /\ PageSize \in Nat \ {0}
  /\ OtherSize \in Nat /\ OtherSize >= PageSize
  /\ FirstRows \in Seq(Nat)
  /\ \A i, j \in DOMAIN FirstRows : FirstRows[i] = FirstRows[j] => i = j
  /\ NewRow \in Nat \ Range(FirstRows)
  /\ MaxRequests \in Nat
  /\ MaxArrays \in Nat
  /\ MaxOutstanding \in Nat
  /\ MaxFaults \in Nat

VARIABLES
  table,           \* the component that is open
  rows,            \* the server's records, newest first
  status,          \* their status
  epoch,           \* how often records came or went
  heap,            \* the row objects that each answer made
  arrays,          \* the arrays of rows made so far
  cur,             \* the array in the component's state
  page,            \* the active page, counted from 1
  size,            \* page size of the component
  total,           \* number of rows the pager is told (air)
  query,           \* order or type the user has chosen
  loading,         \* the flag that shows a spinner
  switch,          \* a berry row's own copy of the status
  net,             \* requests under way
  issued,          \* number of requests so far
  faults,          \* refused or lost answers and changes by others so far
  calm,            \* history: see Disturbs
  had              \* history: statuses each record has had

server == <<rows, status, epoch>>
screen == <<heap, arrays, cur, page, size, total, query, loading, switch>>
wire == <<net, issued>>
history == <<calm, had>>
vars == <<table, server, screen, wire, faults, history>>

Ids == Range(FirstRows) \cup {NewRow}
Enabled == 1
Disabled == 2
Unknown == 0
Statuses == {Enabled, Disabled}
None == [ok |-> "none"]

(***************************************************************************)
(* Kinds of tables                                                         *)
(***************************************************************************)
Channels == {"default/channels", "air/channels", "berry/channels"}
Users == {"default/users", "air/users", "berry/users"}
Logs == {"default/logs", "air/logs", "berry/logs"}
Air == {"air/channels", "air/tokens", "air/users", "air/logs"}
Berry == {"berry/channels", "berry/tokens", "berry/users", "berry/logs"}
\* tables whose later pages are pushed onto the array they captured
Pushing == {"default/users", "air/users"}

(***************************************************************************)
(* The rows on the screen                                                  *)
(***************************************************************************)
IdOf(ref) == ref[2]
Least(m, n) == IF m < n THEN m ELSE n
List == arrays[cur].rows
Positions == {i \in DOMAIN List : (i - 1) \div size = page - 1}
Shown == {i \in Positions : IdOf(List[i]) \notin heap[List[i][1]].deleted}
StatusShown(ref) ==
  IF table \in Berry /\ IdOf(ref) \in DOMAIN switch THEN switch[IdOf(ref)].value
  ELSE heap[ref[1]].status[IdOf(ref)]

\* Pages that the pager offers: (len / N, rounded up) plus one if the last page
\* is full; air tells it a number of rows instead.
Pages == IF table \in Air THEN (total + size - 1) \div size
         ELSE Len(List) \div PageSize + 1
IsNextPage(p) == p = (Len(List) + size - 1) \div size + 1

\* Slip: what the new rows replace stays.
SpliceKeeps(s, k, n, t) ==
  SubSeq(s, 1, Least(k, Len(s))) \o t \o SubSeq(s, k + 1, Len(s))
\* Array.prototype.splice(k, n, ...t): a start beyond the end means the end
Splice(s, k, n, t) ==
  SubSeq(s, 1, Least(k, Len(s))) \o t \o SubSeq(s, k + n + 1, Len(s))

\* useState(item.status) of a berry row is evaluated when the row appears; the
\* row then keeps its switch, and knows the requests it waits for, until it goes.
Remount ==
  [id \in {IdOf(List[i]) : i \in Shown}' |->
     IF id \in DOMAIN switch THEN switch[id]
     ELSE LET i == CHOOSE j \in Shown' : IdOf(List'[j]) = id
          IN  [value |-> heap'[List'[i][1]].status[id], waits |-> {}]]
KeepSwitches == switch' = IF table \in Berry THEN Remount ELSE switch

(***************************************************************************)
(* Sending                                                                 *)
(***************************************************************************)
\* What a click does not set, and the variables that the handler captures.
Request(fields, n) ==
  LET Field(x, usual) == IF x \in DOMAIN fields THEN fields[x] ELSE usual
  IN  [n |-> n, do |-> Field("do", "load"), id |-> Field("id", 0), idx |-> Field("idx", 0),
       start |-> Field("start", 0), goto |-> Field("goto", 0), then |-> Field("then", "none"),
       cap |-> Field("cap", cur), page |-> Field("page", page), size |-> Field("size", size),
       closure |-> Field("closure", size), query |-> Field("query", query),
       ref |-> Field("ref", <<0, 0>>), value |-> Field("value", 0), ans |-> None]

CanAsk == issued < MaxRequests /\ Cardinality(net) < MaxOutstanding

\* A click that sends one request and waits for it.
Ask(fields) ==
  /\ CanAsk
  /\ net' = net \cup {Request(fields, issued + 1)}
  /\ issued' = issued + 1
  /\ calm' = (calm /\ net = {})
  /\ UNCHANGED <<table, server, faults, had>>

\* A click that sends nothing.
NoRequest ==
  /\ calm' = (calm /\ net = {})
  /\ UNCHANGED <<table, server, wire, faults, had>>

AskOnly(fields) == Ask(fields) /\ UNCHANGED screen

\* An operation on the row at position i of the present array: the handler is
\* given the row object and its index on the page.
AskRow(do, i) ==
  AskOnly([do |-> do, id |-> IdOf(List[i]), ref |-> List[i], idx |-> i - (page - 1) * size])
AskToggle(i) ==
  AskRow(IF heap[List[i][1]].status[IdOf(List[i])] = Enabled THEN "disable" ELSE "enable", i)

(***************************************************************************)
(* The server                                                              *)
(***************************************************************************)
Exists(id) == id \in Range(rows)
\* the members of s that lie in S, in the order of s
Keep(s, S) ==
  LET kept == {i \in DOMAIN s : s[i] \in S}
  IN  [k \in 1 .. Cardinality(kept) |->
         s[CHOOSE i \in kept : Cardinality({j \in kept : j <= i}) = k]]

\* the records in the order, or of the type, that a list request names
Ordered(q) == IF q = "" THEN rows
              ELSE IF table \in Logs THEN Keep(rows, Typed)
              ELSE Reverse(rows)

\* The server's limit is its own ItemsPerPage, whatever page size a client names.
PageOf(s, start) == SubSeq(s, start * PageSize + 1, Least((start + 1) * PageSize, Len(s)))
Sweep == Keep(rows, {id \in Ids : status[id] = Enabled})

Answered(r, ans) == net' = (net \ {r}) \cup {[r EXCEPT !.ans = ans]}
Ok(ids, s) == [ok |-> "ok", rows |-> ids, status |-> status, epoch |-> epoch, value |-> s]

ServeList(r) ==
  /\ r.do \in {"load", "search"}
  /\ Answered(r, Ok(IF r.do = "load" THEN PageOf(Ordered(r.query), r.start)
                    ELSE Keep(rows, Found), 0))
  /\ UNCHANGED <<server, had>>

ServeDelete(r) ==
  /\ r.do = "delete"
  /\ Exists(r.id)
  /\ Answered(r, Ok(<<>>, 0))
  /\ rows' = Keep(rows, Ids \ {r.id})
  /\ epoch' = epoch + 1
  /\ UNCHANGED <<status, had>>

\* Enable, disable, or a write of another column (priority, role): the answer
\* carries the record's status.
ServeUpdate(r) ==
  /\ r.do \in {"enable", "disable", "touch"}
  /\ Exists(r.id)
  /\ LET s == CASE r.do = "enable" -> Enabled
                [] r.do = "disable" -> Disabled
                [] r.do = "touch" -> status[r.id]
     IN  /\ Answered(r, Ok(<<>>, s))
         /\ status' = [status EXCEPT ![r.id] = s]
         /\ had' = [had EXCEPT ![r.id] = @ \cup {s}]
  /\ UNCHANGED <<rows, epoch>>

\* A record that is gone: channels are deleted and updated by id without a
\* look, everything else is looked up first.
ServeAbsent(r) ==
  /\ r.do \in {"delete", "enable", "disable", "touch"}
  /\ ~Exists(r.id)
  /\ Answered(r, IF table \in Channels
                 THEN Ok(<<>>, CASE r.do = "enable" -> Enabled
                                     [] r.do = "disable" -> Disabled
                                     [] OTHER -> Unknown)
                 ELSE [ok |-> "refused"])
  /\ UNCHANGED <<server, had>>

ServeSweep(r) ==
  /\ r.do = "sweep"
  /\ Answered(r, Ok(<<>>, 0))
  /\ rows' = Sweep
  /\ epoch' = epoch + (IF Sweep = rows THEN 0 ELSE 1)
  /\ UNCHANGED <<status, had>>

ServeMeasure(r) ==
  /\ r.do \in {"test", "balance"}
  /\ Answered(r, Ok(<<>>, r.id))
  /\ UNCHANGED <<server, had>>

Serve ==
  \E r \in net :
    /\ r.ans = None
    /\ \/ ServeList(r) \/ ServeDelete(r) \/ ServeUpdate(r)
       \/ ServeAbsent(r) \/ ServeSweep(r) \/ ServeMeasure(r)
    /\ UNCHANGED <<table, screen, issued, faults, calm>>

\* The server answers success = false, or no answer comes at all.
Refuse ==
  \E r \in net, a \in {"refused", "lost"} :
    /\ r.ans = None
    /\ faults < MaxFaults
    /\ faults' = faults + 1
    /\ Answered(r, [ok |-> a])
    /\ calm' = FALSE
    /\ UNCHANGED <<table, server, screen, issued, had>>

\* Another administrator, or the relay, adds or deletes a record or changes
\* its status.  (While a request is under way: between two requests it would
\* be the same to the screen as right after the second went out.)
Others ==
  /\ net # {}
  /\ faults < MaxFaults
  /\ faults' = faults + 1
  /\ calm' = FALSE
  /\ \/ /\ had[NewRow] = {}
        /\ rows' = <<NewRow>> \o rows
        /\ epoch' = epoch + 1
        /\ had' = [had EXCEPT ![NewRow] = {Enabled}]
        /\ UNCHANGED status
     \/ \E id \in Range(rows) \cap Touched :
          /\ rows' = Keep(rows, Ids \ {id})
          /\ epoch' = epoch + 1
          /\ UNCHANGED <<status, had>>
     \/ /\ table \notin Logs
        /\ \E id \in Range(rows) \cap Touched, s \in Statuses :
             /\ s # status[id]
             /\ status' = [status EXCEPT ![id] = s]
             /\ had' = [had EXCEPT ![id] = @ \cup {s}]
             /\ UNCHANGED <<rows, epoch>>
  /\ UNCHANGED <<table, screen, wire>>

(***************************************************************************)
(* Continuations: what a handler does when its answer is there             *)
(***************************************************************************)
Answers(dos) == {r \in net : r.do \in dos /\ r.ans # None}
Fine(dos) == {r \in Answers(dos) : r.ans.ok = "ok"}

\* the row objects made of an answer, and references to them
Objects(r) ==
  [query |-> r.query, epoch |-> r.ans.epoch, start |-> r.start,
   sized |-> r.closure = PageSize /\ r.page <= r.start + 1,
   status |-> [id \in Range(r.ans.rows) |-> r.ans.status[id]],
   deleted |-> {},
   tested |-> [id \in Range(r.ans.rows) |-> id],
   balance |-> [id \in Range(r.ans.rows) |-> id]]
Refs(r) == [k \in 1 .. Len(r.ans.rows) |-> <<Len(heap) + 1, r.ans.rows[k]>>]

NewArray(rs, src) ==
  /\ arrays' = Append(arrays, [rows |-> rs, src |-> src])
  /\ cur' = Len(arrays) + 1
CopyOf(k) == NewArray(arrays[k].rows, arrays[k].src)
SetStatus(ref, s) == heap' = [heap EXCEPT ![ref[1]].status[ref[2]] = s]

\* The present array after a page arrived: the first page replaces it, a later
\* one is spliced into a copy of the captured array ...
SpliceRows(r) ==
  IF r.start = 0 THEN NewArray(Refs(r), "paged")
  ELSE NewArray(Splice(arrays[r.cap].rows, r.start * r.size, Len(r.ans.rows), Refs(r)),
                arrays[r.cap].src)
\* ... or pushed onto the captured array itself.
PushRows(r) ==
  IF r.start = 0 THEN NewArray(Refs(r), "paged")
  ELSE /\ arrays' = [arrays EXCEPT ![r.cap].rows = @ \o Refs(r)]
       /\ cur' = r.cap

\* Four things disturb what is on the screen beside two requests at a time, lost
\* answers and other people: a later page that came back shorter than the rows
\* it stands for, one that brings a record which an earlier page shows already
\* (the next page behind search results or sorted rows), a page pushed behind
\* rows that it should replace, and a sweep of the disabled channels while more
\* than one page is loaded or the first is not the active one.
Disturbs(r) ==
  LET have == Len(arrays[r.cap].rows)
  IN  /\ r.ans.ok = "ok"
      /\ \/ r.do = "load" /\ r.start > 0
            /\ \/ Len(r.ans.rows) < have - r.start * r.size
               \/ \E i \in 1 .. Least(have, r.start * r.size) :
                    IdOf(arrays[r.cap].rows[i]) \in Range(r.ans.rows)
               \/ table \in Pushing /\ have > r.start * r.size
         \/ r.do = "sweep" /\ (have > PageSize \/ r.page > 1)

Done(r) == /\ net' = net \ {r}
           /\ calm' = (calm /\ ~Disturbs(r))
           /\ UNCHANGED <<table, server, issued, faults, had>>
\* The handler goes on to send another request.
Next2(r, fields) ==
  /\ net' = (net \ {r}) \cup {Request(fields, r.n)}
  /\ issued' = issued + 1
  /\ calm' = (calm /\ ~Disturbs(r))
  /\ UNCHANGED <<table, server, faults, had>>
\* refresh, with what the first request captured; a user's switch is set after it
ThenLoad(r, then) ==
  Next2(r, [start |-> r.page - 1, id |-> r.id, value |-> r.value, then |-> then, cap |-> r.cap,
            page |-> r.page, size |-> r.size, closure |-> r.closure, query |-> r.query])

(***************************************************************************)
(* Answers to a load, a search, and the two ways to fail                   *)
(***************************************************************************)
\* setActivePage and, after an empty search, setOrderBy(''), whose effect loads
\* the first page again
AfterLoad(r) ==
  /\ page' = IF r.goto > 0 THEN r.goto ELSE page
  /\ query' = IF r.then = "clear" THEN "" ELSE query
  /\ IF r.then = "clear" /\ query # ""
     THEN Next2(r, [query |-> "", page |-> 1, cap |-> cur'])
     ELSE Done(r)
  /\ KeepSwitches

\* success = false: an error is shown and the load returns normally.
LoadRefused(r) ==
  /\ r.ans.ok = "refused"
  /\ loading' = FALSE
  /\ UNCHANGED <<heap, arrays, cur, size, total>>
  /\ AfterLoad(r)
\* Slip: the spinner stays.
LoadArrivesSpinning(r) ==
  /\ r.ans.ok = "ok"
  /\ heap' = Append(heap, Objects(r))
  /\ IF table \in Pushing THEN PushRows(r) ELSE SpliceRows(r)
  /\ UNCHANGED <<loading, size>>
  /\ AfterLoad(r)
LoadArrives(r) ==
  /\ r.ans.ok = "ok"
  /\ heap' = Append(heap, Objects(r))
  /\ IF table \in Pushing THEN PushRows(r) ELSE SpliceRows(r)
  /\ loading' = FALSE
  /\ UNCHANGED size
  /\ AfterLoad(r)
LoadEnds ==
  \E r \in Answers({"load"}) :
     \/ LoadRefused(r)
     \/ LoadArrives(r) /\ UNCHANGED total

SearchArrives(r) ==
  /\ r.ans.ok = "ok"
  /\ heap' = Append(heap, Objects(r))
  /\ NewArray(Refs(r), "found")
  /\ page' = 1
  /\ loading' = IF table \in Berry THEN FALSE ELSE loading
  /\ UNCHANGED <<size, query>>
  /\ KeepSwitches
  /\ Done(r)

\* No answer: the interceptor swallowed the error, res is undefined and the
\* handler dies at res.data, before it takes the spinner away.
HandlerDies(dos) ==
  \E r \in Answers(dos) :
    /\ r.ans.ok = "lost"
    /\ UNCHANGED screen
    /\ Done(r)
Complain(dos) ==
  \E r \in Answers(dos) :
    /\ r.ans.ok = "refused"
    /\ UNCHANGED screen
    /\ Done(r)
Fails(dos) == HandlerDies(dos) \/ Complain(dos)

(***************************************************************************)
(* Clicks that are alike everywhere                                        *)
(***************************************************************************)
\* The next page is awaited before it becomes the active one.
AwaitTurn ==
  \E p \in 1 .. Pages :
    /\ p # page
    /\ IF IsNextPage(p) THEN AskOnly([start |-> p - 1, goto |-> p])
       ELSE /\ page' = p
            /\ NoRequest
            /\ UNCHANGED <<heap, arrays, cur, size, total, query, loading>>
            /\ KeepSwitches

\* A keyword, or none: then the first page is loaded instead.
Search(then) == AskOnly([do |-> "search"]) \/ AskOnly([goto |-> 1, then |-> then])

\* Sorting what is loaded by a column; the same order twice reverses it.  Names
\* and other columns stand in the opposite order of the ids.
SortKey(key, ref) ==
  CASE key = "id" -> IdOf(ref)
    [] key = "status" -> heap[ref[1]].status[IdOf(ref)]
    [] OTHER -> -IdOf(ref)
Before(key, i, j) == \/ SortKey(key, List[i]) < SortKey(key, List[j])
                     \/ SortKey(key, List[i]) = SortKey(key, List[j]) /\ i < j
SortRows(key) ==
  /\ List # <<>>
  /\ Len(arrays) < MaxArrays
  /\ \E p \in [DOMAIN List -> DOMAIN List] :
       /\ \A i, j \in DOMAIN List : i < j => Before(key, p[i], p[j])
       /\ LET sorted == [i \in DOMAIN List |-> List[p[i]]]
          IN  NewArray(IF IdOf(sorted[1]) = IdOf(List[1]) THEN Reverse(sorted) ELSE sorted,
                       "sorted")
  /\ loading' = FALSE
  /\ NoRequest
  /\ UNCHANGED <<heap, page, size, total, query, switch>>

\* A change of the order: the effect loads the first page again.
ChooseQuery ==
  \E q \in {"", "other"} :
    /\ q # query
    /\ query' = q
    /\ page' = 1
    /\ Ask([query |-> q, page |-> 1])
    /\ UNCHANGED <<heap, arrays, cur, size, total>>
    /\ KeepSwitches

\* A filter that is typed counts at the next load, whichever that is.
TypeFilter ==
  /\ query' = IF query = "" THEN "other" ELSE ""
  /\ calm' = FALSE
  /\ UNCHANGED <<table, server, wire, faults, had>>
  /\ UNCHANGED <<heap, arrays, cur, page, size, total, loading, switch>>

Init ==
  /\ table \in Tables
  /\ rows = FirstRows
  /\ status = [id \in Ids |-> Enabled]
  /\ epoch = 0
  /\ heap = <<>>
  /\ arrays = <<[rows |-> <<>>, src |-> "paged"]>>
  /\ cur = 1
  /\ page = 1
  /\ size \in IF table \in {"air/channels", "air/logs"} THEN {PageSize, OtherSize} ELSE {PageSize}
  /\ total = PageSize
  /\ query = ""
  /\ loading = TRUE
  /\ switch = <<>>
  /\ issued = IF table = "berry/logs" THEN 2 ELSE 1
  /\ net = {Request([closure |-> PageSize], n) : n \in 1 .. issued}
  /\ faults = 0
  /\ calm = TRUE
  /\ had = [id \in Ids |-> IF id = NewRow THEN {} ELSE {Enabled}]
=============================================================================
