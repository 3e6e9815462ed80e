------------------------------ MODULE WebTables ------------------------------
(***************************************************************************)
(* One of the tables of the three themes open in a browser, the server     *)
(* behind it, and everybody else who changes the server's records.         *)
(***************************************************************************)
EXTENDS TablesDefault, TablesAir, TablesBerry

Next == DefaultStep \/ AirStep \/ BerryStep \/ Serve \/ Refuse \/ Others

\* An answered request is continued by the browser's event loop; a request is
\* answered, or its loss is noticed.
Continue == /\ \E r \in net : r.ans # None
            /\ DefaultStep \/ AirStep \/ BerryStep
            /\ \E r \in net : r.ans # None /\ r \notin net'
Spec == Init /\ [][Next]_vars /\ WF_vars(Serve \/ Refuse \/ Continue)

(***************************************************************************)
(* Properties                                                              *)
(***************************************************************************)
RowObjects == UNION {{<<g, id>> : id \in DOMAIN heap[g].status} : g \in DOMAIN heap}
Calm == calm /\ net = {}
\* an array that was filled page by page, no page left out (a page that is put
\* behind an array which has shrunk, because its rows were removed or its first
\* page was loaded again, stands where another one belongs)
Paged ==
  /\ arrays[cur].src = "paged"
  /\ \A i \in DOMAIN List : LET start == heap[List[i][1]].start
                            IN  start > 0 => \E j \in DOMAIN List : heap[List[j][1]].start = start - 1
\* The result of an operation lands on the row of its record, whatever was
\* loaded, sorted or turned while it was under way: a row object only ever
\* carries statuses that its record has had, tests and balances of its record
\* (the default theme's balances always land on the first row), and is hidden
\* as deleted only when the record is gone from the server.
OutcomeOnItsRow ==
  /\ \A ref \in RowObjects :
       LET object == heap[ref[1]]
           id == ref[2]
       IN  /\ Exists(id) => object.status[id] \in had[id]
           /\ object.tested[id] = id
           /\ table # "default/channels" => object.balance[id] = id
  /\ \A g \in DOMAIN heap : \A id \in heap[g].deleted : ~Exists(id)

\* For a user who waits for each answer, alone, without failures and without
\* the weak spots that Disturbs and Forgets name, the page shows nothing but
\* records that exist, with the status they have.
CalmScreen ==
  Calm => \A i \in Shown :
    LET id == IdOf(List[i])
    IN  Exists(id) /\ StatusShown(List[i]) = status[id]

\* ... and as long as no record came or went, the pages that were loaded in one
\* order are the server's list from its beginning, no row twice and none left
\* out; they are in the order, or of the type, that the user has chosen; and the
\* pager offers a page whose load brings the next rows as long as the server has
\* more.  (Air turns the pages of a log, changes its size and queries it without
\* the type; its pager counts with the size that the rows were asked for, and
\* offers the rest while this is the server's.)
InPlace == \A i \in DOMAIN List : heap[List[i][1]].epoch = epoch
OneQuery == \A i, j \in DOMAIN List : heap[List[i][1]].query = heap[List[j][1]].query
PagesInOrder ==
  (Calm /\ Paged) =>
    /\ (InPlace /\ OneQuery) =>
         \E q \in {"", "other"} : IsPrefix([i \in DOMAIN List |-> IdOf(List[i])], Ordered(q))
    /\ table # "air/logs" => \A i \in DOMAIN List : heap[List[i][1]].query = query
    /\ (/\ table # "air/logs" /\ List # <<>> /\ size = PageSize /\ InPlace
        /\ \A i \in DOMAIN List : heap[List[i][1]].sized
        /\ Len(Ordered(query)) > Len(List))
         => \E p \in 1 .. Pages : IsNextPage(p) /\ (p - 1) * PageSize = Len(List)

\* The spinner goes away unless an answer was lost.
LoadingEnds == loading ~> (~loading \/ faults > 0)
=============================================================================
