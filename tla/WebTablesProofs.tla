--------------------------- MODULE WebTablesProofs ---------------------------
EXTENDS WebTables, FiniteSetTheorems, WellFoundedInduction, TLAPS

(***************************************************************************)
(* The inductive invariant                                                 *)
(***************************************************************************)
Queries == {"", "other"}
Values == {Unknown, Enabled, Disabled}
RowOps == {"delete", "enable", "disable", "touch", "test", "balance"}
Writes == {"enable", "disable", "touch"}
Dos == RowOps \cup {"load", "search", "sweep"}
Positive == Nat \ {0}

ObjectSet ==
  [query : Queries, epoch : Nat, start : Nat, sized : BOOLEAN,
   status : UNION {[S -> Values] : S \in SUBSET Ids}, deleted : SUBSET Ids,
   tested : UNION {[S -> Ids] : S \in SUBSET Ids},
   balance : UNION {[S -> Ids] : S \in SUBSET Ids}]
Failures == {[ok |-> "refused"], [ok |-> "lost"]}
Contents == [ok : {"ok"}, rows : Seq(Ids), status : [Ids -> Statuses], epoch : Nat,
             value : Values \cup Ids]
RequestSet ==
  [n : Nat, do : Dos, id : Ids \cup {0}, idx : Int, start : Nat, goto : Nat,
   then : {"none", "clear", "switch"}, cap : Nat, page : Positive, size : Positive,
   closure : Positive, query : Queries, ref : Nat \X (Ids \cup {0}), value : Values,
   ans : {None} \cup Failures \cup Contents]
ArraySet == [rows : Seq(Nat \X Ids), src : {"paged", "found", "sorted"}]

\* the server: a record that has had no status was never there
Known(id) == had[id] # {}
ServerInv ==
  /\ rows \in Seq(Ids)
  /\ status \in [Ids -> Statuses]
  /\ had \in [Ids -> SUBSET Statuses]
  /\ epoch \in Nat
  /\ \A id \in Ids : IF Known(id) THEN status[id] \in had[id]
                     ELSE ~Exists(id) /\ status[id] = Enabled

\* the row objects, the property among the rest
ObjectInv(o) ==
  /\ DOMAIN o.tested = DOMAIN o.status
  /\ DOMAIN o.balance = DOMAIN o.status
  /\ \A id \in DOMAIN o.status :
       /\ Known(id)
       /\ Exists(id) => o.status[id] \in had[id]
       /\ o.tested[id] = id
       /\ table # "default/channels" => o.balance[id] = id
  /\ \A id \in o.deleted : Known(id) /\ ~Exists(id)
HeapInv == heap \in Seq(ObjectSet) /\ \A g \in DOMAIN heap : ObjectInv(heap[g])

RefOK(ref) == ref[1] \in DOMAIN heap /\ ref[2] \in DOMAIN heap[ref[1]].status
ArraysInv ==
  /\ arrays \in Seq(ArraySet)
  /\ cur \in DOMAIN arrays
  /\ \A k \in DOMAIN arrays : \A j \in DOMAIN arrays[k].rows : RefOK(arrays[k].rows[j])

\* The row that a request is about, and where its handler looks for it: the
\* default theme at an index, air anywhere; the arrays that handlers captured
\* only grow.
Names(r) == r.do \in RowOps /\ table \notin Berry /\ ~(table = "default/channels" /\ r.do = "balance")
TargetInv(r) ==
  /\ RefOK(r.ref)
  /\ r.ref[2] = r.id
  /\ IF table \in Air THEN \E j \in DOMAIN arrays[r.cap].rows : arrays[r.cap].rows[j] = r.ref
     ELSE /\ (r.page - 1) * PageSize + r.idx \in DOMAIN arrays[r.cap].rows
          /\ arrays[r.cap].rows[(r.page - 1) * PageSize + r.idx] = r.ref
AnswerInv(r) ==
  /\ r.do \in {"load", "search"} =>
       \A id \in Range(r.ans.rows) : Known(id) /\ r.ans.status[id] \in had[id]
  /\ r.do = "delete" => ~Exists(r.id)
  /\ r.do \in Writes => r.ans.value \in Values /\ (Exists(r.id) => r.ans.value \in had[r.id])
  /\ r.do \in {"test", "balance"} => r.ans.value = r.id
RequestInv(r) ==
  /\ r.cap \in DOMAIN arrays
  /\ r.do \in RowOps => r.id \in Ids /\ Known(r.id)
  /\ Names(r) => TargetInv(r)
  /\ r.ans.ok = "ok" => AnswerInv(r)
NetInv == net \in SUBSET RequestSet /\ \A r \in net : RequestInv(r)

PagerInv ==
  /\ page \in Positive
  /\ size \in Positive
  /\ total \in Nat
  /\ query \in Queries
  /\ table \notin Air => size = PageSize
  /\ issued \in Nat

IInv == ServerInv /\ HeapInv /\ ArraysInv /\ NetInv /\ PagerInv

(***************************************************************************)
(* Lists that keep some of their members                                   *)
(***************************************************************************)
\* Counting the kept positions up to i: one more exactly where i is kept.
LEMMA CountStep ==
  ASSUME NEW kept \in SUBSET Nat, NEW i \in Nat \ {0}, IsFiniteSet(kept)
  PROVE  /\ Cardinality({j \in kept : j <= i - 1}) \in Nat
         /\ Cardinality({j \in kept : j <= i}) =
              Cardinality({j \in kept : j <= i - 1}) + (IF i \in kept THEN 1 ELSE 0)
<1> DEFINE below == {j \in kept : j <= i - 1}
<1>1. IsFiniteSet(below) /\ Cardinality(below) \in Nat
  <2>1. below \subseteq kept
    OBVIOUS
  <2> QED BY <2>1, FS_Subset, FS_CardinalityType
<1>2. i \notin below
  BY i \in Nat
<1>3. \A j \in kept : j \in Nat /\ (j <= i <=> j <= i - 1 \/ j = i)
  <2> TAKE j \in kept
  <2>1. j \in Nat /\ i \in Nat
    OBVIOUS
  <2> QED BY <2>1
<1>4. CASE i \in kept
  <2>1. {j \in kept : j <= i} = below \cup {i}
    BY <1>3, <1>4, Zenon
  <2>2. Cardinality(below \cup {i}) = Cardinality(below) + 1
    <3> HIDE DEF below
    <3> QED BY <1>1, <1>2, FS_AddElement
  <2> QED BY <1>1, <1>4, <2>1, <2>2
<1>5. CASE i \notin kept
  <2>1. {j \in kept : j <= i} = below
    BY <1>3, <1>5
  <2> QED BY <1>1, <1>5, <2>1
<1> QED BY <1>1, <1>4, <1>5

\* So there is a k-th kept position for each k up to their number.
LEMMA KthKept ==
  ASSUME NEW L \in Nat, NEW kept \in SUBSET (1 .. L), NEW k \in 1 .. Cardinality(kept)
  PROVE  /\ IsFiniteSet(kept)
         /\ Cardinality(kept) \in Nat
         /\ \E i \in kept : Cardinality({j \in kept : j <= i}) = k
<1> DEFINE Count(i) == Cardinality({j \in kept : j <= i})
           enough == {i \in Nat : Count(i) >= k}
           R == OpToRel(<, Nat)
<1>1. IsFiniteSet(kept) /\ Cardinality(kept) \in Nat
  <2>1. IsFiniteSet(1 .. L)
    BY FS_Interval
  <2> QED BY <2>1, FS_Subset, FS_CardinalityType
<1>0. k \in Nat /\ k >= 1 /\ k <= Cardinality(kept)
  BY <1>1
<1>2. L \in enough
  <2>1. {j \in kept : j <= L} = kept
    BY \A j \in kept : j <= L
  <2> QED BY <2>1, <1>1, <1>0
<1>3. PICK i \in enough : \A m \in enough : ~ (<<m, i>> \in R)
  <2>1. enough \subseteq Nat /\ enough # {} /\ IsWellFoundedOn(R, Nat)
    BY <1>2, NatLessThanWellFounded
  <2> HIDE DEF enough, R
  <2> QED BY <2>1, WFMin
<1>4. i # 0
  <2>1. {j \in kept : j <= 0} = {}
    <3>1. ASSUME NEW j \in kept PROVE ~ (j <= 0)
      <4>1. j \in 1 .. L
        OBVIOUS
      <4> QED BY <4>1
    <3> QED BY <3>1
  <2>2. Count(0) = 0
    BY <2>1, FS_EmptySet
  <2> QED BY <2>2, <1>0
<1>5. i \in Nat \ {0} /\ i - 1 \in Nat /\ i - 1 \notin enough
  <2>1. i \in Nat \ {0} /\ i - 1 \in Nat /\ i - 1 < i
    BY <1>4
  <2>2. <<i - 1, i>> \in R
    BY <2>1 DEF OpToRel
  <2> QED BY <1>3, <2>1, <2>2
<1>6. Count(i - 1) \in Nat /\ Count(i) = Count(i - 1) + (IF i \in kept THEN 1 ELSE 0)
  BY <1>1, <1>5, CountStep
<1>7. Count(i) >= k /\ ~(Count(i - 1) >= k)
  BY <1>3, <1>5
<1>8. i \in kept /\ Count(i) = k
  <2> HIDE DEF Count, enough, R
  <2> QED BY <1>6, <1>7, <1>0
<1> QED BY <1>1, <1>8

LEMMA KeepType ==
  ASSUME NEW T, NEW s \in Seq(T), NEW S
  PROVE  /\ Keep(s, S) \in Seq(T)
         /\ \A x \in Range(Keep(s, S)) : x \in Range(s) /\ x \in S
<1> DEFINE kept == {i \in DOMAIN s : s[i] \in S}
           At(k) == CHOOSE i \in kept : Cardinality({j \in kept : j <= i}) = k
<1>1. Len(s) \in Nat /\ DOMAIN s = 1 .. Len(s) /\ kept \in SUBSET (1 .. Len(s))
  OBVIOUS
<1>2. \A k \in 1 .. Cardinality(kept) : At(k) \in kept
  <2> TAKE k \in 1 .. Cardinality(kept)
  <2> HIDE DEF kept
  <2> QED BY <1>1, KthKept
<1>3. Cardinality(kept) \in Nat
  <2>1. IsFiniteSet(1 .. Len(s))
    BY <1>1, FS_Interval
  <2> QED BY <1>1, <2>1, FS_Subset, FS_CardinalityType
<1>4. Keep(s, S) = [k \in 1 .. Cardinality(kept) |-> s[At(k)]]
  BY DEF Keep
<1>5. \A k \in 1 .. Cardinality(kept) : At(k) \in DOMAIN s /\ s[At(k)] \in S
  BY <1>2
<1> HIDE DEF kept, At
<1>6. \A k \in 1 .. Cardinality(kept) : s[At(k)] \in T /\ s[At(k)] \in Range(s)
  BY <1>5 DEF Range
<1>7. Keep(s, S) \in Seq(T)
  BY <1>3, <1>4, <1>6
<1>8. ASSUME NEW x \in Range(Keep(s, S)) PROVE x \in Range(s) /\ x \in S
  <2>1. PICK k \in 1 .. Cardinality(kept) : x = s[At(k)]
    BY <1>4 DEF Range
  <2> QED BY <1>5, <1>6, <2>1
<1> QED BY <1>7, <1>8

LEMMA ReverseType ==
  ASSUME NEW T, NEW s \in Seq(T)
  PROVE  /\ Reverse(s) \in Seq(T)
         /\ DOMAIN Reverse(s) = DOMAIN s
         /\ \A i \in DOMAIN s : Len(s) - i + 1 \in DOMAIN s /\ Reverse(s)[i] = s[Len(s) - i + 1]
<1>1. Len(s) \in Nat /\ DOMAIN s = 1 .. Len(s)
  OBVIOUS
<1>2. Reverse(s) = [i \in 1 .. Len(s) |-> s[Len(s) - i + 1]]
  BY DEF Reverse
<1>3. \A i \in 1 .. Len(s) : Len(s) - i + 1 \in 1 .. Len(s)
  BY <1>1
<1>4. \A i \in 1 .. Len(s) : s[Len(s) - i + 1] \in T
  BY <1>1, <1>3
<1>5. Reverse(s) \in Seq(T)
  BY <1>1, <1>2, <1>4
<1> QED BY <1>1, <1>2, <1>3, <1>5

(***************************************************************************)
(* The lists that the server answers with are made of its records          *)
(***************************************************************************)
LEMMA OrderedType ==
  ASSUME ServerInv, NEW q
  PROVE  Ordered(q) \in Seq(Ids) /\ \A id \in Range(Ordered(q)) : Exists(id)
<1>1. rows \in Seq(Ids)
  BY DEF ServerInv
<1>2. CASE q = ""
  BY <1>1, <1>2 DEF Ordered, Exists
<1>3. CASE q # "" /\ table \in Logs
  <2>1. Keep(rows, Typed) \in Seq(Ids) /\ \A x \in Range(Keep(rows, Typed)) : x \in Range(rows)
    BY <1>1, KeepType
  <2> QED BY <1>3, <2>1 DEF Ordered, Exists
<1>4. CASE q # "" /\ table \notin Logs
  <2>1. /\ Reverse(rows) \in Seq(Ids) /\ DOMAIN Reverse(rows) = DOMAIN rows
        /\ \A i \in DOMAIN rows : Len(rows) - i + 1 \in DOMAIN rows
                                  /\ Reverse(rows)[i] = rows[Len(rows) - i + 1]
    BY <1>1, ReverseType
  <2>2. \A id \in Range(Reverse(rows)) : id \in Range(rows)
    BY <2>1 DEF Range
  <2> QED BY <1>4, <2>1, <2>2 DEF Ordered, Exists
<1> QED BY <1>2, <1>3, <1>4

LEMMA PageOfType ==
  ASSUME NEW T, NEW s \in Seq(T), NEW start \in Nat
  PROVE  /\ PageOf(s, start) \in Seq(T)
         /\ \A x \in Range(PageOf(s, start)) : x \in Range(s)
<1> DEFINE m == start * PageSize + 1
           n == Least((start + 1) * PageSize, Len(s))
<1>1. start * PageSize \in Nat /\ (start + 1) * PageSize \in Nat /\ Len(s) \in Nat
  BY TableAssumption
<1>2. m \in Nat \ {0} /\ n \in Nat /\ n <= Len(s)
  BY <1>1 DEF Least
<1> HIDE DEF m, n
<1>3. PageOf(s, start) = SubSeq(s, m, n)
  BY DEF PageOf, m, n
<1>4. \A i \in m .. n : i \in DOMAIN s /\ s[i] \in T
  BY <1>2
<1>5. SubSeq(s, m, n) = [i \in 1 .. (IF m <= n THEN n - m + 1 ELSE 0) |-> s[i + m - 1]]
  BY <1>2, <1>4
<1>6. SubSeq(s, m, n) \in Seq(T)
  BY <1>2, <1>4
<1>7. ASSUME NEW x \in Range(SubSeq(s, m, n)) PROVE x \in Range(s)
  <2>1. PICK i \in 1 .. (IF m <= n THEN n - m + 1 ELSE 0) : x = s[i + m - 1]
    BY <1>5 DEF Range
  <2>2. i + m - 1 \in m .. n
    BY <1>2
  <2> QED BY <1>4, <2>1, <2>2 DEF Range
<1> QED BY <1>3, <1>6, <1>7

(***************************************************************************)
(* Requests that a click sends                                             *)
(***************************************************************************)
FieldTypes(f) ==
  /\ "do" \in DOMAIN f => f.do \in Dos
  /\ "id" \in DOMAIN f => f.id \in Ids \cup {0}
  /\ "idx" \in DOMAIN f => f.idx \in Int
  /\ "start" \in DOMAIN f => f.start \in Nat
  /\ "goto" \in DOMAIN f => f.goto \in Nat
  /\ "then" \in DOMAIN f => f.then \in {"none", "clear", "switch"}
  /\ "cap" \in DOMAIN f => f.cap \in Nat
  /\ "page" \in DOMAIN f => f.page \in Positive
  /\ "size" \in DOMAIN f => f.size \in Positive
  /\ "closure" \in DOMAIN f => f.closure \in Positive
  /\ "query" \in DOMAIN f => f.query \in Queries
  /\ "ref" \in DOMAIN f => f.ref \in Nat \X Ids
  /\ "value" \in DOMAIN f => f.value \in Values

LEMMA RequestFields ==
  ASSUME NEW f, NEW n
  PROVE  LET q == Request(f, n)
         IN  /\ q.n = n
             /\ q.do = IF "do" \in DOMAIN f THEN f.do ELSE "load"
             /\ q.id = IF "id" \in DOMAIN f THEN f.id ELSE 0
             /\ q.idx = IF "idx" \in DOMAIN f THEN f.idx ELSE 0
             /\ q.cap = IF "cap" \in DOMAIN f THEN f.cap ELSE cur
             /\ q.page = IF "page" \in DOMAIN f THEN f.page ELSE page
             /\ q.ref = IF "ref" \in DOMAIN f THEN f.ref ELSE <<0, 0>>
             /\ q.ans = None
BY DEF Request

LEMMA RequestType ==
  ASSUME PagerInv, cur \in Nat, NEW f, FieldTypes(f), NEW n \in Nat
  PROVE  Request(f, n) \in RequestSet
<1>1. <<0, 0>> \in Nat \X (Ids \cup {0}) /\ Nat \X Ids \subseteq Nat \X (Ids \cup {0})
  OBVIOUS
<1>2. Unknown \in Values /\ Unknown = 0
  BY DEF Values, Unknown
<1>3. "load" \in Dos
  BY DEF Dos
<1> QED BY <1>1, <1>2, <1>3 DEF Request, FieldTypes, PagerInv, RequestSet

LEMMA ListRequest ==
  ASSUME PagerInv, ArraysInv, NEW f, FieldTypes(f), NEW n \in Nat,
         "do" \in DOMAIN f => f.do \in {"load", "search", "sweep"},
         "cap" \in DOMAIN f => f.cap \in DOMAIN arrays
  PROVE  Request(f, n) \in RequestSet /\ RequestInv(Request(f, n))
<1>1. cur \in Nat /\ cur \in DOMAIN arrays
  BY DEF ArraysInv
<1>2. Request(f, n) \in RequestSet
  BY <1>1, RequestType
<1> DEFINE q == Request(f, n)
<1>3. q.do \in {"load", "search", "sweep"} /\ q.cap \in DOMAIN arrays /\ q.ans = None
  BY <1>1, RequestFields
<1> HIDE DEF q
<1>4. RequestInv(q)
  BY <1>3 DEF RequestInv, RowOps, Names, None
<1> QED BY <1>2, <1>4 DEF q

(***************************************************************************)
(* What is kept by any step: references stay valid, arrays only grow, and  *)
(* a record that is gone stays away                                        *)
(***************************************************************************)
HeapGrows ==
  \A g \in DOMAIN heap : g \in DOMAIN heap' /\ DOMAIN heap'[g].status = DOMAIN heap[g].status
ArraysGrow ==
  \A k \in DOMAIN arrays :
    /\ k \in DOMAIN arrays'
    /\ \A j \in DOMAIN arrays[k].rows :
         j \in DOMAIN arrays'[k].rows /\ arrays'[k].rows[j] = arrays[k].rows[j]
Fates ==
  /\ table' = table
  /\ \A id \in Ids : had[id] \subseteq had'[id] /\ (Known(id) /\ ~Exists(id) => ~Exists(id)')
SameServer == UNCHANGED <<table, server, had>>

LEMMA SameFates == SameServer => Fates
BY DEF SameServer, Fates, server, Exists

LEMMA RefKept ==
  ASSUME HeapGrows, NEW ref, RefOK(ref)
  PROVE  RefOK(ref)'
BY DEF HeapGrows, RefOK

LEMMA TargetKept ==
  ASSUME HeapGrows, ArraysGrow, Fates, NEW r, r.cap \in DOMAIN arrays, TargetInv(r)
  PROVE  TargetInv(r)'
<1>1. RefOK(r.ref)' /\ table' = table
  BY RefKept DEF TargetInv, Fates
<1>2. \A j \in DOMAIN arrays[r.cap].rows :
        j \in DOMAIN arrays'[r.cap].rows /\ arrays'[r.cap].rows[j] = arrays[r.cap].rows[j]
  BY DEF ArraysGrow
<1>3. CASE table \in Air
  <2>1. PICK j \in DOMAIN arrays[r.cap].rows : arrays[r.cap].rows[j] = r.ref
    BY <1>3 DEF TargetInv
  <2>2. \E i \in DOMAIN arrays'[r.cap].rows : arrays'[r.cap].rows[i] = r.ref
    BY <1>2, <2>1
  <2> QED BY <1>1, <1>3, <2>2 DEF TargetInv
<1>4. CASE table \notin Air
  BY <1>1, <1>2, <1>4 DEF TargetInv
<1> QED BY <1>3, <1>4

LEMMA AnswerKept ==
  ASSUME Fates, NEW r \in RequestSet, r.ans.ok = "ok",
         r.do \in RowOps => r.id \in Ids /\ Known(r.id), AnswerInv(r)
  PROVE  AnswerInv(r)'
<1>1. r.ans \in Contents
  BY DEF RequestSet, None, Failures
<1>2. \A id \in Range(r.ans.rows) : id \in Ids
  BY <1>1 DEF Contents, Range
<1>3. r.do \in {"load", "search"} =>
        \A id \in Range(r.ans.rows) : Known(id)' /\ r.ans.status[id] \in had'[id]
  BY <1>2 DEF Fates, AnswerInv, Known
<1>4. r.do = "delete" => ~Exists(r.id)'
  BY DEF Fates, AnswerInv, RowOps
<1>5. r.do \in Writes => r.ans.value \in Values /\ (Exists(r.id)' => r.ans.value \in had'[r.id])
  BY DEF Fates, AnswerInv, RowOps, Writes
<1>6. r.do \in {"test", "balance"} => r.ans.value = r.id
  BY DEF AnswerInv
<1> QED BY <1>3, <1>4, <1>5, <1>6 DEF AnswerInv

LEMMA RequestKept ==
  ASSUME HeapGrows, ArraysGrow, Fates, NEW r \in RequestSet, RequestInv(r)
  PROVE  RequestInv(r)'
<1>1. r.cap \in DOMAIN arrays'
  BY DEF ArraysGrow, RequestInv
<1>2. r.do \in RowOps => r.id \in Ids /\ Known(r.id)'
  BY DEF Fates, RequestInv, Known
<1>3. Names(r)' => TargetInv(r)'
  BY TargetKept DEF Fates, RequestInv, Names
<1>4. r.ans.ok = "ok" => AnswerInv(r)'
  BY AnswerKept DEF RequestInv
<1> QED BY <1>1, <1>2, <1>3, <1>4 DEF RequestInv

LEMMA NetKept ==
  ASSUME NetInv, HeapGrows, ArraysGrow, Fates,
         \A q \in net' : \/ q \in net
                         \/ q \in RequestSet /\ RequestInv(q)
                         \/ q \in RequestSet /\ RequestInv(q)'
  PROVE  NetInv'
<1>1. ASSUME NEW q \in net' PROVE q \in RequestSet /\ RequestInv(q)'
  <2>1. \/ q \in RequestSet /\ RequestInv(q)
        \/ q \in RequestSet /\ RequestInv(q)'
    BY DEF NetInv
  <2> QED BY <2>1, RequestKept
<1> QED BY <1>1 DEF NetInv

(***************************************************************************)
(* Row objects                                                             *)
(***************************************************************************)
LEMMA ObjectKept ==
  ASSUME Fates, NEW o \in ObjectSet, ObjectInv(o)
  PROVE  ObjectInv(o)'
<1>1. DOMAIN o.status \subseteq Ids /\ o.deleted \subseteq Ids
  BY DEF ObjectSet
<1>2. \A id \in DOMAIN o.status : /\ Known(id)'
                                  /\ Exists(id)' => o.status[id] \in had'[id]
  BY <1>1 DEF Fates, ObjectInv, Known
<1>3. \A id \in o.deleted : Known(id)' /\ ~Exists(id)'
  BY <1>1 DEF Fates, ObjectInv, Known
<1> QED BY <1>2, <1>3 DEF Fates, ObjectInv

LEMMA HeapKept ==
  ASSUME HeapInv, Fates, heap' = heap
  PROVE  HeapInv' /\ HeapGrows
<1>1. \A g \in DOMAIN heap : heap[g] \in ObjectSet /\ ObjectInv(heap[g])
  BY DEF HeapInv
<1>2. \A g \in DOMAIN heap : ObjectInv(heap[g])'
  <2> TAKE g \in DOMAIN heap
  <2> DEFINE o == heap[g]
  <2>1. o \in ObjectSet /\ ObjectInv(o)
    BY <1>1
  <2>2. PICK p : p = o
    OBVIOUS
  <2>3. ObjectInv(p)'
    BY <2>1, <2>2, ObjectKept
  <2> QED BY <2>2, <2>3 DEF ObjectInv
<1> QED BY <1>2 DEF HeapInv, HeapGrows

LEMMA HeapAppend ==
  ASSUME HeapInv, SameServer, NEW o \in ObjectSet, ObjectInv(o), heap' = Append(heap, o)
  PROVE  HeapInv' /\ HeapGrows /\ Len(heap) + 1 \in DOMAIN heap' /\ heap'[Len(heap) + 1] = o
<1>1. heap \in Seq(ObjectSet) /\ \A g \in DOMAIN heap : ObjectInv(heap[g])
  BY DEF HeapInv
<1>2. Fates
  BY SameFates
<1>3. heap' \in Seq(ObjectSet)
  BY <1>1
<1>4. /\ DOMAIN heap' = DOMAIN heap \cup {Len(heap) + 1}
      /\ \A g \in DOMAIN heap : heap'[g] = heap[g]
      /\ heap'[Len(heap) + 1] = o
  BY <1>1
<1>5. ASSUME NEW g \in DOMAIN heap' PROVE ObjectInv(heap[g])' 
  <2>1. heap'[g] \in ObjectSet /\ ObjectInv(heap'[g])
    BY <1>1, <1>3, <1>4
  <2>2. PICK p : p = heap'[g]
    OBVIOUS
  <2>3. ObjectInv(p)'
    BY <1>2, <2>1, <2>2, ObjectKept
  <2> QED BY <2>2, <2>3 DEF ObjectInv
<1>6. HeapInv'
  BY <1>3, <1>5 DEF HeapInv
<1> QED BY <1>4, <1>6 DEF HeapGrows

LEMMA HeapChange ==
  ASSUME HeapInv, SameServer, NEW g, NEW o, heap' = [heap EXCEPT ![g] = o],
         g \in DOMAIN heap => /\ o \in ObjectSet
                              /\ ObjectInv(o)
                              /\ DOMAIN o.status = DOMAIN heap[g].status
  PROVE  HeapInv' /\ HeapGrows
<1>1. heap \in Seq(ObjectSet) /\ \A h \in DOMAIN heap : ObjectInv(heap[h])
  BY DEF HeapInv
<1>2. Fates
  BY SameFates
<1>3. DOMAIN heap' = DOMAIN heap /\ DOMAIN heap = 1 .. Len(heap) /\ Len(heap) \in Nat
  BY <1>1
<1>4. \A h \in DOMAIN heap : heap'[h] = IF h = g THEN o ELSE heap[h]
  OBVIOUS
<1>5. ASSUME NEW h \in DOMAIN heap'
      PROVE  heap'[h] \in ObjectSet /\ ObjectInv(heap[h])' /\ DOMAIN heap'[h].status = DOMAIN heap[h].status
  <2>1. heap'[h] \in ObjectSet /\ ObjectInv(heap'[h]) /\ DOMAIN heap'[h].status = DOMAIN heap[h].status
    BY <1>1, <1>3, <1>4
  <2>2. PICK p : p = heap'[h]
    OBVIOUS
  <2>3. ObjectInv(p)'
    BY <1>2, <2>1, <2>2, ObjectKept
  <2> QED BY <2>1, <2>2, <2>3 DEF ObjectInv
<1>6. heap' \in Seq(ObjectSet)
  <2>1. PICK f : f = heap'
    OBVIOUS
  <2>2. f = [h \in 1 .. Len(heap) |-> f[h]]
    BY <1>3, <2>1
  <2>3. \A h \in 1 .. Len(heap) : f[h] \in ObjectSet
    BY <1>3, <1>5, <2>1
  <2>4. f \in Seq(ObjectSet)
    <3> HIDE <2>1
    <3> QED BY <1>3, <2>2, <2>3
  <2> QED BY <2>1, <2>4
<1> QED BY <1>3, <1>5, <1>6 DEF HeapInv, HeapGrows

\* Three changes of an object: its status, a measurement, its deletion.
LEMMA ObjectStatus ==
  ASSUME NEW o \in ObjectSet, ObjectInv(o), NEW id \in DOMAIN o.status, NEW v \in Values,
         Exists(id) => v \in had[id]
  PROVE  LET p == [o EXCEPT !.status[id] = v]
         IN  p \in ObjectSet /\ ObjectInv(p) /\ DOMAIN p.status = DOMAIN o.status
<1> DEFINE p == [o EXCEPT !.status[id] = v]
<1>1. PICK S \in SUBSET Ids : o.status \in [S -> Values]
  BY DEF ObjectSet
<1>2. p.status \in [S -> Values] /\ p.status = [o.status EXCEPT ![id] = v]
  BY <1>1 DEF ObjectSet
<1>3. p \in ObjectSet
  BY <1>1, <1>2 DEF ObjectSet
<1>4. ObjectInv(p)
  <2>1. /\ p.tested = o.tested /\ p.balance = o.balance /\ p.deleted = o.deleted
        /\ DOMAIN p.status = DOMAIN o.status
        /\ \A i \in DOMAIN o.status : p.status[i] = IF i = id THEN v ELSE o.status[i]
    BY <1>1, <1>2 DEF ObjectSet
  <2> HIDE DEF p
  <2> QED BY <2>1 DEF ObjectInv
<1> QED BY <1>1, <1>2, <1>3, <1>4

LEMMA ObjectTested ==
  ASSUME NEW o \in ObjectSet, ObjectInv(o), NEW id \in DOMAIN o.status
  PROVE  LET p == [o EXCEPT !.tested[id] = id]
         IN  p \in ObjectSet /\ ObjectInv(p) /\ DOMAIN p.status = DOMAIN o.status
<1> DEFINE p == [o EXCEPT !.tested[id] = id]
<1>1. PICK S \in SUBSET Ids : o.tested \in [S -> Ids]
  BY DEF ObjectSet
<1>2. id \in S
  BY <1>1 DEF ObjectInv
<1>3. p.tested \in [S -> Ids] /\ p.tested = [o.tested EXCEPT ![id] = id]
  BY <1>1, <1>2 DEF ObjectSet
<1>4. p \in ObjectSet
  BY <1>1, <1>3 DEF ObjectSet
<1>5. ObjectInv(p) /\ DOMAIN p.status = DOMAIN o.status
  <2>1. /\ p.status = o.status /\ p.balance = o.balance /\ p.deleted = o.deleted
        /\ DOMAIN p.tested = DOMAIN o.tested
        /\ \A i \in DOMAIN o.tested : p.tested[i] = IF i = id THEN id ELSE o.tested[i]
    BY <1>1, <1>3 DEF ObjectSet
  <2> HIDE DEF p
  <2> QED BY <2>1 DEF ObjectInv
<1> QED BY <1>4, <1>5

\* The default theme's balances land wherever the index points.
LEMMA ObjectBalance ==
  ASSUME NEW o \in ObjectSet, ObjectInv(o), NEW i, NEW v \in Ids,
         table = "default/channels" \/ v = i
  PROVE  LET p == [o EXCEPT !.balance[i] = v]
         IN  p \in ObjectSet /\ ObjectInv(p) /\ DOMAIN p.status = DOMAIN o.status
<1> DEFINE p == [o EXCEPT !.balance[i] = v]
<1>1. PICK S \in SUBSET Ids : o.balance \in [S -> Ids]
  BY DEF ObjectSet
<1>2. p.balance \in [S -> Ids] /\ p.balance = [o.balance EXCEPT ![i] = v]
  BY <1>1 DEF ObjectSet
<1>3. p \in ObjectSet
  BY <1>1, <1>2 DEF ObjectSet
<1>4. ObjectInv(p) /\ DOMAIN p.status = DOMAIN o.status
  <2>1. /\ p.status = o.status /\ p.tested = o.tested /\ p.deleted = o.deleted
        /\ DOMAIN p.balance = DOMAIN o.balance
        /\ \A j \in DOMAIN o.balance : p.balance[j] = IF j = i THEN v ELSE o.balance[j]
    BY <1>1, <1>2 DEF ObjectSet
  <2> HIDE DEF p
  <2> QED BY <2>1 DEF ObjectInv
<1> QED BY <1>3, <1>4

LEMMA ObjectDeleted ==
  ASSUME NEW o \in ObjectSet, ObjectInv(o), NEW id \in Ids, Known(id), ~Exists(id)
  PROVE  LET p == [o EXCEPT !.deleted = @ \cup {id}]
         IN  p \in ObjectSet /\ ObjectInv(p) /\ DOMAIN p.status = DOMAIN o.status
<1> DEFINE p == [o EXCEPT !.deleted = @ \cup {id}]
<1>1. p \in ObjectSet
  BY DEF ObjectSet
<1>2. ObjectInv(p) /\ DOMAIN p.status = DOMAIN o.status
  <2>1. /\ p.status = o.status /\ p.tested = o.tested /\ p.balance = o.balance
        /\ p.deleted = o.deleted \cup {id}
    BY DEF ObjectSet
  <2> HIDE DEF p
  <2> QED BY <2>1 DEF ObjectInv
<1> QED BY <1>1, <1>2

(***************************************************************************)
(* Arrays                                                                  *)
(***************************************************************************)
Sources == {"paged", "found", "sorted"}

LEMMA ArraysKept ==
  ASSUME ArraysInv, HeapGrows, UNCHANGED <<arrays, cur>>
  PROVE  ArraysInv' /\ ArraysGrow
<1>1. ASSUME NEW k \in DOMAIN arrays, NEW j \in DOMAIN arrays[k].rows
      PROVE  RefOK(arrays[k].rows[j])'
  <2>1. PICK ref : ref = arrays[k].rows[j]
    OBVIOUS
  <2>2. RefOK(ref)
    BY <2>1 DEF ArraysInv
  <2>3. RefOK(ref)'
    BY <2>2, RefKept
  <2> QED BY <2>1, <2>3 DEF RefOK
<1> QED BY <1>1 DEF ArraysInv, ArraysGrow

LEMMA ArraysAppend ==
  ASSUME ArraysInv, HeapGrows, NEW rs \in Seq(Nat \X Ids), NEW src \in Sources,
         NewArray(rs, src), \A j \in DOMAIN rs : RefOK(rs[j])'
  PROVE  ArraysInv' /\ ArraysGrow
<1>1. arrays \in Seq(ArraySet) /\ Len(arrays) \in Nat
  BY DEF ArraysInv
<1> DEFINE a == [rows |-> rs, src |-> src]
<1>2. a \in ArraySet
  BY DEF ArraySet, Sources
<1>3. /\ arrays' = Append(arrays, a)
      /\ arrays' \in Seq(ArraySet)
      /\ DOMAIN arrays' = DOMAIN arrays \cup {Len(arrays) + 1}
      /\ \A k \in DOMAIN arrays : arrays'[k] = arrays[k]
      /\ arrays'[Len(arrays) + 1] = a
      /\ cur' = Len(arrays) + 1
  BY <1>1, <1>2 DEF NewArray
<1>4. ASSUME NEW k \in DOMAIN arrays', NEW j \in DOMAIN arrays'[k].rows
      PROVE  RefOK(arrays[k].rows[j])'
  <2>1. PICK ref : ref = arrays'[k].rows[j]
    OBVIOUS
  <2>2. CASE k \in DOMAIN arrays
    <3>1. RefOK(ref)
      BY <1>3, <2>1, <2>2 DEF ArraysInv
    <3>2. RefOK(ref)'
      BY <3>1, RefKept
    <3> QED BY <2>1, <3>2 DEF RefOK
  <2>3. CASE k = Len(arrays) + 1
    <3>1. ref = rs[j] /\ j \in DOMAIN rs
      BY <1>3, <2>1, <2>3
    <3>2. RefOK(rs[j])'
      BY <3>1
    <3> QED BY <2>1, <3>1, <3>2 DEF RefOK
  <2> QED BY <1>3, <2>2, <2>3
<1>5. ArraysInv'
  BY <1>3, <1>4 DEF ArraysInv
<1>6. ArraysGrow
  BY <1>3 DEF ArraysGrow
<1> QED BY <1>5, <1>6

LEMMA ArraysPush ==
  ASSUME ArraysInv, HeapGrows, NEW rs \in Seq(Nat \X Ids), NEW k \in DOMAIN arrays,
         arrays' = [arrays EXCEPT ![k].rows = @ \o rs], cur' = k,
         \A j \in DOMAIN rs : RefOK(rs[j])'
  PROVE  ArraysInv' /\ ArraysGrow
<1>1. /\ arrays \in Seq(ArraySet) /\ Len(arrays) \in Nat
      /\ DOMAIN arrays = 1 .. Len(arrays)
      /\ \A i \in DOMAIN arrays : arrays[i] \in ArraySet
  BY DEF ArraysInv
<1>2. PICK old : old = arrays[k].rows
  OBVIOUS
<1>3. PICK new : new = old \o rs
  OBVIOUS
<1>4. old \in Seq(Nat \X Ids) /\ Len(old) \in Nat /\ Len(rs) \in Nat /\ DOMAIN old = 1 .. Len(old)
  BY <1>1, <1>2 DEF ArraySet
<1>5. /\ new \in Seq(Nat \X Ids)
      /\ DOMAIN new = 1 .. Len(old) + Len(rs)
      /\ \A j \in DOMAIN old : j \in DOMAIN new /\ new[j] = old[j]
      /\ \A j \in DOMAIN new : j \notin DOMAIN old =>
                                 j - Len(old) \in DOMAIN rs /\ new[j] = rs[j - Len(old)]
  BY <1>3, <1>4
<1>6. PICK a : a = [arrays[k] EXCEPT !.rows = new]
  OBVIOUS
<1>7. a \in ArraySet /\ a.rows = new
  BY <1>1, <1>5, <1>6 DEF ArraySet
<1>8. PICK f : f = arrays'
  OBVIOUS
<1>9. /\ f = [i \in DOMAIN arrays |-> IF i = k THEN a ELSE arrays[i]]
      /\ f[k] = a
      /\ \A i \in DOMAIN arrays : i # k => f[i] = arrays[i]
      /\ DOMAIN f = DOMAIN arrays
  BY <1>2, <1>3, <1>6, <1>8
<1>10. f \in Seq(ArraySet)
  <2>1. \A i \in 1 .. Len(arrays) : (IF i = k THEN a ELSE arrays[i]) \in ArraySet
    BY <1>1, <1>7
  <2> QED BY <1>1, <1>9, <2>1
<1>11. ASSUME NEW i \in DOMAIN f, NEW j \in DOMAIN f[i].rows
       PROVE  RefOK(f[i].rows[j])'
  <2>1. PICK ref : ref = f[i].rows[j]
    OBVIOUS
  <2>2. CASE i # k
    <3>1. i \in DOMAIN arrays /\ j \in DOMAIN arrays[i].rows /\ ref = arrays[i].rows[j]
      BY <1>9, <2>1, <2>2
    <3>2. RefOK(ref)
      BY <3>1 DEF ArraysInv
    <3> QED BY <2>1, <3>2, RefKept
  <2>3. CASE i = k /\ j \in DOMAIN old
    <3>1. j \in DOMAIN arrays[k].rows /\ ref = arrays[k].rows[j]
      BY <1>2, <1>5, <1>7, <1>9, <2>1, <2>3
    <3>2. RefOK(ref)
      BY <3>1 DEF ArraysInv
    <3> QED BY <2>1, <3>2, RefKept
  <2>4. CASE i = k /\ j \notin DOMAIN old
    <3>1. j \in DOMAIN new /\ ref = new[j]
      BY <1>7, <1>9, <2>1, <2>4
    <3>2. PICK m \in DOMAIN rs : ref = rs[m]
      BY <1>5, <2>4, <3>1
    <3>3. RefOK(rs[m])'
      BY <3>2
    <3> QED BY <2>1, <3>2, <3>3
  <2> QED BY <2>2, <2>3, <2>4
<1>12. ArraysInv'
  BY <1>8, <1>9, <1>10, <1>11 DEF ArraysInv
<1>13. ASSUME NEW i \in DOMAIN arrays, NEW j \in DOMAIN arrays[i].rows
       PROVE  i \in DOMAIN f /\ j \in DOMAIN f[i].rows /\ f[i].rows[j] = arrays[i].rows[j]
  <2>1. i # k => f[i] = arrays[i]
    BY <1>9
  <2>2. i = k => j \in DOMAIN old /\ f[i].rows = new
    BY <1>2, <1>7, <1>9
  <2>3. i = k => j \in DOMAIN f[i].rows /\ f[i].rows[j] = arrays[i].rows[j]
    BY <1>2, <1>5, <2>2
  <2> QED BY <1>9, <2>1, <2>3
<1> QED BY <1>8, <1>12, <1>13 DEF ArraysGrow

(***************************************************************************)
(* An answer that fills the table                                          *)
(***************************************************************************)
Lists(r) == r.do \in {"load", "search"} /\ r.ans.ok = "ok"

LEMMA LoadObject ==
  ASSUME ServerInv, NEW r \in RequestSet, RequestInv(r), Lists(r)
  PROVE  /\ Objects(r) \in ObjectSet
         /\ ObjectInv(Objects(r))
         /\ DOMAIN Objects(r).status = Range(r.ans.rows)
         /\ r.ans.rows \in Seq(Ids)
<1>1. r.ans \in Contents
  BY DEF Lists, RequestSet, None, Failures
<1>2. /\ r.ans.rows \in Seq(Ids) /\ r.ans.status \in [Ids -> Statuses] /\ r.ans.epoch \in Nat
      /\ r.query \in Queries /\ r.start \in Nat
  BY <1>1 DEF Contents, RequestSet
<1> DEFINE S == Range(r.ans.rows)
<1>3. S \in SUBSET Ids
  BY <1>2 DEF Range
<1>4. /\ [id \in S |-> r.ans.status[id]] \in [S -> Values]
      /\ [id \in S |-> id] \in [S -> Ids]
  BY <1>2, <1>3 DEF Statuses, Values
<1> DEFINE o == Objects(r)
<1>5. /\ o.status = [id \in S |-> r.ans.status[id]]
      /\ o.tested = [id \in S |-> id]
      /\ o.balance = [id \in S |-> id]
      /\ o.deleted = {}
  BY DEF Objects
<1>6. \A id \in S : Known(id) /\ r.ans.status[id] \in had[id]
  BY DEF RequestInv, Lists, AnswerInv
<1>7. Objects(r) \in ObjectSet
  <2>1. /\ [id \in S |-> r.ans.status[id]] \in UNION {[U -> Values] : U \in SUBSET Ids}
        /\ [id \in S |-> id] \in UNION {[U -> Ids] : U \in SUBSET Ids}
    BY <1>3, <1>4
  <2> HIDE DEF S
  <2>2. (r.closure = PageSize /\ r.page <= r.start + 1) \in BOOLEAN
    OBVIOUS
  <2> QED BY <1>2, <2>1, <2>2 DEF Objects, ObjectSet, S
<1> HIDE DEF o, S
<1>8. ObjectInv(o)
  BY <1>5, <1>6 DEF ObjectInv
<1> QED BY <1>2, <1>5, <1>7, <1>8 DEF o, S

LEMMA LoadHeap ==
  ASSUME ServerInv, HeapInv, SameServer, NEW r \in RequestSet, RequestInv(r), Lists(r),
         heap' = Append(heap, Objects(r))
  PROVE  /\ HeapInv'
         /\ HeapGrows
         /\ Refs(r) \in Seq(Nat \X Ids)
         /\ \A rs : rs = Refs(r) => \A j \in DOMAIN rs : RefOK(rs[j])'
<1>1. /\ Objects(r) \in ObjectSet /\ ObjectInv(Objects(r))
      /\ DOMAIN Objects(r).status = Range(r.ans.rows) /\ r.ans.rows \in Seq(Ids)
  BY LoadObject
<1>2. PICK o : o = Objects(r)
  OBVIOUS
<1>3. HeapInv' /\ HeapGrows /\ Len(heap) + 1 \in DOMAIN heap' /\ heap'[Len(heap) + 1] = o
  BY <1>1, <1>2, HeapAppend
<1>4. Len(heap) \in Nat
  BY DEF HeapInv
<1>5. /\ DOMAIN Refs(r) = 1 .. Len(r.ans.rows)
      /\ \A j \in DOMAIN Refs(r) : /\ Refs(r)[j] = <<Len(heap) + 1, r.ans.rows[j]>>
                                   /\ r.ans.rows[j] \in Range(r.ans.rows)
                                   /\ r.ans.rows[j] \in Ids
  BY <1>1 DEF Refs, Range
<1>6. Refs(r) \in Seq(Nat \X Ids)
  <2>1. \A j \in 1 .. Len(r.ans.rows) : <<Len(heap) + 1, r.ans.rows[j]>> \in Nat \X Ids
    BY <1>4, <1>5
  <2>2. Len(r.ans.rows) \in Nat
    BY <1>1
  <2> QED BY <2>1, <2>2 DEF Refs
<1>7. ASSUME NEW rs, rs = Refs(r), NEW j \in DOMAIN rs PROVE RefOK(rs[j])'
  <2>1. rs[j] = <<Len(heap) + 1, r.ans.rows[j]>> /\ r.ans.rows[j] \in DOMAIN o.status
    BY <1>1, <1>2, <1>5, <1>7
  <2> QED BY <1>3, <2>1 DEF RefOK
<1> QED BY <1>3, <1>6, <1>7

MadeOf(u, s, t) ==
  \A i \in DOMAIN u : \/ \E j \in DOMAIN s : u[i] = s[j]
                      \/ \E j \in DOMAIN t : u[i] = t[j]
LEMMA SpliceType ==
  ASSUME NEW T, NEW s \in Seq(T), NEW t \in Seq(T), NEW k \in Nat, NEW n \in Nat,
         NEW u, u = Splice(s, k, n, t)
  PROVE  u \in Seq(T) /\ MadeOf(u, s, t)
<1> DEFINE m == Least(k, Len(s))
           a == SubSeq(s, 1, m)
           b == SubSeq(s, k + n + 1, Len(s))
<1>1. Len(s) \in Nat /\ m \in Nat /\ m <= Len(s) /\ k + n + 1 \in Nat /\ k + n + 1 >= 1
  BY DEF Least
<1>2. a \in Seq(T) /\ \A i \in DOMAIN a : i \in DOMAIN s /\ a[i] = s[i]
  <2> HIDE DEF m
  <2>1. \A i \in 1 .. m : s[i] \in T
    BY <1>1
  <2> QED BY <1>1, <2>1
<1>3. b \in Seq(T) /\ \A i \in DOMAIN b : i + k + n \in DOMAIN s /\ b[i] = s[i + k + n]
  <2>1. PICK p \in Nat : p = k + n + 1
    BY <1>1
  <2>2. \A i \in p .. Len(s) : s[i] \in T
    BY <1>1, <2>1
  <2>3. b = SubSeq(s, p, Len(s)) /\ p >= 1
    BY <2>1
  <2>4. b \in Seq(T)
    <3> HIDE DEF b
    <3> QED BY <1>1, <2>2, <2>3
  <2>5. /\ DOMAIN b = 1 .. (IF p <= Len(s) THEN Len(s) - p + 1 ELSE 0)
        /\ \A i \in DOMAIN b : b[i] = s[i + p - 1]
    <3> HIDE DEF b
    <3> QED BY <1>1, <2>3
  <2> HIDE DEF b
  <2>6. \A i \in DOMAIN b : i + k + n \in 1 .. Len(s) /\ i + p - 1 = i + k + n
    BY <1>1, <2>1, <2>5
  <2> QED BY <1>1, <2>4, <2>5, <2>6
<1>4. Splice(s, k, n, t) = a \o t \o b
  BY DEF Splice
<1> HIDE DEF a, b, m
<1>5. a \o t \in Seq(T) /\ \A i \in DOMAIN (a \o t) :
        \/ i \in DOMAIN a /\ (a \o t)[i] = a[i]
        \/ i - Len(a) \in DOMAIN t /\ (a \o t)[i] = t[i - Len(a)]
  BY <1>2
<1>6. PICK c : c = a \o t
  OBVIOUS
<1>7. c \o b \in Seq(T) /\ \A i \in DOMAIN (c \o b) :
        \/ i \in DOMAIN c /\ (c \o b)[i] = c[i]
        \/ i - Len(c) \in DOMAIN b /\ (c \o b)[i] = b[i - Len(c)]
  BY <1>3, <1>5, <1>6
<1>8. ASSUME NEW i \in DOMAIN (c \o b)
      PROVE \/ \E j \in DOMAIN s : (c \o b)[i] = s[j]
            \/ \E j \in DOMAIN t : (c \o b)[i] = t[j]
  <2>1. CASE i \in DOMAIN c /\ (c \o b)[i] = c[i]
    BY <1>2, <1>5, <1>6, <2>1
  <2>2. CASE i - Len(c) \in DOMAIN b /\ (c \o b)[i] = b[i - Len(c)]
    BY <1>3, <2>2
  <2> QED BY <1>7, <2>1, <2>2
<1>9. MadeOf(c \o b, s, t)
  BY <1>8 DEF MadeOf
<1> QED BY <1>4, <1>6, <1>7, <1>9

LEMMA LoadRows ==
  ASSUME ServerInv, HeapInv, ArraysInv, SameServer, NEW r \in RequestSet, RequestInv(r), Lists(r),
         heap' = Append(heap, Objects(r)),
         SpliceRows(r) \/ PushRows(r) \/ NewArray(Refs(r), "found")
  PROVE  HeapInv' /\ HeapGrows /\ ArraysInv' /\ ArraysGrow
<1>1. /\ HeapInv' /\ HeapGrows
      /\ Refs(r) \in Seq(Nat \X Ids)
      /\ \A rs : rs = Refs(r) => \A j \in DOMAIN rs : RefOK(rs[j])'
  BY LoadHeap
<1>2. PICK rs : rs = Refs(r)
  OBVIOUS
<1>3. rs \in Seq(Nat \X Ids) /\ \A j \in DOMAIN rs : RefOK(rs[j])'
  BY <1>1, <1>2
<1>4. /\ r.cap \in DOMAIN arrays /\ arrays[r.cap] \in ArraySet
      /\ r.start * r.size \in Nat
  <2>1. r.start \in Nat /\ r.size \in Nat
    BY DEF RequestSet, Positive
  <2> QED BY <2>1 DEF RequestInv, ArraysInv
<1>5. ASSUME NEW src \in Sources, NewArray(rs, src) PROVE ArraysInv' /\ ArraysGrow
  BY <1>1, <1>3, <1>5, ArraysAppend
<1>6. CASE NewArray(Refs(r), "found") \/ NewArray(Refs(r), "paged")
  BY <1>1, <1>2, <1>5, <1>6 DEF Sources
<1>7. CASE PushRows(r) /\ r.start # 0
  <2>1. arrays' = [arrays EXCEPT ![r.cap].rows = @ \o rs] /\ cur' = r.cap
    BY <1>2, <1>7 DEF PushRows
  <2> QED BY <1>1, <1>3, <1>4, <2>1, ArraysPush
<1>8. CASE SpliceRows(r) /\ r.start # 0
  <2>1. PICK old : old = arrays[r.cap].rows
    OBVIOUS
  <2>2. PICK src : src = arrays[r.cap].src
    OBVIOUS
  <2>3. PICK n \in Nat : n = Len(r.ans.rows)
    <3>1. r.ans.rows \in Seq(Ids)
      BY LoadObject
    <3> QED BY <3>1
  <2>4. PICK k \in Nat : k = r.start * r.size
    BY <1>4
  <2>5. PICK new : new = Splice(old, k, n, rs)
    OBVIOUS
  <2>6. old \in Seq(Nat \X Ids) /\ src \in Sources
    BY <1>4, <2>1, <2>2 DEF ArraySet, Sources
  <2>7. /\ new \in Seq(Nat \X Ids)
        /\ \A i \in DOMAIN new : \/ \E j \in DOMAIN old : new[i] = old[j]
                                 \/ \E j \in DOMAIN rs : new[i] = rs[j]
    <3> DEFINE T == Nat \X Ids
    <3>1. old \in Seq(T) /\ rs \in Seq(T)
      BY <1>3, <2>6
    <3> HIDE DEF T
    <3>2. new \in Seq(T) /\ MadeOf(new, old, rs)
      BY <2>5, <3>1, SpliceType
    <3> QED BY <3>2 DEF T, MadeOf
  <2>8. NewArray(new, src)
    BY <1>2, <1>8, <2>1, <2>2, <2>3, <2>4, <2>5 DEF SpliceRows
  <2>9. ASSUME NEW i \in DOMAIN new PROVE RefOK(new[i])'
    <3>1. CASE \E j \in DOMAIN old : new[i] = old[j]
      <4>1. RefOK(new[i])
        BY <1>4, <2>1, <3>1 DEF ArraysInv
      <4> QED BY <1>1, <4>1, RefKept
    <3>2. CASE \E j \in DOMAIN rs : new[i] = rs[j]
      <4>1. PICK j \in DOMAIN rs : new[i] = rs[j]
        BY <3>2
      <4>2. RefOK(rs[j])'
        BY <1>3
      <4> QED BY <4>1, <4>2
    <3> QED BY <2>7, <3>1, <3>2
  <2> QED BY <1>1, <2>6, <2>7, <2>8, <2>9, ArraysAppend
<1> QED BY <1>1, <1>6, <1>7, <1>8 DEF SpliceRows, PushRows

(***************************************************************************)
(* Steps of the browser                                                    *)
(***************************************************************************)
LEMMA QuietStep ==
  ASSUME IInv, SameServer, HeapInv', HeapGrows, ArraysInv', ArraysGrow, PagerInv',
         \A q \in net' : \/ q \in net
                         \/ q \in RequestSet /\ RequestInv(q)
                         \/ q \in RequestSet /\ RequestInv(q)'
  PROVE  IInv'
<1>1. Fates
  BY SameFates
<1>2. ServerInv'
  BY DEF IInv, ServerInv, SameServer, server, Known, Exists
<1>3. NetInv'
  BY <1>1, NetKept DEF IInv
<1> QED BY <1>2, <1>3 DEF IInv

SameRows == UNCHANGED <<heap, arrays, cur>>
LEMMA RowsKept ==
  ASSUME IInv, SameServer, SameRows
  PROVE  HeapInv' /\ HeapGrows /\ ArraysInv' /\ ArraysGrow
<1>1. Fates
  BY SameFates
<1>2. HeapInv' /\ HeapGrows
  BY <1>1, HeapKept DEF IInv, SameRows
<1> QED BY <1>2, ArraysKept DEF IInv, SameRows

\* The pager's variables after a step
Pager ==
  /\ page' \in Positive
  /\ size' \in Positive
  /\ total' \in Nat
  /\ query' \in Queries
  /\ table \notin Air => size' = size
LEMMA PagerKept ==
  ASSUME IInv, Pager, table' = table, issued' \in Nat
  PROVE  PagerInv'
BY DEF IInv, Pager, PagerInv

LEMMA AskStep ==
  ASSUME IInv, NEW f, Ask(f), SameRows, Pager,
         Request(f, issued + 1) \in RequestSet, RequestInv(Request(f, issued + 1))
  PROVE  IInv'
<1>1. SameServer /\ net' = net \cup {Request(f, issued + 1)} /\ issued' = issued + 1
  BY DEF Ask, SameServer
<1>2. PagerInv'
  BY <1>1, PagerKept DEF IInv, PagerInv, SameServer
<1>3. HeapInv' /\ HeapGrows /\ ArraysInv' /\ ArraysGrow
  BY <1>1, RowsKept
<1> QED BY <1>1, <1>2, <1>3, QuietStep

LEMMA ListAskStep ==
  ASSUME IInv, NEW f, Ask(f), SameRows, Pager, FieldTypes(f),
         "do" \in DOMAIN f => f.do \in {"load", "search", "sweep"}, "cap" \notin DOMAIN f
  PROVE  IInv'
<1>1. issued + 1 \in Nat
  BY DEF IInv, PagerInv
<1>2. Request(f, issued + 1) \in RequestSet /\ RequestInv(Request(f, issued + 1))
  BY <1>1, ListRequest DEF IInv
<1> QED BY <1>2, AskStep

LEMMA NoRequestStep ==
  ASSUME IInv, SameServer, net' = net, issued' = issued, SameRows, Pager
  PROVE  IInv'
<1>1. PagerInv'
  BY PagerKept DEF IInv, PagerInv, SameServer
<1>2. HeapInv' /\ HeapGrows /\ ArraysInv' /\ ArraysGrow
  BY RowsKept
<1> QED BY <1>1, <1>2, QuietStep

LEMMA DoneStep ==
  ASSUME IInv, NEW r, Done(r), HeapInv', HeapGrows, ArraysInv', ArraysGrow, Pager
  PROVE  IInv'
<1>1. SameServer /\ net' = net \ {r} /\ issued' = issued
  BY DEF Done, SameServer
<1>2. PagerInv'
  BY <1>1, PagerKept DEF IInv, PagerInv, SameServer
<1> QED BY <1>1, <1>2, QuietStep

LEMMA DoneOnly ==
  ASSUME IInv, NEW r, Done(r), SameRows, Pager
  PROVE  IInv'
<1>1. SameServer
  BY DEF Done, SameServer
<1> QED BY <1>1, RowsKept, DoneStep

\* A screen that does not change, and what most steps leave of the pager
LEMMA PagerSame ==
  ASSUME IInv, UNCHANGED <<page, size, total, query>>
  PROVE  Pager
BY DEF IInv, PagerInv, Pager

(***************************************************************************)
(* Rows that a click names                                                 *)
(***************************************************************************)
LEMMA ShownRow ==
  ASSUME IInv, NEW i \in Shown
  PROVE  /\ i \in Nat /\ i \in DOMAIN List
         /\ List[i] \in Nat \X Ids
         /\ IdOf(List[i]) \in Ids /\ List[i][2] = IdOf(List[i])
         /\ RefOK(List[i])
         /\ Known(IdOf(List[i]))
<1>1. i \in DOMAIN List
  BY DEF Shown, Positions
<1>2. cur \in DOMAIN arrays /\ arrays[cur] \in ArraySet
  BY DEF IInv, ArraysInv
<1>3. List \in Seq(Nat \X Ids)
  BY <1>2 DEF List, ArraySet
<1>4. i \in Nat /\ List[i] \in Nat \X Ids
  BY <1>1, <1>3
<1>5. RefOK(List[i])
  BY <1>1, <1>2 DEF IInv, ArraysInv, List
<1>6. Known(IdOf(List[i]))
  BY <1>5 DEF IInv, HeapInv, ObjectInv, RefOK, IdOf
<1> QED BY <1>1, <1>4, <1>5, <1>6 DEF IdOf

LEMMA RowAskStep ==
  ASSUME IInv, NEW i \in Shown, NEW do \in RowOps, AskRow(do, i)
  PROVE  IInv'
<1>1. /\ i \in Nat /\ i \in DOMAIN List /\ List[i] \in Nat \X Ids /\ IdOf(List[i]) \in Ids
      /\ List[i][2] = IdOf(List[i]) /\ RefOK(List[i]) /\ Known(IdOf(List[i]))
  BY ShownRow
<1> DEFINE f == [do |-> do, id |-> IdOf(List[i]), ref |-> List[i], idx |-> i - (page - 1) * size]
           q == Request(f, issued + 1)
<1>2. page - 1 \in Nat /\ size \in Nat /\ (page - 1) * size \in Nat /\ issued + 1 \in Nat
      /\ cur \in Nat /\ cur \in DOMAIN arrays
  BY DEF IInv, PagerInv, Positive, ArraysInv
<1>3. FieldTypes(f)
  BY <1>1, <1>2 DEF FieldTypes, Dos
<1>4. q \in RequestSet
  BY <1>2, <1>3, RequestType DEF IInv
<1>5. /\ q.do = do /\ q.id = IdOf(List[i]) /\ q.ref = List[i] /\ q.idx = i - (page - 1) * size
      /\ q.cap = cur /\ q.page = page /\ q.ans = None
  BY RequestFields
<1>6. Ask(f) /\ UNCHANGED screen
  BY DEF AskRow, AskOnly
<1> HIDE DEF f, q
<1>7. Names(q) => TargetInv(q)
  <2> SUFFICES ASSUME table \notin Berry PROVE TargetInv(q)
    BY DEF Names
  <2>1. CASE table \in Air
    BY <1>1, <1>5, <2>1 DEF TargetInv, List
  <2>2. CASE table \notin Air
    <3>1. size = PageSize
      BY <2>2 DEF IInv, PagerInv
    <3>2. (page - 1) * PageSize + (i - (page - 1) * size) = i
      BY <1>1, <1>2, <3>1
    <3> QED BY <1>1, <1>5, <2>2, <3>2 DEF TargetInv, List
  <2> QED BY <2>1, <2>2
<1>8. RequestInv(q)
  BY <1>1, <1>2, <1>5, <1>7 DEF RequestInv, None
<1> QED BY <1>4, <1>6, <1>8, AskStep, PagerSame DEF q, screen, SameRows

(***************************************************************************)
(* Steps of the server                                                     *)
(***************************************************************************)
LEMMA AnsweredStep ==
  ASSUME IInv, Fates, ServerInv', UNCHANGED <<table, screen, issued>>, NEW r \in net,
         NEW ans \in Failures \cup Contents, Answered(r, ans),
         \A q : q = [r EXCEPT !.ans = ans] /\ ans.ok = "ok" => AnswerInv(q)'
  PROVE  IInv'
<1>1. r \in RequestSet /\ RequestInv(r)
  BY DEF IInv, NetInv
<1>2. HeapInv' /\ HeapGrows
  BY HeapKept DEF IInv, screen
<1>3. ArraysInv' /\ ArraysGrow
  BY <1>2, ArraysKept DEF IInv, screen
<1>4. PagerInv'
  BY PagerKept, PagerSame DEF IInv, PagerInv, screen
<1>5. RequestInv(r)'
  BY <1>1, <1>2, <1>3, RequestKept
<1>6. PICK q : q = [r EXCEPT !.ans = ans]
  OBVIOUS
<1>7. q \in RequestSet /\ q.cap = r.cap /\ q.do = r.do /\ q.id = r.id /\ q.ref = r.ref
      /\ q.idx = r.idx /\ q.page = r.page /\ q.ans = ans
  BY <1>1, <1>6 DEF RequestSet
<1>8. RequestInv(q)'
  <2>1. q.cap \in DOMAIN arrays' /\ (q.do \in RowOps => q.id \in Ids /\ Known(q.id)')
    BY <1>5, <1>7 DEF RequestInv
  <2>2. Names(q)' => TargetInv(q)'
    BY <1>5, <1>7 DEF RequestInv, Names, TargetInv
  <2>3. q.ans.ok = "ok" => AnswerInv(q)'
    BY <1>6, <1>7
  <2> QED BY <2>1, <2>2, <2>3 DEF RequestInv
<1>9. \A p \in net' : \/ p \in net
                      \/ p \in RequestSet /\ RequestInv(p)'
  BY <1>6, <1>7, <1>8 DEF Answered
<1>10. NetInv'
  BY <1>2, <1>3, <1>9, NetKept DEF IInv
<1> QED BY <1>2, <1>3, <1>4, <1>10 DEF IInv

LEMMA OkType ==
  ASSUME ServerInv, NEW ids \in Seq(Ids), NEW s \in Values \cup Ids
  PROVE  Ok(ids, s) \in Contents /\ Ok(ids, s).ok = "ok"
BY DEF Ok, Contents, ServerInv

LEMMA EmptySeq == <<>> \in Seq(Ids) /\ Values \subseteq Values \cup Ids
OBVIOUS

LEMMA ServeListStep ==
  ASSUME IInv, NEW r \in net, ServeList(r), UNCHANGED <<table, screen, issued>>
  PROVE  IInv'
<1>1. r \in RequestSet /\ RequestInv(r) /\ ServerInv
  BY DEF IInv, NetInv
<1>2. PICK ids : ids = IF r.do = "load" THEN PageOf(Ordered(r.query), r.start) ELSE Keep(rows, Found)
  OBVIOUS
<1>3. ids \in Seq(Ids) /\ \A id \in Range(ids) : Exists(id)
  <2>1. CASE r.do = "load"
    <3>1. PICK s : s = Ordered(r.query)
      OBVIOUS
    <3>2. s \in Seq(Ids) /\ \A id \in Range(s) : Exists(id)
      BY <1>1, <3>1, OrderedType
    <3>3. PageOf(s, r.start) \in Seq(Ids) /\ \A x \in Range(PageOf(s, r.start)) : x \in Range(s)
      <4>1. r.start \in Nat
        BY <1>1 DEF RequestSet
      <4> QED BY <3>2, <4>1, PageOfType
    <3> QED BY <1>2, <2>1, <3>1, <3>2, <3>3
  <2>2. CASE r.do # "load"
    BY <1>1, <1>2, <2>2, KeepType DEF ServerInv, Exists
  <2> QED BY <2>1, <2>2
<1>4. PICK ans : ans = Ok(ids, 0)
  OBVIOUS
<1>5. ans \in Contents /\ ans.rows = ids /\ ans.status = status
  BY <1>1, <1>3, <1>4, OkType DEF Ok, Values, Unknown
<1>6. Answered(r, ans) /\ SameServer
  BY <1>2, <1>4 DEF ServeList, SameServer
<1>7. Fates /\ ServerInv'
  BY <1>1, <1>6, SameFates DEF ServerInv, SameServer, server, Known, Exists
<1>8. ASSUME NEW q, q = [r EXCEPT !.ans = ans] PROVE AnswerInv(q)'
  <2>1. q.do = r.do /\ q.ans = ans /\ r.do \in {"load", "search"}
    BY <1>1, <1>8 DEF RequestSet, ServeList
  <2>2. \A id \in Range(ids) : Known(id)' /\ status[id] \in had'[id]
    <3>1. \A id \in Range(ids) : id \in Ids
      BY <1>3 DEF Range
    <3> QED BY <1>1, <1>3, <1>6, <3>1 DEF ServerInv, SameServer, Known
  <2> QED BY <1>5, <2>1, <2>2 DEF AnswerInv, Writes
<1> QED BY <1>5, <1>6, <1>7, <1>8, AnsweredStep

LEMMA ServeDeleteStep ==
  ASSUME IInv, NEW r \in net, ServeDelete(r), UNCHANGED <<table, screen, issued>>
  PROVE  IInv'
<1>1. r \in RequestSet /\ RequestInv(r) /\ ServerInv /\ r.do = "delete" /\ r.id \in Ids
  BY DEF IInv, NetInv, ServeDelete, RequestInv, RowOps
<1>2. PICK ans : ans = Ok(<<>>, 0)
  OBVIOUS
<1>3. ans \in Contents /\ Answered(r, ans)
  BY <1>1, <1>2, OkType, EmptySeq DEF ServeDelete, Values, Unknown
<1>4. /\ rows' \in Seq(Ids) /\ \A x \in Range(rows') : x \in Range(rows) /\ x # r.id
      /\ epoch' \in Nat /\ UNCHANGED <<status, had>>
  BY <1>1, KeepType DEF ServeDelete, ServerInv
<1>5. ServerInv'
  BY <1>1, <1>4 DEF ServerInv, Known, Exists
<1>6. Fates
  BY <1>4 DEF Fates, Exists
<1>7. ASSUME NEW q, q = [r EXCEPT !.ans = ans] PROVE AnswerInv(q)'
  <2>1. q.do = "delete" /\ q.id = r.id
    BY <1>1, <1>7 DEF RequestSet
  <2> QED BY <1>4, <2>1 DEF AnswerInv, Writes, Exists
<1> QED BY <1>3, <1>5, <1>6, <1>7, AnsweredStep

LEMMA ServeUpdateStep ==
  ASSUME IInv, NEW r \in net, ServeUpdate(r), UNCHANGED <<table, screen, issued>>
  PROVE  IInv'
<1>1. r \in RequestSet /\ RequestInv(r) /\ ServerInv /\ r.do \in Writes /\ r.id \in Ids /\ Known(r.id)
  BY DEF IInv, NetInv, ServeUpdate, RequestInv, RowOps, Writes
<1>2. PICK s : s = CASE r.do = "enable" -> Enabled
                     [] r.do = "disable" -> Disabled
                     [] r.do = "touch" -> status[r.id]
  OBVIOUS
<1>3. s \in Statuses /\ s \in Values
  BY <1>1, <1>2 DEF Writes, ServerInv, Statuses, Values
<1>4. PICK ans : ans = Ok(<<>>, s)
  OBVIOUS
<1>5. ans \in Contents /\ ans.value = s
  BY <1>1, <1>3, <1>4, OkType, EmptySeq DEF Ok
<1>6. /\ Answered(r, ans)
      /\ status' = [status EXCEPT ![r.id] = s]
      /\ had' = [had EXCEPT ![r.id] = @ \cup {s}]
      /\ UNCHANGED <<rows, epoch>>
  BY <1>2, <1>4 DEF ServeUpdate
<1>7. ServerInv'
  <2>1. status' \in [Ids -> Statuses] /\ had' \in [Ids -> SUBSET Statuses]
    BY <1>1, <1>3, <1>6 DEF ServerInv
  <2>2. \A id \in Ids : IF Known(id)' THEN status'[id] \in had'[id]
                        ELSE ~Exists(id)' /\ status'[id] = Enabled
    BY <1>1, <1>3, <1>6 DEF ServerInv, Known, Exists
  <2> QED BY <1>1, <1>6, <2>1, <2>2 DEF ServerInv
<1>8. Fates
  BY <1>1, <1>6 DEF Fates, ServerInv, Exists
<1>9. ASSUME NEW q, q = [r EXCEPT !.ans = ans] PROVE AnswerInv(q)'
  <2>1. q.do = r.do /\ q.id = r.id /\ q.ans = ans
    BY <1>1, <1>9 DEF RequestSet
  <2>2. s \in had'[r.id]
    BY <1>1, <1>6 DEF ServerInv
  <2> QED BY <1>1, <1>3, <1>5, <2>1, <2>2 DEF AnswerInv, Writes
<1> QED BY <1>5, <1>6, <1>7, <1>8, <1>9, AnsweredStep

LEMMA ServeAbsentStep ==
  ASSUME IInv, NEW r \in net, ServeAbsent(r), UNCHANGED <<table, screen, issued>>
  PROVE  IInv'
<1>1. r \in RequestSet /\ RequestInv(r) /\ ServerInv /\ ~Exists(r.id)
      /\ r.do \in {"delete", "enable", "disable", "touch"}
  BY DEF IInv, NetInv, ServeAbsent
<1>2. SameServer
  BY DEF ServeAbsent, SameServer
<1>3. Fates /\ ServerInv'
  BY <1>1, <1>2, SameFates DEF ServerInv, SameServer, server, Known, Exists
<1>4. PICK s : s = CASE r.do = "enable" -> Enabled
                     [] r.do = "disable" -> Disabled
                     [] OTHER -> Unknown
  OBVIOUS
<1>5. s \in Values
  BY <1>4 DEF Values
<1>6. PICK ans : ans = IF table \in Channels THEN Ok(<<>>, s) ELSE [ok |-> "refused"]
  OBVIOUS
<1>7. ans \in Failures \cup Contents /\ (ans.ok = "ok" => ans.value = s)
  BY <1>1, <1>5, <1>6, OkType, EmptySeq DEF Ok, Failures
<1>8. Answered(r, ans)
  BY <1>4, <1>6 DEF ServeAbsent
<1>9. ASSUME NEW q, q = [r EXCEPT !.ans = ans], ans.ok = "ok" PROVE AnswerInv(q)'
  <2>1. q.do = r.do /\ q.id = r.id /\ q.ans = ans
    BY <1>1, <1>9 DEF RequestSet
  <2>2. ~Exists(r.id)'
    BY <1>1, <1>2 DEF SameServer, server, Exists
  <2> QED BY <1>1, <1>5, <1>7, <1>9, <2>1, <2>2 DEF AnswerInv, Writes
<1> QED BY <1>3, <1>7, <1>8, <1>9, AnsweredStep

LEMMA ServeSweepStep ==
  ASSUME IInv, NEW r \in net, ServeSweep(r), UNCHANGED <<table, screen, issued>>
  PROVE  IInv'
<1>1. r \in RequestSet /\ RequestInv(r) /\ ServerInv /\ r.do = "sweep"
  BY DEF IInv, NetInv, ServeSweep
<1>2. PICK ans : ans = Ok(<<>>, 0)
  OBVIOUS
<1>3. ans \in Contents /\ Answered(r, ans)
  BY <1>1, <1>2, OkType, EmptySeq DEF ServeSweep, Values, Unknown
<1>4. /\ rows' \in Seq(Ids) /\ \A x \in Range(rows') : x \in Range(rows)
      /\ epoch' \in Nat /\ UNCHANGED <<status, had>>
  BY <1>1, KeepType DEF ServeSweep, ServerInv, Sweep
<1>5. ServerInv'
  BY <1>1, <1>4 DEF ServerInv, Known, Exists
<1>6. Fates
  BY <1>4 DEF Fates, Exists
<1>7. ASSUME NEW q, q = [r EXCEPT !.ans = ans] PROVE AnswerInv(q)'
  <2>1. q.do = "sweep"
    BY <1>1, <1>7 DEF RequestSet
  <2> QED BY <2>1 DEF AnswerInv, Writes
<1> QED BY <1>3, <1>5, <1>6, <1>7, AnsweredStep

LEMMA ServeMeasureStep ==
  ASSUME IInv, NEW r \in net, ServeMeasure(r), UNCHANGED <<table, screen, issued>>
  PROVE  IInv'
<1>1. r \in RequestSet /\ RequestInv(r) /\ ServerInv /\ r.do \in {"test", "balance"} /\ r.id \in Ids
  BY DEF IInv, NetInv, ServeMeasure, RequestInv, RowOps
<1>2. SameServer
  BY DEF ServeMeasure, SameServer
<1>3. Fates /\ ServerInv'
  BY <1>1, <1>2, SameFates DEF ServerInv, SameServer, server, Known, Exists
<1>4. PICK ans : ans = Ok(<<>>, r.id)
  OBVIOUS
<1>5. ans \in Contents /\ ans.value = r.id /\ Answered(r, ans)
  BY <1>1, <1>4, OkType, EmptySeq DEF Ok, ServeMeasure
<1>6. ASSUME NEW q, q = [r EXCEPT !.ans = ans] PROVE AnswerInv(q)'
  <2>1. q.do = r.do /\ q.id = r.id /\ q.ans = ans
    BY <1>1, <1>6 DEF RequestSet
  <2> QED BY <1>1, <1>5, <2>1 DEF AnswerInv, Writes
<1> QED BY <1>3, <1>5, <1>6, AnsweredStep

LEMMA ServeStep ==
  ASSUME IInv, Serve
  PROVE  IInv'
<1>1. PICK r \in net :
        /\ \/ ServeList(r) \/ ServeDelete(r) \/ ServeUpdate(r)
           \/ ServeAbsent(r) \/ ServeSweep(r) \/ ServeMeasure(r)
        /\ UNCHANGED <<table, screen, issued>>
  BY DEF Serve
<1> QED BY <1>1, ServeListStep, ServeDeleteStep, ServeUpdateStep, ServeAbsentStep,
           ServeSweepStep, ServeMeasureStep

LEMMA RefuseStep ==
  ASSUME IInv, Refuse
  PROVE  IInv'
<1>1. PICK r \in net, a \in {"refused", "lost"} :
        /\ Answered(r, [ok |-> a])
        /\ UNCHANGED <<table, server, screen, issued, had>>
  BY DEF Refuse
<1>2. SameServer
  BY <1>1 DEF SameServer
<1>3. Fates /\ ServerInv'
  BY <1>2, SameFates DEF IInv, ServerInv, SameServer, server, Known, Exists
<1>4. PICK ans : ans = [ok |-> a]
  OBVIOUS
<1>5. ans \in Failures /\ ans.ok # "ok"
  BY <1>4 DEF Failures
<1> QED BY <1>1, <1>3, <1>4, <1>5, AnsweredStep

LEMMA OthersStep ==
  ASSUME IInv, Others
  PROVE  IInv'
<1>1. UNCHANGED <<table, screen, net, issued>>
  BY DEF Others, wire
<1>2. ServerInv
  BY DEF IInv
<1>3. ASSUME Fates, ServerInv' PROVE IInv'
  <2>1. HeapInv' /\ HeapGrows
    BY <1>1, <1>3, HeapKept DEF IInv, screen
  <2>2. ArraysInv' /\ ArraysGrow
    BY <1>1, <2>1, ArraysKept DEF IInv, screen
  <2>3. PagerInv'
    BY <1>1, PagerKept, PagerSame DEF IInv, PagerInv, screen
  <2>4. NetInv'
    BY <1>1, <1>3, <2>1, <2>2, NetKept DEF IInv
  <2> QED BY <1>3, <2>1, <2>2, <2>3, <2>4 DEF IInv
<1>4. CASE /\ had[NewRow] = {}
           /\ rows' = <<NewRow>> \o rows
           /\ epoch' = epoch + 1
           /\ had' = [had EXCEPT ![NewRow] = {Enabled}]
           /\ UNCHANGED status
  <2>1. NewRow \in Ids
    BY DEF Ids
  <2>2. /\ rows' \in Seq(Ids)
        /\ \A id : id \in Range(rows') => id = NewRow \/ id \in Range(rows)
    <3>1. <<NewRow>> \in Seq(Ids) /\ rows \in Seq(Ids)
      BY <1>2, <2>1 DEF ServerInv
    <3>2. rows' \in Seq(Ids) /\ \A i \in DOMAIN rows' : IF i = 1 THEN rows'[i] = NewRow
                                                        ELSE i - 1 \in DOMAIN rows /\ rows'[i] = rows[i - 1]
      BY <1>4, <3>1
    <3> QED BY <3>2 DEF Range
  <2>3. ServerInv'
    <3>1. had' \in [Ids -> SUBSET Statuses]
      BY <1>2, <1>4, <2>1 DEF ServerInv, Statuses
    <3>2. \A id \in Ids : IF Known(id)' THEN status'[id] \in had'[id]
                          ELSE ~Exists(id)' /\ status'[id] = Enabled
      BY <1>2, <1>4, <2>1, <2>2 DEF ServerInv, Known, Exists
    <3> QED BY <1>2, <1>4, <2>2, <3>1, <3>2 DEF ServerInv
  <2>4. Fates
    BY <1>1, <1>2, <1>4, <2>1, <2>2 DEF Fates, ServerInv, Known, Exists
  <2> QED BY <1>3, <2>3, <2>4
<1>5. CASE \E id \in Range(rows) \cap Touched :
             /\ rows' = Keep(rows, Ids \ {id})
             /\ epoch' = epoch + 1
             /\ UNCHANGED <<status, had>>
  <2>1. /\ rows' \in Seq(Ids) /\ \A x \in Range(rows') : x \in Range(rows)
        /\ epoch' \in Nat /\ UNCHANGED <<status, had>>
    BY <1>2, <1>5, KeepType DEF ServerInv
  <2>2. ServerInv'
    BY <1>2, <2>1 DEF ServerInv, Known, Exists
  <2>3. Fates
    BY <1>1, <2>1 DEF Fates, Exists
  <2> QED BY <1>3, <2>2, <2>3
<1>6. CASE \E id \in Range(rows) \cap Touched, s \in Statuses :
             /\ status' = [status EXCEPT ![id] = s]
             /\ had' = [had EXCEPT ![id] = @ \cup {s}]
             /\ UNCHANGED <<rows, epoch>>
  <2>1. PICK id \in Range(rows), s \in Statuses :
             /\ status' = [status EXCEPT ![id] = s]
             /\ had' = [had EXCEPT ![id] = @ \cup {s}]
             /\ UNCHANGED <<rows, epoch>>
    BY <1>6
  <2>2. id \in Ids
    BY <1>2 DEF ServerInv, Range
  <2>3. ServerInv'
    <3>1. status' \in [Ids -> Statuses] /\ had' \in [Ids -> SUBSET Statuses]
      BY <1>2, <2>1, <2>2 DEF ServerInv
    <3>2. \A i \in Ids : IF Known(i)' THEN status'[i] \in had'[i]
                         ELSE ~Exists(i)' /\ status'[i] = Enabled
      BY <1>2, <2>1, <2>2 DEF ServerInv, Known, Exists
    <3> QED BY <1>2, <2>1, <3>1, <3>2 DEF ServerInv
  <2>4. Fates
    BY <1>1, <1>2, <2>1 DEF Fates, ServerInv, Exists
  <2> QED BY <1>3, <2>3, <2>4
<1> QED BY <1>4, <1>5, <1>6 DEF Others

(***************************************************************************)
(* Continuations                                                           *)
(***************************************************************************)
LEMMA FollowUp ==
  ASSUME IInv, SameServer, NEW r \in net, NEW f, Next2(r, f), FieldTypes(f), "do" \notin DOMAIN f,
         "cap" \in DOMAIN f, f.cap \in DOMAIN arrays',
         HeapInv', HeapGrows, ArraysInv', ArraysGrow, Pager
  PROVE  IInv'
<1>1. r.n \in Nat /\ cur \in Nat
  BY DEF IInv, NetInv, RequestSet, ArraysInv
<1>2. PICK q : q = Request(f, r.n)
  OBVIOUS
<1>3. q \in RequestSet
  BY <1>1, <1>2, RequestType DEF IInv
<1>4. q.do = "load" /\ q.cap = f.cap /\ q.ans = None
  BY <1>2, RequestFields
<1>5. RequestInv(q)'
  BY <1>4 DEF RequestInv, RowOps, Names, None
<1>6. net' = (net \ {r}) \cup {q} /\ issued' = issued + 1
  BY <1>2 DEF Next2
<1>7. PagerInv'
  BY <1>6, PagerKept DEF IInv, PagerInv, SameServer
<1>8. \A p \in net' : \/ p \in net
                      \/ p \in RequestSet /\ RequestInv(p)'
  BY <1>3, <1>5, <1>6
<1> QED BY <1>7, <1>8, QuietStep

LEMMA ThenLoadStep ==
  ASSUME IInv, NEW r \in net, NEW then \in {"none", "clear", "switch"}, ThenLoad(r, then),
         SameRows, Pager
  PROVE  IInv'
<1>1. r \in RequestSet /\ r.cap \in DOMAIN arrays
  BY DEF IInv, NetInv, RequestInv
<1>2. SameServer
  BY DEF ThenLoad, Next2, SameServer
<1>3. HeapInv' /\ HeapGrows /\ ArraysInv' /\ ArraysGrow
  BY <1>2, RowsKept
<1> DEFINE f == [start |-> r.page - 1, id |-> r.id, value |-> r.value, then |-> then, cap |-> r.cap,
                 page |-> r.page, size |-> r.size, closure |-> r.closure, query |-> r.query]
<1>4. FieldTypes(f)
  BY <1>1 DEF FieldTypes, RequestSet, Positive
<1>5. Next2(r, f) /\ f.cap \in DOMAIN arrays' /\ "do" \notin DOMAIN f /\ "cap" \in DOMAIN f
  BY <1>1 DEF ThenLoad, SameRows
<1> HIDE DEF f
<1> QED BY <1>2, <1>3, <1>4, <1>5, FollowUp

LEMMA AfterLoadStep ==
  ASSUME IInv, SameServer, NEW r \in net, AfterLoad(r), HeapInv', HeapGrows, ArraysInv', ArraysGrow,
         size' = size, total' \in Nat
  PROVE  IInv'
<1>1. r \in RequestSet
  BY DEF IInv, NetInv
<1>2. Pager
  <2>1. page' \in Positive
    <3>1. r.goto \in Nat /\ page \in Nat \ {0}
      BY <1>1 DEF RequestSet, IInv, PagerInv, Positive
    <3>2. page' = IF r.goto > 0 THEN r.goto ELSE page
      BY DEF AfterLoad
    <3> QED BY <3>1, <3>2 DEF Positive
  <2>2. query' \in Queries
    BY DEF AfterLoad, Queries, IInv, PagerInv
  <2> QED BY <2>1, <2>2 DEF Pager, IInv, PagerInv
<1>3. CASE r.then = "clear" /\ query # ""
  <2>1. PICK c : c = cur'
    OBVIOUS
  <2>2. c \in DOMAIN arrays' /\ c \in Nat
    BY <2>1 DEF ArraysInv
  <2> DEFINE f == [query |-> "", page |-> 1, cap |-> c]
  <2>3. FieldTypes(f) /\ f.cap \in DOMAIN arrays' /\ "do" \notin DOMAIN f /\ "cap" \in DOMAIN f
    BY <2>2 DEF FieldTypes, Positive, Queries
  <2>4. Next2(r, f)
    BY <1>3, <2>1 DEF AfterLoad
  <2> HIDE DEF f
  <2> QED BY <1>2, <2>3, <2>4, FollowUp
<1>4. CASE ~(r.then = "clear" /\ query # "")
  <2>1. Done(r)
    BY <1>4 DEF AfterLoad
  <2> QED BY <1>2, <2>1, DoneStep
<1> QED BY <1>3, <1>4

LEMMA AnsweredOk ==
  ASSUME IInv, NEW r \in net, r.do \in {"load", "search"}, r.ans.ok = "ok"
  PROVE  r \in RequestSet /\ RequestInv(r) /\ Lists(r) /\ ServerInv /\ HeapInv /\ ArraysInv
BY DEF IInv, NetInv, Lists

LEMMA AfterLoadSame == \A r : AfterLoad(r) => SameServer
BY DEF AfterLoad, Next2, Done, SameServer

LEMMA LoadRefusedStep ==
  ASSUME IInv, NEW r \in net, LoadRefused(r)
  PROVE  IInv'
<1>1. SameServer /\ SameRows /\ size' = size /\ total' \in Nat /\ AfterLoad(r)
  BY AfterLoadSame DEF LoadRefused, SameRows, IInv, PagerInv
<1>2. HeapInv' /\ HeapGrows /\ ArraysInv' /\ ArraysGrow
  BY <1>1, RowsKept
<1> QED BY <1>1, <1>2, AfterLoadStep

LEMMA LoadArrivesStep ==
  ASSUME IInv, NEW r \in net, r.do = "load", LoadArrives(r), total' \in Nat
  PROVE  IInv'
<1>1. SameServer /\ AfterLoad(r) /\ size' = size /\ heap' = Append(heap, Objects(r))
      /\ r.ans.ok = "ok"
  BY AfterLoadSame DEF LoadArrives
<1>2. SpliceRows(r) \/ PushRows(r)
  BY DEF LoadArrives
<1>3. HeapInv' /\ HeapGrows /\ ArraysInv' /\ ArraysGrow
  BY <1>1, <1>2, AnsweredOk, LoadRows
<1> QED BY <1>1, <1>3, AfterLoadStep

LEMMA SearchArrivesStep ==
  ASSUME IInv, NEW r \in net, r.do = "search", SearchArrives(r), total' \in Nat
  PROVE  IInv'
<1>1. /\ Done(r) /\ SameServer /\ heap' = Append(heap, Objects(r)) /\ NewArray(Refs(r), "found")
      /\ r.ans.ok = "ok" /\ page' = 1 /\ UNCHANGED <<size, query>>
  BY DEF SearchArrives, Done, SameServer
<1>2. HeapInv' /\ HeapGrows /\ ArraysInv' /\ ArraysGrow
  BY <1>1, AnsweredOk, LoadRows
<1>3. Pager
  BY <1>1 DEF Pager, IInv, PagerInv, Positive
<1> QED BY <1>1, <1>2, <1>3, DoneStep

LEMMA FailsStep ==
  ASSUME IInv, NEW dos, Fails(dos)
  PROVE  IInv'
<1>1. PICK r : UNCHANGED screen /\ Done(r)
  BY DEF Fails, HandlerDies, Complain
<1>2. SameRows /\ UNCHANGED <<page, size, total, query>>
  BY <1>1 DEF screen, SameRows
<1> QED BY <1>1, <1>2, PagerSame, DoneOnly

LEMMA DiesStep ==
  ASSUME IInv, NEW dos, HandlerDies(dos)
  PROVE  IInv'
BY FailsStep DEF Fails

LEMMA LoadEndsStep ==
  ASSUME IInv, LoadEnds \/ HandlerDies({"load"})
  PROVE  IInv'
<1>1. CASE LoadEnds
  <2>1. PICK r \in net : r.do = "load" /\ (LoadRefused(r) \/ (LoadArrives(r) /\ UNCHANGED total))
    BY <1>1 DEF LoadEnds, Answers
  <2>2. total' \in Nat \/ LoadRefused(r)
    BY <2>1 DEF IInv, PagerInv
  <2> QED BY <2>1, <2>2, LoadRefusedStep, LoadArrivesStep DEF IInv, PagerInv
<1> QED BY <1>1, DiesStep

(***************************************************************************)
(* Marks on a row object, and arrays made of an array                      *)
(***************************************************************************)
LEMMA SetStatusHeap ==
  ASSUME IInv, SameServer, NEW ref, RefOK(ref), NEW v \in Values, Exists(ref[2]) => v \in had[ref[2]],
         SetStatus(ref, v)
  PROVE  HeapInv' /\ HeapGrows
<1>1. PICK o : o = heap[ref[1]]
  OBVIOUS
<1>2. o \in ObjectSet /\ ObjectInv(o) /\ ref[2] \in DOMAIN o.status
  BY <1>1 DEF IInv, HeapInv, RefOK
<1>3. PICK p : p = [o EXCEPT !.status[ref[2]] = v]
  OBVIOUS
<1>4. p \in ObjectSet /\ ObjectInv(p) /\ DOMAIN p.status = DOMAIN o.status
  BY <1>2, <1>3, ObjectStatus
<1>5. heap' = [heap EXCEPT ![ref[1]] = p]
  BY <1>1, <1>3 DEF SetStatus
<1> QED BY <1>1, <1>4, <1>5, HeapChange DEF IInv

LEMMA TestedHeap ==
  ASSUME IInv, SameServer, NEW ref, RefOK(ref),
         heap' = [heap EXCEPT ![ref[1]].tested[ref[2]] = ref[2]]
  PROVE  HeapInv' /\ HeapGrows
<1>1. PICK o : o = heap[ref[1]]
  OBVIOUS
<1>2. o \in ObjectSet /\ ObjectInv(o) /\ ref[2] \in DOMAIN o.status
  BY <1>1 DEF IInv, HeapInv, RefOK
<1>3. PICK p : p = [o EXCEPT !.tested[ref[2]] = ref[2]]
  OBVIOUS
<1>4. p \in ObjectSet /\ ObjectInv(p) /\ DOMAIN p.status = DOMAIN o.status
  BY <1>2, <1>3, ObjectTested
<1>5. heap' = [heap EXCEPT ![ref[1]] = p]
  BY <1>1, <1>3
<1> QED BY <1>1, <1>4, <1>5, HeapChange DEF IInv

LEMMA BalanceHeap ==
  ASSUME IInv, SameServer, NEW ref, NEW v \in Ids, table = "default/channels" \/ v = ref[2],
         heap' = [heap EXCEPT ![ref[1]].balance[ref[2]] = v]
  PROVE  HeapInv' /\ HeapGrows
<1>1. PICK o : o = heap[ref[1]]
  OBVIOUS
<1>2. PICK p : p = [o EXCEPT !.balance[ref[2]] = v]
  OBVIOUS
<1>3. ref[1] \in DOMAIN heap =>
        p \in ObjectSet /\ ObjectInv(p) /\ DOMAIN p.status = DOMAIN heap[ref[1]].status
  <2> SUFFICES ASSUME ref[1] \in DOMAIN heap
               PROVE  p \in ObjectSet /\ ObjectInv(p) /\ DOMAIN p.status = DOMAIN o.status
    BY <1>1
  <2>1. o \in ObjectSet /\ ObjectInv(o)
    BY <1>1 DEF IInv, HeapInv
  <2> QED BY <1>2, <2>1, ObjectBalance
<1>4. heap' = [heap EXCEPT ![ref[1]] = p]
  BY <1>1, <1>2
<1> QED BY <1>3, <1>4, HeapChange DEF IInv

LEMMA DeletedHeap ==
  ASSUME IInv, SameServer, NEW ref, RefOK(ref), ref[2] \in Ids, Known(ref[2]), ~Exists(ref[2]),
         heap' = [heap EXCEPT ![ref[1]].deleted = @ \cup {ref[2]}]
  PROVE  HeapInv' /\ HeapGrows
<1>1. PICK o : o = heap[ref[1]]
  OBVIOUS
<1>2. o \in ObjectSet /\ ObjectInv(o)
  BY <1>1 DEF IInv, HeapInv, RefOK
<1>3. PICK p : p = [o EXCEPT !.deleted = @ \cup {ref[2]}]
  OBVIOUS
<1>4. p \in ObjectSet /\ ObjectInv(p) /\ DOMAIN p.status = DOMAIN o.status
  BY <1>2, <1>3, ObjectDeleted
<1>5. heap' = [heap EXCEPT ![ref[1]] = p]
  BY <1>1, <1>3
<1> QED BY <1>1, <1>4, <1>5, HeapChange DEF IInv

LEMMA OldRefsArray ==
  ASSUME IInv, HeapGrows, NEW rs \in Seq(Nat \X Ids), NEW src \in Sources, NewArray(rs, src),
         \A j \in DOMAIN rs : RefOK(rs[j])
  PROVE  ArraysInv' /\ ArraysGrow
<1>1. \A j \in DOMAIN rs : RefOK(rs[j])'
  <2> TAKE j \in DOMAIN rs
  <2>1. RefOK(rs[j])
    OBVIOUS
  <2> QED BY <2>1, RefKept
<1> QED BY <1>1, ArraysAppend DEF IInv

LEMMA ArrayRows ==
  ASSUME IInv, NEW k \in DOMAIN arrays
  PROVE  /\ arrays[k].rows \in Seq(Nat \X Ids)
         /\ arrays[k].src \in Sources
         /\ \A j \in DOMAIN arrays[k].rows : RefOK(arrays[k].rows[j])
<1>1. arrays[k] \in ArraySet
  BY DEF IInv, ArraysInv
<1>2. arrays[k].rows \in Seq(Nat \X Ids) /\ arrays[k].src \in Sources
  BY <1>1 DEF ArraySet, Sources
<1>3. \A j \in DOMAIN arrays[k].rows : RefOK(arrays[k].rows[j])
  BY DEF IInv, ArraysInv
<1> QED BY <1>2, <1>3

LEMMA CopyArray ==
  ASSUME IInv, HeapGrows, NEW k \in DOMAIN arrays, CopyOf(k)
  PROVE  ArraysInv' /\ ArraysGrow
<1>1. PICK rs : rs = arrays[k].rows
  OBVIOUS
<1>2. PICK src : src = arrays[k].src
  OBVIOUS
<1> QED BY <1>1, <1>2, ArrayRows, OldRefsArray DEF CopyOf

(***************************************************************************)
(* The default theme                                                       *)
(***************************************************************************)
LEMMA ShowCopyStep ==
  ASSUME IInv, NEW r \in net, ShowCopy(r), HeapInv', HeapGrows
  PROVE  IInv'
<1>1. r.cap \in DOMAIN arrays
  BY DEF IInv, NetInv, RequestInv
<1>2. CopyOf(r.cap) /\ Done(r) /\ UNCHANGED <<page, size, total, query>>
  BY DEF ShowCopy
<1>3. ArraysInv' /\ ArraysGrow
  BY <1>1, <1>2, CopyArray
<1> QED BY <1>2, <1>3, PagerSame, DoneStep

LEMMA TargetRow ==
  ASSUME IInv, NEW r \in net, table \notin Berry, r.do \in RowOps,
         ~(table = "default/channels" /\ r.do = "balance")
  PROVE  /\ RefOK(r.ref) /\ r.ref[2] = r.id /\ r.id \in Ids /\ Known(r.id)
         /\ r.cap \in DOMAIN arrays
         /\ table \in Air => \E j \in DOMAIN arrays[r.cap].rows : arrays[r.cap].rows[j] = r.ref
         /\ table \notin Air => RowAt(r) = r.ref
         /\ r.ans.ok = "ok" => AnswerInv(r)
BY DEF IInv, NetInv, RequestInv, Names, TargetInv, RowAt

LEMMA ManagedStep ==
  ASSUME IInv, table \notin Air, table \notin Berry,
         NEW dos \in SUBSET {"delete", "enable", "disable", "touch"}, Managed(dos)
  PROVE  IInv'
<1>1. CASE Fails(dos)
  BY <1>1, FailsStep
<1>2. ASSUME NEW r \in Fine(dos),
             IF r.do = "delete" THEN Mark(RowAt(r)) ELSE SetStatus(RowAt(r), r.ans.value),
             ShowCopy(r)
      PROVE  IInv'
  <2>1. r \in net /\ r.do \in dos /\ r.ans.ok = "ok"
    BY <1>2 DEF Fine, Answers
  <2>2. r.do \in RowOps /\ r.do # "balance"
    BY <2>1 DEF RowOps
  <2>3. /\ RefOK(r.ref) /\ r.ref[2] = r.id /\ r.id \in Ids /\ Known(r.id)
        /\ RowAt(r) = r.ref /\ AnswerInv(r)
    BY <2>1, <2>2, TargetRow
  <2>4. SameServer
    BY <1>2 DEF ShowCopy, Done, SameServer
  <2>5. CASE r.do = "delete"
    <3>1. ~Exists(r.id)
      BY <2>3, <2>5 DEF AnswerInv
    <3>2. heap' = [heap EXCEPT ![r.ref[1]].deleted = @ \cup {r.ref[2]}]
      BY <1>2, <2>3, <2>5 DEF Mark
    <3>3. HeapInv' /\ HeapGrows
      BY <2>3, <2>4, <3>1, <3>2, DeletedHeap
    <3> QED BY <1>2, <2>1, <3>3, ShowCopyStep
  <2>6. CASE r.do # "delete"
    <3>1. r.do \in Writes
      BY <2>1, <2>6 DEF Writes
    <3>2. r.ans.value \in Values /\ (Exists(r.ref[2]) => r.ans.value \in had[r.ref[2]])
      BY <2>3, <3>1 DEF AnswerInv
    <3>3. SetStatus(r.ref, r.ans.value)
      BY <1>2, <2>3, <2>6
    <3>4. HeapInv' /\ HeapGrows
      BY <2>3, <2>4, <3>2, <3>3, SetStatusHeap
    <3> QED BY <1>2, <2>1, <3>4, ShowCopyStep
  <2> QED BY <2>5, <2>6
<1> QED BY <1>1, <1>2 DEF Managed

LEMMA SortStep ==
  ASSUME IInv, NEW key, SortRows(key)
  PROVE  IInv'
<1>1. cur \in DOMAIN arrays
  BY DEF IInv, ArraysInv
<1>2. List \in Seq(Nat \X Ids) /\ \A j \in DOMAIN List : RefOK(List[j])
  BY <1>1, ArrayRows DEF List
<1>3. PICK p \in [DOMAIN List -> DOMAIN List] :
        LET sorted == [i \in DOMAIN List |-> List[p[i]]]
        IN  NewArray(IF IdOf(sorted[1]) = IdOf(List[1]) THEN Reverse(sorted) ELSE sorted, "sorted")
  BY DEF SortRows
<1>4. PICK sorted : sorted = [i \in DOMAIN List |-> List[p[i]]]
  OBVIOUS
<1>5. sorted \in Seq(Nat \X Ids) /\ \A j \in DOMAIN sorted : RefOK(sorted[j])
  <2>1. Len(List) \in Nat /\ DOMAIN List = 1 .. Len(List)
    BY <1>2
  <2>2. \A i \in 1 .. Len(List) : List[p[i]] \in Nat \X Ids /\ RefOK(List[p[i]])
    BY <1>2, <2>1
  <2> QED BY <1>4, <2>1, <2>2
<1>6. PICK rs : rs = IF IdOf(sorted[1]) = IdOf(List[1]) THEN Reverse(sorted) ELSE sorted
  OBVIOUS
<1>7. rs \in Seq(Nat \X Ids) /\ \A j \in DOMAIN rs : RefOK(rs[j])
  <2>1. /\ Reverse(sorted) \in Seq(Nat \X Ids)
        /\ DOMAIN Reverse(sorted) = DOMAIN sorted
        /\ \A i \in DOMAIN sorted : /\ Len(sorted) - i + 1 \in DOMAIN sorted
                                    /\ Reverse(sorted)[i] = sorted[Len(sorted) - i + 1]
    BY <1>5, ReverseType
  <2>2. \A i \in DOMAIN Reverse(sorted) : RefOK(Reverse(sorted)[i])
    BY <1>5, <2>1
  <2> QED BY <1>5, <1>6, <2>1, <2>2
<1>8. NewArray(rs, "sorted")
  BY <1>3, <1>4, <1>6
<1>9. /\ SameServer /\ net' = net /\ issued' = issued /\ heap' = heap
      /\ UNCHANGED <<page, size, total, query>>
  BY DEF SortRows, NoRequest, SameServer, wire
<1>10. HeapInv' /\ HeapGrows
  BY <1>9, SameFates, HeapKept DEF IInv
<1>11. ArraysInv' /\ ArraysGrow
  BY <1>7, <1>8, <1>10, OldRefsArray DEF Sources
<1>12. PagerInv'
  BY <1>9, PagerSame, PagerKept DEF IInv, PagerInv, SameServer
<1> QED BY <1>9, <1>10, <1>11, <1>12, QuietStep

LEMMA ListClick ==
  ASSUME IInv, NEW f, AskOnly(f), FieldTypes(f),
         "do" \in DOMAIN f => f.do \in {"load", "search", "sweep"}, "cap" \notin DOMAIN f
  PROVE  IInv'
BY PagerSame, ListAskStep DEF AskOnly, screen, SameRows

LEMMA SearchClick ==
  ASSUME IInv, NEW then \in {"none", "clear"}, Search(then)
  PROVE  IInv'
<1>1. FieldTypes([do |-> "search"]) /\ FieldTypes([goto |-> 1, then |-> then])
  BY DEF FieldTypes, Dos
<1>2. CASE AskOnly([do |-> "search"])
  BY <1>1, <1>2, ListClick
<1>3. CASE AskOnly([goto |-> 1, then |-> then])
  BY <1>1, <1>3, ListClick
<1> QED BY <1>2, <1>3 DEF Search

LEMMA SweepClick ==
  ASSUME IInv, AskOnly([do |-> "sweep"])
  PROVE  IInv'
<1>1. FieldTypes([do |-> "sweep"])
  BY DEF FieldTypes, Dos
<1> QED BY <1>1, ListClick

LEMMA ToggleStep ==
  ASSUME IInv, NEW i \in Shown, AskToggle(i)
  PROVE  IInv'
<1>1. \E do \in {"enable", "disable"} : AskRow(do, i)
  BY DEF AskToggle
<1> QED BY <1>1, RowAskStep DEF RowOps

LEMMA PagesNat ==
  ASSUME IInv, NEW p \in 1 .. Pages
  PROVE  p \in Positive /\ p - 1 \in Nat /\ p \in Nat
<1>1. PageSize \in Nat \ {0} /\ size \in Nat \ {0} /\ total \in Nat
  BY TableAssumption DEF IInv, PagerInv, Positive
<1>2. Len(List) \in Nat
  <2>1. cur \in DOMAIN arrays
    BY DEF IInv, ArraysInv
  <2>2. List \in Seq(Nat \X Ids)
    BY <2>1, ArrayRows DEF List
  <2> QED BY <2>2
<1>3. Pages \in Int
  BY <1>1, <1>2 DEF Pages
<1> QED BY <1>3 DEF Positive

\* A turn to a page that is loaded
TurnTo(p) == /\ page' = p
             /\ UNCHANGED <<heap, arrays, cur, size, total, query>>
LEMMA TurnStep ==
  ASSUME IInv, SameServer, net' = net, issued' = issued, NEW p \in Positive, TurnTo(p)
  PROVE  IInv'
<1>1. SameRows /\ Pager
  BY DEF TurnTo, SameRows, Pager, IInv, PagerInv
<1> QED BY <1>1, NoRequestStep

LEMMA AwaitTurnStep ==
  ASSUME IInv, AwaitTurn
  PROVE  IInv'
<1>1. PICK p \in 1 .. Pages :
        IF IsNextPage(p) THEN AskOnly([start |-> p - 1, goto |-> p])
        ELSE /\ page' = p
             /\ NoRequest
             /\ UNCHANGED <<heap, arrays, cur, size, total, query, loading>>
             /\ KeepSwitches
  BY DEF AwaitTurn
<1>2. p \in Positive /\ p - 1 \in Nat /\ p \in Nat
  BY PagesNat
<1>3. CASE AskOnly([start |-> p - 1, goto |-> p])
  <2>1. FieldTypes([start |-> p - 1, goto |-> p])
    BY <1>2 DEF FieldTypes
  <2> QED BY <1>3, <2>1, ListClick
<1>4. CASE ~IsNextPage(p)
  <2>1. TurnTo(p) /\ SameServer /\ net' = net /\ issued' = issued
    BY <1>1, <1>4 DEF TurnTo, NoRequest, SameServer, wire
  <2> QED BY <1>2, <2>1, TurnStep
<1> QED BY <1>1, <1>3, <1>4

\* A click that loads, whatever else it sets
LoadClick(f) == /\ FieldTypes(f)
                /\ "do" \notin DOMAIN f
                /\ "cap" \notin DOMAIN f
LEMMA LoadClickStep ==
  ASSUME IInv, NEW f, LoadClick(f), Ask(f), SameRows, Pager
  PROVE  IInv'
BY ListAskStep DEF LoadClick

LEMMA OnePositive == 1 \in Positive
BY DEF Positive

LEMMA ChooseQueryStep ==
  ASSUME IInv, ChooseQuery
  PROVE  IInv'
<1>1. PICK q \in {"", "other"} :
        /\ query' = q
        /\ page' = 1
        /\ Ask([query |-> q, page |-> 1])
        /\ UNCHANGED <<heap, arrays, cur, size, total>>
  BY DEF ChooseQuery
<1>0. q \in Queries /\ 1 \in Positive
  BY OnePositive DEF Queries
<1>2. LoadClick([query |-> q, page |-> 1])
  BY <1>0 DEF LoadClick, FieldTypes
<1>3. SameRows /\ Pager
  BY <1>0, <1>1 DEF SameRows, Pager, IInv, PagerInv
<1> QED BY <1>1, <1>2, <1>3, LoadClickStep

LEMMA TypeFilterStep ==
  ASSUME IInv, TypeFilter
  PROVE  IInv'
<1>1. SameRows /\ Pager /\ SameServer /\ net' = net /\ issued' = issued
  BY DEF TypeFilter, SameRows, SameServer, Pager, IInv, PagerInv, Queries, wire
<1> QED BY <1>1, NoRequestStep

LEMMA ReloadStep ==
  ASSUME IInv, NEW start \in Nat, Reload(start)
  PROVE  IInv'
<1>1. LoadClick([start |-> start])
  BY DEF LoadClick, FieldTypes
<1>2. SameRows /\ Pager /\ Ask([start |-> start])
  BY PagerSame DEF Reload, SameRows
<1> QED BY <1>1, <1>2, LoadClickStep

LEMMA RefreshStep ==
  ASSUME IInv, Refresh
  PROVE  IInv'
<1>1. page - 1 \in Nat
  BY DEF IInv, PagerInv, Positive
<1> QED BY <1>1, ReloadStep DEF Refresh

LEMMA DefaultNames ==
  ASSUME NEW t \in {"default/channels", "default/tokens", "default/users", "default/logs"}, table = t
  PROVE  table \notin Air /\ table \notin Berry
BY DEF Air, Berry

\* Which table each of them is
LEMMA OpenDefault ==
  /\ ChannelsTable => table = "default/channels"
  /\ TokensTable => table = "default/tokens"
  /\ UsersTable => table = "default/users"
  /\ LogsTable => table = "default/logs"
  /\ DefaultStep => table \notin Air /\ table \notin Berry
<1>1. ChannelsTable => table = "default/channels"
  BY DEF ChannelsTable, DefaultChannels, LoadChannels, ManageChannel, SearchChannels, BalanceUsage,
         UpdateBalance, TestChannel, DeleteDisabled, ChannelHeader, SortChannel, ChannelRow,
         ChannelFooter
<1>2. TokensTable => table = "default/tokens"
  BY DEF TokensTable, DefaultTokens, LoadTokens, TokensFocus, ManageToken, SearchTokens,
         TokenHeader, SortToken, TokenRow, TokenFooter
<1>3. UsersTable => table = "default/users"
  BY DEF UsersTable, DefaultUsers, LoadUsers, ManageUser, SearchUsers, UserHeader, SortUser,
         UserRow, UserFooter
<1>4. LogsTable => table = "default/logs"
  BY DEF LogsTable, DefaultLogs, LoadLogs, FilterLogs, RefreshLogs, LogHeader, SortLog, LogFooter
<1>5. DefaultStep => table \notin Air /\ table \notin Berry
  BY <1>1, <1>2, <1>3, <1>4, DefaultNames DEF DefaultStep
<1> QED BY <1>1, <1>2, <1>3, <1>4, <1>5

LEMMA ListEndsStep ==
  ASSUME IInv, SearchEnds
  PROVE  IInv'
<1>1. CASE \E r \in Answers({"search"}) : SearchArrives(r) /\ UNCHANGED total
  <2>1. PICK r \in net : r.do = "search" /\ SearchArrives(r) /\ total' = total
    BY <1>1 DEF Answers
  <2> QED BY <2>1, SearchArrivesStep DEF IInv, PagerInv
<1>2. CASE Fails({"search"})
  BY <1>2, FailsStep
<1> QED BY <1>1, <1>2 DEF SearchEnds

LEMMA UpdateBalanceStep ==
  ASSUME IInv, UpdateBalance
  PROVE  IInv'
<1>1. ASSUME NEW r \in Fine({"balance"}), Measure("balance", RowAt(r), r.ans.value), ShowCopy(r)
      PROVE  IInv'
  <2>1. r \in net /\ r.do = "balance" /\ r.ans.ok = "ok" /\ table = "default/channels"
    BY DEF Fine, Answers, UpdateBalance, DefaultChannels
  <2>2. r.ans.value \in Ids
    BY <2>1 DEF IInv, NetInv, RequestInv, RowOps, AnswerInv
  <2>3. SameServer
    BY <1>1 DEF ShowCopy, Done, SameServer
  <2>4. PICK ref : ref = RowAt(r)
    OBVIOUS
  <2>5. heap' = [heap EXCEPT ![ref[1]].balance[ref[2]] = r.ans.value]
    BY <1>1, <2>4 DEF Measure
  <2>6. HeapInv' /\ HeapGrows
    BY <2>1, <2>2, <2>3, <2>5, BalanceHeap
  <2> QED BY <1>1, <2>1, <2>6, ShowCopyStep
<1> QED BY <1>1, FailsStep DEF UpdateBalance

LEMMA TestChannelStep ==
  ASSUME IInv, TestChannel
  PROVE  IInv'
<1>1. ASSUME NEW r \in Answers({"test"}), Measure("tested", RowAt(r), r.id), ShowCopy(r)
      PROVE  IInv'
  <2>1. r \in net /\ r.do = "test" /\ table = "default/channels"
    BY DEF Answers, TestChannel, DefaultChannels
  <2>2. RefOK(r.ref) /\ r.ref[2] = r.id /\ RowAt(r) = r.ref
    BY <2>1, DefaultNames, TargetRow DEF RowOps
  <2>3. SameServer
    BY <1>1 DEF ShowCopy, Done, SameServer
  <2>4. PICK ref : ref = r.ref
    OBVIOUS
  <2>5. heap' = [heap EXCEPT ![ref[1]].tested[ref[2]] = ref[2]]
    BY <1>1, <2>2, <2>4 DEF Measure
  <2>6. HeapInv' /\ HeapGrows
    BY <2>2, <2>3, <2>4, <2>5, TestedHeap
  <2> QED BY <1>1, <2>1, <2>6, ShowCopyStep
<1> QED BY <1>1, DiesStep DEF TestChannel

\* A successful request after which the captured page is loaded again
LEMMA ThenReloadStep ==
  ASSUME IInv, NEW dos,
         \/ \E r \in Fine(dos) :
              /\ ThenLoad(r, "none")
              /\ loading' = TRUE
              /\ UNCHANGED <<heap, arrays, cur, page, size, total, query, switch>>
         \/ Fails(dos)
  PROVE  IInv'
<1>1. ASSUME NEW r \in net, ThenLoad(r, "none"), UNCHANGED <<heap, arrays, cur, page, size, total, query>>
      PROVE  IInv'
  BY <1>1, PagerSame, ThenLoadStep DEF SameRows
<1> QED BY <1>1, FailsStep DEF Fine, Answers

LEMMA BalanceUsageStep ==
  ASSUME IInv, BalanceUsage
  PROVE  IInv'
<1>1. PICK i \in Shown : AskOnly([do |-> "balance", id |-> IdOf(List[i]), idx |-> 1])
  BY DEF BalanceUsage
<1>2. IdOf(List[i]) \in Ids /\ Known(IdOf(List[i]))
  BY ShownRow
<1> DEFINE f == [do |-> "balance", id |-> IdOf(List[i]), idx |-> 1]
           q == Request(f, issued + 1)
<1>3. FieldTypes(f)
  BY <1>2 DEF FieldTypes, Dos, RowOps
<1>4. issued + 1 \in Nat /\ cur \in Nat /\ cur \in DOMAIN arrays
  BY DEF IInv, PagerInv, ArraysInv
<1>5. q \in RequestSet
  BY <1>3, <1>4, RequestType DEF IInv
<1>6. q.do = "balance" /\ q.id = IdOf(List[i]) /\ q.cap = cur /\ q.ans = None
  BY RequestFields
<1>7. Ask(f) /\ SameRows /\ Pager
  BY <1>1, PagerSame DEF AskOnly, screen, SameRows
<1> HIDE DEF f, q
<1>8. RequestInv(q)
  BY <1>2, <1>4, <1>6 DEF RequestInv, Names, None, BalanceUsage, DefaultChannels
<1> QED BY <1>5, <1>7, <1>8, AskStep DEF q

LEMMA ChannelsTableStep ==
  ASSUME IInv, ChannelsTable
  PROVE  IInv'
<1>0. table = "default/channels" /\ table \notin Air /\ table \notin Berry
  BY OpenDefault DEF DefaultStep
<1>1. CASE LoadChannels
  BY <1>1, LoadEndsStep DEF LoadChannels
<1>2. CASE ManageChannel
  BY <1>0, <1>2, ManagedStep DEF ManageChannel
<1>3. CASE SearchChannels
  BY <1>3, SearchClick, ListEndsStep DEF SearchChannels
<1>4. CASE BalanceUsage
  BY <1>4, BalanceUsageStep
<1>5. CASE UpdateBalance
  BY <1>5, UpdateBalanceStep
<1>6. CASE TestChannel
  BY <1>6, TestChannelStep
<1>7. CASE DeleteDisabled
  BY <1>7, ThenReloadStep DEF DeleteDisabled
<1>8. CASE ChannelHeader
  BY <1>8, SortStep DEF ChannelHeader, SortChannel
<1>9. CASE ChannelRow
  BY <1>9, RowAskStep, ToggleStep DEF ChannelRow, RowOps
<1>10. CASE ChannelFooter
  BY <1>10, SweepClick, AwaitTurnStep, RefreshStep DEF ChannelFooter
<1> QED BY <1>1, <1>2, <1>3, <1>4, <1>5, <1>6, <1>7, <1>8, <1>9, <1>10 DEF ChannelsTable

LEMMA TokensTableStep ==
  ASSUME IInv, TokensTable
  PROVE  IInv'
<1>0. table \notin Air /\ table \notin Berry
  BY OpenDefault DEF DefaultStep
<1>1. CASE LoadTokens
  BY <1>1, LoadEndsStep DEF LoadTokens
<1>2. CASE TokensFocus
  <2>1. FieldTypes([start |-> 0])
    BY DEF FieldTypes
  <2> QED BY <1>2, <2>1, ListClick DEF TokensFocus
<1>3. CASE ManageToken
  BY <1>0, <1>3, ManagedStep DEF ManageToken
<1>4. CASE SearchTokens
  BY <1>4, SearchClick, ListEndsStep DEF SearchTokens
<1>5. CASE TokenHeader
  BY <1>5, SortStep DEF TokenHeader, SortToken
<1>6. CASE TokenRow
  BY <1>6, RowAskStep, ToggleStep DEF TokenRow, RowOps
<1>7. CASE TokenFooter
  BY <1>7, ChooseQueryStep, AwaitTurnStep, RefreshStep DEF TokenFooter
<1> QED BY <1>1, <1>2, <1>3, <1>4, <1>5, <1>6, <1>7 DEF TokensTable

LEMMA UsersTableStep ==
  ASSUME IInv, UsersTable
  PROVE  IInv'
<1>0. table \notin Air /\ table \notin Berry
  BY OpenDefault DEF DefaultStep
<1>1. CASE LoadUsers
  BY <1>1, LoadEndsStep DEF LoadUsers
<1>2. CASE ManageUser
  BY <1>0, <1>2, ManagedStep DEF ManageUser
<1>3. CASE SearchUsers
  BY <1>3, SearchClick, ListEndsStep DEF SearchUsers
<1>4. CASE UserHeader
  BY <1>4, SortStep DEF UserHeader, SortUser
<1>5. CASE UserRow
  BY <1>5, RowAskStep, ToggleStep DEF UserRow, RowOps
<1>6. CASE UserFooter
  BY <1>6, ChooseQueryStep, AwaitTurnStep DEF UserFooter
<1> QED BY <1>1, <1>2, <1>3, <1>4, <1>5, <1>6 DEF UsersTable

LEMMA LogsTableStep ==
  ASSUME IInv, LogsTable
  PROVE  IInv'
<1>1. CASE LoadLogs
  BY <1>1, LoadEndsStep DEF LoadLogs
<1>2. ASSUME RefreshLogs PROVE IInv'
  <2>1. LoadClick([start |-> 0])
    BY DEF LoadClick, FieldTypes
  <2>2. SameRows /\ Pager /\ Ask([start |-> 0])
    BY <1>2, OnePositive DEF RefreshLogs, SameRows, Pager, IInv, PagerInv
  <2> QED BY <2>1, <2>2, LoadClickStep
<1>3. CASE FilterLogs
  BY <1>2, <1>3, TypeFilterStep DEF FilterLogs
<1>4. CASE LogHeader
  BY <1>4, SortStep DEF LogHeader, SortLog
<1>5. CASE LogFooter
  BY <1>2, <1>5, ChooseQueryStep, AwaitTurnStep DEF LogFooter
<1> QED BY <1>1, <1>3, <1>4, <1>5 DEF LogsTable

(***************************************************************************)
(* The air theme                                                           *)
(***************************************************************************)
LEMMA AirNames ==
  ASSUME NEW t \in {"air/channels", "air/tokens", "air/users", "air/logs"}, table = t
  PROVE  table \in Air /\ table \notin Berry /\ table # "default/channels"
BY DEF Air, Berry

\* Which table each of them is
LEMMA OpenAir ==
  /\ AirChannelsTable => table = "air/channels"
  /\ AirTokensTable => table = "air/tokens"
  /\ AirUsersTable => table = "air/users"
  /\ AirLogsTable => table = "air/logs"
  /\ AirStep => table \in Air /\ table \notin Berry
<1>1. AirChannelsTable => table = "air/channels"
  BY DEF AirChannelsTable, AirChannels, AirChannelRow, AirLoadChannels, AirManageChannel,
         AirSearchChannels, AirTestChannel, AirDeleteDisabled, AirUpdateBalance, AirChannelSizes,
         AirChannelPage, AirChannelBar
<1>2. AirTokensTable => table = "air/tokens"
  BY DEF AirTokensTable, AirTokens, AirTokenRow, AirLoadTokens, AirManageToken, AirSearchTokens,
         AirTokenPage, AirTokenEffect, AirTokenSaved
<1>3. AirUsersTable => table = "air/users"
  BY DEF AirUsersTable, AirUsers, AirUserRow, AirLoadUsers, AirManageUser, AirSearchUsers,
         AirUserPage, AirUserSaved, AirUserOrder
<1>4. AirLogsTable => table = "air/logs"
  BY DEF AirLogsTable, AirLogs, AirLoadLogs, AirLogPage, AirLogSizes, AirLogQuery, AirLogType
<1>5. AirStep => table \in Air /\ table \notin Berry
  BY <1>1, <1>2, <1>3, <1>4, AirNames DEF AirStep
<1> QED BY <1>1, <1>2, <1>3, <1>4, <1>5

LEMMA NewLength == ArraysInv' => Len(List') \in Nat
<1> SUFFICES ASSUME ArraysInv' PROVE Len(List') \in Nat
  OBVIOUS
<1>1. arrays'[cur'] \in ArraySet
  BY DEF ArraysInv
<1>2. List' \in Seq(Nat \X Ids)
  BY <1>1 DEF List, ArraySet
<1> QED BY <1>2

LEMMA CountType ==
  ASSUME IInv, NEW r \in net, NEW len \in Nat
  PROVE  /\ CountBySize(r, len) \in Nat
         /\ table \in Air => AirCount(r, len) \in Nat
<1>1. r \in RequestSet
  BY DEF IInv, NetInv
<1>2. r.closure \in Nat /\ r.page \in Nat /\ PageSize \in Nat
  BY <1>1, TableAssumption DEF RequestSet, Positive
<1>3. CountBySize(r, len) \in Nat /\ CountByPage(r, len) \in Nat /\ CountLogs(len) \in Nat
  BY <1>2 DEF CountBySize, CountByPage, CountLogs
<1> QED BY <1>3 DEF Air, AirCount

LEMMA AirLoadEndsStep ==
  ASSUME IInv, table \in Air, AirLoadEnds \/ HandlerDies({"load"})
  PROVE  IInv'
<1>1. CASE AirLoadEnds
  <2>1. PICK r \in net : r.do = "load" /\ (LoadRefused(r) \/ (LoadArrives(r) /\ total' = AirCount(r, Len(List'))))
    BY <1>1 DEF AirLoadEnds, Answers
  <2>2. CASE LoadRefused(r)
    BY <2>2, LoadRefusedStep
  <2>3. CASE LoadArrives(r) /\ total' = AirCount(r, Len(List'))
    <3>1. SpliceRows(r) \/ PushRows(r)
      BY <2>3 DEF LoadArrives
    <3>2. SameServer /\ heap' = Append(heap, Objects(r)) /\ r.ans.ok = "ok"
      BY <2>3, AfterLoadSame DEF LoadArrives
    <3>3. ArraysInv'
      BY <2>1, <3>1, <3>2, AnsweredOk, LoadRows
    <3>4. total' \in Nat
      BY <2>3, <3>3, NewLength, CountType
    <3> QED BY <2>1, <2>3, <3>4, LoadArrivesStep
  <2> QED BY <2>1, <2>2, <2>3
<1> QED BY <1>1, DiesStep

LEMMA AirAskLoadStep ==
  ASSUME IInv, NEW f, LoadClick(f), AirAskLoad(f)
  PROVE  IInv'
BY PagerSame, LoadClickStep DEF AirAskLoad, SameRows

LEMMA EagerTurnStep ==
  ASSUME IInv, NEW q \in Queries, NEW spins, EagerTurn(q, spins)
  PROVE  IInv'
<1>1. PICK p \in 1 .. Pages :
        /\ page' = p
        /\ IF IsNextPage(p) THEN Ask([start |-> p - 1, query |-> q]) ELSE NoRequest
        /\ UNCHANGED <<heap, arrays, cur, size, total, query>>
  BY DEF EagerTurn
<1>2. p \in Positive /\ p - 1 \in Nat /\ p \in Nat
  BY PagesNat
<1>3. CASE Ask([start |-> p - 1, query |-> q])
  <2>1. LoadClick([start |-> p - 1, query |-> q])
    BY <1>2 DEF LoadClick, FieldTypes
  <2>2. SameRows /\ Pager
    BY <1>1, <1>2 DEF SameRows, Pager, IInv, PagerInv
  <2> QED BY <1>3, <2>1, <2>2, LoadClickStep
<1>4. CASE NoRequest
  <2>1. TurnTo(p) /\ SameServer /\ net' = net /\ issued' = issued
    BY <1>1, <1>4 DEF TurnTo, NoRequest, SameServer, wire
  <2> QED BY <1>2, <2>1, TurnStep
<1> QED BY <1>1, <1>3, <1>4

LEMMA WithoutType ==
  ASSUME NEW T, NEW rs \in Seq(T), NEW id, \E j \in DOMAIN rs : IdOf(rs[j]) = id,
         NEW u, u = Without(rs, id)
  PROVE  u \in Seq(T) /\ MadeOf(u, rs, rs)
<1>1. PICK k \in DOMAIN rs : u = SubSeq(rs, 1, k - 1) \o SubSeq(rs, k + 1, Len(rs))
  BY DEF Without
<1>2. k \in 1 .. Len(rs) /\ Len(rs) \in Nat /\ k \in Nat
  OBVIOUS
<1> DEFINE a == SubSeq(rs, 1, k - 1)
           b == SubSeq(rs, k + 1, Len(rs))
<1>3. a \in Seq(T) /\ \A i \in DOMAIN a : i \in DOMAIN rs /\ a[i] = rs[i]
  <2>1. \A i \in 1 .. k - 1 : rs[i] \in T
    BY <1>2
  <2> QED BY <1>2, <2>1
<1>4. b \in Seq(T) /\ \A i \in DOMAIN b : i + k \in DOMAIN rs /\ b[i] = rs[i + k]
  <2>1. \A i \in k + 1 .. Len(rs) : rs[i] \in T
    BY <1>2
  <2>2. b \in Seq(T)
    BY <1>2, <2>1
  <2>3. /\ DOMAIN b = 1 .. (IF k + 1 <= Len(rs) THEN Len(rs) - k ELSE 0)
        /\ \A i \in DOMAIN b : b[i] = rs[i + k]
    BY <1>2
  <2>4. \A i \in DOMAIN b : i + k \in 1 .. Len(rs)
    BY <1>2, <2>3
  <2> QED BY <2>2, <2>3, <2>4
<1>5. u = a \o b
  BY <1>1
<1> HIDE DEF a, b
<1>6. u \in Seq(T) /\ \A i \in DOMAIN u :
        \/ i \in DOMAIN a /\ u[i] = a[i]
        \/ i - Len(a) \in DOMAIN b /\ u[i] = b[i - Len(a)]
  BY <1>3, <1>4, <1>5
<1> QED BY <1>3, <1>4, <1>6 DEF MadeOf

LEMMA RemoveRecordRows ==
  ASSUME IInv, table \in Air, NEW r \in net, RemoveRecord(r)
  PROVE  HeapInv' /\ HeapGrows /\ ArraysInv' /\ ArraysGrow
<1>1. r.do = "delete" /\ heap' = heap /\ SameServer
  BY DEF RemoveRecord, Done, SameServer
<1>2. table \notin Berry /\ table # "default/channels"
  BY DEF Air, Berry
<1>3. /\ r.cap \in DOMAIN arrays /\ r.ref[2] = r.id
      /\ \E j \in DOMAIN arrays[r.cap].rows : arrays[r.cap].rows[j] = r.ref
  BY <1>1, <1>2, TargetRow DEF RowOps
<1>4. HeapInv' /\ HeapGrows
  BY <1>1, SameFates, HeapKept DEF IInv
<1>5. PICK rs : rs = arrays[r.cap].rows
  OBVIOUS
<1>6. PICK src : src = arrays[r.cap].src
  OBVIOUS
<1>7. rs \in Seq(Nat \X Ids) /\ src \in Sources /\ \A j \in DOMAIN rs : RefOK(rs[j])
  BY <1>3, <1>5, <1>6, ArrayRows
<1>8. PICK u : u = Without(rs, r.id)
  OBVIOUS
<1>9. u \in Seq(Nat \X Ids) /\ MadeOf(u, rs, rs)
  <2> DEFINE T == Nat \X Ids
  <2>1. rs \in Seq(T)
    BY <1>7
  <2>2. \E j \in DOMAIN rs : IdOf(rs[j]) = r.id
    BY <1>3, <1>5 DEF IdOf
  <2> HIDE DEF T
  <2>3. u \in Seq(T) /\ MadeOf(u, rs, rs)
    BY <1>8, <2>1, <2>2, WithoutType
  <2> QED BY <2>3 DEF T
<1>10. NewArray(u, src)
  BY <1>5, <1>6, <1>8 DEF RemoveRecord
<1>11. \A j \in DOMAIN u : RefOK(u[j])
  BY <1>7, <1>9 DEF MadeOf
<1> QED BY <1>4, <1>7, <1>9, <1>10, <1>11, OldRefsArray

LEMMA SetRecordRows ==
  ASSUME IInv, table \in Air, NEW r \in net, SetRecord(r)
  PROVE  HeapInv' /\ HeapGrows /\ ArraysInv' /\ ArraysGrow
<1>1. r.do \in Writes /\ r.ans.ok = "ok" /\ SetStatus(r.ref, r.ans.value) /\ CopyOf(r.cap) /\ SameServer
  BY DEF SetRecord, Writes, Done, SameServer
<1>2. table \notin Berry /\ table # "default/channels"
  BY DEF Air, Berry
<1>3. RefOK(r.ref) /\ r.ref[2] = r.id /\ r.cap \in DOMAIN arrays /\ AnswerInv(r)
  BY <1>1, <1>2, TargetRow DEF RowOps, Writes
<1>4. HeapInv' /\ HeapGrows
  BY <1>1, <1>3, SetStatusHeap DEF AnswerInv
<1> QED BY <1>1, <1>3, <1>4, CopyArray

LEMMA RecordStep ==
  ASSUME IInv, table \in Air, NEW r \in net, RemoveRecord(r) \/ SetRecord(r),
         total' = total \/ total' = CountBySize(r, Len(List'))
  PROVE  IInv'
<1>1. HeapInv' /\ HeapGrows /\ ArraysInv' /\ ArraysGrow
  BY RemoveRecordRows, SetRecordRows
<1>2. Done(r) /\ UNCHANGED <<page, size, query>>
  BY DEF RemoveRecord, SetRecord
<1>3. total' \in Nat
  BY <1>1, NewLength, CountType DEF IInv, PagerInv
<1>4. Pager
  BY <1>2, <1>3 DEF Pager, IInv, PagerInv
<1> QED BY <1>1, <1>2, <1>4, DoneStep

LEMMA AirManagedStep ==
  ASSUME IInv, table \in Air, AirManaged
  PROVE  IInv'
<1>1. CASE \E r \in Answers(Manages) : (RemoveRecord(r) \/ SetRecord(r)) /\ UNCHANGED <<total, loading>>
  BY <1>1, RecordStep DEF Answers
<1>2. CASE HandlerDies(Manages)
  BY <1>2, DiesStep
<1>3. CASE Complain(Manages \ {"delete"})
  BY <1>3, FailsStep DEF Fails
<1> QED BY <1>1, <1>2, <1>3 DEF AirManaged

LEMMA MeasuredStep ==
  ASSUME IInv, table \in Air, NEW do \in {"test", "balance"}, Measured(do)
  PROVE  IInv'
<1>1. ASSUME NEW r \in Fine({do}),
             heap' = IF do = "test" THEN [heap EXCEPT ![r.ref[1]].tested[r.ref[2]] = r.id]
                     ELSE [heap EXCEPT ![r.ref[1]].balance[r.ref[2]] = r.ans.value],
             UNCHANGED <<arrays, cur, page, size, total, query>>, Done(r)
      PROVE  IInv'
  <2>1. r \in net /\ r.do = do /\ r.ans.ok = "ok" /\ table \notin Berry /\ table # "default/channels"
    BY DEF Fine, Answers, Air, Berry
  <2>2. RefOK(r.ref) /\ r.ref[2] = r.id /\ r.id \in Ids /\ AnswerInv(r)
    BY <2>1, TargetRow DEF RowOps
  <2>3. r.ans.value = r.id
    BY <2>1, <2>2 DEF AnswerInv
  <2>4. SameServer
    BY <1>1 DEF Done, SameServer
  <2>5. PICK ref : ref = r.ref
    OBVIOUS
  <2>6. HeapInv' /\ HeapGrows
    <3>1. CASE do = "test"
      <4>1. heap' = [heap EXCEPT ![ref[1]].tested[ref[2]] = ref[2]]
        BY <1>1, <2>2, <2>5, <3>1
      <4> QED BY <2>2, <2>4, <2>5, <4>1, TestedHeap
    <3>2. CASE do # "test"
      <4>1. heap' = [heap EXCEPT ![ref[1]].balance[ref[2]] = ref[2]] /\ ref[2] \in Ids
        BY <1>1, <2>2, <2>3, <2>5, <3>2
      <4> QED BY <2>4, <4>1, BalanceHeap
    <3> QED BY <3>1, <3>2
  <2>7. ArraysInv' /\ ArraysGrow
    BY <1>1, <2>6, ArraysKept DEF IInv
  <2> QED BY <1>1, <2>6, <2>7, PagerSame, DoneStep
<1> QED BY <1>1, FailsStep DEF Measured

\* A search that ends, with a total that the new array gives
LEMMA CountedSearchStep ==
  ASSUME IInv, table \in Air, NEW r \in net, r.do = "search", SearchArrives(r),
         total' = total \/ total' = CountBySize(r, Len(List'))
  PROVE  IInv'
<1>1. SameServer /\ heap' = Append(heap, Objects(r)) /\ NewArray(Refs(r), "found") /\ r.ans.ok = "ok"
  BY DEF SearchArrives, Done, SameServer
<1>2. ArraysInv'
  BY <1>1, AnsweredOk, LoadRows
<1>3. total' \in Nat
  BY <1>2, NewLength, CountType DEF IInv, PagerInv
<1> QED BY <1>3, SearchArrivesStep

LEMMA AirSearchEndsStep ==
  ASSUME IInv, table \in Air, AirSearchEnds
  PROVE  IInv'
<1>1. CASE \E r \in Answers({"search"}) : SearchArrives(r) /\ UNCHANGED total
  <2>1. PICK r \in net : r.do = "search" /\ SearchArrives(r) /\ total' = total
    BY <1>1 DEF Answers
  <2> QED BY <2>1, CountedSearchStep
<1>2. CASE Fails({"search"})
  BY <1>2, FailsStep
<1> QED BY <1>1, <1>2 DEF AirSearchEnds

LEMMA SearchOnlyStep ==
  ASSUME IInv, AskOnly([do |-> "search"])
  PROVE  IInv'
<1>1. FieldTypes([do |-> "search"])
  BY DEF FieldTypes, Dos
<1> QED BY <1>1, ListClick

\* The page to load again is the active one.
LEMMA ActivePage ==
  ASSUME IInv
  PROVE  page - 1 \in Nat /\ LoadClick([start |-> page - 1])
<1>1. page - 1 \in Nat
  BY DEF IInv, PagerInv, Positive
<1> QED BY <1>1 DEF LoadClick, FieldTypes

LEMMA FirstPage ==
  ASSUME NEW then \in {"none", "clear"}
  PROVE  LoadClick([goto |-> 1]) /\ LoadClick([goto |-> 1, then |-> then])
BY DEF LoadClick, FieldTypes

LEMMA SizeClickStep ==
  ASSUME IInv, table \in Air, NEW f, LoadClick(f), Ask(f), NEW s \in {PageSize, OtherSize},
         size' = s, page' = 1, UNCHANGED <<heap, arrays, cur, total, query>>
  PROVE  IInv'
<1>1. s \in Positive
  BY TableAssumption DEF Positive
<1>2. SameRows /\ Pager
  BY <1>1, OnePositive DEF SameRows, Pager, IInv, PagerInv
<1> QED BY <1>2, LoadClickStep

LEMMA AirChannelSizesStep ==
  ASSUME IInv, AirChannelSizes
  PROVE  IInv'
<1>1. PICK s \in {PageSize, OtherSize} :
        /\ size' = s
        /\ page' = 1
        /\ Ask([size |-> s])
        /\ UNCHANGED <<heap, arrays, cur, total, query>>
  BY DEF AirChannelSizes
<1>2. s \in Positive /\ table \in Air
  BY TableAssumption, AirNames DEF Positive, AirChannelSizes, AirChannels
<1>3. LoadClick([size |-> s])
  BY <1>2 DEF LoadClick, FieldTypes
<1> QED BY <1>1, <1>2, <1>3, SizeClickStep

LEMMA AirChannelsTableStep ==
  ASSUME IInv, AirChannelsTable
  PROVE  IInv'
<1>0. table \in Air /\ table \notin Berry
  BY OpenAir DEF AirStep
<1>1. CASE AirChannelRow
  BY <1>1, RowAskStep, ToggleStep DEF AirChannelRow, RowOps
<1>2. CASE AirLoadChannels
  BY <1>0, <1>2, AirLoadEndsStep DEF AirLoadChannels
<1>3. CASE AirManageChannel
  BY <1>0, <1>3, AirManagedStep DEF AirManageChannel
<1>4. CASE AirSearchChannels
  BY <1>0, <1>4, SearchOnlyStep, FirstPage, AirAskLoadStep, AirSearchEndsStep DEF AirSearchChannels
<1>5. CASE AirTestChannel
  BY <1>0, <1>5, MeasuredStep DEF AirTestChannel
<1>6. CASE AirDeleteDisabled
  BY <1>6, ThenReloadStep DEF AirDeleteDisabled
<1>7. CASE AirUpdateBalance
  BY <1>0, <1>7, MeasuredStep DEF AirUpdateBalance
<1>8. CASE AirChannelSizes
  BY <1>8, AirChannelSizesStep
<1>9. CASE AirChannelPage
  BY <1>9, EagerTurnStep DEF AirChannelPage, IInv, PagerInv
<1>10. CASE AirChannelBar
  BY <1>10, ActivePage, AirAskLoadStep, SweepClick DEF AirChannelBar
<1> QED BY <1>1, <1>2, <1>3, <1>4, <1>5, <1>6, <1>7, <1>8, <1>9, <1>10 DEF AirChannelsTable

LEMMA AirTokenAskStep ==
  ASSUME IInv, table \in Air, NEW i \in Shown, NEW do \in {"delete", "enable", "disable"},
         Ask([do |-> do, id |-> IdOf(List[i]), ref |-> List[i]]),
         UNCHANGED <<heap, arrays, cur, page, size, total, query>>
  PROVE  IInv'
<1>1. /\ i \in Nat /\ i \in DOMAIN List /\ List[i] \in Nat \X Ids /\ IdOf(List[i]) \in Ids
      /\ List[i][2] = IdOf(List[i]) /\ RefOK(List[i]) /\ Known(IdOf(List[i]))
  BY ShownRow
<1> DEFINE f == [do |-> do, id |-> IdOf(List[i]), ref |-> List[i]]
           q == Request(f, issued + 1)
<1>2. issued + 1 \in Nat /\ cur \in Nat /\ cur \in DOMAIN arrays
  BY DEF IInv, PagerInv, ArraysInv
<1>3. FieldTypes(f)
  BY <1>1 DEF FieldTypes, Dos, RowOps
<1>4. q \in RequestSet
  BY <1>2, <1>3, RequestType DEF IInv
<1>5. q.do = do /\ q.id = IdOf(List[i]) /\ q.ref = List[i] /\ q.cap = cur /\ q.ans = None
  BY RequestFields
<1>6. Ask(f) /\ SameRows /\ Pager
  BY PagerSame DEF SameRows
<1> HIDE DEF f, q
<1>7. TargetInv(q)
  BY <1>1, <1>5 DEF TargetInv, List
<1>8. RequestInv(q)
  BY <1>1, <1>2, <1>5, <1>7 DEF RequestInv, None
<1> QED BY <1>4, <1>6, <1>8, AskStep DEF q

LEMMA AirTokenRowStep ==
  ASSUME IInv, table \in Air, AirTokenRow
  PROVE  IInv'
<1>1. PICK i \in Shown, do \in {"delete", "toggle"} :
        Ask([do |-> IF do = "delete" THEN "delete"
                    ELSE IF heap[List[i][1]].status[IdOf(List[i])] = Enabled
                         THEN "disable" ELSE "enable",
             id |-> IdOf(List[i]), ref |-> List[i]])
  BY DEF AirTokenRow
<1>2. \E op \in {"delete", "enable", "disable"} : Ask([do |-> op, id |-> IdOf(List[i]), ref |-> List[i]])
  BY <1>1
<1>3. UNCHANGED <<heap, arrays, cur, page, size, total, query>>
  BY DEF AirTokenRow
<1> QED BY <1>2, <1>3, AirTokenAskStep

LEMMA AirManageTokenStep ==
  ASSUME IInv, table \in Air, AirManageToken
  PROVE  IInv'
<1>1. ASSUME NEW r \in net, RemoveRecord(r) \/ SetRecord(r), total' = CountBySize(r, Len(List'))
      PROVE  IInv'
  BY <1>1, RecordStep
<1>2. ASSUME NEW r \in net, Done(r), UNCHANGED <<heap, arrays, cur, page, size, total, query>>
      PROVE  IInv'
  BY <1>2, PagerSame, DoneOnly DEF SameRows
<1>3. CASE HandlerDies(Manages)
  BY <1>3, DiesStep
<1> QED BY <1>1, <1>2, <1>3 DEF AirManageToken, Answers

LEMMA AirTokenEffectStep ==
  ASSUME IInv, table \in Air, AirTokenEffect
  PROVE  IInv'
<1>1. CASE ChooseQuery
  BY <1>1, ChooseQueryStep
<1>2. CASE ~ChooseQuery
  <2>1. PICK s \in {PageSize, OtherSize} :
          /\ size' = s
          /\ page' = 1
          /\ Ask([size |-> s, closure |-> s, page |-> 1])
          /\ UNCHANGED <<heap, arrays, cur, total, query>>
    BY <1>2 DEF AirTokenEffect
  <2>2. s \in Positive
    BY TableAssumption DEF Positive
  <2>3. LoadClick([size |-> s, closure |-> s, page |-> 1])
    BY <2>2, OnePositive DEF LoadClick, FieldTypes
  <2> QED BY <2>1, <2>3, SizeClickStep
<1> QED BY <1>1, <1>2

LEMMA AirTokensTableStep ==
  ASSUME IInv, AirTokensTable
  PROVE  IInv'
<1>0. table \in Air /\ table \notin Berry
  BY OpenAir DEF AirStep
<1>1. CASE AirTokenRow
  BY <1>0, <1>1, AirTokenRowStep
<1>2. CASE AirLoadTokens
  BY <1>0, <1>2, AirLoadEndsStep DEF AirLoadTokens
<1>3. CASE AirManageToken
  BY <1>0, <1>3, AirManageTokenStep
<1>4. CASE AirSearchTokens
  <2>1. CASE AskOnly([do |-> "search"])
    BY <2>1, SearchOnlyStep
  <2>2. CASE AirAskLoad([goto |-> 1, then |-> "clear"])
    BY <2>2, FirstPage, AirAskLoadStep
  <2>3. ASSUME NEW r \in Answers({"search"}), SearchArrives(r), total' = CountBySize(r, Len(List'))
        PROVE  IInv'
    <3>1. r \in net /\ r.do = "search"
      BY DEF Answers
    <3> QED BY <1>0, <2>3, <3>1, CountedSearchStep
  <2>4. CASE Fails({"search"})
    BY <2>4, FailsStep
  <2> QED BY <1>4, <2>1, <2>2, <2>3, <2>4 DEF AirSearchTokens
<1>5. CASE AirTokenPage
  BY <1>5, EagerTurnStep DEF AirTokenPage, IInv, PagerInv
<1>6. CASE AirTokenEffect
  BY <1>0, <1>6, AirTokenEffectStep
<1>7. CASE AirTokenSaved
  BY <1>7, ActivePage, AirAskLoadStep DEF AirTokenSaved
<1> QED BY <1>1, <1>2, <1>3, <1>4, <1>5, <1>6, <1>7 DEF AirTokensTable

LEMMA AirUsersTableStep ==
  ASSUME IInv, AirUsersTable
  PROVE  IInv'
<1>0. table \in Air /\ table \notin Berry
  BY OpenAir DEF AirStep
<1>1. CASE AirUserRow
  BY <1>1, RowAskStep, ToggleStep DEF AirUserRow, RowOps
<1>2. CASE AirLoadUsers
  BY <1>0, <1>2, AirLoadEndsStep DEF AirLoadUsers
<1>3. CASE AirManageUser
  BY <1>0, <1>3, AirManagedStep DEF AirManageUser
<1>4. CASE AirSearchUsers
  BY <1>0, <1>4, SearchClick, AirSearchEndsStep DEF AirSearchUsers
<1>5. CASE AirUserPage
  BY <1>5, EagerTurnStep DEF AirUserPage, IInv, PagerInv
<1>6. CASE AirUserSaved
  <2>1. ASSUME AskOnly([start |-> page - 1]) PROVE IInv'
    BY <2>1, ActivePage, ListClick DEF LoadClick
  <2> QED BY <1>6, <2>1, SearchOnlyStep DEF AirUserSaved
<1>7. CASE AirUserOrder
  BY <1>7, ChooseQueryStep DEF AirUserOrder
<1> QED BY <1>1, <1>2, <1>3, <1>4, <1>5, <1>6, <1>7 DEF AirUsersTable

LEMMA AirLogsTableStep ==
  ASSUME IInv, AirLogsTable
  PROVE  IInv'
<1>0. table \in Air /\ table \notin Berry
  BY OpenAir DEF AirStep
<1>9. "" \in Queries
  BY DEF Queries
<1>1. CASE AirLoadLogs
  BY <1>0, <1>1, AirLoadEndsStep DEF AirLoadLogs
<1>2. CASE AirLogPage
  BY <1>2, <1>9, EagerTurnStep DEF AirLogPage
<1>3. CASE AirLogSizes
  <2>1. PICK s \in {PageSize, OtherSize} :
          /\ size' = s
          /\ page' = 1
          /\ Ask([size |-> s, query |-> ""])
          /\ UNCHANGED <<heap, arrays, cur, total, query>>
    BY <1>3 DEF AirLogSizes
  <2>2. s \in Positive
    BY TableAssumption DEF Positive
  <2>3. LoadClick([size |-> s, query |-> ""])
    BY <1>9, <2>2 DEF LoadClick, FieldTypes
  <2> QED BY <1>0, <2>1, <2>3, SizeClickStep
<1>4. CASE AirLogQuery
  <2>1. LoadClick([query |-> ""])
    BY <1>9 DEF LoadClick, FieldTypes
  <2>2. SameRows /\ Pager /\ Ask([query |-> ""])
    BY <1>4, OnePositive DEF AirLogQuery, SameRows, Pager, IInv, PagerInv
  <2> QED BY <2>1, <2>2, LoadClickStep
<1>5. CASE AirLogType
  BY <1>5, ChooseQueryStep DEF AirLogType
<1> QED BY <1>1, <1>2, <1>3, <1>4, <1>5 DEF AirLogsTable

(***************************************************************************)
(* The berry theme                                                         *)
(***************************************************************************)
BerryTables == {"berry/channels", "berry/tokens", "berry/users", "berry/logs"}
LEMMA BerryNames ==
  ASSUME NEW t \in BerryTables, table = t
  PROVE  table \in Berry
BY DEF Berry, BerryTables

LEMMA BerryOutsideAir == table \in Berry => table \notin Air
BY DEF Air, Berry

\* Which table each of them is
LEMMA OpenBerry ==
  /\ BerryChannelPage => table = "berry/channels"
  /\ BerryTokenPage => table = "berry/tokens"
  /\ BerryUserPage => table = "berry/users"
  /\ BerryLogPage => table = "berry/logs"
  /\ BerryStep => table \in Berry /\ table \notin Air
<1>1. BerryChannelPage => table = "berry/channels"
  BY DEF BerryChannelPage, BerryChannels, BerryLoadChannels, BerrySearchChannels,
         BerryManageChannel, BerrySweep, BerryChannelBar, BerryChannelRow
<1>2. BerryTokenPage => table = "berry/tokens"
  BY DEF BerryTokenPage, BerryTokens, BerryLoadTokens, BerrySearchTokens, BerryManageToken,
         BerryTokenBar, BerryTokenRow
<1>3. BerryUserPage => table = "berry/users"
  BY DEF BerryUserPage, BerryUsers, BerryLoadUsers, BerrySearchUsers, BerryManageUser,
         BerryUserStatus, BerryUserBar, BerryUserRow
<1>4. BerryLogPage => table = "berry/logs"
  BY DEF BerryLogPage, BerryLogs, BerryLoadLogs, BerrySearchLogs, BerryRefreshLogs, BerryLogBar
<1>5. BerryStep => table \in Berry /\ table \notin Air
  BY <1>1, <1>2, <1>3, <1>4, BerryNames, BerryOutsideAir DEF BerryStep, BerryTables
<1> QED BY <1>1, <1>2, <1>3, <1>4, <1>5

LEMMA BerryAskLoadStep ==
  ASSUME IInv, NEW f, LoadClick(f), BerryAskLoad(f)
  PROVE  IInv'
BY PagerSame, LoadClickStep DEF BerryAskLoad, SameRows

LEMMA BerrySearchStep ==
  ASSUME IInv, BerrySearch
  PROVE  IInv'
<1>1. CASE BerryAskLoad([do |-> "search"])
  <2>1. FieldTypes([do |-> "search"])
    BY DEF FieldTypes, Dos
  <2>2. Ask([do |-> "search"]) /\ SameRows /\ Pager
    BY <1>1, PagerSame DEF BerryAskLoad, SameRows
  <2> QED BY <2>1, <2>2, ListAskStep
<1>2. CASE BerryAskLoad([goto |-> 1])
  BY <1>2, FirstPage, BerryAskLoadStep
<1> QED BY <1>1, <1>2 DEF BerrySearch

LEMMA BerryTurnStep ==
  ASSUME IInv, BerryTurn
  PROVE  IInv'
<1>1. PICK p \in 1 .. Pages :
        IF IsNextPage(p) THEN BerryAskLoad([start |-> p - 1, goto |-> p])
        ELSE /\ page' = p
             /\ UNCHANGED <<heap, arrays, cur, size, total, query>>
             /\ UNCHANGED <<table, server, wire, had>>
  BY DEF BerryTurn
<1>2. p \in Positive /\ p - 1 \in Nat /\ p \in Nat
  BY PagesNat
<1>3. CASE BerryAskLoad([start |-> p - 1, goto |-> p])
  <2>1. LoadClick([start |-> p - 1, goto |-> p])
    BY <1>2 DEF LoadClick, FieldTypes
  <2> QED BY <1>3, <2>1, BerryAskLoadStep
<1>4. CASE ~IsNextPage(p)
  <2>1. TurnTo(p) /\ SameServer /\ net' = net /\ issued' = issued
    BY <1>1, <1>4 DEF TurnTo, SameServer, wire
  <2> QED BY <1>2, <2>1, TurnStep
<1> QED BY <1>1, <1>3, <1>4

LEMMA BerryLoadEndsStep ==
  ASSUME IInv, BerryLoadEnds
  PROVE  IInv'
<1>1. ASSUME NEW r \in net, r.do = "load", LoadRefused(r) \/ (LoadArrives(r) /\ UNCHANGED total)
      PROVE  IInv'
  <2>1. total \in Nat
    BY DEF IInv, PagerInv
  <2> QED BY <1>1, <2>1, LoadRefusedStep, LoadArrivesStep
<1> QED BY <1>1, DiesStep DEF BerryLoadEnds, Answers

LEMMA BerrySearchEndsStep ==
  ASSUME IInv, BerrySearchEnds
  PROVE  IInv'
<1>1. ASSUME NEW r \in net, r.do = "search", SearchArrives(r), UNCHANGED total
      PROVE  IInv'
  <2>1. total' \in Nat
    BY <1>1 DEF IInv, PagerInv
  <2> QED BY <1>1, <2>1, SearchArrivesStep
<1>2. ASSUME NEW r \in net, Done(r), UNCHANGED <<heap, arrays, cur, page, size, total, query>>
      PROVE  IInv'
  BY <1>2, PagerSame, DoneOnly DEF SameRows
<1> QED BY <1>1, <1>2, DiesStep DEF BerrySearchEnds, Answers

LEMMA FlipStep ==
  ASSUME IInv, table \in Berry, NEW i \in Shown, Flip(i)
  PROVE  IInv'
<1>1. IdOf(List[i]) \in Ids /\ Known(IdOf(List[i]))
  BY ShownRow
<1>2. PICK to \in Statuses :
        Ask([do |-> IF to = Enabled THEN "enable" ELSE "disable", id |-> IdOf(List[i]), value |-> to])
  BY DEF Flip, Statuses
<1>3. PICK do \in {"enable", "disable"} : Ask([do |-> do, id |-> IdOf(List[i]), value |-> to])
  BY <1>2
<1> DEFINE f == [do |-> do, id |-> IdOf(List[i]), value |-> to]
           q == Request(f, issued + 1)
<1>4. issued + 1 \in Nat /\ cur \in Nat /\ cur \in DOMAIN arrays
  BY DEF IInv, PagerInv, ArraysInv
<1>5. FieldTypes(f)
  <2>1. do \in Dos /\ to \in Values
    BY DEF Dos, RowOps, Values, Statuses
  <2> QED BY <1>1, <2>1 DEF FieldTypes
<1>6. q \in RequestSet
  BY <1>4, <1>5, RequestType DEF IInv
<1>7. q.id = IdOf(List[i]) /\ q.cap = cur /\ q.ans = None
  BY RequestFields
<1>8. Ask(f) /\ SameRows /\ Pager
  BY <1>3, PagerSame DEF Flip, SameRows
<1> HIDE DEF f, q
<1>9. RequestInv(q)
  BY <1>1, <1>4, <1>7 DEF RequestInv, Names, None
<1> QED BY <1>6, <1>8, <1>9, AskStep DEF q

LEMMA FlipEndsStep ==
  ASSUME IInv, FlipEnds
  PROVE  IInv'
<1>1. ASSUME NEW r \in net, Done(r), UNCHANGED <<heap, arrays, cur, page, size, total, query>>
      PROVE  IInv'
  BY <1>1, PagerSame, DoneOnly DEF SameRows
<1> QED BY <1>1, FailsStep DEF FlipEnds, Fine, Answers

LEMMA ThenRefreshStep ==
  ASSUME IInv, NEW dos, ThenRefresh(dos)
  PROVE  IInv'
BY ThenReloadStep DEF ThenRefresh

LEMMA BerryManageUserStep ==
  ASSUME IInv, BerryManageUser
  PROVE  IInv'
<1>1. ASSUME NEW r \in net, NEW then \in {"none", "clear", "switch"}, ThenLoad(r, then),
             UNCHANGED <<heap, arrays, cur, page, size, total, query>>
      PROVE  IInv'
  BY <1>1, PagerSame, ThenLoadStep DEF SameRows
<1>2. ASSUME NEW r \in Fine({"delete", "enable", "disable", "touch"}),
             ThenLoad(r, IF r.do \in {"enable", "disable"} THEN "switch" ELSE "none"),
             UNCHANGED <<heap, arrays, cur, page, size, total, query>>
      PROVE  IInv'
  <2>1. r \in net
    BY DEF Fine, Answers
  <2>2. \E then \in {"none", "clear", "switch"} : ThenLoad(r, then)
    BY <1>2
  <2> QED BY <1>1, <1>2, <2>1, <2>2
<1> QED BY <1>2, FailsStep DEF BerryManageUser

LEMMA BerryUserStatusStep ==
  ASSUME IInv, BerryUserStatus
  PROVE  IInv'
<1>1. PICK r \in net :
        /\ r.do = "load"
        /\ \/ r.ans.ok = "ok" /\ heap' = Append(heap, Objects(r)) /\ SpliceRows(r)
           \/ UNCHANGED <<heap, arrays, cur>>
        /\ UNCHANGED <<page, size, total, query>>
        /\ Done(r)
  BY DEF BerryUserStatus, Answers
<1>2. SameServer /\ Pager
  BY <1>1, PagerSame DEF Done, SameServer
<1>3. HeapInv' /\ HeapGrows /\ ArraysInv' /\ ArraysGrow
  <2>1. CASE UNCHANGED <<heap, arrays, cur>>
    BY <1>2, <2>1, RowsKept DEF SameRows
  <2>2. CASE r.ans.ok = "ok" /\ heap' = Append(heap, Objects(r)) /\ SpliceRows(r)
    BY <1>1, <1>2, <2>2, AnsweredOk, LoadRows
  <2> QED BY <1>1, <2>1, <2>2
<1> QED BY <1>1, <1>2, <1>3, DoneStep

LEMMA BerryRefreshLogsStep ==
  ASSUME IInv, BerryRefreshLogs
  PROVE  IInv'
<1>1. issued + 1 \in Nat /\ issued + 2 \in Nat /\ query \in Queries /\ "" \in Queries
  <2>1. issued + 1 \in Nat /\ issued + 2 \in Nat /\ query \in Queries
    BY DEF IInv, PagerInv
  <2> QED BY <2>1 DEF Queries
<1>2. FieldTypes([query |-> query]) /\ FieldTypes([query |-> ""])
  BY <1>1 DEF FieldTypes
<1>3. PICK p : p = Request([query |-> query], issued + 1)
  OBVIOUS
<1>4. PICK q : q = Request([query |-> ""], issued + 2)
  OBVIOUS
<1>5. p \in RequestSet /\ RequestInv(p) /\ q \in RequestSet /\ RequestInv(q)
  BY <1>1, <1>2, <1>3, <1>4, ListRequest DEF IInv
<1>6. /\ net' = net \cup {p, q} /\ issued' = issued + 2 /\ SameServer
      /\ SameRows /\ UNCHANGED <<size, total>> /\ page' = 1 /\ query' = ""
  BY <1>3, <1>4 DEF BerryRefreshLogs, SameServer, SameRows
<1>7. PagerInv'
  BY <1>1, <1>6, OnePositive DEF IInv, PagerInv, SameServer
<1>8. HeapInv' /\ HeapGrows /\ ArraysInv' /\ ArraysGrow
  BY <1>6, RowsKept
<1> QED BY <1>5, <1>6, <1>7, <1>8, QuietStep

LEMMA BerryReloadStep ==
  ASSUME IInv, BerryAskLoad([start |-> page - 1])
  PROVE  IInv'
BY ActivePage, BerryAskLoadStep

LEMMA BerryChannelPageStep ==
  ASSUME IInv, BerryChannelPage
  PROVE  IInv'
<1>0. table \in Berry
  BY OpenBerry DEF BerryStep
<1>1. CASE BerryLoadChannels
  BY <1>1, BerryLoadEndsStep DEF BerryLoadChannels
<1>2. CASE BerrySearchChannels
  BY <1>2, BerrySearchStep, BerrySearchEndsStep DEF BerrySearchChannels
<1>3. CASE BerryManageChannel
  <2>1. ASSUME NEW r \in net, UNCHANGED screen, Done(r) PROVE IInv'
    BY <2>1, PagerSame, DoneOnly DEF screen, SameRows
  <2> QED BY <1>3, <2>1, ThenRefreshStep, FlipEndsStep, FailsStep DEF BerryManageChannel, Fine, Answers
<1>4. CASE BerrySweep
  BY <1>4, ThenRefreshStep DEF BerrySweep
<1>5. CASE BerryChannelBar
  BY <1>5, BerryReloadStep, SweepClick, BerryTurnStep DEF BerryChannelBar
<1>6. CASE BerryChannelRow
  BY <1>0, <1>6, FlipStep, RowAskStep DEF BerryChannelRow, RowOps
<1> QED BY <1>1, <1>2, <1>3, <1>4, <1>5, <1>6 DEF BerryChannelPage

LEMMA BerryTokenPageStep ==
  ASSUME IInv, BerryTokenPage
  PROVE  IInv'
<1>0. table \in Berry
  BY OpenBerry DEF BerryStep
<1>1. CASE BerryLoadTokens
  BY <1>1, BerryLoadEndsStep DEF BerryLoadTokens
<1>2. CASE BerrySearchTokens
  BY <1>2, BerrySearchStep, BerrySearchEndsStep DEF BerrySearchTokens
<1>3. CASE BerryManageToken
  BY <1>3, ThenRefreshStep, FlipEndsStep DEF BerryManageToken
<1>4. CASE BerryTokenBar
  BY <1>4, BerryReloadStep, BerryTurnStep DEF BerryTokenBar
<1>5. CASE BerryTokenRow
  BY <1>0, <1>5, FlipStep, RowAskStep DEF BerryTokenRow, RowOps
<1> QED BY <1>1, <1>2, <1>3, <1>4, <1>5 DEF BerryTokenPage

LEMMA BerryUserPageStep ==
  ASSUME IInv, BerryUserPage
  PROVE  IInv'
<1>0. table \in Berry
  BY OpenBerry DEF BerryStep
<1>1. CASE BerryLoadUsers
  BY <1>1, BerryLoadEndsStep DEF BerryLoadUsers
<1>2. CASE BerrySearchUsers
  BY <1>2, BerrySearchStep, BerrySearchEndsStep DEF BerrySearchUsers
<1>3. CASE BerryManageUser
  BY <1>3, BerryManageUserStep
<1>4. CASE BerryUserStatus
  BY <1>4, BerryUserStatusStep
<1>5. CASE BerryUserBar
  BY <1>5, BerryReloadStep, BerryTurnStep DEF BerryUserBar
<1>6. CASE BerryUserRow
  BY <1>0, <1>6, FlipStep, RowAskStep DEF BerryUserRow, RowOps
<1> QED BY <1>1, <1>2, <1>3, <1>4, <1>5, <1>6 DEF BerryUserPage

LEMMA BerryLogPageStep ==
  ASSUME IInv, BerryLogPage
  PROVE  IInv'
<1>1. CASE BerryLoadLogs
  BY <1>1, BerryLoadEndsStep DEF BerryLoadLogs
<1>2. CASE BerrySearchLogs
  <2>1. LoadClick([goto |-> 1])
    BY FirstPage
  <2> QED BY <1>2, <2>1, TypeFilterStep, BerryAskLoadStep DEF BerrySearchLogs
<1>3. CASE BerryRefreshLogs
  BY <1>3, BerryRefreshLogsStep
<1>4. CASE BerryLogBar
  BY <1>4, BerryTurnStep DEF BerryLogBar
<1> QED BY <1>1, <1>2, <1>3, <1>4 DEF BerryLogPage

(***************************************************************************)
(* The invariant holds at the start and is kept                            *)
(***************************************************************************)
LEMMA InitInv == Init => IInv
<1> SUFFICES ASSUME Init PROVE IInv
  OBVIOUS
<1>1. FirstRows \in Seq(Nat) /\ NewRow \in Nat \ Range(FirstRows) /\ PageSize \in Positive
  BY TableAssumption DEF Positive
<1>2. ServerInv
  <2>1. rows = FirstRows /\ FirstRows \in Seq(Ids)
    <3>1. rows = FirstRows
      BY DEF Init
    <3>2. Len(FirstRows) \in Nat /\ DOMAIN FirstRows = 1 .. Len(FirstRows)
          /\ FirstRows = [i \in 1 .. Len(FirstRows) |-> FirstRows[i]]
      BY <1>1
    <3>3. \A i \in DOMAIN FirstRows : FirstRows[i] \in Ids
      BY DEF Ids, Range
    <3> QED BY <3>1, <3>2, <3>3
  <2>2. status \in [Ids -> Statuses] /\ had \in [Ids -> SUBSET Statuses]
    BY DEF Init, Statuses
  <2>3. epoch \in Nat
    BY DEF Init
  <2>4. ASSUME NEW id \in Ids
        PROVE  IF Known(id) THEN status[id] \in had[id] ELSE ~Exists(id) /\ status[id] = Enabled
    <3>1. status[id] = Enabled /\ had[id] = IF id = NewRow THEN {} ELSE {Enabled}
      BY DEF Init
    <3>2. id = NewRow => ~Exists(id)
      BY <1>1, <2>1 DEF Exists
    <3> QED BY <3>1, <3>2 DEF Known
  <2> QED BY <2>1, <2>2, <2>3, <2>4 DEF ServerInv
<1>3. HeapInv
  <2>1. heap = <<>>
    BY DEF Init
  <2> QED BY <2>1 DEF HeapInv
<1>4. ArraysInv
  <2>1. arrays = <<[rows |-> <<>>, src |-> "paged"]>> /\ cur = 1
    BY DEF Init
  <2>2. [rows |-> <<>>, src |-> "paged"] \in ArraySet
    BY DEF ArraySet
  <2> QED BY <2>1, <2>2 DEF ArraysInv
<1>5. PagerInv
  <2>1. page \in Positive /\ total \in Nat /\ issued \in Nat
    <3>1. page = 1 /\ total = PageSize /\ (issued = 2 \/ issued = 1)
      BY DEF Init
    <3> QED BY <1>1, <3>1 DEF Positive
  <2>2. query \in Queries
    BY DEF Init, Queries
  <2>3. size \in {PageSize, OtherSize} /\ (table \notin Air => size = PageSize)
    BY DEF Init, Air
  <2>4. size \in Positive
    BY <1>1, <2>3, TableAssumption DEF Positive
  <2> QED BY <2>1, <2>2, <2>3, <2>4 DEF PagerInv
<1>6. NetInv
  <2>1. FieldTypes([closure |-> PageSize])
    BY <1>1 DEF FieldTypes
  <2>2. \A n \in 1 .. issued : n \in Nat
    BY <1>5 DEF PagerInv
  <2>3. \A n \in 1 .. issued : /\ Request([closure |-> PageSize], n) \in RequestSet
                               /\ RequestInv(Request([closure |-> PageSize], n))
    BY <1>4, <1>5, <2>1, <2>2, ListRequest
  <2>4. \A r \in net : \E n \in 1 .. issued : r = Request([closure |-> PageSize], n)
    BY DEF Init
  <2> QED BY <2>3, <2>4 DEF NetInv
<1> QED BY <1>2, <1>3, <1>4, <1>5, <1>6 DEF IInv

LEMMA StutterStep ==
  ASSUME IInv, UNCHANGED vars
  PROVE  IInv'
<1>1. SameServer /\ net' = net /\ issued' = issued /\ SameRows /\ UNCHANGED <<page, size, total, query>>
  BY DEF vars, screen, wire, history, SameServer, SameRows
<1> QED BY <1>1, PagerSame, NoRequestStep

LEMMA NextStep ==
  ASSUME IInv, [Next]_vars
  PROVE  IInv'
<1>1. CASE DefaultStep
  BY <1>1, ChannelsTableStep, TokensTableStep, UsersTableStep, LogsTableStep DEF DefaultStep
<1>2. CASE AirStep
  BY <1>2, AirChannelsTableStep, AirTokensTableStep, AirUsersTableStep, AirLogsTableStep DEF AirStep
<1>3. CASE BerryStep
  BY <1>3, BerryChannelPageStep, BerryTokenPageStep, BerryUserPageStep, BerryLogPageStep DEF BerryStep
<1>4. CASE Serve
  BY <1>4, ServeStep
<1>5. CASE Refuse
  BY <1>5, RefuseStep
<1>6. CASE Others
  BY <1>6, OthersStep
<1>7. CASE UNCHANGED vars
  BY <1>7, StutterStep
<1> QED BY <1>1, <1>2, <1>3, <1>4, <1>5, <1>6, <1>7 DEF Next

THEOREM Invariant == Spec => []IInv
<1>1. Init => IInv
  BY InitInv
<1>2. IInv /\ [Next]_vars => IInv'
  BY NextStep
<1> QED BY <1>1, <1>2, PTL DEF Spec

\* Whatever was loaded, sorted or turned while an operation was under way, in
\* any of the twelve tables and with any number of requests, refused and lost
\* answers and changes by others: its result lands on the row of its record.
THEOREM LandsOnItsRow == Spec => []OutcomeOnItsRow
<1>1. IInv => OutcomeOnItsRow
  <2> SUFFICES ASSUME IInv PROVE OutcomeOnItsRow
    OBVIOUS
  <2>1. \A g \in DOMAIN heap : ObjectInv(heap[g])
    BY DEF IInv, HeapInv
  <2>2. ASSUME NEW ref \in RowObjects
        PROVE  /\ Exists(ref[2]) => heap[ref[1]].status[ref[2]] \in had[ref[2]]
               /\ heap[ref[1]].tested[ref[2]] = ref[2]
               /\ table # "default/channels" => heap[ref[1]].balance[ref[2]] = ref[2]
    <3>1. PICK g \in DOMAIN heap : \E id \in DOMAIN heap[g].status : ref = <<g, id>>
      BY DEF RowObjects
    <3> QED BY <2>1, <3>1 DEF ObjectInv
  <2>3. \A g \in DOMAIN heap : \A id \in heap[g].deleted : ~Exists(id)
    BY <2>1 DEF ObjectInv
  <2> QED BY <2>2, <2>3 DEF OutcomeOnItsRow
<1> QED BY <1>1, Invariant, PTL

(***************************************************************************)
(* The invariant of a user who waits for each answer, alone and without    *)
(* failures                                                                *)
(***************************************************************************)
Distinct(s) == \A i, j \in DOMAIN s : s[i] = s[j] => i = j
Id(i) == IdOf(List[i])
Edits == {"delete", "enable", "disable", "touch"}
Switches == {"enable", "disable"}
Answer(r) == r.ans.ok = "ok"

\* one request at a time, but for the two loads of berry's log
Plain(r) == table = "berry/logs" /\ r.do = "load" /\ r.start = 0 /\ r.then = "none"
Alone == \A r, q \in net : r = q \/ (Plain(r) /\ Plain(q))

\* What the answer says is so.
Truth(r) ==
  /\ r.do \in {"load", "search"} =>
       /\ Distinct(r.ans.rows)
       /\ \A id \in Range(r.ans.rows) : Exists(id) /\ r.ans.status[id] = status[id]
  /\ r.do \in Writes => Exists(r.id) /\ r.ans.value = status[r.id]
\* The request of a berry table is about the active page or the one that will
\* be active; a row's switch waits for its request.
OfBerry(r) ==
  /\ r.size = PageSize
  /\ r.then # "clear"
  /\ r.then = "switch" => r.goto = 0
  /\ r.do = "load" => (IF r.goto > 0 THEN r.goto ELSE page) = r.start + 1
  /\ r.do \in Edits \cup {"sweep"} => r.page = page
  /\ r.do = "delete" => \A i \in DOMAIN List : Id(i) = r.id => i > (r.page - 1) * r.size
  /\ (r.do \in Switches \/ r.then = "switch") => r.id \in DOMAIN switch /\ r.n \in switch[r.id].waits
  /\ r.do \in Switches => r.value = IF r.do = "enable" THEN Enabled ELSE Disabled
  /\ (r.do \in Switches /\ Answer(r)) => r.value = status[r.id]
Present(r) ==
  /\ (r.do = "load" /\ r.start = 0) \/ r.cap = cur
  /\ r.ans = None \/ Answer(r)
  /\ Answer(r) => Truth(r)
  /\ (r.do \in Edits /\ ~Answer(r)) => Exists(r.id)
  /\ r.then = "switch" => r.do = "load" /\ table = "berry/users" /\ r.value = status[r.id]
  /\ table \in Berry => OfBerry(r)

\* A row is hidden, or right, or a request under way will put it right.
Hidden(ref) == ref[2] \in heap[ref[1]].deleted
Current(ref) == heap[ref[1]].status[ref[2]] = status[ref[2]]
Right(ref) == /\ Exists(ref[2])
              /\ table \notin Berry => Current(ref)
Stands(ref) == Hidden(ref) \/ Right(ref)
Doubts(r, id, i) ==
  \/ r.do \in Edits /\ Answer(r) /\ r.id = id
  \/ r.do = "sweep" /\ Answer(r)
  \/ r.do = "load" /\ (r.start = 0 \/ i > r.start * r.size)
Unique == \A i, j \in DOMAIN List : Id(i) = Id(j) => i = j
Standing == \A i \in DOMAIN List : Stands(List[i]) \/ \E r \in net : Doubts(r, Id(i), i)

\* The switch of a berry row shows the status, or waits for its answer.
Awaits(r, id) == r.id = id /\ ((r.do \in Switches /\ Answer(r)) \/ r.then = "switch")
Switched == \A id \in DOMAIN switch : switch[id].value = status[id] \/ \E r \in net : Awaits(r, id)
Mounted ==
  /\ \A i \in Shown : Id(i) \in DOMAIN switch \/ (table = "berry/logs" /\ net # {})
  /\ \A id \in DOMAIN switch : DOMAIN switch[id] = {"value", "waits"}

CalmInv ==
  /\ Alone
  /\ \A r \in net : Present(r)
  /\ Unique
  /\ Standing
  /\ table \in Berry => Switched /\ Mounted
CInv == Distinct(rows) /\ (calm => CalmInv)

(***************************************************************************)
(* The screen's steps leave the server's records alone, and calm never     *)
(* comes back                                                              *)
(***************************************************************************)
Calmer == calm' => calm
LEMMA Leaves ==
  /\ \A f : Ask(f) => SameServer /\ Calmer
  /\ NoRequest => SameServer /\ Calmer
  /\ \A r : Done(r) => SameServer /\ Calmer
  /\ \A r, f : Next2(r, f) => SameServer /\ Calmer
BY DEF Ask, NoRequest, Done, Next2, SameServer, Calmer

LEMMA HandlersLeave ==
  /\ \A r : AfterLoad(r) => SameServer /\ Calmer
  /\ \A r, then : ThenLoad(r, then) => SameServer /\ Calmer
  /\ \A f : AskOnly(f) => SameServer /\ Calmer
  /\ \A do, i : AskRow(do, i) => SameServer /\ Calmer
  /\ \A dos : Fails(dos) => SameServer /\ Calmer
  /\ \A dos : HandlerDies(dos) => SameServer /\ Calmer
  /\ \A key : SortRows(key) => SameServer /\ Calmer
  /\ TypeFilter => SameServer /\ Calmer
  /\ ChooseQuery => SameServer /\ Calmer
<1>1. \A r : AfterLoad(r) => SameServer /\ Calmer
  BY Leaves DEF AfterLoad
<1>2. \A r, then : ThenLoad(r, then) => SameServer /\ Calmer
  BY Leaves DEF ThenLoad
<1>3. \A f : AskOnly(f) => SameServer /\ Calmer
  BY Leaves DEF AskOnly
<1>4. \A do, i : AskRow(do, i) => SameServer /\ Calmer
  BY <1>3 DEF AskRow
<1>5. /\ \A dos : Fails(dos) => SameServer /\ Calmer
      /\ \A dos : HandlerDies(dos) => SameServer /\ Calmer
  BY Leaves DEF Fails, HandlerDies, Complain
<1>6. \A key : SortRows(key) => SameServer /\ Calmer
  BY Leaves DEF SortRows
<1>7. TypeFilter => SameServer /\ Calmer
  BY DEF TypeFilter, SameServer, Calmer
<1>8. ChooseQuery => SameServer /\ Calmer
  BY Leaves DEF ChooseQuery
<1> QED BY <1>1, <1>2, <1>3, <1>4, <1>5, <1>6, <1>7, <1>8

LEMMA CommonLeave ==
  /\ LoadEnds => SameServer /\ Calmer
  /\ \A then : Search(then) => SameServer /\ Calmer
  /\ \A r : SearchArrives(r) => SameServer /\ Calmer
  /\ \A r : LoadRefused(r) \/ LoadArrives(r) => SameServer /\ Calmer
  /\ AwaitTurn => SameServer /\ Calmer
<1>1. \A r : LoadRefused(r) \/ LoadArrives(r) => SameServer /\ Calmer
  BY HandlersLeave DEF LoadRefused, LoadArrives
<1>2. LoadEnds => SameServer /\ Calmer
  BY <1>1 DEF LoadEnds
<1>3. \A then : Search(then) => SameServer /\ Calmer
  BY HandlersLeave DEF Search
<1>4. \A r : SearchArrives(r) => SameServer /\ Calmer
  BY Leaves DEF SearchArrives
<1>5. AwaitTurn => SameServer /\ Calmer
  BY Leaves, HandlersLeave DEF AwaitTurn
<1> QED BY <1>1, <1>2, <1>3, <1>4, <1>5

LEMMA DefaultLeaves == DefaultStep => SameServer /\ Calmer
<1>1. \A dos : Managed(dos) => SameServer /\ Calmer
  BY Leaves, HandlersLeave DEF Managed, ShowCopy
<1>2. SearchEnds => SameServer /\ Calmer
  BY CommonLeave, HandlersLeave DEF SearchEnds
<1>3. Refresh => SameServer /\ Calmer
  BY Leaves DEF Refresh, Reload
<1>4. UpdateBalance \/ TestChannel => SameServer /\ Calmer
  BY Leaves, HandlersLeave DEF UpdateBalance, TestChannel, ShowCopy
<1>5. RefreshLogs => SameServer /\ Calmer
  BY Leaves DEF RefreshLogs
<1>6. \A i : AskToggle(i) => SameServer /\ Calmer
  BY HandlersLeave DEF AskToggle
<1>7. ChannelsTable => SameServer /\ Calmer
  BY <1>1, <1>2, <1>3, <1>4, <1>6, HandlersLeave, CommonLeave DEF ChannelsTable, LoadChannels,
     ManageChannel, SearchChannels, BalanceUsage, DeleteDisabled, ChannelHeader, SortChannel,
     ChannelRow, ChannelFooter
<1>8. TokensTable => SameServer /\ Calmer
  BY <1>1, <1>2, <1>3, <1>6, HandlersLeave, CommonLeave DEF TokensTable, LoadTokens, TokensFocus,
     ManageToken, SearchTokens, TokenHeader, SortToken, TokenRow, TokenFooter
<1>9. UsersTable => SameServer /\ Calmer
  BY <1>1, <1>2, <1>6, HandlersLeave, CommonLeave DEF UsersTable, LoadUsers, ManageUser, SearchUsers,
     UserHeader, SortUser, UserRow, UserFooter
<1>10. LogsTable => SameServer /\ Calmer
  BY <1>5, HandlersLeave, CommonLeave DEF LogsTable, LoadLogs, FilterLogs, LogHeader, SortLog, LogFooter
<1> QED BY <1>7, <1>8, <1>9, <1>10 DEF DefaultStep

LEMMA AirLeaves == AirStep => SameServer /\ Calmer
<1>1. AirLoadEnds => SameServer /\ Calmer
  BY CommonLeave DEF AirLoadEnds
<1>2. \A q, spins : EagerTurn(q, spins) => SameServer /\ Calmer
  BY Leaves DEF EagerTurn
<1>3. \A f : AirAskLoad(f) => SameServer /\ Calmer
  BY Leaves DEF AirAskLoad
<1>4. \A r : RemoveRecord(r) \/ SetRecord(r) => SameServer /\ Calmer
  BY Leaves DEF RemoveRecord, SetRecord
<1>5. AirManaged => SameServer /\ Calmer
  BY <1>4, Leaves, HandlersLeave DEF AirManaged, Complain
<1>6. \A do : Measured(do) => SameServer /\ Calmer
  BY Leaves, HandlersLeave DEF Measured
<1>7. AirSearchEnds => SameServer /\ Calmer
  BY CommonLeave, HandlersLeave DEF AirSearchEnds
<1>8. \A i : AskToggle(i) => SameServer /\ Calmer
  BY HandlersLeave DEF AskToggle
<1>9. AirChannelsTable => SameServer /\ Calmer
  BY <1>1, <1>2, <1>3, <1>5, <1>6, <1>7, <1>8, Leaves, HandlersLeave, CommonLeave DEF AirChannelsTable,
     AirChannelRow, AirLoadChannels, AirManageChannel, AirSearchChannels, AirTestChannel,
     AirDeleteDisabled, AirUpdateBalance, AirChannelSizes, AirChannelPage, AirChannelBar
<1>10. AirTokensTable => SameServer /\ Calmer
  BY <1>1, <1>2, <1>3, <1>4, Leaves, HandlersLeave, CommonLeave DEF AirTokensTable, AirTokenRow,
     AirLoadTokens, AirManageToken, AirSearchTokens, AirTokenPage, AirTokenEffect, AirTokenSaved
<1>11. AirUsersTable => SameServer /\ Calmer
  BY <1>1, <1>2, <1>5, <1>7, <1>8, HandlersLeave, CommonLeave DEF AirUsersTable, AirUserRow,
     AirLoadUsers, AirManageUser, AirSearchUsers, AirUserPage, AirUserSaved, AirUserOrder
<1>12. AirLogsTable => SameServer /\ Calmer
  BY <1>1, <1>2, Leaves, HandlersLeave DEF AirLogsTable, AirLoadLogs, AirLogPage, AirLogSizes,
     AirLogQuery, AirLogType
<1> QED BY <1>9, <1>10, <1>11, <1>12 DEF AirStep

LEMMA BerryLeaves == BerryStep => SameServer /\ Calmer
<1>1. \A f : BerryAskLoad(f) => SameServer /\ Calmer
  BY Leaves DEF BerryAskLoad
<1>2. BerryTurn => SameServer /\ Calmer
  BY <1>1 DEF BerryTurn, SameServer, Calmer
<1>3. BerrySearch => SameServer /\ Calmer
  BY <1>1 DEF BerrySearch
<1>4. BerryLoadEnds => SameServer /\ Calmer
  BY CommonLeave, HandlersLeave DEF BerryLoadEnds
<1>5. BerrySearchEnds => SameServer /\ Calmer
  BY Leaves, CommonLeave, HandlersLeave DEF BerrySearchEnds
<1>6. \A i : Flip(i) => SameServer /\ Calmer
  BY Leaves DEF Flip
<1>7. FlipEnds => SameServer /\ Calmer
  BY Leaves, HandlersLeave DEF FlipEnds
<1>8. \A dos : ThenRefresh(dos) => SameServer /\ Calmer
  BY HandlersLeave DEF ThenRefresh
<1>9. BerryChannelPage => SameServer /\ Calmer
  BY <1>1, <1>2, <1>3, <1>4, <1>5, <1>6, <1>7, <1>8, Leaves, HandlersLeave DEF BerryChannelPage,
     BerryLoadChannels, BerrySearchChannels, BerryManageChannel, BerrySweep, BerryChannelBar,
     BerryChannelRow
<1>10. BerryTokenPage => SameServer /\ Calmer
  BY <1>1, <1>2, <1>3, <1>4, <1>5, <1>6, <1>7, <1>8, HandlersLeave DEF BerryTokenPage, BerryLoadTokens,
     BerrySearchTokens, BerryManageToken, BerryTokenBar, BerryTokenRow
<1>11. BerryManageUser \/ BerryUserStatus => SameServer /\ Calmer
  BY Leaves, HandlersLeave DEF BerryManageUser, BerryUserStatus
<1>12. BerryUserPage => SameServer /\ Calmer
  BY <1>1, <1>2, <1>3, <1>4, <1>5, <1>6, <1>11, HandlersLeave DEF BerryUserPage, BerryLoadUsers,
     BerrySearchUsers, BerryUserBar, BerryUserRow
<1>13. BerryRefreshLogs => SameServer /\ Calmer
  BY DEF BerryRefreshLogs, SameServer, Calmer
<1>14. BerryLogPage => SameServer /\ Calmer
  BY <1>1, <1>2, <1>4, <1>13, HandlersLeave DEF BerryLogPage, BerryLoadLogs, BerrySearchLogs, BerryLogBar
<1> QED BY <1>9, <1>10, <1>12, <1>14 DEF BerryStep

LEMMA KeepDistinct ==
  ASSUME NEW T, NEW s \in Seq(T), NEW S, Distinct(s)
  PROVE  Distinct(Keep(s, S))
<1> DEFINE kept == {i \in DOMAIN s : s[i] \in S}
           Count(i) == Cardinality({j \in kept : j <= i})
           At(k) == CHOOSE i \in kept : Count(i) = k
<1>1. Len(s) \in Nat /\ DOMAIN s = 1 .. Len(s) /\ kept \in SUBSET (1 .. Len(s))
  OBVIOUS
<1>2. ASSUME NEW k \in 1 .. Cardinality(kept) PROVE At(k) \in kept /\ Count(At(k)) = k
  <2>1. \E i \in kept : Count(i) = k
    <3> HIDE DEF kept
    <3> QED BY <1>1, KthKept
  <2> HIDE DEF kept, Count
  <2> QED BY <2>1
<1>3. Keep(s, S) = [k \in 1 .. Cardinality(kept) |-> s[At(k)]]
  BY DEF Keep
<1>4. \A k \in 1 .. Cardinality(kept) : At(k) \in DOMAIN s /\ Count(At(k)) = k
  BY <1>2
<1> HIDE DEF kept, At, Count
<1>5. ASSUME NEW k \in DOMAIN Keep(s, S), NEW m \in DOMAIN Keep(s, S), Keep(s, S)[k] = Keep(s, S)[m]
      PROVE  k = m
  <2>1. s[At(k)] = s[At(m)] /\ k \in 1 .. Cardinality(kept) /\ m \in 1 .. Cardinality(kept)
    BY <1>3, <1>5
  <2>2. At(k) = At(m)
    BY <1>4, <2>1 DEF Distinct
  <2> QED BY <1>4, <2>1, <2>2
<1> QED BY <1>5 DEF Distinct

LEMMA ReverseDistinct ==
  ASSUME NEW T, NEW s \in Seq(T), Distinct(s)
  PROVE  Distinct(Reverse(s))
<1>1. /\ DOMAIN Reverse(s) = DOMAIN s
      /\ \A i \in DOMAIN s : Len(s) - i + 1 \in DOMAIN s /\ Reverse(s)[i] = s[Len(s) - i + 1]
  BY ReverseType
<1>2. Len(s) \in Nat /\ DOMAIN s = 1 .. Len(s)
  OBVIOUS
<1>3. ASSUME NEW i \in DOMAIN s, NEW j \in DOMAIN s, Reverse(s)[i] = Reverse(s)[j] PROVE i = j
  <2>1. Len(s) - i + 1 = Len(s) - j + 1
    BY <1>1, <1>3 DEF Distinct
  <2> QED BY <1>2, <2>1
<1> QED BY <1>1, <1>3 DEF Distinct

LEMMA PageDistinct ==
  ASSUME NEW T, NEW s \in Seq(T), NEW start \in Nat, Distinct(s)
  PROVE  Distinct(PageOf(s, start))
<1> DEFINE m == start * PageSize + 1
           n == Least((start + 1) * PageSize, Len(s))
<1>1. start * PageSize \in Nat /\ (start + 1) * PageSize \in Nat /\ Len(s) \in Nat
  BY TableAssumption
<1>2. m \in Nat \ {0} /\ n \in Nat /\ n <= Len(s)
  BY <1>1 DEF Least
<1> HIDE DEF m, n
<1>3. PageOf(s, start) = SubSeq(s, m, n)
  BY DEF PageOf, m, n
<1>4. \A i \in m .. n : i \in DOMAIN s
  BY <1>2
<1>5. SubSeq(s, m, n) = [i \in 1 .. (IF m <= n THEN n - m + 1 ELSE 0) |-> s[i + m - 1]]
  BY <1>2, <1>4
<1>6. ASSUME NEW i \in 1 .. (IF m <= n THEN n - m + 1 ELSE 0),
             NEW j \in 1 .. (IF m <= n THEN n - m + 1 ELSE 0), s[i + m - 1] = s[j + m - 1]
      PROVE  i = j
  <2>1. i + m - 1 \in m .. n /\ j + m - 1 \in m .. n
    BY <1>2
  <2>2. i + m - 1 = j + m - 1
    BY <1>4, <1>6, <2>1 DEF Distinct
  <2> QED BY <1>2, <2>2
<1> QED BY <1>3, <1>5, <1>6 DEF Distinct

LEMMA OrderedDistinct ==
  ASSUME ServerInv, Distinct(rows), NEW q
  PROVE  Distinct(Ordered(q))
<1>1. rows \in Seq(Ids)
  BY DEF ServerInv
<1> QED BY <1>1, KeepDistinct, ReverseDistinct DEF Ordered

\* Rows only go, or a record comes that never was there.
LEMMA DistinctStep ==
  ASSUME IInv, Distinct(rows), [Next]_vars
  PROVE  Distinct(rows)'
<1>0. rows \in Seq(Ids)
  BY DEF IInv, ServerInv
<1>1. CASE rows' = rows
  BY <1>1 DEF Distinct
<1>2. ASSUME NEW S, rows' = Keep(rows, S) PROVE Distinct(rows)'
  <2>1. Distinct(Keep(rows, S))
    BY <1>0, KeepDistinct
  <2> QED BY <1>2, <2>1 DEF Distinct
<1>3. ASSUME rows' = <<NewRow>> \o rows, had[NewRow] = {} PROVE Distinct(rows)'
  <2>1. NewRow \in Ids
    BY DEF Ids
  <2>2. ~Exists(NewRow)
    BY <1>3, <2>1 DEF IInv, ServerInv, Known
  <2>3. PICK new : new = <<NewRow>> \o rows
    OBVIOUS
  <2>4. /\ Len(rows) \in Nat /\ DOMAIN rows = 1 .. Len(rows)
        /\ DOMAIN new = 1 .. (Len(rows) + 1)
        /\ \A i \in DOMAIN new : new[i] = IF i = 1 THEN NewRow ELSE rows[i - 1]
    BY <1>0, <2>1, <2>3
  <2>5. \A i \in DOMAIN rows : rows[i] # NewRow
    BY <2>2 DEF Exists, Range
  <2>6. ASSUME NEW i \in DOMAIN new, NEW j \in DOMAIN new, new[i] = new[j] PROVE i = j
    <3>1. CASE i = 1 \/ j = 1
      <4>1. \A k \in DOMAIN new : k # 1 => k - 1 \in DOMAIN rows
        BY <2>4
      <4> QED BY <2>4, <2>5, <2>6, <3>1, <4>1
    <3>2. CASE i # 1 /\ j # 1
      <4>1. i - 1 \in DOMAIN rows /\ j - 1 \in DOMAIN rows /\ rows[i - 1] = rows[j - 1]
        BY <2>4, <2>6, <3>2
      <4>2. i - 1 = j - 1
        BY <4>1 DEF Distinct
      <4> QED BY <2>4, <4>2
    <3> QED BY <3>1, <3>2
  <2> QED BY <1>3, <2>3, <2>6 DEF Distinct
<1>4. CASE UNCHANGED vars
  BY <1>1, <1>4 DEF vars, server
<1>5. CASE Serve
  BY <1>1, <1>2, <1>5 DEF Serve, ServeList, ServeDelete, ServeUpdate, ServeAbsent, ServeSweep,
     ServeMeasure, Sweep, server
<1>6. CASE Refuse
  BY <1>1, <1>6 DEF Refuse, server
<1>7. CASE Others
  BY <1>1, <1>2, <1>3, <1>7 DEF Others
<1>8. CASE DefaultStep \/ AirStep \/ BerryStep
  BY <1>1, <1>8, DefaultLeaves, AirLeaves, BerryLeaves DEF SameServer, server
<1> QED BY <1>4, <1>5, <1>6, <1>7, <1>8 DEF Next

(***************************************************************************)
(* Clicks of a user who waits: no request is under way, every row stands   *)
(***************************************************************************)
LEMMA MoreFields ==
  ASSUME NEW f, NEW n
  PROVE  LET q == Request(f, n)
         IN  /\ q.start = IF "start" \in DOMAIN f THEN f.start ELSE 0
             /\ q.goto = IF "goto" \in DOMAIN f THEN f.goto ELSE 0
             /\ q.then = IF "then" \in DOMAIN f THEN f.then ELSE "none"
             /\ q.size = IF "size" \in DOMAIN f THEN f.size ELSE size
             /\ q.value = IF "value" \in DOMAIN f THEN f.value ELSE 0
BY DEF Request

LEMMA RowsStand ==
  ASSUME SameServer, SameRows
  PROVE  /\ List' = List
         /\ \A ref : Stands(ref) => Stands(ref)'
         /\ \A id : Exists(id)' <=> Exists(id)
BY DEF SameServer, SameRows, server, List, Stands, Hidden, Right, Current, Exists

\* Rows that stay in their array, and requests that doubt no row without need.
LEMMA QuietScreen ==
  ASSUME CalmInv, SameServer, SameRows, Alone', \A q \in net' : Present(q)',
         \A i \in DOMAIN List : \A r \in net :
            Doubts(r, Id(i), i) => Stands(List[i]) \/ \E q \in net' : Doubts(q, Id(i), i),
         table \in Berry => Switched' /\ Mounted'
  PROVE  CalmInv'
<1>1. List' = List /\ (\A ref : Stands(ref) => Stands(ref)') /\ table' = table
  BY RowsStand DEF SameServer
<1>2. \A i : Id(i)' = Id(i)
  BY <1>1 DEF Id
<1>3. Unique'
  BY <1>1, <1>2 DEF CalmInv, Unique
<1>4. Standing'
  <2> SUFFICES ASSUME NEW i \in DOMAIN List
               PROVE  Stands(List[i])' \/ \E q \in net' : Doubts(q, Id(i), i)
    BY <1>1, <1>2 DEF Standing
  <2>1. Stands(List[i]) \/ \E r \in net : Doubts(r, Id(i), i)
    BY DEF CalmInv, Standing
  <2>2. Stands(List[i]) \/ \E q \in net' : Doubts(q, Id(i), i)
    BY <2>1
  <2>3. PICK ref : ref = List[i]
    OBVIOUS
  <2>4. Stands(ref) => Stands(ref)'
    BY <1>1
  <2>5. List'[i] = ref
    BY <1>1, <2>3
  <2>6. Stands(List[i])' <=> Stands(ref)'
    BY <2>5 DEF Stands, Hidden, Right, Current, Exists
  <2> QED BY <2>2, <2>3, <2>4, <2>6
<1> QED BY <1>1, <1>3, <1>4 DEF CalmInv

\* A request that a click sends.
LEMMA NewRequest ==
  ASSUME SameServer, SameRows, NEW q, q.cap = cur, q.ans = None, q.then # "switch",
         q.do \in Edits => Exists(q.id),
         table \in Berry => OfBerry(q)'
  PROVE  Present(q)'
<1>1. ~Answer(q) /\ table' = table /\ cur' = cur
  BY DEF Answer, None, SameServer, SameRows
<1>2. q.do \in Edits => Exists(q.id)'
  BY RowsStand
<1> QED BY <1>1, <1>2 DEF Present

LEMMA AskCalm ==
  ASSUME IInv, CalmInv, calm', NEW f, Ask(f), SameRows,
         NEW q, q = Request(f, issued + 1), Present(q)',
         table \in Berry => Switched' /\ Mounted'
  PROVE  CalmInv'
<1>1. net = {} /\ net' = {q} /\ SameServer
  BY Leaves DEF Ask
<1>2. Alone'
  BY <1>1 DEF Alone
<1> QED BY <1>1, <1>2, QuietScreen

\* ... on a table of default or air
LEMMA WebAsk ==
  ASSUME IInv, CalmInv, calm', table \notin Berry, NEW f, Ask(f), SameRows, "cap" \notin DOMAIN f,
         "then" \in DOMAIN f => f.then \in {"none", "clear"},
         ("do" \in DOMAIN f /\ f.do \in Edits) => "id" \in DOMAIN f /\ Exists(f.id)
  PROVE  CalmInv'
<1>1. SameServer
  BY Leaves
<1>2. PICK q : q = Request(f, issued + 1)
  OBVIOUS
<1>3. q.cap = cur /\ q.ans = None /\ q.then # "switch" /\ (q.do \in Edits => Exists(q.id))
  BY <1>2, RequestFields, MoreFields DEF Edits
<1>4. Present(q)'
  BY <1>1, <1>3, NewRequest
<1> QED BY <1>2, <1>4, AskCalm

\* The row that is clicked shows a record that exists, and is the only one.
LEMMA ShownAlone ==
  ASSUME IInv, CalmInv, net = {}, NEW i \in Shown
  PROVE  /\ Exists(IdOf(List[i]))
         /\ \A j \in DOMAIN List : Id(j) = IdOf(List[i]) => j = i
         /\ i > (page - 1) * size
         /\ table \notin Berry => StatusShown(List[i]) = status[IdOf(List[i])]
<1>1. /\ i \in DOMAIN List /\ i \in Nat /\ ~Hidden(List[i])
      /\ (i - 1) \div size = page - 1 /\ List[i][2] = IdOf(List[i])
  BY ShownRow DEF Shown, Positions, Hidden, IdOf
<1>2. Right(List[i])
  BY <1>1 DEF CalmInv, Standing, Stands
<1>3. \A j \in DOMAIN List : Id(j) = IdOf(List[i]) => j = i
  BY <1>1 DEF CalmInv, Unique, Id
<1>4. i > (page - 1) * size
  <2>1. size \in Nat \ {0} /\ page - 1 \in Nat
    BY DEF IInv, PagerInv, Positive
  <2>2. i - 1 >= ((i - 1) \div size) * size
    BY <1>1, <2>1
  <2>3. i - 1 >= (page - 1) * size
    BY <1>1, <2>2
  <2> QED BY <1>1, <2>1, <2>3
<1> QED BY <1>1, <1>2, <1>3, <1>4 DEF Right, Current, StatusShown, IdOf

LEMMA AskedCalm ==
  ASSUME NEW f, Ask(f), calm'
  PROVE  net = {}
BY DEF Ask

LEMMA WebRowAsk ==
  ASSUME IInv, CalmInv, calm', table \notin Berry, NEW i \in Shown, NEW do, AskRow(do, i)
  PROVE  CalmInv'
<1> DEFINE f == [do |-> do, id |-> IdOf(List[i]), ref |-> List[i], idx |-> i - (page - 1) * size]
<1>1. Ask(f) /\ SameRows
  BY DEF AskRow, AskOnly, screen, SameRows
<1>2. net = {}
  BY <1>1, AskedCalm
<1>3. Exists(f.id)
  BY <1>2, ShownAlone
<1>4. "cap" \notin DOMAIN f /\ "then" \notin DOMAIN f /\ "id" \in DOMAIN f
  OBVIOUS
<1> HIDE DEF f
<1> QED BY <1>1, <1>3, <1>4, WebAsk

LEMMA WebToggle ==
  ASSUME IInv, CalmInv, calm', table \notin Berry, NEW i \in Shown, AskToggle(i)
  PROVE  CalmInv'
<1>1. \E do : AskRow(do, i)
  BY DEF AskToggle
<1> QED BY <1>1, WebRowAsk

\* A click that fills the table anew, or asks for no row
WebList(f) == /\ "cap" \notin DOMAIN f
              /\ "then" \in DOMAIN f => f.then \in {"none", "clear"}
              /\ "do" \in DOMAIN f => f.do \notin Edits
LEMMA WebListAsk ==
  ASSUME IInv, CalmInv, calm', table \notin Berry, NEW f, Ask(f), SameRows, WebList(f)
  PROVE  CalmInv'
BY WebAsk DEF WebList

LEMMA WebAskOnly ==
  ASSUME IInv, CalmInv, calm', table \notin Berry, NEW f, AskOnly(f), WebList(f)
  PROVE  CalmInv'
BY WebListAsk DEF AskOnly, screen, SameRows

\* A click that sends nothing
LEMMA WebQuiet ==
  ASSUME CalmInv, table \notin Berry, SameServer, SameRows, net' = net
  PROVE  CalmInv'
<1>1. Alone'
  BY DEF CalmInv, Alone, Plain, SameServer
<1>2. ASSUME NEW q \in net PROVE Present(q)'
  <2>1. Present(q)
    BY DEF CalmInv
  <2> QED BY <2>1, RowsStand DEF Present, Truth, SameServer, SameRows, server
<1> QED BY <1>1, <1>2, QuietScreen

(***************************************************************************)
(* The server answers                                                      *)
(***************************************************************************)
LEMMA SameShown ==
  ASSUME SameRows, UNCHANGED <<page, size>>
  PROVE  List' = List /\ Shown' = Shown /\ \A i : Id(i)' = Id(i)
BY DEF SameRows, List, Shown, Positions, Id

\* What a request keeps when it is answered
LEMMA ServedFields ==
  ASSUME NEW r \in RequestSet, NEW a, NEW q, q = [r EXCEPT !.ans = a], r.ans = None, a.ok = "ok"
  PROVE  /\ q.ans = a /\ Answer(q) /\ ~Answer(r)
         /\ q.n = r.n /\ q.do = r.do /\ q.id = r.id /\ q.start = r.start /\ q.goto = r.goto
         /\ q.then = r.then /\ q.cap = r.cap /\ q.page = r.page /\ q.size = r.size
         /\ q.query = r.query /\ q.value = r.value
         /\ (Plain(q) <=> Plain(r))
         /\ \A id : Awaits(r, id) => Awaits(q, id)
<1>1. /\ q.ans = a
      /\ q.n = r.n /\ q.do = r.do /\ q.id = r.id /\ q.start = r.start /\ q.goto = r.goto
      /\ q.then = r.then /\ q.cap = r.cap /\ q.page = r.page /\ q.size = r.size
      /\ q.query = r.query /\ q.value = r.value
  BY DEF RequestSet
<1>2. Answer(q) /\ ~Answer(r)
  BY <1>1 DEF Answer, None
<1> QED BY <1>1, <1>2 DEF Plain, Awaits

LEMMA ServedPresent ==
  ASSUME IInv, CalmInv, UNCHANGED screen, table' = table, NEW r \in net, r.ans = None,
         NEW a, a.ok = "ok", NEW q, q = [r EXCEPT !.ans = a], Truth(q)',
         (r.do \in Switches /\ table \in Berry) => r.value = status'[r.id],
         r.then = "switch" => status'[r.id] = status[r.id]
  PROVE  Present(q)'
<1>1. r \in RequestSet /\ Present(r)
  BY DEF IInv, NetInv, CalmInv
<1>2. /\ q.ans = a /\ Answer(q) /\ ~Answer(r)
      /\ q.n = r.n /\ q.do = r.do /\ q.id = r.id /\ q.start = r.start /\ q.goto = r.goto
      /\ q.then = r.then /\ q.cap = r.cap /\ q.page = r.page /\ q.size = r.size
      /\ q.query = r.query /\ q.value = r.value
  BY <1>1, ServedFields
<1>3. /\ SameRows /\ UNCHANGED <<page, size, switch>>
      /\ List' = List /\ \A i : Id(i)' = Id(i)
  <2>1. SameRows /\ UNCHANGED <<page, size, switch>>
    BY DEF screen, SameRows
  <2> QED BY <2>1, SameShown
<1>4. table \in Berry => OfBerry(q)'
  BY <1>1, <1>2, <1>3 DEF Present, OfBerry
<1>5. (q.do = "load" /\ q.start = 0) \/ q.cap = cur'
  BY <1>1, <1>2, <1>3 DEF Present, SameRows
<1>6. q.then = "switch" => q.do = "load" /\ table' = "berry/users" /\ q.value = status'[q.id]
  BY <1>1, <1>2 DEF Present
<1> QED BY <1>2, <1>4, <1>5, <1>6 DEF Present

LEMMA ServedAlone ==
  ASSUME IInv, CalmInv, table' = table, NEW r \in net, r.ans = None,
         NEW a, a.ok = "ok", NEW q, q = [r EXCEPT !.ans = a], net' = (net \ {r}) \cup {q}
  PROVE  /\ Alone'
         /\ ~Plain(r) => net = {r}
         /\ q \in net'
         /\ \A id : (\E p \in net : Awaits(p, id)) => (\E p \in net' : Awaits(p, id))
<1>1. r \in RequestSet
  BY DEF IInv, NetInv
<1>2. (Plain(q) <=> Plain(r)) /\ (\A id : Awaits(r, id) => Awaits(q, id))
  BY <1>1, ServedFields
<1>3. \A p : Plain(p)' <=> Plain(p)
  BY DEF Plain
<1> QED BY <1>2, <1>3 DEF CalmInv, Alone

\* A list or a measurement changes no record.
LEMMA LookCalm ==
  ASSUME IInv, CalmInv, SameServer, UNCHANGED screen, NEW r \in net, r.ans = None,
         r.do \in {"load", "search", "test", "balance"},
         NEW a, a.ok = "ok", NEW q, q = [r EXCEPT !.ans = a], net' = (net \ {r}) \cup {q}, Truth(q)'
  PROVE  CalmInv'
<1>1. r \in RequestSet /\ table' = table /\ UNCHANGED <<rows, status>>
  BY DEF IInv, NetInv, SameServer, server
<1>2. /\ Answer(q) /\ ~Answer(r) /\ q.do = r.do /\ q.id = r.id /\ q.start = r.start /\ q.size = r.size
  BY <1>1, ServedFields
<1>3. /\ Alone' /\ q \in net'
      /\ \A id : (\E p \in net : Awaits(p, id)) => (\E p \in net' : Awaits(p, id))
  BY <1>1, ServedAlone
<1>4. SameRows /\ UNCHANGED <<page, size, switch>>
  BY DEF screen, SameRows
<1>5. Present(q)'
  <2>1. r.do \notin Switches
    BY DEF Switches
  <2> QED BY <1>1, <2>1, ServedPresent
<1>6. ASSUME NEW p \in net PROVE Present(p)'
  <2>1. Present(p)
    BY DEF CalmInv
  <2>2. List' = List /\ \A i : Id(i)' = Id(i)
    BY <1>4, SameShown
  <2>3. table \in Berry => OfBerry(p)'
    BY <1>1, <1>4, <2>1, <2>2 DEF Present, OfBerry
  <2>4. Truth(p) => Truth(p)'
    BY <1>1 DEF Truth, Exists
  <2> QED BY <1>1, <1>4, <2>1, <2>3, <2>4 DEF Present, Exists, SameRows
<1>7. \A i \in DOMAIN List : \A p \in net : Doubts(p, Id(i), i) => \E u \in net' : Doubts(u, Id(i), i)
  <2>1. \A i \in DOMAIN List : Doubts(r, Id(i), i) => Doubts(q, Id(i), i)
    BY <1>2 DEF Doubts
  <2> QED BY <1>3, <2>1
<1>8. ASSUME table \in Berry PROVE Switched' /\ Mounted'
  <2>1. Switched'
    BY <1>1, <1>3, <1>4, <1>8 DEF CalmInv, Switched
  <2>2. Mounted'
    BY <1>1, <1>3, <1>4, <1>8, SameShown DEF CalmInv, Mounted
  <2> QED BY <2>1, <2>2
<1>9. \A p \in net' : Present(p)'
  BY <1>5, <1>6
<1> QED BY <1>3, <1>4, <1>7, <1>8, <1>9, QuietScreen

LEMMA ServeListCalm ==
  ASSUME IInv, Distinct(rows), CalmInv, UNCHANGED <<table, screen>>, NEW r \in net, r.ans = None,
         ServeList(r)
  PROVE  CalmInv'
<1>1. r \in RequestSet /\ rows \in Seq(Ids) /\ ServerInv
  BY DEF IInv, NetInv, ServerInv
<1>2. PICK ids : ids = IF r.do = "load" THEN PageOf(Ordered(r.query), r.start) ELSE Keep(rows, Found)
  OBVIOUS
<1>3. PICK a : a = Ok(ids, 0)
  OBVIOUS
<1>4. PICK q : q = [r EXCEPT !.ans = a]
  OBVIOUS
<1>5. /\ net' = (net \ {r}) \cup {q} /\ r.do \in {"load", "search"}
      /\ SameServer /\ UNCHANGED <<rows, status>>
  BY <1>2, <1>3, <1>4 DEF ServeList, Answered, SameServer, server
<1>6. Distinct(ids) /\ \A id \in Range(ids) : Exists(id)
  <2>1. CASE r.do = "load"
    <3>1. r.start \in Nat
      BY <1>1 DEF RequestSet
    <3>2. PICK s : s = Ordered(r.query)
      OBVIOUS
    <3>3. s \in Seq(Ids) /\ (\A id \in Range(s) : Exists(id)) /\ Distinct(s)
      BY <1>1, <3>2, OrderedType, OrderedDistinct
    <3> QED BY <1>2, <2>1, <3>1, <3>2, <3>3, PageOfType, PageDistinct
  <2>2. CASE r.do # "load"
    BY <1>1, <1>2, <2>2, KeepType, KeepDistinct DEF Exists
  <2> QED BY <2>1, <2>2
<1>7. a.ok = "ok" /\ a.rows = ids /\ a.status = status
  BY <1>3 DEF Ok
<1>8. q.ans = a /\ q.do = r.do
  BY <1>1, <1>4, <1>5, <1>7, ServedFields
<1>9. Truth(q)'
  BY <1>5, <1>6, <1>7, <1>8 DEF Truth, Writes, Exists, Distinct
<1> QED BY <1>4, <1>5, <1>7, <1>9, LookCalm DEF SameServer

LEMMA ServeMeasureCalm ==
  ASSUME IInv, CalmInv, UNCHANGED <<table, screen>>, NEW r \in net, r.ans = None, ServeMeasure(r)
  PROVE  CalmInv'
<1>1. r \in RequestSet
  BY DEF IInv, NetInv
<1>3. PICK a : a = Ok(<<>>, r.id)
  OBVIOUS
<1>4. PICK q : q = [r EXCEPT !.ans = a]
  OBVIOUS
<1>5. net' = (net \ {r}) \cup {q} /\ r.do \in {"test", "balance"} /\ SameServer /\ a.ok = "ok"
  BY <1>3, <1>4 DEF ServeMeasure, Answered, SameServer, Ok
<1>6. q.do = r.do
  BY <1>1, <1>4, <1>5, ServedFields
<1>7. Truth(q)'
  BY <1>5, <1>6 DEF Truth, Writes
<1> QED BY <1>4, <1>5, <1>7, LookCalm

LEMMA KeepHas ==
  ASSUME NEW T, NEW s \in Seq(T), NEW S, NEW i \in DOMAIN s, s[i] \in S
  PROVE  s[i] \in Range(Keep(s, S))
<1> DEFINE kept == {j \in DOMAIN s : s[j] \in S}
           Count(j) == Cardinality({m \in kept : m <= j})
           At(k) == CHOOSE j \in kept : Count(j) = k
<1>1. Len(s) \in Nat /\ DOMAIN s = 1 .. Len(s) /\ kept \in SUBSET (1 .. Len(s)) /\ i \in kept
  OBVIOUS
<1>2. IsFiniteSet(kept)
  <2>1. IsFiniteSet(1 .. Len(s))
    BY <1>1, FS_Interval
  <2> QED BY <1>1, <2>1, FS_Subset
<1>3. Keep(s, S) = [k \in 1 .. Cardinality(kept) |-> s[At(k)]]
  BY DEF Keep
<1> HIDE DEF kept
<1>4. \A j \in kept : Count(j) \in 1 .. Cardinality(kept)
  <2> TAKE j \in kept
  <2> DEFINE upto == {m \in kept : m <= j}
  <2>1. upto \subseteq kept /\ j \in upto
    BY <1>1
  <2>2. IsFiniteSet(upto) /\ Cardinality(upto) <= Cardinality(kept) /\ Cardinality(upto) \in Nat
    BY <1>2, <2>1, FS_Subset, FS_CardinalityType
  <2>3. Cardinality(upto) # 0
    BY <2>1, <2>2, FS_EmptySet
  <2>4. Cardinality(kept) \in Nat
    BY <1>2, FS_CardinalityType
  <2> QED BY <2>2, <2>3, <2>4
\* two kept positions have different counts
<1>5. ASSUME NEW j \in kept, NEW m \in kept, j < m PROVE Count(j) # Count(m)
  <2> DEFINE lower == {n \in kept : n <= j}
             upper == {n \in kept : n <= m}
  <2>1. lower \subseteq upper /\ m \in upper /\ m \notin lower /\ \A n \in kept : n \in Nat
    BY <1>1, <1>5
  <2>2. IsFiniteSet(upper)
    BY <1>2, FS_Subset
  <2>3. Cardinality(lower) # Cardinality(upper)
    <3> HIDE DEF lower, upper
    <3> QED BY <2>1, <2>2, FS_Subset
  <2> QED BY <2>3
<1>6. At(Count(i)) = i
  <2> HIDE DEF Count
  <2>1. \A j \in kept : j \in Nat /\ i \in Nat
    BY <1>1
  <2>2. \A j \in kept : Count(j) = Count(i) => j = i
    BY <1>1, <1>5, <2>1
  <2> QED BY <1>1, <2>2
<1>7. PICK k : k = Count(i)
  OBVIOUS
<1>8. k \in 1 .. Cardinality(kept) /\ At(k) = i
  BY <1>1, <1>4, <1>6, <1>7
<1> HIDE DEF At, Count
<1>9. k \in DOMAIN Keep(s, S) /\ Keep(s, S)[k] = s[i]
  BY <1>3, <1>8
<1> QED BY <1>9 DEF Range

\* A change of the records: the rows it makes wrong are doubted from now on.
LEMMA ChangeCalm ==
  ASSUME IInv, CalmInv, UNCHANGED <<table, screen>>, NEW r \in net, r.ans = None,
         r.do \in Edits \cup {"sweep"},
         NEW a, a.ok = "ok", NEW q, q = [r EXCEPT !.ans = a], net' = (net \ {r}) \cup {q}, Truth(q)',
         (r.do \in Switches /\ table \in Berry) => r.value = status'[r.id],
         \A ref : Stands(ref) => Stands(ref)' \/ r.do = "sweep" \/ (r.do \in Edits /\ ref[2] = r.id),
         \A id : status'[id] = status[id] \/ (r.do \in Switches /\ id = r.id)
  PROVE  CalmInv'
<1>1. r \in RequestSet /\ Present(r)
  BY DEF IInv, NetInv, CalmInv
<1>2. /\ Answer(q) /\ ~Answer(r) /\ q.do = r.do /\ q.id = r.id /\ q.then = r.then
  BY <1>1, ServedFields
<1>3. r.then # "switch" /\ ~Plain(r)
  BY <1>1 DEF Present, Plain, Edits
<1>4. Alone' /\ net = {r} /\ net' = {q}
  BY <1>3, ServedAlone
<1>5. SameRows /\ UNCHANGED <<page, size, switch>> /\ List' = List /\ Shown' = Shown /\ (\A i : Id(i)' = Id(i))
  <2>1. SameRows /\ UNCHANGED <<page, size, switch>>
    BY DEF screen, SameRows
  <2> QED BY <2>1, SameShown
<1>6. Present(q)'
  BY <1>3, ServedPresent
<1>7. Unique'
  BY <1>5 DEF CalmInv, Unique
<1>8. Standing'
  <2> SUFFICES ASSUME NEW i \in DOMAIN List
               PROVE  Stands(List[i])' \/ \E p \in net' : Doubts(p, Id(i), i)
    BY <1>5 DEF Standing
  <2>1. PICK ref : ref = List[i]
    OBVIOUS
  <2>2. Id(i) = ref[2]
    BY <2>1 DEF Id, IdOf
  <2>3. ~Doubts(r, Id(i), i)
    BY <1>2 DEF Doubts, Edits
  <2>4. Stands(ref)
    BY <1>4, <2>1, <2>3 DEF CalmInv, Standing
  <2>5. Stands(ref)' \/ Doubts(q, Id(i), i)
    BY <1>2, <2>2, <2>4 DEF Doubts
  <2>6. Stands(ref)' => Stands(List[i])'
    BY <1>5, <2>1
  <2> QED BY <1>4, <2>5, <2>6
<1>9. ASSUME table \in Berry PROVE Switched' /\ Mounted'
  <2>1. ASSUME NEW id \in DOMAIN switch PROVE switch[id].value = status'[id] \/ Awaits(q, id)
    <3>1. ~Awaits(r, id)
      BY <1>2, <1>3 DEF Awaits
    <3>2. switch[id].value = status[id]
      BY <1>4, <1>9, <3>1 DEF CalmInv, Switched
    <3> QED BY <1>2, <3>2 DEF Awaits
  <2>2. Switched'
    BY <1>4, <1>5, <2>1 DEF Switched
  <2>3. Mounted'
    BY <1>4, <1>5, <1>9 DEF CalmInv, Mounted
  <2> QED BY <2>2, <2>3
<1> QED BY <1>4, <1>6, <1>7, <1>8, <1>9 DEF CalmInv

LEMMA ServeDeleteCalm ==
  ASSUME IInv, CalmInv, UNCHANGED <<table, screen>>, NEW r \in net, r.ans = None, ServeDelete(r)
  PROVE  CalmInv'
<1>1. r \in RequestSet /\ rows \in Seq(Ids)
  BY DEF IInv, NetInv, ServerInv
<1>2. PICK a : a = Ok(<<>>, 0)
  OBVIOUS
<1>3. PICK q : q = [r EXCEPT !.ans = a]
  OBVIOUS
<1>4. /\ net' = (net \ {r}) \cup {q} /\ r.do = "delete" /\ a.ok = "ok"
      /\ rows' = Keep(rows, Ids \ {r.id}) /\ UNCHANGED <<table, heap, status>>
  BY <1>2, <1>3 DEF ServeDelete, Answered, Ok, screen
<1>5. q.do = r.do
  BY <1>1, <1>3, <1>4, ServedFields
<1>6. Truth(q)'
  BY <1>4, <1>5 DEF Truth, Writes
<1>7. ASSUME NEW ref, Stands(ref), ref[2] # r.id PROVE Stands(ref)'
  <2>1. Exists(ref[2]) => ref[2] \in Range(Keep(rows, Ids \ {r.id}))
    <3> SUFFICES ASSUME Exists(ref[2]) PROVE ref[2] \in Range(Keep(rows, Ids \ {r.id}))
      OBVIOUS
    <3>1. PICK i \in DOMAIN rows : rows[i] = ref[2]
      BY DEF Exists, Range
    <3>2. ref[2] \in Ids \ {r.id}
      BY <1>1, <1>7, <3>1
    <3> QED BY <1>1, <3>1, <3>2, KeepHas
  <2> QED BY <1>4, <1>7, <2>1 DEF Stands, Hidden, Right, Current, Exists
<1> QED BY <1>3, <1>4, <1>6, <1>7, ChangeCalm DEF Edits, Switches

LEMMA ServeUpdateCalm ==
  ASSUME IInv, CalmInv, UNCHANGED <<table, screen>>, NEW r \in net, r.ans = None, ServeUpdate(r)
  PROVE  CalmInv'
<1>1. r \in RequestSet /\ status \in [Ids -> Statuses] /\ Present(r) /\ rows \in Seq(Ids)
  BY DEF IInv, NetInv, ServerInv, CalmInv
<1>2. PICK s : s = CASE r.do = "enable" -> Enabled
                     [] r.do = "disable" -> Disabled
                     [] r.do = "touch" -> status[r.id]
  OBVIOUS
<1>3. PICK a : a = Ok(<<>>, s)
  OBVIOUS
<1>4. PICK q : q = [r EXCEPT !.ans = a]
  OBVIOUS
<1>5. /\ net' = (net \ {r}) \cup {q} /\ r.do \in Writes /\ a.ok = "ok" /\ a.value = s
      /\ status' = [status EXCEPT ![r.id] = s] /\ UNCHANGED <<table, heap, rows>> /\ Exists(r.id)
  BY <1>2, <1>3, <1>4 DEF ServeUpdate, Answered, Ok, screen, Writes
<1>6. r.id \in Ids
  BY <1>1, <1>5 DEF Exists, Range
<1>7. status'[r.id] = s /\ \A id : id # r.id => status'[id] = status[id]
  BY <1>1, <1>5, <1>6
<1>8. q.do = r.do /\ q.id = r.id /\ q.ans = a
  BY <1>1, <1>4, <1>5, ServedFields
<1>9. Truth(q)'
  BY <1>5, <1>7, <1>8 DEF Truth, Exists, Writes
<1>10. (r.do \in Switches /\ table \in Berry) => r.value = status'[r.id]
  BY <1>1, <1>2, <1>7 DEF Present, OfBerry, Switches
<1>11. \A ref : Stands(ref) => Stands(ref)' \/ ref[2] = r.id
  BY <1>5, <1>7 DEF Stands, Hidden, Right, Current, Exists
<1>12. r.do \notin Switches => s = status[r.id]
  BY <1>2, <1>5 DEF Writes, Switches
<1>13. \A id : status'[id] = status[id] \/ (r.do \in Switches /\ id = r.id)
  BY <1>7, <1>12
<1> QED BY <1>4, <1>5, <1>9, <1>10, <1>11, <1>13, ChangeCalm DEF Edits, Writes

LEMMA ServeSweepCalm ==
  ASSUME IInv, CalmInv, UNCHANGED <<table, screen>>, NEW r \in net, r.ans = None, ServeSweep(r)
  PROVE  CalmInv'
<1>1. r \in RequestSet
  BY DEF IInv, NetInv
<1>2. PICK a : a = Ok(<<>>, 0)
  OBVIOUS
<1>3. PICK q : q = [r EXCEPT !.ans = a]
  OBVIOUS
<1>4. net' = (net \ {r}) \cup {q} /\ r.do = "sweep" /\ a.ok = "ok" /\ status' = status
  BY <1>2, <1>3 DEF ServeSweep, Answered, Ok
<1>5. q.do = r.do
  BY <1>1, <1>3, <1>4, ServedFields
<1>6. Truth(q)'
  BY <1>4, <1>5 DEF Truth, Writes
<1> QED BY <1>3, <1>4, <1>6, ChangeCalm DEF Switches

LEMMA ServeCalm ==
  ASSUME IInv, Distinct(rows), CalmInv, Serve
  PROVE  CalmInv'
<1>1. PICK r \in net :
        /\ r.ans = None
        /\ \/ ServeList(r) \/ ServeDelete(r) \/ ServeUpdate(r)
           \/ ServeAbsent(r) \/ ServeSweep(r) \/ ServeMeasure(r)
        /\ UNCHANGED <<table, screen>>
  BY DEF Serve
<1>2. ~ServeAbsent(r)
  <2>1. Present(r) /\ ~Answer(r)
    BY <1>1 DEF CalmInv, Answer, None
  <2> QED BY <2>1 DEF ServeAbsent, Present, Edits
<1> QED BY <1>1, <1>2, ServeListCalm, ServeDeleteCalm, ServeUpdateCalm, ServeSweepCalm, ServeMeasureCalm

LEMMA NewList ==
  ASSUME IInv, NEW rs, NEW src, NewArray(rs, src)
  PROVE  List' = rs /\ cur' = Len(arrays) + 1 /\ arrays'[cur'].src = src
<1>1. PICK a : a = [rows |-> rs, src |-> src]
  OBVIOUS
<1>2. arrays \in Seq(ArraySet) /\ Len(arrays) \in Nat
  BY DEF IInv, ArraysInv
<1>3. arrays' = Append(arrays, a) /\ cur' = Len(arrays) + 1
  BY <1>1 DEF NewArray
<1>4. arrays'[Len(arrays) + 1] = a
  BY <1>2, <1>3
<1>5. a.rows = rs /\ a.src = src
  BY <1>1
<1> QED BY <1>3, <1>4, <1>5 DEF List

(***************************************************************************)
(* Rows that an answer brings                                              *)
(***************************************************************************)
LEMMA SoleRequest ==
  ASSUME CalmInv, NEW r \in net, ~Plain(r)
  PROVE  net = {r}
BY DEF CalmInv, Alone

\* The rows of the array after a step: each record once, each row right.
LEMMA NewRows ==
  ASSUME NEW new, new = List',
         \A i, j \in DOMAIN new : new[i][2] = new[j][2] => i = j,
         \A i \in DOMAIN new : \A ref : ref = new[i] => Stands(ref)'
  PROVE  Unique' /\ Standing' /\ \A i \in DOMAIN new : Stands(new[i])'
<1>1. Unique'
  BY DEF Unique, Id, IdOf
<1>2. ASSUME NEW i \in DOMAIN new PROVE Stands(new[i])' /\ Stands(List[i])'
  <2>1. PICK ref : ref = new[i]
    OBVIOUS
  <2>2. Stands(ref)'
    BY <2>1
  <2> QED BY <2>1, <2>2
<1> QED BY <1>1, <1>2 DEF Standing

\* The first m rows stay, the answer's rows follow.
Followed(r, m, new) ==
  /\ m \in Nat /\ m <= Len(List)
  /\ DOMAIN new = 1 .. (m + Len(r.ans.rows))
  /\ \A i \in DOMAIN new : new[i] = IF i <= m THEN List[i] ELSE <<Len(heap) + 1, r.ans.rows[i - m]>>

LEMMA ListType ==
  ASSUME IInv
  PROVE  /\ List \in Seq(Nat \X Ids) /\ Len(List) \in Nat /\ DOMAIN List = 1 .. Len(List)
         /\ \A i \in DOMAIN List : RefOK(List[i])
         /\ heap \in Seq(ObjectSet) /\ Len(heap) \in Nat
<1>1. cur \in DOMAIN arrays
  BY DEF IInv, ArraysInv
<1>2. List \in Seq(Nat \X Ids) /\ \A i \in DOMAIN List : RefOK(List[i])
  BY <1>1, ArrayRows DEF List
<1>3. heap \in Seq(ObjectSet)
  BY DEF IInv, HeapInv
<1> QED BY <1>2, <1>3

LEMMA FollowedAt ==
  ASSUME NEW m \in Nat, NEW n \in Nat, NEW l \in Nat, m <= l, NEW i \in 1 .. (m + n)
  PROVE  /\ i \in Nat
         /\ i <= m => i \in 1 .. m /\ i \in 1 .. l
         /\ ~(i <= m) => i > m /\ i - m \in 1 .. n
OBVIOUS

LEMMA FollowedRows ==
  ASSUME IInv, SameServer, NEW r \in RequestSet, RequestInv(r), Lists(r), Truth(r), Unique,
         heap' = Append(heap, Objects(r)), NEW m, NEW new, Followed(r, m, new), new = List',
         \A i \in 1 .. m : Stands(List[i]) /\ Id(i) \notin Range(r.ans.rows)
  PROVE  /\ Unique' /\ Standing'
         /\ \A i \in DOMAIN new : Stands(new[i])'
         /\ \A i \in DOMAIN new : i > m => Current(new[i])'
<1>0. /\ Objects(r).status = [id \in Range(r.ans.rows) |-> r.ans.status[id]]
      /\ Objects(r).deleted = {}
  BY DEF Objects
<1>1. r.ans.rows \in Seq(Ids) /\ Len(r.ans.rows) \in Nat /\ DOMAIN r.ans.rows = 1 .. Len(r.ans.rows)
      /\ Objects(r) \in ObjectSet
  BY LoadObject DEF IInv
<1>2. /\ m \in Nat /\ Len(List) \in Nat /\ m <= Len(List) /\ DOMAIN List = 1 .. Len(List)
      /\ heap \in Seq(ObjectSet) /\ Len(heap) \in Nat
      /\ \A i \in DOMAIN List : RefOK(List[i])
  BY ListType DEF Followed
<1>10. ASSUME NEW i \in DOMAIN new
       PROVE  /\ i \in Nat
              /\ i <= m => i \in 1 .. m /\ i \in DOMAIN List /\ new[i] = List[i]
              /\ ~(i <= m) => /\ i > m /\ i - m \in DOMAIN r.ans.rows
                              /\ new[i] = <<Len(heap) + 1, r.ans.rows[i - m]>>
  <2>1. PICK n \in Nat : n = Len(r.ans.rows)
    BY <1>1
  <2>2. PICK l \in Nat : l = Len(List)
    BY <1>2
  <2>3. i \in 1 .. (m + n) /\ m <= l
    BY <1>2, <2>1, <2>2 DEF Followed
  <2>4. new[i] = IF i <= m THEN List[i] ELSE <<Len(heap) + 1, r.ans.rows[i - m]>>
    BY DEF Followed
  <2>5. /\ i \in Nat
        /\ i <= m => i \in 1 .. m /\ i \in 1 .. l
        /\ ~(i <= m) => i > m /\ i - m \in 1 .. n
    BY <1>2, <2>3, FollowedAt
  <2> QED BY <1>1, <1>2, <2>1, <2>2, <2>4, <2>5
<1>3. PICK o : o = Objects(r)
  OBVIOUS
<1>4. /\ heap'[Len(heap) + 1] = o
      /\ \A g \in DOMAIN heap : heap'[g] = heap[g]
  BY <1>1, <1>2, <1>3
<1>5. ASSUME NEW i \in DOMAIN new, i <= m
      PROVE  /\ i \in DOMAIN List /\ i \in 1 .. m /\ new[i] = List[i]
             /\ new[i][2] \notin Range(r.ans.rows)
             /\ \A ref : ref = new[i] => Stands(ref)'
  <2>1. i \in DOMAIN List /\ i \in 1 .. m /\ new[i] = List[i]
    BY <1>5, <1>10
  <2>2. PICK ref : ref = List[i]
    OBVIOUS
  <2>3. Stands(ref) /\ RefOK(ref) /\ ref[2] \notin Range(r.ans.rows)
    BY <1>2, <2>1, <2>2 DEF Id, IdOf
  <2>4. heap'[ref[1]] = heap[ref[1]]
    BY <1>4, <2>3 DEF RefOK
  <2>5. Stands(ref)'
    BY <2>3, <2>4 DEF Stands, Hidden, Right, Current, Exists, SameServer, server
  <2> QED BY <2>1, <2>2, <2>3, <2>5
<1>6. ASSUME NEW i \in DOMAIN new, ~(i <= m)
      PROVE  /\ i - m \in DOMAIN r.ans.rows /\ new[i] = <<Len(heap) + 1, r.ans.rows[i - m]>>
             /\ new[i][2] = r.ans.rows[i - m] /\ new[i][2] \in Range(r.ans.rows)
             /\ heap'[new[i][1]].status[new[i][2]] = status[new[i][2]]
             /\ \A ref : ref = new[i] => Stands(ref)'
  <2>1. i - m \in DOMAIN r.ans.rows /\ new[i] = <<Len(heap) + 1, r.ans.rows[i - m]>>
    BY <1>6, <1>10
  <2>2. PICK id : id = r.ans.rows[i - m]
    OBVIOUS
  <2>3. id \in Range(r.ans.rows)
    BY <2>1, <2>2 DEF Range
  <2>4. Exists(id) /\ r.ans.status[id] = status[id]
    BY <2>3 DEF Truth, Lists
  <2>5. heap'[Len(heap) + 1].status[id] = status[id]
    BY <1>0, <1>3, <1>4, <2>3, <2>4
  <2>6. PICK ref : ref = <<Len(heap) + 1, id>>
    OBVIOUS
  <2>7. ref[1] = Len(heap) + 1 /\ ref[2] = id
    BY <2>6
  <2>8. Right(ref)'
    BY <2>4, <2>5, <2>7 DEF Right, Current, Exists, SameServer, server
  <2> QED BY <2>1, <2>2, <2>3, <2>5, <2>6, <2>8 DEF Stands
<1>7. \A i, j \in DOMAIN new : new[i][2] = new[j][2] => i = j
  <2> SUFFICES ASSUME NEW i \in DOMAIN new, NEW j \in DOMAIN new, new[i][2] = new[j][2] PROVE i = j
    OBVIOUS
  <2>1. CASE i <= m /\ j <= m
    <3>1. i \in DOMAIN List /\ j \in DOMAIN List /\ Id(i) = Id(j)
      BY <1>5, <2>1 DEF Id, IdOf
    <3> QED BY <3>1 DEF Unique
  <2>2. CASE ~(i <= m) /\ ~(j <= m)
    <3>1. i - m \in DOMAIN r.ans.rows /\ j - m \in DOMAIN r.ans.rows
          /\ r.ans.rows[i - m] = r.ans.rows[j - m]
      BY <1>6, <2>2
    <3>2. i - m = j - m
      BY <3>1 DEF Truth, Lists, Distinct
    <3>3. i \in Nat /\ j \in Nat
      BY <1>10
    <3> QED BY <1>2, <3>2, <3>3
  <2>3. CASE (i <= m /\ ~(j <= m)) \/ (~(i <= m) /\ j <= m)
    BY <1>5, <1>6, <2>3
  <2> QED BY <2>1, <2>2, <2>3
<1>8. \A i \in DOMAIN new : \A ref : ref = new[i] => Stands(ref)'
  BY <1>5, <1>6
<1>9. \A i \in DOMAIN new : i > m => Current(new[i])'
  <2> TAKE i \in DOMAIN new
  <2>1. i \in Nat
    BY <1>10
  <2> QED BY <1>2, <1>6, <2>1 DEF Current, SameServer, server
<1> QED BY <1>7, <1>8, <1>9, NewRows

\* Shapes of the array after an answer
LEMMA SpliceTail ==
  ASSUME NEW T, NEW s \in Seq(T), NEW t \in Seq(T), NEW k \in Nat, Len(t) >= Len(s) - k,
         NEW u, u = Splice(s, k, Len(t), t), NEW m, m = Least(k, Len(s))
  PROVE  /\ m \in Nat /\ m <= Len(s) /\ m <= k
         /\ DOMAIN u = 1 .. (m + Len(t))
         /\ \A i \in DOMAIN u : u[i] = IF i <= m THEN s[i] ELSE t[i - m]
<1>1. Len(s) \in Nat /\ Len(t) \in Nat /\ m \in Nat /\ m <= Len(s) /\ m <= k
  BY DEF Least
<1>2. PICK p \in Nat : p = k + Len(t) + 1
  BY <1>1
<1>3. SubSeq(s, p, Len(s)) = <<>>
  <2>1. p > Len(s) /\ p >= 1
    BY <1>1, <1>2
  <2>2. \A i \in p .. Len(s) : s[i] \in T
    BY <1>1, <2>1
  <2>3. SubSeq(s, p, Len(s)) \in Seq(T) /\ Len(SubSeq(s, p, Len(s))) = 0
    BY <1>1, <2>1, <2>2
  <2> QED BY <2>3
<1>4. PICK a : a = SubSeq(s, 1, m)
  OBVIOUS
<1>5. a \in Seq(T) /\ Len(a) = m /\ \A i \in 1 .. m : a[i] = s[i]
  <2>1. \A i \in 1 .. m : s[i] \in T
    BY <1>1
  <2> QED BY <1>1, <1>4, <2>1
<1>6. u = (a \o t) \o <<>>
  BY <1>2, <1>3, <1>4 DEF Splice
<1>7. u = a \o t
  BY <1>5, <1>6
<1> QED BY <1>1, <1>5, <1>7

LEMMA PushTail ==
  ASSUME NEW T, NEW s \in Seq(T), NEW t \in Seq(T)
  PROVE  /\ DOMAIN (s \o t) = 1 .. (Len(s) + Len(t))
         /\ \A i \in DOMAIN (s \o t) : (s \o t)[i] = IF i <= Len(s) THEN s[i] ELSE t[i - Len(s)]
OBVIOUS

LEMMA RefsShape ==
  ASSUME IInv, NEW r \in RequestSet, RequestInv(r), Lists(r)
  PROVE  /\ Refs(r) \in Seq(Nat \X Ids) /\ Len(Refs(r)) = Len(r.ans.rows) /\ Len(r.ans.rows) \in Nat
         /\ DOMAIN Refs(r) = 1 .. Len(r.ans.rows)
         /\ \A i \in 1 .. Len(r.ans.rows) : Refs(r)[i] = <<Len(heap) + 1, r.ans.rows[i]>>
<1>1. r.ans.rows \in Seq(Ids) /\ Len(heap) \in Nat
  BY LoadObject, ListType DEF IInv
<1>2. \A i \in 1 .. Len(r.ans.rows) : <<Len(heap) + 1, r.ans.rows[i]>> \in Nat \X Ids
  BY <1>1
<1> QED BY <1>1, <1>2 DEF Refs

LEMMA FreshShape ==
  ASSUME IInv, NEW r \in RequestSet, RequestInv(r), Lists(r), NEW src, NewArray(Refs(r), src)
  PROVE  \E new : new = List' /\ Followed(r, 0, new)
<1>1. PICK rs : rs = Refs(r)
  OBVIOUS
<1>2. /\ Len(r.ans.rows) \in Nat /\ DOMAIN rs = 1 .. Len(r.ans.rows)
      /\ \A i \in 1 .. Len(r.ans.rows) : rs[i] = <<Len(heap) + 1, r.ans.rows[i]>>
  BY <1>1, RefsShape
<1>3. List' = rs /\ cur' = Len(arrays) + 1
  BY <1>1, NewList DEF NewArray
<1>4. Len(List) \in Nat
  BY ListType
<1>5. \A i \in DOMAIN rs : i \in Nat /\ ~(i <= 0) /\ i - 0 = i
  BY <1>2
<1>6. 0 + Len(r.ans.rows) = Len(r.ans.rows)
  BY <1>2
<1>7. Followed(r, 0, rs)
  BY <1>2, <1>4, <1>5, <1>6 DEF Followed
<1> QED BY <1>3, <1>7

LEMMA LoadShape ==
  ASSUME IInv, NEW r \in RequestSet, RequestInv(r), Lists(r), r.do = "load", ~Disturbs(r),
         r.start = 0 \/ r.cap = cur,
         SpliceRows(r) \/ (table \in Pushing /\ PushRows(r))
  PROVE  \E m, new :
           /\ new = List' /\ Followed(r, m, new)
           /\ m \in Nat /\ m <= r.start * r.size
           /\ \A i \in 1 .. m : Id(i) \notin Range(r.ans.rows)
           /\ r.start # 0 => m + Len(r.ans.rows) >= Len(List)
           /\ (r.start # 0 /\ m < Len(List)) => m = r.start * r.size
           /\ arrays'[cur'].src = IF r.start = 0 THEN "paged" ELSE arrays[cur].src
<1>1. r.start \in Nat /\ r.size \in Nat /\ r.start * r.size \in Nat
  <2>1. r.start \in Nat /\ r.size \in Nat
    BY DEF RequestSet, Positive
  <2> QED BY <2>1
<1>2. CASE r.start = 0
  <2>1. NewArray(Refs(r), "paged")
    BY <1>2 DEF SpliceRows, PushRows
  <2>2. PICK new : new = List' /\ Followed(r, 0, new)
    BY <2>1, FreshShape
  <2>3. \A i \in 1 .. 0 : FALSE
    OBVIOUS
  <2>4. arrays'[cur'].src = "paged"
    BY <2>1, NewList
  <2> QED BY <1>1, <1>2, <2>2, <2>3, <2>4
<1>3. CASE r.start # 0
  <2>1. PICK k \in Nat : k = r.start * r.size
    BY <1>1
  <2>2. PICK rs : rs = Refs(r)
    OBVIOUS
  <2>3. PICK old : old = List
    OBVIOUS
  <2>4. /\ rs \in Seq(Nat \X Ids) /\ Len(rs) = Len(r.ans.rows) /\ Len(rs) \in Nat
        /\ \A i \in 1 .. Len(rs) : rs[i] = <<Len(heap) + 1, r.ans.rows[i]>>
    BY <2>2, RefsShape
  <2>5. /\ old \in Seq(Nat \X Ids) /\ Len(old) \in Nat /\ DOMAIN old = 1 .. Len(old)
        /\ arrays[r.cap].rows = old /\ arrays \in Seq(ArraySet) /\ cur \in DOMAIN arrays
    BY <1>3, <2>3, ListType DEF List, IInv, ArraysInv
  <2>6. r.ans.ok = "ok" /\ r.start > 0
    BY <1>1, <1>3 DEF Lists
  <2>7. /\ Len(rs) >= Len(old) - k
        /\ \A i \in 1 .. Least(Len(old), k) : IdOf(old[i]) \notin Range(r.ans.rows)
        /\ table \in Pushing => Len(old) <= k
    BY <2>1, <2>4, <2>5, <2>6 DEF Disturbs
  <2>8. PICK m : m = Least(k, Len(old))
    OBVIOUS
  <2>9. m \in Nat /\ m <= Len(old) /\ m <= k /\ m = Least(Len(old), k)
    <3>1. Len(old) \in Nat
      BY <2>5
    <3> QED BY <2>8, <3>1 DEF Least
  <2>10. \A i \in 1 .. m : Id(i) \notin Range(r.ans.rows)
    BY <2>3, <2>7, <2>9 DEF Id
  <2>11. PICK new : new = List'
    OBVIOUS
  <2>12. /\ DOMAIN new = 1 .. (m + Len(rs))
         /\ \A i \in DOMAIN new : new[i] = IF i <= m THEN old[i] ELSE rs[i - m]
         /\ arrays'[cur'].src = arrays[cur].src
    <3>1. CASE SpliceRows(r)
      <4>1. NewArray(Splice(old, k, Len(rs), rs), arrays[r.cap].src)
        BY <1>3, <2>1, <2>2, <2>4, <2>5, <3>1 DEF SpliceRows
      <4>2. PICK u : u = Splice(old, k, Len(rs), rs)
        OBVIOUS
      <4>3. new = u /\ arrays'[cur'].src = arrays[cur].src
        BY <1>3, <2>11, <4>1, <4>2, NewList
      <4> DEFINE T == Nat \X Ids
      <4>4. old \in Seq(T) /\ rs \in Seq(T)
        BY <2>4, <2>5
      <4> HIDE DEF T
      <4> QED BY <2>7, <2>8, <4>2, <4>3, <4>4, SpliceTail
    <3>2. CASE table \in Pushing /\ PushRows(r)
      <4>1. arrays' = [arrays EXCEPT ![r.cap].rows = @ \o rs] /\ cur' = r.cap
        BY <1>3, <2>2, <3>2 DEF PushRows
      <4>2. r.cap = cur
        BY <1>3
      <4>3. PICK o : o = arrays[cur]
        OBVIOUS
      <4>4. PICK p : p = [o EXCEPT !.rows = old \o rs]
        OBVIOUS
      <4>5. o \in ArraySet /\ o.rows = old
        BY <2>5, <4>2, <4>3
      <4>6. p.rows = old \o rs /\ p.src = o.src
        BY <4>4, <4>5 DEF ArraySet
      <4>7. arrays' = [arrays EXCEPT ![cur] = p]
        BY <4>1, <4>2, <4>3, <4>4, <4>5
      <4>8. arrays'[cur'] = p
        BY <2>5, <4>1, <4>2, <4>7
      <4>9. new = old \o rs
        BY <2>11, <4>6, <4>8 DEF List
      <4>10. m = Len(old)
        <5>1. Len(old) \in Nat /\ Len(old) <= k
          BY <2>5, <2>7, <3>2
        <5> QED BY <2>8, <5>1 DEF Least
      <4> DEFINE T == Nat \X Ids
      <4>11. old \in Seq(T) /\ rs \in Seq(T)
        BY <2>4, <2>5
      <4> HIDE DEF T
      <4>12. /\ DOMAIN (old \o rs) = 1 .. (Len(old) + Len(rs))
             /\ \A i \in DOMAIN (old \o rs) : (old \o rs)[i] = IF i <= Len(old) THEN old[i] ELSE rs[i - Len(old)]
        BY <4>11, PushTail
      <4>13. arrays'[cur'].src = arrays[cur].src
        BY <4>3, <4>6, <4>8
      <4> QED BY <4>9, <4>10, <4>12, <4>13
    <3> QED BY <3>1, <3>2
  <2>13. ASSUME NEW i \in DOMAIN new, ~(i <= m) PROVE rs[i - m] = <<Len(heap) + 1, r.ans.rows[i - m]>>
    <3>1. i - m \in 1 .. Len(rs)
      BY <2>4, <2>9, <2>12, <2>13
    <3> QED BY <2>4, <3>1
  <2>14. Followed(r, m, new)
    BY <2>3, <2>4, <2>9, <2>12, <2>13 DEF Followed
  <2>15. m + Len(r.ans.rows) >= Len(List) /\ (m < Len(List) => m = r.start * r.size)
    BY <2>1, <2>3, <2>4, <2>5, <2>7, <2>8 DEF Least
  <2> QED BY <1>3, <2>1, <2>9, <2>10, <2>11, <2>12, <2>14, <2>15
<1> QED BY <1>2, <1>3

(***************************************************************************)
(* Every answer is a success, and tells how the records are                *)
(***************************************************************************)
LEMMA AllAnswered ==
  ASSUME CalmInv, NEW dos, NEW r \in Answers(dos)
  PROVE  r \in net /\ r.do \in dos /\ Answer(r) /\ r.ans.ok = "ok" /\ Present(r) /\ Truth(r)
BY DEF CalmInv, Answers, Present, Answer

LEMMA FineAnswered ==
  ASSUME CalmInv, NEW dos, NEW r \in Fine(dos)
  PROVE  r \in net /\ r.do \in dos /\ Answer(r) /\ r.ans.ok = "ok" /\ Present(r) /\ Truth(r)
BY AllAnswered DEF Fine

LEMMA NoFailure ==
  ASSUME CalmInv, NEW dos
  PROVE  ~Fails(dos) /\ ~HandlerDies(dos) /\ ~Complain(dos)
BY AllAnswered DEF Fails, HandlerDies, Complain

LEMMA LoadedRows ==
  ASSUME IInv, CalmInv, SameServer, NEW r \in net, r.do = "load", Answer(r), ~Disturbs(r),
         heap' = Append(heap, Objects(r)),
         SpliceRows(r) \/ (table \in Pushing /\ PushRows(r))
  PROVE  /\ Unique' /\ Standing'
         /\ \E new :
              /\ new = List'
              /\ \A i \in DOMAIN new : Stands(new[i])'
              /\ \A i \in DOMAIN new : i > r.start * r.size => Current(new[i])'
<1>1. r \in RequestSet /\ RequestInv(r) /\ Lists(r) /\ Present(r) /\ Truth(r) /\ Unique
  BY DEF IInv, NetInv, Lists, CalmInv, Answer, Present
<1>2. r.start = 0 \/ r.cap = cur
  BY <1>1 DEF Present
<1>3. PICK m, new :
        /\ new = List' /\ Followed(r, m, new)
        /\ m \in Nat /\ m <= r.start * r.size
        /\ \A i \in 1 .. m : Id(i) \notin Range(r.ans.rows)
  BY <1>1, <1>2, LoadShape
<1>4. PICK k \in Nat : k = r.start * r.size
  <2>1. r.start \in Nat /\ r.size \in Nat
    BY <1>1 DEF RequestSet, Positive
  <2> QED BY <2>1
<1>5. ASSUME NEW i \in 1 .. m PROVE Stands(List[i])
  <2>1. i \in Nat /\ i <= k /\ k # 0 /\ i \in DOMAIN List
    <3>1. m <= Len(List) /\ Len(List) \in Nat /\ DOMAIN List = 1 .. Len(List)
      BY <1>3, ListType DEF Followed
    <3> QED BY <1>3, <1>4, <3>1
  <2>2. r.start # 0
    <3>1. r.size \in Nat
      BY <1>1 DEF RequestSet, Positive
    <3> QED BY <1>4, <2>1, <3>1
  <2>3. net = {r}
    BY <2>2, SoleRequest DEF Plain
  <2>4. ~(i > r.start * r.size)
    BY <1>4, <2>1
  <2>5. ~Doubts(r, Id(i), i)
    BY <2>2, <2>4 DEF Doubts, Edits
  <2> QED BY <2>1, <2>3, <2>5 DEF CalmInv, Standing
<1>6. /\ Unique' /\ Standing'
      /\ \A i \in DOMAIN new : Stands(new[i])'
      /\ \A i \in DOMAIN new : i > m => Current(new[i])'
  <2>1. \A i \in 1 .. m : Stands(List[i]) /\ Id(i) \notin Range(r.ans.rows)
    BY <1>3, <1>5
  <2>2. Unique' /\ Standing'
    BY <1>1, <1>3, <2>1, FollowedRows
  <2>3. \A i \in DOMAIN new : i > m => Current(new[i])'
    BY <1>1, <1>3, <2>1, FollowedRows
  <2>4. \A i \in DOMAIN new : Stands(new[i])'
    BY <1>1, <1>3, <2>1, FollowedRows
  <2> QED BY <2>2, <2>3, <2>4
<1>7. \A i \in DOMAIN new : i > r.start * r.size => i > m
  <2> TAKE i \in DOMAIN new
  <2>1. PICK n \in Nat : n = Len(r.ans.rows)
    BY <1>1, RefsShape
  <2>2. i \in 1 .. (m + n)
    BY <1>3, <2>1 DEF Followed
  <2> QED BY <1>3, <1>4, <2>2
<1> QED BY <1>3, <1>6, <1>7

LEMMA SearchedRows ==
  ASSUME IInv, CalmInv, SameServer, NEW r \in net, r.do = "search", Answer(r),
         heap' = Append(heap, Objects(r)), NewArray(Refs(r), "found")
  PROVE  /\ Unique' /\ Standing'
         /\ \E new :
              /\ new = List'
              /\ \A i \in DOMAIN new : Stands(new[i])'
              /\ \A i \in DOMAIN new : Current(new[i])'
<1>1. r \in RequestSet /\ RequestInv(r) /\ Lists(r) /\ Truth(r) /\ Unique
  BY DEF IInv, NetInv, Lists, CalmInv, Answer, Present
<1>2. PICK new : new = List' /\ Followed(r, 0, new)
  BY <1>1, FreshShape
<1>3. \A i \in 1 .. 0 : Stands(List[i]) /\ Id(i) \notin Range(r.ans.rows)
  OBVIOUS
<1>4. /\ Unique' /\ Standing'
      /\ \A i \in DOMAIN new : Stands(new[i])'
      /\ \A i \in DOMAIN new : i > 0 => Current(new[i])'
  BY <1>1, <1>2, <1>3, FollowedRows
<1>5. \A i \in DOMAIN new : i > 0
  <2> TAKE i \in DOMAIN new
  <2>1. PICK n \in Nat : n = Len(r.ans.rows)
    BY <1>1, RefsShape
  <2>2. i \in 1 .. (0 + n)
    BY <1>2, <2>1 DEF Followed
  <2> QED BY <2>1, <2>2
<1> QED BY <1>2, <1>4, <1>5

(***************************************************************************)
(* Answers on the tables of default and air                                *)
(***************************************************************************)
LEMMA WebSole ==
  ASSUME CalmInv, table \notin Berry, NEW r \in net
  PROVE  net = {r}
BY SoleRequest DEF Plain, Berry

LEMMA WebDone ==
  ASSUME CalmInv, table \notin Berry, NEW r \in net, Done(r), Unique', Standing'
  PROVE  CalmInv'
<1>1. net' = {} /\ table' = table
  BY WebSole DEF Done
<1> QED BY <1>1 DEF CalmInv, Alone

LEMMA WebLoadArrives ==
  ASSUME IInv, CalmInv, calm', table \notin Berry, NEW r \in net, r.do = "load", LoadArrives(r)
  PROVE  CalmInv'
<1>1. /\ SameServer /\ AfterLoad(r) /\ Answer(r) /\ ~Disturbs(r)
      /\ heap' = Append(heap, Objects(r))
      /\ SpliceRows(r) \/ (table \in Pushing /\ PushRows(r))
  BY AfterLoadSame DEF LoadArrives, AfterLoad, Done, Next2, Answer
<1>2. Unique' /\ Standing'
  BY <1>1, LoadedRows
<1>3. CASE Done(r)
  BY <1>2, <1>3, WebDone
<1>4. ASSUME NEW c, c = cur', Next2(r, [query |-> "", page |-> 1, cap |-> c]) PROVE CalmInv'
  <2> DEFINE f == [query |-> "", page |-> 1, cap |-> c]
  <2>0. "do" \notin DOMAIN f /\ "start" \notin DOMAIN f /\ "then" \notin DOMAIN f
    OBVIOUS
  <2>1. PICK q : q = Request(f, r.n)
    OBVIOUS
  <2>2. net' = {q} /\ table' = table
    BY <1>4, <2>1, WebSole DEF Next2
  <2> HIDE DEF f
  <2>3. q.do = "load" /\ q.start = 0 /\ q.ans = None /\ q.then = "none"
    BY <2>0, <2>1, RequestFields, MoreFields
  <2>4. Present(q)'
    BY <2>2, <2>3 DEF Present, Answer, None, Edits
  <2> QED BY <1>2, <2>2, <2>4 DEF CalmInv, Alone
<1> QED BY <1>1, <1>3, <1>4 DEF AfterLoad

LEMMA WebLoadEnds ==
  ASSUME IInv, CalmInv, calm', table \notin Berry, NEW r \in Answers({"load"}),
         LoadRefused(r) \/ LoadArrives(r)
  PROVE  CalmInv'
<1>1. r \in net /\ r.do = "load" /\ r.ans.ok = "ok"
  BY AllAnswered
<1>2. ~LoadRefused(r)
  BY <1>1 DEF LoadRefused
<1> QED BY <1>1, <1>2, WebLoadArrives

LEMMA WebSearchArrives ==
  ASSUME IInv, CalmInv, table \notin Berry, NEW r \in Answers({"search"}), SearchArrives(r)
  PROVE  CalmInv'
<1>1. r \in net /\ r.do = "search" /\ Answer(r)
  BY AllAnswered
<1>2. Done(r) /\ SameServer /\ heap' = Append(heap, Objects(r)) /\ NewArray(Refs(r), "found")
  BY CommonLeave DEF SearchArrives
<1> QED BY <1>1, <1>2, SearchedRows, WebDone

\* The row of a request, in the present array
LEMMA EditedRow ==
  ASSUME IInv, CalmInv, table \notin Berry, NEW r \in net, r.do \in Edits
  PROVE  /\ r.cap = cur /\ net = {r} /\ RefOK(r.ref) /\ r.ref[2] = r.id
         /\ \E j \in DOMAIN List : List[j] = r.ref /\ \A i \in DOMAIN List : Id(i) = r.id => i = j
         /\ \A i \in DOMAIN List : Id(i) # r.id => Stands(List[i])
         /\ table \notin Air => RowAt(r) = r.ref
<1>1. Present(r) /\ RequestInv(r) /\ net = {r}
  BY WebSole DEF CalmInv, IInv, NetInv
<1>2. r.cap = cur
  BY <1>1 DEF Present, Edits
<1>3. TargetInv(r)
  BY <1>1 DEF RequestInv, Names, RowOps, Edits
<1>4. RefOK(r.ref) /\ r.ref[2] = r.id /\ \E j \in DOMAIN List : List[j] = r.ref
  BY <1>2, <1>3 DEF TargetInv, List
<1>5. \E j \in DOMAIN List : List[j] = r.ref /\ \A i \in DOMAIN List : Id(i) = r.id => i = j
  BY <1>4 DEF CalmInv, Unique, Id, IdOf
<1>6. ASSUME NEW i \in DOMAIN List, Id(i) # r.id PROVE Stands(List[i])
  BY <1>1, <1>6 DEF CalmInv, Standing, Doubts, Edits
<1>7. table \notin Air => RowAt(r) = r.ref
  BY <1>3 DEF TargetInv, RowAt
<1> QED BY <1>1, <1>2, <1>4, <1>5, <1>6, <1>7

\* ... which stands after the step; the others stand as before.
LEMMA EditDone ==
  ASSUME IInv, CalmInv, table \notin Berry, NEW r \in net, r.do \in Edits, Done(r), List' = List,
         Stands(r.ref)',
         \A ref : (RefOK(ref) /\ ref[2] # r.id /\ Stands(ref)) => Stands(ref)'
  PROVE  CalmInv'
<1>1. PICK new : new = List
  OBVIOUS
<1>2. \A i, j \in DOMAIN new : new[i][2] = new[j][2] => i = j
  BY <1>1 DEF CalmInv, Unique, Id, IdOf
<1>3. ASSUME NEW i \in DOMAIN new, NEW ref, ref = new[i] PROVE Stands(ref)'
  <2>1. CASE Id(i) = r.id
    BY <1>1, <1>3, <2>1, EditedRow
  <2>2. CASE Id(i) # r.id
    <3>1. Stands(ref) /\ RefOK(ref) /\ ref[2] # r.id
      BY <1>1, <1>3, <2>2, EditedRow, ListType DEF Id, IdOf
    <3> QED BY <3>1
  <2> QED BY <2>1, <2>2
<1> QED BY <1>1, <1>2, <1>3, NewRows, WebDone

\* An object that changes: its row stands as before, unless its status changed.
LEMMA SwapStands ==
  ASSUME SameServer, NEW g, NEW p, NEW X, heap' = [heap EXCEPT ![g] = p],
         g \in DOMAIN heap => /\ heap[g].deleted \subseteq p.deleted
                              /\ \A id : id \notin X => p.status[id] = heap[g].status[id]
  PROVE  \A ref : (RefOK(ref) /\ ref[2] \notin X /\ Stands(ref)) => Stands(ref)'
<1> SUFFICES ASSUME NEW ref, RefOK(ref), ref[2] \notin X, Stands(ref) PROVE Stands(ref)'
  OBVIOUS
<1>1. ref[1] \in DOMAIN heap
  BY DEF RefOK
<1>2. /\ heap[ref[1]].deleted \subseteq heap'[ref[1]].deleted
      /\ heap'[ref[1]].status[ref[2]] = heap[ref[1]].status[ref[2]]
  BY <1>1
<1>3. Hidden(ref) => Hidden(ref)'
  BY <1>2 DEF Hidden
<1>4. Right(ref) => Right(ref)'
  BY <1>2 DEF Right, Current, Exists, SameServer, server
<1> QED BY <1>3, <1>4 DEF Stands

LEMMA CopySame ==
  ASSUME IInv, CopyOf(cur)
  PROVE  List' = List
<1>1. PICK rs : rs = arrays[cur].rows
  OBVIOUS
<1>2. NewArray(rs, arrays[cur].src)
  BY <1>1 DEF CopyOf
<1> QED BY <1>1, <1>2, NewList DEF List

\* The answer's status is set in the row object.
LEMMA EditSet ==
  ASSUME IInv, CalmInv, table \notin Berry, NEW r \in net, r.do \in Writes, Answer(r), Done(r),
         List' = List, SetStatus(r.ref, r.ans.value)
  PROVE  CalmInv'
<1>1. r.do \in Edits /\ Exists(r.id) /\ r.ans.value = status[r.id] /\ SameServer
  BY Leaves DEF CalmInv, Present, Truth, Writes, Edits
<1>2. RefOK(r.ref) /\ r.ref[2] = r.id
  BY <1>1, EditedRow
<1>3. PICK ref : ref = r.ref
  OBVIOUS
<1>4. PICK o : o = heap[ref[1]]
  OBVIOUS
<1>5. o \in ObjectSet /\ ref[1] \in DOMAIN heap /\ ref[2] \in DOMAIN o.status
  BY <1>2, <1>3, <1>4 DEF IInv, HeapInv, RefOK
<1>6. PICK p : p = [o EXCEPT !.status[ref[2]] = r.ans.value]
  OBVIOUS
<1>7. heap' = [heap EXCEPT ![ref[1]] = p]
  BY <1>3, <1>4, <1>6 DEF SetStatus
<1>8. p.deleted = o.deleted /\ p.status = [o.status EXCEPT ![ref[2]] = r.ans.value]
  BY <1>5, <1>6 DEF ObjectSet
<1>9. p.status[ref[2]] = r.ans.value /\ \A id : id # ref[2] => p.status[id] = o.status[id]
  <2>1. PICK S \in SUBSET Ids : o.status \in [S -> Values]
    BY <1>5 DEF ObjectSet
  <2>2. PICK s : s = o.status
    OBVIOUS
  <2>3. PICK x : x = ref[2]
    OBVIOUS
  <2>4. PICK t : t = [s EXCEPT ![x] = r.ans.value]
    OBVIOUS
  <2>5. x \in DOMAIN s /\ p.status = t
    BY <1>5, <1>8, <2>2, <2>3, <2>4
  <2>6. t[x] = r.ans.value
    BY <2>4, <2>5
  <2>7. ASSUME NEW id, id # x PROVE t[id] = s[id]
    BY <2>4, <2>7
  <2> QED BY <2>2, <2>3, <2>5, <2>6, <2>7
<1>10. \A q : (RefOK(q) /\ q[2] \notin {r.id} /\ Stands(q)) => Stands(q)'
  BY <1>1, <1>2, <1>3, <1>4, <1>7, <1>8, <1>9, SwapStands
<1>11. Stands(ref)'
  <2>1. heap'[ref[1]].status[ref[2]] = status[ref[2]] /\ Exists(ref[2])
    BY <1>1, <1>2, <1>3, <1>5, <1>7, <1>9
  <2> QED BY <1>1, <2>1 DEF Stands, Right, Current, Exists, SameServer, server
<1>12. Stands(r.ref)'
  <2>1. ref = r.ref
    BY <1>3
  <2> QED BY <1>11, <2>1
<1> QED BY <1>1, <1>10, <1>12, EditDone

\* The row object is marked deleted.
LEMMA EditMark ==
  ASSUME IInv, CalmInv, table \notin Berry, NEW r \in net, r.do = "delete", Answer(r), Done(r),
         List' = List, Mark(r.ref)
  PROVE  CalmInv'
<1>1. r.do \in Edits /\ SameServer
  BY Leaves DEF Edits
<1>2. RefOK(r.ref) /\ r.ref[2] = r.id
  BY <1>1, EditedRow
<1>3. PICK ref : ref = r.ref
  OBVIOUS
<1>4. PICK o : o = heap[ref[1]]
  OBVIOUS
<1>5. o \in ObjectSet /\ ref[1] \in DOMAIN heap
  BY <1>2, <1>3, <1>4 DEF IInv, HeapInv, RefOK
<1>6. PICK p : p = [o EXCEPT !.deleted = @ \cup {ref[2]}]
  OBVIOUS
<1>7. heap' = [heap EXCEPT ![ref[1]] = p]
  BY <1>3, <1>4, <1>6 DEF Mark
<1>8. p.deleted = o.deleted \cup {ref[2]} /\ p.status = o.status
  BY <1>5, <1>6 DEF ObjectSet
<1>10. \A q : (RefOK(q) /\ q[2] \notin {r.id} /\ Stands(q)) => Stands(q)'
  BY <1>1, <1>4, <1>7, <1>8, SwapStands
<1>11. Stands(ref)'
  <2>1. ref[2] \in heap'[ref[1]].deleted
    BY <1>5, <1>7, <1>8
  <2> QED BY <2>1 DEF Stands, Hidden
<1>12. Stands(r.ref)'
  <2>1. ref = r.ref
    BY <1>3
  <2> QED BY <1>11, <2>1
<1> QED BY <1>1, <1>10, <1>12, EditDone

LEMMA ManagedCalm ==
  ASSUME IInv, CalmInv, table \notin Air, table \notin Berry, NEW dos \in SUBSET Edits, Managed(dos)
  PROVE  CalmInv'
<1>1. PICK r \in Fine(dos) :
        /\ IF r.do = "delete" THEN Mark(RowAt(r)) ELSE SetStatus(RowAt(r), r.ans.value)
        /\ ShowCopy(r)
  BY NoFailure DEF Managed
<1>2. r \in net /\ r.do \in Edits /\ Answer(r)
  BY FineAnswered
<1>3. RowAt(r) = r.ref /\ r.cap = cur
  BY <1>2, EditedRow
<1>4. List' = List /\ Done(r)
  BY <1>1, <1>3, CopySame DEF ShowCopy
<1>5. CASE r.do = "delete"
  BY <1>1, <1>2, <1>3, <1>4, <1>5, EditMark
<1>6. CASE r.do # "delete"
  <2>1. r.do \in Writes
    BY <1>2, <1>6 DEF Edits, Writes
  <2> QED BY <1>1, <1>2, <1>3, <1>4, <1>6, <2>1, EditSet
<1> QED BY <1>5, <1>6

LEMMA SetRecordCalm ==
  ASSUME IInv, CalmInv, table \notin Berry, NEW r \in net, SetRecord(r)
  PROVE  CalmInv'
<1>1. r.do \in Writes /\ r.do \in Edits /\ Answer(r) /\ Done(r) /\ SetStatus(r.ref, r.ans.value)
  BY DEF SetRecord, Writes, Edits, Answer
<1>2. r.cap = cur
  BY <1>1, EditedRow
<1>3. List' = List
  BY <1>2, CopySame DEF SetRecord
<1> QED BY <1>1, <1>3, EditSet

\* A measurement, wherever it lands
LEMMA MeasureCalm ==
  ASSUME IInv, CalmInv, table \notin Berry, NEW r \in net, r.do \notin Edits \cup {"load", "sweep"}, Done(r),
         List' = List, NEW g, NEW p, heap' = [heap EXCEPT ![g] = p],
         g \in DOMAIN heap => p.deleted = heap[g].deleted /\ p.status = heap[g].status
  PROVE  CalmInv'
<1>1. SameServer /\ net = {r}
  BY Leaves, WebSole
<1>2. \A ref : (RefOK(ref) /\ Stands(ref)) => Stands(ref)'
  <2>1. PICK X : X = {}
    OBVIOUS
  <2>2. \A ref : (RefOK(ref) /\ ref[2] \notin X /\ Stands(ref)) => Stands(ref)'
    <3>1. g \in DOMAIN heap => /\ heap[g].deleted \subseteq p.deleted
                              /\ \A id : id \notin X => p.status[id] = heap[g].status[id]
      OBVIOUS
    <3> QED BY <1>1, <3>1, SwapStands
  <2> QED BY <2>1, <2>2
<1>3. PICK new : new = List
  OBVIOUS
<1>4. \A i, j \in DOMAIN new : new[i][2] = new[j][2] => i = j
  BY <1>3 DEF CalmInv, Unique, Id, IdOf
<1>5. ASSUME NEW i \in DOMAIN new, NEW ref, ref = new[i] PROVE Stands(ref)'
  <2>1. RefOK(ref)
    BY <1>3, <1>5, ListType
  <2>2. ~Doubts(r, Id(i), i)
    BY DEF Doubts
  <2>3. Stands(ref)
    BY <1>1, <1>3, <1>5, <2>2 DEF CalmInv, Standing
  <2> QED BY <1>2, <2>1, <2>3
<1> QED BY <1>3, <1>4, <1>5, NewRows, WebDone

\* The balance of the default theme, wherever the index points
LEMMA UpdateBalanceCalm ==
  ASSUME IInv, CalmInv, UpdateBalance
  PROVE  CalmInv'
<1>1. PICK r \in Fine({"balance"}) : Measure("balance", RowAt(r), r.ans.value) /\ ShowCopy(r)
  BY NoFailure DEF UpdateBalance
<1>2. r \in net /\ r.do = "balance" /\ Present(r) /\ table \notin Berry
  BY FineAnswered, DefaultNames DEF UpdateBalance, DefaultChannels
<1>3. r.cap = cur
  BY <1>2 DEF Present
<1>4. List' = List /\ Done(r)
  BY <1>1, <1>3, CopySame DEF ShowCopy
<1>5. PICK ref : ref = RowAt(r)
  OBVIOUS
<1>6. PICK g : g = ref[1]
  OBVIOUS
<1>7. PICK o : o = heap[g]
  OBVIOUS
<1>8. PICK p : p = [o EXCEPT !.balance[ref[2]] = r.ans.value]
  OBVIOUS
<1>9. heap' = [heap EXCEPT ![g] = p]
  BY <1>1, <1>5, <1>6, <1>7, <1>8 DEF Measure
<1>10. g \in DOMAIN heap => p.deleted = heap[g].deleted /\ p.status = heap[g].status
  <2>1. g \in DOMAIN heap => o \in ObjectSet
    BY <1>7 DEF IInv, HeapInv
  <2>2. o \in ObjectSet => p.deleted = o.deleted /\ p.status = o.status
    BY <1>8 DEF ObjectSet
  <2> QED BY <1>7, <2>1, <2>2
<1>11. r.do \notin Edits \cup {"load", "sweep"}
  BY <1>2 DEF Edits
<1> QED BY <1>2, <1>4, <1>9, <1>10, <1>11, MeasureCalm

LEMMA TestChannelCalm ==
  ASSUME IInv, CalmInv, TestChannel
  PROVE  CalmInv'
<1>1. PICK r \in Answers({"test"}) : Measure("tested", RowAt(r), r.id) /\ ShowCopy(r)
  BY NoFailure DEF TestChannel
<1>2. r \in net /\ r.do = "test" /\ Present(r) /\ table \notin Berry
  BY AllAnswered, DefaultNames DEF TestChannel, DefaultChannels
<1>3. r.cap = cur
  BY <1>2 DEF Present
<1>4. List' = List /\ Done(r)
  BY <1>1, <1>3, CopySame DEF ShowCopy
<1>5. PICK ref : ref = RowAt(r)
  OBVIOUS
<1>6. PICK g : g = ref[1]
  OBVIOUS
<1>7. PICK o : o = heap[g]
  OBVIOUS
<1>8. PICK p : p = [o EXCEPT !.tested[ref[2]] = r.id]
  OBVIOUS
<1>9. heap' = [heap EXCEPT ![g] = p]
  BY <1>1, <1>5, <1>6, <1>7, <1>8 DEF Measure
<1>10. g \in DOMAIN heap => p.deleted = heap[g].deleted /\ p.status = heap[g].status
  <2>1. g \in DOMAIN heap => o \in ObjectSet
    BY <1>7 DEF IInv, HeapInv
  <2>2. o \in ObjectSet => p.deleted = o.deleted /\ p.status = o.status
    BY <1>8 DEF ObjectSet
  <2> QED BY <1>7, <2>1, <2>2
<1>11. r.do \notin Edits \cup {"load", "sweep"}
  BY <1>2 DEF Edits
<1> QED BY <1>2, <1>4, <1>9, <1>10, <1>11, MeasureCalm

\* A measurement of air
LEMMA MeasuredCalm ==
  ASSUME IInv, CalmInv, table \notin Berry, NEW do \in {"test", "balance"}, Measured(do)
  PROVE  CalmInv'
<1>1. PICK r \in Fine({do}) :
        /\ heap' = IF do = "test" THEN [heap EXCEPT ![r.ref[1]].tested[r.ref[2]] = r.id]
                   ELSE [heap EXCEPT ![r.ref[1]].balance[r.ref[2]] = r.ans.value]
        /\ UNCHANGED <<arrays, cur, page, size, total, query, loading, switch>>
        /\ Done(r)
  BY NoFailure DEF Measured
<1>2. r \in net /\ r.do = do
  BY FineAnswered
<1>4. List' = List
  BY <1>1 DEF List
<1>5. PICK ref : ref = r.ref
  OBVIOUS
<1>6. PICK g : g = ref[1]
  OBVIOUS
<1>7. PICK o : o = heap[g]
  OBVIOUS
<1>8. PICK p : p = IF do = "test" THEN [o EXCEPT !.tested[ref[2]] = r.id]
                   ELSE [o EXCEPT !.balance[ref[2]] = r.ans.value]
  OBVIOUS
<1>9. heap' = [heap EXCEPT ![g] = p]
  BY <1>1, <1>5, <1>6, <1>7, <1>8
<1>10. g \in DOMAIN heap => p.deleted = heap[g].deleted /\ p.status = heap[g].status
  <2>1. g \in DOMAIN heap => o \in ObjectSet
    BY <1>7 DEF IInv, HeapInv
  <2>2. o \in ObjectSet => p.deleted = o.deleted /\ p.status = o.status
    BY <1>8 DEF ObjectSet
  <2> QED BY <1>7, <2>1, <2>2
<1>11. r.do \notin Edits \cup {"load", "sweep"}
  BY <1>2 DEF Edits
<1> QED BY <1>1, <1>2, <1>4, <1>9, <1>10, <1>11, MeasureCalm

(***************************************************************************)
(* Rows picked from the array                                              *)
(***************************************************************************)
LEMMA PickedRows ==
  ASSUME Unique, SameServer, heap' = heap, NEW new, new = List', NEW f,
         \A i \in DOMAIN new : f[i] \in DOMAIN List /\ new[i] = List[f[i]] /\ Stands(List[f[i]]),
         \A i, j \in DOMAIN new : f[i] = f[j] => i = j
  PROVE  Unique' /\ Standing'
<1>1. \A i, j \in DOMAIN new : new[i][2] = new[j][2] => i = j
  BY DEF Unique, Id, IdOf
<1>2. ASSUME NEW i \in DOMAIN new, NEW ref, ref = new[i] PROVE Stands(ref)'
  <2>1. Stands(ref)
    BY <1>2
  <2> QED BY <2>1 DEF Stands, Hidden, Right, Current, Exists, SameServer, server
<1> QED BY <1>1, <1>2, NewRows

TakenOut(u, rs, id, k) ==
    /\ IdOf(rs[k]) = id
    /\ DOMAIN u = 1 .. (Len(rs) - 1)
    /\ \A i \in DOMAIN u : u[i] = IF i < k THEN rs[i] ELSE rs[i + 1]

LEMMA WithoutAt ==
  ASSUME NEW T, NEW rs \in Seq(T), NEW id, \E j \in DOMAIN rs : IdOf(rs[j]) = id,
         NEW u, u = Without(rs, id)
  PROVE  \E k \in 1 .. Len(rs) : TakenOut(u, rs, id, k)
<1>1. PICK k \in DOMAIN rs : IdOf(rs[k]) = id /\ u = SubSeq(rs, 1, k - 1) \o SubSeq(rs, k + 1, Len(rs))
  BY DEF Without
<1>2. k \in 1 .. Len(rs) /\ Len(rs) \in Nat /\ k \in Nat
  OBVIOUS
<1>3. PICK a : a = SubSeq(rs, 1, k - 1)
  OBVIOUS
<1>4. PICK b : b = SubSeq(rs, k + 1, Len(rs))
  OBVIOUS
<1>5. a \in Seq(T) /\ Len(a) = k - 1 /\ \A i \in 1 .. k - 1 : a[i] = rs[i]
  <2>1. \A i \in 1 .. k - 1 : rs[i] \in T
    BY <1>2
  <2> QED BY <1>2, <1>3, <2>1
<1>6. b \in Seq(T) /\ Len(b) = Len(rs) - k /\ \A i \in 1 .. Len(rs) - k : b[i] = rs[i + k]
  <2>1. \A i \in k + 1 .. Len(rs) : rs[i] \in T
    BY <1>2
  <2> QED BY <1>2, <1>4, <2>1
<1>7. u = a \o b
  BY <1>1, <1>3, <1>4
<1>8. /\ DOMAIN u = 1 .. (Len(a) + Len(b))
      /\ \A i \in DOMAIN u : u[i] = IF i <= Len(a) THEN a[i] ELSE b[i - Len(a)]
  BY <1>5, <1>6, <1>7, PushTail
<1>9. PICK n \in Nat : n = Len(rs)
  BY <1>2
<1>10. DOMAIN u = 1 .. (n - 1)
  <2>1. Len(a) = k - 1 /\ Len(b) = n - k
    BY <1>5, <1>6, <1>9
  <2>2. (k - 1) + (n - k) = n - 1
    BY <1>2
  <2> QED BY <1>8, <2>1, <2>2
<1>11. ASSUME NEW i \in 1 .. (n - 1) PROVE u[i] = IF i < k THEN rs[i] ELSE rs[i + 1]
  <2>1. i \in Nat /\ i >= 1 /\ (i <= k - 1 <=> i < k) /\ (i - (k - 1)) + k = i + 1
    BY <1>2
  <2>4. i \in DOMAIN u /\ Len(a) = k - 1
    BY <1>5, <1>10
  <2>5. u[i] = IF i <= k - 1 THEN a[i] ELSE b[i - (k - 1)]
    BY <1>8, <2>4
  <2>2. CASE i < k
    <3>1. i \in 1 .. k - 1
      BY <1>2, <2>1, <2>2
    <3>2. a[i] = rs[i]
      BY <1>5, <3>1
    <3> QED BY <2>1, <2>2, <2>5, <3>2
  <2>3. CASE ~(i < k)
    <3>1. i - (k - 1) \in 1 .. n - k
      BY <1>2, <1>9, <2>1, <2>3
    <3>2. b[i - (k - 1)] = rs[i + 1]
      BY <1>6, <1>9, <2>1, <3>1
    <3> QED BY <2>1, <2>3, <2>5, <3>2
  <2> QED BY <2>2, <2>3
<1>12. \A i \in DOMAIN u : u[i] = IF i < k THEN rs[i] ELSE rs[i + 1]
  BY <1>10, <1>11
<1> QED BY <1>1, <1>2, <1>9, <1>10, <1>12 DEF TakenOut

LEMMA RemoveRecordCalm ==
  ASSUME IInv, CalmInv, table \in Air, table \notin Berry, NEW r \in net, RemoveRecord(r)
  PROVE  CalmInv'
<1>1. r.do \in Edits /\ heap' = heap /\ Done(r) /\ SameServer
  BY Leaves DEF RemoveRecord, Edits
<1>2. /\ r.cap = cur /\ r.ref[2] = r.id /\ \E j \in DOMAIN List : List[j] = r.ref
      /\ \A i \in DOMAIN List : Id(i) # r.id => Stands(List[i])
  BY <1>1, EditedRow
<1>3. PICK rs : rs = List
  OBVIOUS
<1>4. PICK u : u = Without(rs, r.id)
  OBVIOUS
<1>5. List' = u
  <2>1. NewArray(u, arrays[r.cap].src)
    BY <1>2, <1>3, <1>4 DEF RemoveRecord, List
  <2> QED BY <2>1, NewList
<1>6. PICK k \in 1 .. Len(rs) :
        /\ IdOf(rs[k]) = r.id
        /\ DOMAIN u = 1 .. (Len(rs) - 1)
        /\ \A i \in DOMAIN u : u[i] = IF i < k THEN rs[i] ELSE rs[i + 1]
  <2> DEFINE T == Nat \X Ids
  <2>1. rs \in Seq(T)
    BY <1>3, ListType
  <2>2. \E j \in DOMAIN rs : IdOf(rs[j]) = r.id
    BY <1>2, <1>3 DEF IdOf
  <2> HIDE DEF T
  <2>3. u = Without(rs, r.id)
    BY <1>4
  <2>4. \E k \in 1 .. Len(rs) : TakenOut(u, rs, r.id, k)
    BY <2>1, <2>2, <2>3, WithoutAt, Zenon
  <2> QED BY <2>4 DEF TakenOut
<1>7. PICK n \in Nat : n = Len(rs)
  BY <1>3, ListType
<1>8. DOMAIN rs = 1 .. n
  BY <1>3, <1>7, ListType
<1>9. PICK f : f = [i \in 1 .. (n - 1) |-> IF i < k THEN i ELSE i + 1]
  OBVIOUS
<1>10. \A i \in 1 .. (n - 1) : f[i] \in 1 .. n /\ f[i] # k /\ u[i] = rs[f[i]]
  <2> TAKE i \in 1 .. (n - 1)
  <2>1. i \in DOMAIN u
    BY <1>6, <1>7
  <2>2. f[i] = IF i < k THEN i ELSE i + 1
    BY <1>9
  <2>3. u[i] = rs[f[i]]
    BY <1>6, <2>1, <2>2
  <2>4. k \in Nat
    BY <1>6, <1>7
  <2> QED BY <2>2, <2>3, <2>4
<1>11. \A i, j \in 1 .. (n - 1) : f[i] = f[j] => i = j
  <2> TAKE i, j \in 1 .. (n - 1)
  <2>1. f[i] = (IF i < k THEN i ELSE i + 1) /\ f[j] = IF j < k THEN j ELSE j + 1
    BY <1>9
  <2>2. k \in Nat
    BY <1>6, <1>7
  <2> QED BY <2>1, <2>2
<1>12. \A i \in 1 .. (n - 1) : Stands(List[f[i]])
  <2> TAKE i \in 1 .. (n - 1)
  <2>1. PICK m : m = f[i]
    OBVIOUS
  <2>2. m \in DOMAIN List /\ m # k /\ k \in DOMAIN List
    BY <1>3, <1>6, <1>7, <1>8, <1>10, <2>1
  <2>3. Id(k) = r.id
    BY <1>3, <1>6 DEF Id
  <2>4. Id(m) # r.id
    BY <2>2, <2>3 DEF CalmInv, Unique
  <2> QED BY <1>2, <2>1, <2>2, <2>4
<1>13. DOMAIN u = 1 .. (n - 1)
  BY <1>6, <1>7
<1>14. /\ \A i \in DOMAIN u : f[i] \in DOMAIN List /\ u[i] = List[f[i]] /\ Stands(List[f[i]])
       /\ \A i, j \in DOMAIN u : f[i] = f[j] => i = j
  BY <1>3, <1>8, <1>10, <1>11, <1>12, <1>13
<1>15. Unique' /\ Standing'
  <2>1. Unique /\ u = List'
    BY <1>5 DEF CalmInv
  <2> QED BY <1>1, <1>14, <2>1, PickedRows
<1> QED BY <1>1, <1>15, WebDone

LEMMA RecordCalm ==
  ASSUME IInv, CalmInv, table \in Air, table \notin Berry, NEW dos, NEW r \in Answers(dos),
         RemoveRecord(r) \/ SetRecord(r)
  PROVE  CalmInv'
BY AllAnswered, RemoveRecordCalm, SetRecordCalm

LEMMA AirManagedCalm ==
  ASSUME IInv, CalmInv, table \in Air, table \notin Berry, AirManaged
  PROVE  CalmInv'
BY NoFailure, RecordCalm DEF AirManaged

(***************************************************************************)
(* Sorting and turning, for a user who waits                               *)
(***************************************************************************)
LEMMA SortKeyType ==
  ASSUME IInv, NEW key, NEW i \in DOMAIN List
  PROVE  SortKey(key, List[i]) \in Int
<1>1. PICK ref : ref = List[i]
  OBVIOUS
<1>2. ref \in Nat \X Ids /\ RefOK(ref)
  BY <1>1, ListType
<1>3. ref[2] \in Nat
  <2>1. \A id \in Range(FirstRows) : id \in Nat
    BY TableAssumption DEF Range
  <2> QED BY <1>2, <2>1, TableAssumption DEF Ids
<1>4. heap[ref[1]].status[ref[2]] \in Int
  <2>1. heap[ref[1]] \in ObjectSet
    BY <1>2 DEF IInv, HeapInv, RefOK
  <2>2. PICK S \in SUBSET Ids : heap[ref[1]].status \in [S -> Values]
    BY <2>1 DEF ObjectSet
  <2>3. heap[ref[1]].status[ref[2]] \in Values
    BY <1>2, <2>2 DEF RefOK
  <2> QED BY <2>3 DEF Values, Unknown, Enabled, Disabled
<1>5. SortKey(key, ref) \in Int
  BY <1>3, <1>4 DEF SortKey, IdOf
<1> QED BY <1>1, <1>5

LEMMA SortCalm ==
  ASSUME IInv, CalmInv, calm', table \notin Berry, NEW key, SortRows(key)
  PROVE  CalmInv'
<1>1. /\ net = {} /\ net' = {} /\ heap' = heap /\ SameServer
  BY Leaves DEF SortRows, NoRequest, wire
<1>2. PICK old : old = List
  OBVIOUS
<1>3. PICK n \in Nat : n = Len(old)
  BY <1>2, ListType
<1>4. DOMAIN old = 1 .. n /\ old \in Seq(Nat \X Ids)
  BY <1>2, <1>3, ListType
<1>5. PICK p \in [1 .. n -> 1 .. n] :
        /\ \A i, j \in 1 .. n : i < j => Before(key, p[i], p[j])
        /\ LET sorted == [i \in 1 .. n |-> old[p[i]]]
           IN  NewArray(IF IdOf(sorted[1]) = IdOf(old[1]) THEN Reverse(sorted) ELSE sorted, "sorted")
  BY <1>2, <1>4 DEF SortRows
<1>6. \A x \in 1 .. n : ~Before(key, x, x)
  <2> TAKE x \in 1 .. n
  <2>1. PICK k \in Int : k = SortKey(key, List[x])
    BY <1>2, <1>4, SortKeyType
  <2> QED BY <2>1 DEF Before
<1>7. \A i, j \in 1 .. n : p[i] = p[j] => i = j
  <2> SUFFICES ASSUME NEW i \in 1 .. n, NEW j \in 1 .. n, p[i] = p[j], i # j PROVE FALSE
    OBVIOUS
  <2>1. i < j \/ j < i
    OBVIOUS
  <2>2. p[i] \in 1 .. n /\ Before(key, p[i], p[i])
    BY <1>5, <2>1
  <2> QED BY <1>6, <2>2
<1>8. PICK sorted : sorted = [i \in 1 .. n |-> old[p[i]]]
  OBVIOUS
<1>9. sorted \in Seq(Nat \X Ids) /\ DOMAIN sorted = 1 .. n
  <2>1. \A i \in 1 .. n : old[i] \in Nat \X Ids
    BY <1>4
  <2>2. \A i \in 1 .. n : old[p[i]] \in Nat \X Ids
    BY <2>1
  <2> QED BY <1>8, <2>2
<1>10. PICK new : new = IF IdOf(sorted[1]) = IdOf(old[1]) THEN Reverse(sorted) ELSE sorted
  OBVIOUS
<1>11. List' = new
  <2>1. NewArray(new, "sorted")
    BY <1>5, <1>8, <1>10
  <2> QED BY <2>1, NewList
<1>12. \A i \in 1 .. n : Stands(List[i])
  BY <1>1, <1>2, <1>4 DEF CalmInv, Standing
<1>13. CASE new = sorted
  <2>1. \A i \in DOMAIN new : p[i] \in DOMAIN List /\ new[i] = List[p[i]] /\ Stands(List[p[i]])
    BY <1>2, <1>4, <1>8, <1>9, <1>12, <1>13
  <2>2. Unique' /\ Standing'
    <3>1. \A i, j \in DOMAIN new : p[i] = p[j] => i = j
      BY <1>7, <1>9, <1>13
    <3>2. Unique
      BY DEF CalmInv
    <3> QED BY <1>1, <1>11, <2>1, <3>1, <3>2, PickedRows
  <2> QED BY <1>1, <2>2 DEF CalmInv, Alone, SameServer
<1>14. CASE new # sorted
  <2>1. new = Reverse(sorted)
    BY <1>10, <1>14
  <2>2. /\ DOMAIN new = 1 .. n
        /\ \A i \in 1 .. n : n - i + 1 \in 1 .. n /\ new[i] = sorted[n - i + 1]
    <3> DEFINE T == Nat \X Ids
    <3>1. sorted \in Seq(T)
      BY <1>9
    <3> HIDE DEF T
    <3>2. /\ DOMAIN Reverse(sorted) = DOMAIN sorted
          /\ \A i \in DOMAIN sorted : /\ Len(sorted) - i + 1 \in DOMAIN sorted
                                      /\ Reverse(sorted)[i] = sorted[Len(sorted) - i + 1]
      BY <3>1, ReverseType
    <3>3. Len(sorted) = n
      BY <1>8
    <3> QED BY <1>9, <2>1, <3>2, <3>3
  <2>3. PICK f : f = [i \in 1 .. n |-> p[n - i + 1]]
    OBVIOUS
  <2>4. \A i \in DOMAIN new : f[i] \in DOMAIN List /\ new[i] = List[f[i]] /\ Stands(List[f[i]])
    <3> TAKE i \in DOMAIN new
    <3>1. PICK k \in 1 .. n : k = n - i + 1
      BY <2>2
    <3>2. f[i] = p[k] /\ new[i] = sorted[k]
      BY <2>2, <2>3, <3>1
    <3>3. p[k] \in 1 .. n /\ sorted[k] = old[p[k]]
      BY <1>8
    <3> QED BY <1>2, <1>4, <1>12, <3>2, <3>3
  <2>5. \A i, j \in DOMAIN new : f[i] = f[j] => i = j
    <3> SUFFICES ASSUME NEW i \in DOMAIN new, NEW j \in DOMAIN new, f[i] = f[j] PROVE i = j
      OBVIOUS
    <3>1. /\ i \in 1 .. n /\ j \in 1 .. n /\ p[n - i + 1] = p[n - j + 1]
          /\ n - i + 1 \in 1 .. n /\ n - j + 1 \in 1 .. n
      BY <2>2, <2>3
    <3>2. n - i + 1 = n - j + 1
      BY <1>7, <3>1
    <3> QED BY <3>1, <3>2
  <2>6. Unique' /\ Standing'
    <3>2. Unique
      BY DEF CalmInv
    <3> QED BY <1>1, <1>11, <2>4, <2>5, <3>2, PickedRows
  <2> QED BY <1>1, <2>6 DEF CalmInv, Alone, SameServer
<1> QED BY <1>13, <1>14

LEMMA AwaitTurnCalm ==
  ASSUME IInv, CalmInv, calm', table \notin Berry, AwaitTurn
  PROVE  CalmInv'
<1>1. PICK p : \/ AskOnly([start |-> p - 1, goto |-> p])
               \/ NoRequest /\ UNCHANGED <<heap, arrays, cur>>
  BY DEF AwaitTurn
<1>2. CASE AskOnly([start |-> p - 1, goto |-> p])
  BY <1>2, WebAskOnly DEF WebList
<1>3. CASE NoRequest /\ UNCHANGED <<heap, arrays, cur>>
  BY <1>3, Leaves, WebQuiet DEF NoRequest, SameRows, wire
<1> QED BY <1>1, <1>2, <1>3

LEMMA EagerTurnCalm ==
  ASSUME IInv, CalmInv, calm', table \notin Berry, NEW q, NEW spins, EagerTurn(q, spins)
  PROVE  CalmInv'
<1>1. PICK p : /\ Ask([start |-> p - 1, query |-> q]) \/ NoRequest
               /\ SameRows
  BY DEF EagerTurn, SameRows
<1>2. CASE Ask([start |-> p - 1, query |-> q])
  BY <1>1, <1>2, WebListAsk DEF WebList
<1>3. CASE NoRequest
  BY <1>1, <1>3, Leaves, WebQuiet DEF NoRequest, wire
<1> QED BY <1>1, <1>2, <1>3

\* The load that follows an answer, with what the first request captured
LEMMA LoadFollows ==
  ASSUME NEW r, NEW then, ThenLoad(r, then)
  PROVE  \E q : /\ net' = (net \ {r}) \cup {q}
                /\ q.n = r.n /\ q.do = "load" /\ q.id = r.id /\ q.start = r.page - 1 /\ q.goto = 0
                /\ q.then = then /\ q.cap = r.cap /\ q.page = r.page /\ q.size = r.size
                /\ q.value = r.value /\ q.ans = None
<1> DEFINE f == [start |-> r.page - 1, id |-> r.id, value |-> r.value, then |-> then, cap |-> r.cap,
                 page |-> r.page, size |-> r.size, closure |-> r.closure, query |-> r.query]
<1>1. /\ DOMAIN f = {"start", "id", "value", "then", "cap", "page", "size", "closure", "query"}
      /\ f.start = r.page - 1 /\ f.id = r.id /\ f.value = r.value /\ f.then = then /\ f.cap = r.cap
      /\ f.page = r.page /\ f.size = r.size
  OBVIOUS
<1>2. PICK q : q = Request(f, r.n)
  OBVIOUS
<1>3. net' = (net \ {r}) \cup {q}
  BY <1>2 DEF ThenLoad, Next2
<1> HIDE DEF f
<1>4. /\ q.n = r.n /\ q.do = "load" /\ q.id = r.id /\ q.cap = r.cap /\ q.page = r.page /\ q.ans = None
  BY <1>1, <1>2, RequestFields
<1>5. q.start = r.page - 1 /\ q.goto = 0 /\ q.then = then /\ q.size = r.size /\ q.value = r.value
  BY <1>1, <1>2, MoreFields
<1> QED BY <1>3, <1>4, <1>5

LEMMA WebSweepCalm ==
  ASSUME IInv, CalmInv, calm', table \notin Berry,
         \/ \E r \in Fine({"sweep"}) :
              /\ ThenLoad(r, "none")
              /\ loading' = TRUE
              /\ UNCHANGED <<heap, arrays, cur, page, size, total, query, switch>>
         \/ Fails({"sweep"})
  PROVE  CalmInv'
<1>1. PICK r \in Fine({"sweep"}) : ThenLoad(r, "none") /\ SameRows
  BY NoFailure DEF SameRows
<1>2. r \in net /\ r.do = "sweep" /\ r.ans.ok = "ok" /\ net = {r} /\ SameServer /\ r \in RequestSet
  BY <1>1, FineAnswered, WebSole, HandlersLeave DEF IInv, NetInv
<1>3. PICK q : /\ net' = (net \ {r}) \cup {q} /\ q.do = "load" /\ q.start = r.page - 1
               /\ q.then = "none" /\ q.ans = None
  BY <1>1, LoadFollows
<1>4. q.start = 0
  <2>1. ~Disturbs(r)
    BY <1>1 DEF ThenLoad, Next2
  <2>2. ~(r.page > 1)
    BY <1>2, <2>1 DEF Disturbs
  <2>3. r.page \in Nat \ {0}
    BY <1>2 DEF RequestSet, Positive
  <2> QED BY <1>3, <2>2, <2>3
<1>5. net' = {q}
  BY <1>2, <1>3
<1>6. Present(q)'
  <2>1. ~Answer(q) /\ q.do \notin Edits /\ q.then # "switch" /\ table' = table
    BY <1>2, <1>3 DEF Answer, None, Edits, SameServer
  <2> QED BY <1>3, <1>4, <2>1 DEF Present
<1>7. Alone'
  BY <1>5 DEF Alone
<1>8. \A i : Doubts(q, Id(i), i)
  BY <1>3, <1>4 DEF Doubts
<1> QED BY <1>1, <1>2, <1>5, <1>6, <1>7, <1>8, QuietScreen

(***************************************************************************)
(* The tables of default and air                                           *)
(***************************************************************************)
LEMMA SearchCalm ==
  ASSUME IInv, CalmInv, calm', table \notin Berry, NEW then \in {"none", "clear"}, Search(then)
  PROVE  CalmInv'
<1>1. WebList([do |-> "search"]) /\ WebList([goto |-> 1, then |-> then])
  BY DEF WebList, Edits
<1>2. CASE AskOnly([do |-> "search"])
  BY <1>1, <1>2, WebAskOnly
<1>3. CASE AskOnly([goto |-> 1, then |-> then])
  BY <1>1, <1>3, WebAskOnly
<1> QED BY <1>2, <1>3 DEF Search

LEMMA LoadClickCalm ==
  ASSUME IInv, CalmInv, calm', table \notin Berry, LoadEnds \/ HandlerDies({"load"})
  PROVE  CalmInv'
BY NoFailure, WebLoadEnds DEF LoadEnds

LEMMA SearchEndsCalm ==
  ASSUME IInv, CalmInv, table \notin Berry, SearchEnds \/ AirSearchEnds
  PROVE  CalmInv'
BY NoFailure, WebSearchArrives DEF SearchEnds, AirSearchEnds

LEMMA ChooseQueryCalm ==
  ASSUME IInv, CalmInv, calm', table \notin Berry, ChooseQuery
  PROVE  CalmInv'
<1>1. PICK q : Ask([query |-> q, page |-> 1]) /\ SameRows
  BY DEF ChooseQuery, SameRows
<1>2. WebList([query |-> q, page |-> 1])
  BY DEF WebList
<1> QED BY <1>1, <1>2, WebListAsk

LEMMA SweepAskCalm ==
  ASSUME IInv, CalmInv, calm', table \notin Berry, AskOnly([do |-> "sweep"])
  PROVE  CalmInv'
<1>1. WebList([do |-> "sweep"])
  BY DEF WebList, Edits
<1> QED BY <1>1, WebAskOnly

\* A click that loads a page
LEMMA LoadAskCalm ==
  ASSUME IInv, CalmInv, calm', table \notin Berry, NEW start, Ask([start |-> start]), SameRows
  PROVE  CalmInv'
<1>1. WebList([start |-> start])
  BY DEF WebList
<1> QED BY <1>1, WebListAsk

LEMMA RefreshCalm ==
  ASSUME IInv, CalmInv, calm', table \notin Berry, Refresh
  PROVE  CalmInv'
BY LoadAskCalm DEF Refresh, Reload, SameRows

LEMMA RefreshLogsCalm ==
  ASSUME IInv, CalmInv, calm', table \notin Berry, RefreshLogs
  PROVE  CalmInv'
BY LoadAskCalm DEF RefreshLogs, SameRows

LEMMA ChannelsTableCalm ==
  ASSUME IInv, CalmInv, calm', ChannelsTable
  PROVE  CalmInv'
<1>0. table \notin Air /\ table \notin Berry
  BY OpenDefault DEF DefaultStep
<1>1. CASE LoadChannels
  BY <1>0, <1>1, LoadClickCalm DEF LoadChannels
<1>2. CASE ManageChannel
  BY <1>0, <1>2, ManagedCalm DEF ManageChannel, Edits
<1>3. CASE SearchChannels
  BY <1>0, <1>3, SearchCalm, SearchEndsCalm DEF SearchChannels
<1>4. CASE BalanceUsage
  <2>1. PICK i : AskOnly([do |-> "balance", id |-> IdOf(List[i]), idx |-> 1])
    BY <1>4 DEF BalanceUsage
  <2>2. WebList([do |-> "balance", id |-> IdOf(List[i]), idx |-> 1])
    BY DEF WebList, Edits
  <2> QED BY <1>0, <2>1, <2>2, WebAskOnly
<1>5. CASE UpdateBalance
  BY <1>5, UpdateBalanceCalm
<1>6. CASE TestChannel
  BY <1>6, TestChannelCalm
<1>7. CASE DeleteDisabled
  BY <1>0, <1>7, WebSweepCalm DEF DeleteDisabled
<1>8. CASE ChannelHeader
  BY <1>0, <1>8, SortCalm DEF ChannelHeader, SortChannel
<1>9. CASE ChannelRow
  BY <1>0, <1>9, WebRowAsk, WebToggle DEF ChannelRow
<1>10. CASE ChannelFooter
  BY <1>0, <1>10, SweepAskCalm, AwaitTurnCalm, RefreshCalm DEF ChannelFooter
<1> QED BY <1>1, <1>2, <1>3, <1>4, <1>5, <1>6, <1>7, <1>8, <1>9, <1>10 DEF ChannelsTable

LEMMA TokensTableCalm ==
  ASSUME IInv, CalmInv, calm', TokensTable
  PROVE  CalmInv'
<1>0. table \notin Air /\ table \notin Berry
  BY OpenDefault DEF DefaultStep
<1>1. CASE LoadTokens
  BY <1>0, <1>1, LoadClickCalm DEF LoadTokens
<1>2. CASE TokensFocus
  BY <1>0, <1>2, LoadAskCalm DEF TokensFocus, AskOnly, screen, SameRows
<1>3. CASE ManageToken
  BY <1>0, <1>3, ManagedCalm DEF ManageToken, Edits
<1>4. CASE SearchTokens
  BY <1>0, <1>4, SearchCalm, SearchEndsCalm DEF SearchTokens
<1>5. CASE TokenHeader
  BY <1>0, <1>5, SortCalm DEF TokenHeader, SortToken
<1>6. CASE TokenRow
  BY <1>0, <1>6, WebRowAsk, WebToggle DEF TokenRow
<1>7. CASE TokenFooter
  BY <1>0, <1>7, ChooseQueryCalm, AwaitTurnCalm, RefreshCalm DEF TokenFooter
<1> QED BY <1>1, <1>2, <1>3, <1>4, <1>5, <1>6, <1>7 DEF TokensTable

LEMMA UsersTableCalm ==
  ASSUME IInv, CalmInv, calm', UsersTable
  PROVE  CalmInv'
<1>0. table \notin Air /\ table \notin Berry
  BY OpenDefault DEF DefaultStep
<1>1. CASE LoadUsers
  BY <1>0, <1>1, LoadClickCalm DEF LoadUsers
<1>2. CASE ManageUser
  BY <1>0, <1>2, ManagedCalm DEF ManageUser, Edits
<1>3. CASE SearchUsers
  BY <1>0, <1>3, SearchCalm, SearchEndsCalm DEF SearchUsers
<1>4. CASE UserHeader
  BY <1>0, <1>4, SortCalm DEF UserHeader, SortUser
<1>5. CASE UserRow
  BY <1>0, <1>5, WebRowAsk, WebToggle DEF UserRow
<1>6. CASE UserFooter
  BY <1>0, <1>6, ChooseQueryCalm, AwaitTurnCalm DEF UserFooter
<1> QED BY <1>1, <1>2, <1>3, <1>4, <1>5, <1>6 DEF UsersTable

LEMMA LogsTableCalm ==
  ASSUME IInv, CalmInv, calm', LogsTable
  PROVE  CalmInv'
<1>0. table \notin Air /\ table \notin Berry
  BY OpenDefault DEF DefaultStep
<1>1. CASE LoadLogs
  BY <1>0, <1>1, LoadClickCalm DEF LoadLogs
<1>2. CASE FilterLogs
  BY <1>0, <1>2, RefreshLogsCalm DEF FilterLogs, TypeFilter
<1>3. CASE LogHeader
  BY <1>0, <1>3, SortCalm DEF LogHeader, SortLog
<1>4. CASE LogFooter
  BY <1>0, <1>4, RefreshLogsCalm, ChooseQueryCalm, AwaitTurnCalm DEF LogFooter
<1> QED BY <1>1, <1>2, <1>3, <1>4 DEF LogsTable

LEMMA AirLoadEndsCalm ==
  ASSUME IInv, CalmInv, calm', table \notin Berry, AirLoadEnds \/ HandlerDies({"load"})
  PROVE  CalmInv'
BY NoFailure, WebLoadEnds DEF AirLoadEnds

LEMMA AirAskLoadCalm ==
  ASSUME IInv, CalmInv, calm', table \notin Berry, NEW f, WebList(f), AirAskLoad(f)
  PROVE  CalmInv'
BY WebListAsk DEF AirAskLoad, SameRows

LEMMA AirChannelsTableCalm ==
  ASSUME IInv, CalmInv, calm', AirChannelsTable
  PROVE  CalmInv'
<1>0. table \in Air /\ table \notin Berry
  BY OpenAir DEF AirStep
<1>1. CASE AirChannelRow
  BY <1>0, <1>1, WebRowAsk, WebToggle DEF AirChannelRow
<1>2. CASE AirLoadChannels
  BY <1>0, <1>2, AirLoadEndsCalm DEF AirLoadChannels
<1>3. CASE AirManageChannel
  BY <1>0, <1>3, AirManagedCalm DEF AirManageChannel
<1>4. CASE AirSearchChannels
  <2>1. WebList([do |-> "search"]) /\ WebList([goto |-> 1])
    BY DEF WebList, Edits
  <2> QED BY <1>0, <1>4, <2>1, WebAskOnly, AirAskLoadCalm, SearchEndsCalm DEF AirSearchChannels
<1>5. CASE AirTestChannel
  BY <1>0, <1>5, MeasuredCalm DEF AirTestChannel
<1>6. CASE AirDeleteDisabled
  BY <1>0, <1>6, WebSweepCalm DEF AirDeleteDisabled
<1>7. CASE AirUpdateBalance
  BY <1>0, <1>7, MeasuredCalm DEF AirUpdateBalance
<1>8. CASE AirChannelSizes
  <2>1. PICK s : Ask([size |-> s]) /\ SameRows
    BY <1>8 DEF AirChannelSizes, SameRows
  <2>2. WebList([size |-> s])
    BY DEF WebList
  <2> QED BY <1>0, <2>1, <2>2, WebListAsk
<1>9. CASE AirChannelPage
  BY <1>0, <1>9, EagerTurnCalm DEF AirChannelPage
<1>10. CASE AirChannelBar
  <2>1. WebList([start |-> page - 1])
    BY DEF WebList
  <2> QED BY <1>0, <1>10, <2>1, AirAskLoadCalm, SweepAskCalm DEF AirChannelBar
<1> QED BY <1>1, <1>2, <1>3, <1>4, <1>5, <1>6, <1>7, <1>8, <1>9, <1>10 DEF AirChannelsTable

LEMMA AirTokenRowCalm ==
  ASSUME IInv, CalmInv, calm', table \notin Berry, AirTokenRow
  PROVE  CalmInv'
<1>1. PICK i \in Shown, do \in {"delete", "toggle"} :
        Ask([do |-> IF do = "delete" THEN "delete"
                    ELSE IF heap[List[i][1]].status[IdOf(List[i])] = Enabled
                         THEN "disable" ELSE "enable",
             id |-> IdOf(List[i]), ref |-> List[i]])
  BY DEF AirTokenRow
<1>2. PICK op : Ask([do |-> op, id |-> IdOf(List[i]), ref |-> List[i]])
  BY <1>1
<1> DEFINE f == [do |-> op, id |-> IdOf(List[i]), ref |-> List[i]]
<1>3. Ask(f) /\ SameRows
  BY <1>2 DEF AirTokenRow, SameRows
<1>4. net = {}
  BY <1>3, AskedCalm
<1>5. Exists(f.id)
  BY <1>4, ShownAlone
<1>6. "cap" \notin DOMAIN f /\ "then" \notin DOMAIN f /\ "id" \in DOMAIN f
  OBVIOUS
<1> HIDE DEF f
<1> QED BY <1>3, <1>5, <1>6, WebAsk

LEMMA AirManageTokenCalm ==
  ASSUME IInv, CalmInv, table \in Air, table \notin Berry, AirManageToken
  PROVE  CalmInv'
<1>1. ~ \E r \in Answers(Manages) : r.ans.ok = "refused"
  BY AllAnswered
<1> QED BY <1>1, NoFailure, RecordCalm DEF AirManageToken

LEMMA AirTokenEffectCalm ==
  ASSUME IInv, CalmInv, calm', table \notin Berry, AirTokenEffect
  PROVE  CalmInv'
<1>1. CASE ChooseQuery
  BY <1>1, ChooseQueryCalm
<1>2. CASE ~ChooseQuery
  <2>1. PICK s : Ask([size |-> s, closure |-> s, page |-> 1]) /\ SameRows
    BY <1>2 DEF AirTokenEffect, SameRows
  <2>2. WebList([size |-> s, closure |-> s, page |-> 1])
    BY DEF WebList
  <2> QED BY <2>1, <2>2, WebListAsk
<1> QED BY <1>1, <1>2

LEMMA AirTokensTableCalm ==
  ASSUME IInv, CalmInv, calm', AirTokensTable
  PROVE  CalmInv'
<1>0. table \in Air /\ table \notin Berry
  BY OpenAir DEF AirStep
<1>1. CASE AirTokenRow
  BY <1>0, <1>1, AirTokenRowCalm
<1>2. CASE AirLoadTokens
  BY <1>0, <1>2, AirLoadEndsCalm DEF AirLoadTokens
<1>3. CASE AirManageToken
  BY <1>0, <1>3, AirManageTokenCalm
<1>4. CASE AirSearchTokens
  <2>1. WebList([do |-> "search"]) /\ WebList([goto |-> 1, then |-> "clear"])
    BY DEF WebList, Edits
  <2> QED BY <1>0, <1>4, <2>1, WebAskOnly, AirAskLoadCalm, WebSearchArrives, NoFailure DEF AirSearchTokens
<1>5. CASE AirTokenPage
  BY <1>0, <1>5, EagerTurnCalm DEF AirTokenPage
<1>6. CASE AirTokenEffect
  BY <1>0, <1>6, AirTokenEffectCalm
<1>7. CASE AirTokenSaved
  <2>1. WebList([start |-> page - 1])
    BY DEF WebList
  <2> QED BY <1>0, <1>7, <2>1, AirAskLoadCalm DEF AirTokenSaved
<1> QED BY <1>1, <1>2, <1>3, <1>4, <1>5, <1>6, <1>7 DEF AirTokensTable

LEMMA AirUsersTableCalm ==
  ASSUME IInv, CalmInv, calm', AirUsersTable
  PROVE  CalmInv'
<1>0. table \in Air /\ table \notin Berry
  BY OpenAir DEF AirStep
<1>1. CASE AirUserRow
  BY <1>0, <1>1, WebRowAsk, WebToggle DEF AirUserRow
<1>2. CASE AirLoadUsers
  BY <1>0, <1>2, AirLoadEndsCalm DEF AirLoadUsers
<1>3. CASE AirManageUser
  BY <1>0, <1>3, AirManagedCalm DEF AirManageUser
<1>4. CASE AirSearchUsers
  BY <1>0, <1>4, SearchCalm, SearchEndsCalm DEF AirSearchUsers
<1>5. CASE AirUserPage
  BY <1>0, <1>5, EagerTurnCalm DEF AirUserPage
<1>6. CASE AirUserSaved
  <2>1. WebList([start |-> page - 1]) /\ WebList([do |-> "search"])
    BY DEF WebList, Edits
  <2> QED BY <1>0, <1>6, <2>1, WebAskOnly DEF AirUserSaved
<1>7. CASE AirUserOrder
  BY <1>0, <1>7, ChooseQueryCalm DEF AirUserOrder
<1> QED BY <1>1, <1>2, <1>3, <1>4, <1>5, <1>6, <1>7 DEF AirUsersTable

LEMMA AirLogsTableCalm ==
  ASSUME IInv, CalmInv, calm', AirLogsTable
  PROVE  CalmInv'
<1>0. table \in Air /\ table \notin Berry
  BY OpenAir DEF AirStep
<1>1. CASE AirLoadLogs
  BY <1>0, <1>1, AirLoadEndsCalm DEF AirLoadLogs
<1>2. CASE AirLogPage
  BY <1>0, <1>2, EagerTurnCalm DEF AirLogPage
<1>3. CASE AirLogSizes
  <2>1. PICK s : Ask([size |-> s, query |-> ""]) /\ SameRows
    BY <1>3 DEF AirLogSizes, SameRows
  <2>2. WebList([size |-> s, query |-> ""])
    BY DEF WebList
  <2> QED BY <1>0, <2>1, <2>2, WebListAsk
<1>4. CASE AirLogQuery
  <2>1. Ask([query |-> ""]) /\ SameRows
    BY <1>4 DEF AirLogQuery, SameRows
  <2>2. WebList([query |-> ""])
    BY DEF WebList
  <2> QED BY <1>0, <2>1, <2>2, WebListAsk
<1>5. CASE AirLogType
  BY <1>0, <1>5, ChooseQueryCalm DEF AirLogType
<1> QED BY <1>1, <1>2, <1>3, <1>4, <1>5 DEF AirLogsTable

(***************************************************************************)
(* Clicks on berry's tables                                                *)
(***************************************************************************)
LEMMA BerrySize ==
  ASSUME IInv, table \in Berry
  PROVE  size = PageSize /\ table \notin Pushing
BY DEF IInv, PagerInv, Air, Berry, Pushing

\* Switches that keep the values they have, while nobody asks for another
LEMMA StillSwitched ==
  ASSUME CalmInv, table \in Berry, SameServer, SameRows, UNCHANGED <<page, size>>,
         net = {} \/ table # "berry/logs",
         NEW w, w = switch', DOMAIN w = DOMAIN switch,
         \A id \in DOMAIN switch : w[id].value = status[id] /\ DOMAIN w[id] = {"value", "waits"}
  PROVE  Switched' /\ Mounted'
<1>1. Shown' = Shown /\ \A i : Id(i)' = Id(i)
  BY SameShown
<1>2. status' = status /\ table' = table
  BY DEF SameServer, server
<1>3. Switched'
  BY <1>2 DEF Switched
<1>4. \A i \in Shown : Id(i) \in DOMAIN switch
  BY DEF CalmInv, Mounted
<1> QED BY <1>1, <1>3, <1>4 DEF Mounted

LEMMA NobodyAwaits ==
  ASSUME CalmInv, table \in Berry,
         \A r \in net : ~(r.do \in Switches /\ Answer(r)) /\ r.then # "switch"
  PROVE  \A id \in DOMAIN switch : switch[id].value = status[id]
BY DEF CalmInv, Switched, Awaits

LEMMA BerryAsk ==
  ASSUME IInv, CalmInv, calm', table \in Berry, NEW f, Ask(f), SameRows, UNCHANGED <<page, size>>,
         NEW w, w = switch', DOMAIN w = DOMAIN switch,
         \A id \in DOMAIN switch : /\ w[id].value = switch[id].value
                                   /\ DOMAIN w[id] = {"value", "waits"},
         NEW q, q = Request(f, issued + 1), q.cap = cur, q.then # "switch",
         q.do \in Edits => Exists(q.id), OfBerry(q)'
  PROVE  CalmInv'
<1>1. SameServer /\ net = {}
  BY Leaves, AskedCalm
<1>2. q.ans = None
  BY RequestFields
<1>3. Present(q)'
  BY <1>1, <1>2, NewRequest
<1>4. \A id \in DOMAIN switch : switch[id].value = status[id]
  BY <1>1, NobodyAwaits
<1>5. Switched' /\ Mounted'
  BY <1>1, <1>4, StillSwitched
<1> QED BY <1>3, <1>5, AskCalm

\* ... whose switches stay as they are
LEMMA BerryPlainAsk ==
  ASSUME IInv, CalmInv, calm', table \in Berry, NEW f, Ask(f), SameRows, UNCHANGED <<page, size, switch>>,
         NEW q, q = Request(f, issued + 1), q.cap = cur, q.then \notin {"switch", "clear"},
         q.do \in Edits => Exists(q.id), q.do \notin Switches, q.size = size, q.page = page,
         q.do = "load" => (IF q.goto > 0 THEN q.goto ELSE page) = q.start + 1,
         q.do = "delete" => \A i \in DOMAIN List : Id(i) = q.id => i > (page - 1) * size
  PROVE  CalmInv'
<1>1. size = PageSize /\ List' = List /\ \A i : Id(i)' = Id(i)
  BY BerrySize, SameShown
<1>2. OfBerry(q)'
  BY <1>1 DEF OfBerry
<1>3. PICK w : w = switch'
  OBVIOUS
<1>4. \A id \in DOMAIN switch : DOMAIN switch[id] = {"value", "waits"}
  BY DEF CalmInv, Mounted
<1> QED BY <1>2, <1>3, <1>4, BerryAsk

LEMMA BerryListAsk ==
  ASSUME IInv, CalmInv, calm', table \in Berry, NEW f, Ask(f), SameRows, UNCHANGED <<page, size, switch>>,
         "cap" \notin DOMAIN f, "then" \notin DOMAIN f, "size" \notin DOMAIN f, "page" \notin DOMAIN f,
         \/ "do" \in DOMAIN f /\ f.do \in {"search", "sweep"}
         \/ /\ "do" \notin DOMAIN f
            /\ (IF "goto" \in DOMAIN f /\ f.goto > 0 THEN f.goto ELSE page)
                 = (IF "start" \in DOMAIN f THEN f.start ELSE 0) + 1
  PROVE  CalmInv'
<1>1. PICK q : q = Request(f, issued + 1)
  OBVIOUS
<1>2. /\ q.cap = cur /\ q.page = page /\ q.size = size /\ q.then = "none"
      /\ q.do = (IF "do" \in DOMAIN f THEN f.do ELSE "load")
      /\ q.goto = (IF "goto" \in DOMAIN f THEN f.goto ELSE 0)
      /\ q.start = (IF "start" \in DOMAIN f THEN f.start ELSE 0)
  BY <1>1, RequestFields, MoreFields
<1>3. q.do \notin Edits /\ q.do \notin Switches /\ q.do # "delete"
  BY <1>2 DEF Edits, Switches
<1>4. q.do = "load" => (IF q.goto > 0 THEN q.goto ELSE page) = q.start + 1
  BY <1>2
<1> QED BY <1>1, <1>2, <1>3, <1>4, BerryPlainAsk

LEMMA BerryRowAsk ==
  ASSUME IInv, CalmInv, calm', table \in Berry, NEW i \in Shown, NEW do \in {"touch", "delete"}, AskRow(do, i)
  PROVE  CalmInv'
<1> DEFINE f == [do |-> do, id |-> IdOf(List[i]), ref |-> List[i], idx |-> i - (page - 1) * size]
<1>1. Ask(f) /\ SameRows /\ UNCHANGED <<page, size, switch>>
  BY DEF AskRow, AskOnly, screen, SameRows
<1>2. net = {}
  BY <1>1, AskedCalm
<1>3. f.do = do /\ f.id = IdOf(List[i]) /\ DOMAIN f = {"do", "id", "ref", "idx"}
  OBVIOUS
<1> HIDE DEF f
<1>4. PICK q : q = Request(f, issued + 1)
  OBVIOUS
<1>5. q.cap = cur /\ q.page = page /\ q.size = size /\ q.then = "none" /\ q.do = do /\ q.id = IdOf(List[i])
  BY <1>3, <1>4, RequestFields, MoreFields
<1>6. /\ Exists(IdOf(List[i])) /\ i > (page - 1) * size
      /\ \A j \in DOMAIN List : Id(j) = IdOf(List[i]) => j = i
  BY <1>2, ShownAlone
<1>7. q.do \notin Switches /\ q.do # "load" /\ Exists(q.id)
  BY <1>5, <1>6 DEF Switches
<1>8. \A j \in DOMAIN List : Id(j) = q.id => j > (page - 1) * size
  BY <1>5, <1>6
<1> QED BY <1>1, <1>4, <1>5, <1>7, <1>8, BerryPlainAsk

LEMMA FlipCalm ==
  ASSUME IInv, CalmInv, calm', table \in Berry, NEW i \in Shown, Flip(i)
  PROVE  CalmInv'
<1>1. PICK id : id = IdOf(List[i])
  OBVIOUS
<1>2. PICK to \in Statuses :
        /\ Ask([do |-> IF to = Enabled THEN "enable" ELSE "disable", id |-> id, value |-> to])
        /\ switch' = [switch EXCEPT ![id].waits = @ \cup {issued + 1}]
        /\ SameRows /\ UNCHANGED <<page, size>>
  BY <1>1 DEF Flip, Statuses, SameRows
<1>3. PICK do : do = IF to = Enabled THEN "enable" ELSE "disable"
  OBVIOUS
<1> DEFINE f == [do |-> do, id |-> id, value |-> to]
<1>4. Ask(f)
  BY <1>2, <1>3
<1>5. f.do = do /\ f.id = id /\ f.value = to /\ DOMAIN f = {"do", "id", "value"}
  OBVIOUS
<1> HIDE DEF f
<1>6. PICK q : q = Request(f, issued + 1)
  OBVIOUS
<1>7. /\ q.n = issued + 1 /\ q.cap = cur /\ q.page = page /\ q.size = size /\ q.then = "none"
      /\ q.do = do /\ q.id = id /\ q.value = to /\ q.ans = None
  BY <1>5, <1>6, RequestFields, MoreFields
<1>8. do \in Switches /\ do # "load" /\ do # "delete" /\ to = IF do = "enable" THEN Enabled ELSE Disabled
  BY <1>3 DEF Switches, Statuses, Enabled, Disabled
<1>9. net = {}
  BY <1>4, AskedCalm
<1>10. Exists(id) /\ id \in DOMAIN switch
  <2>1. id = Id(i)
    BY <1>1 DEF Id
  <2> QED BY <1>1, <1>9, <2>1, ShownAlone DEF CalmInv, Mounted
<1>11. PICK o : o = switch[id]
  OBVIOUS
<1>12. PICK p : p = [o EXCEPT !.waits = @ \cup {issued + 1}]
  OBVIOUS
<1>13. \A x \in DOMAIN switch : DOMAIN switch[x] = {"value", "waits"}
  BY DEF CalmInv, Mounted
<1>14. DOMAIN p = {"value", "waits"} /\ p.value = o.value /\ issued + 1 \in p.waits
  <2>1. DOMAIN o = {"value", "waits"}
    BY <1>10, <1>11, <1>13
  <2>2. PICK n : n = issued + 1
    OBVIOUS
  <2>3. p = [o EXCEPT !.waits = o.waits \cup {n}]
    BY <1>12, <2>2
  <2>4. DOMAIN p = {"value", "waits"} /\ p.value = o.value /\ p.waits = o.waits \cup {n}
    BY <2>1, <2>3
  <2> QED BY <2>2, <2>4
<1>15. PICK w : w = [switch EXCEPT ![id] = p]
  OBVIOUS
<1>16. switch' = w
  BY <1>2, <1>11, <1>12, <1>15
<1>17. /\ DOMAIN w = DOMAIN switch /\ w[id] = p
       /\ \A x \in DOMAIN switch : w[x].value = switch[x].value /\ DOMAIN w[x] = {"value", "waits"}
  BY <1>10, <1>11, <1>13, <1>14, <1>15
<1>18. size = PageSize
  BY BerrySize
<1>19. OfBerry(q)'
  <2>1. q.id \in DOMAIN switch' /\ q.n \in switch'[q.id].waits
    BY <1>7, <1>10, <1>14, <1>16, <1>17
  <2>2. q.do # "load" /\ q.do # "delete" /\ ~Answer(q) /\ q.size = PageSize /\ q.page = page'
    BY <1>2, <1>7, <1>8, <1>18 DEF Answer, None
  <2>3. q.then = "none" /\ q.value = IF q.do = "enable" THEN Enabled ELSE Disabled
    BY <1>7, <1>8
  <2> QED BY <2>1, <2>2, <2>3 DEF OfBerry
<1>20. q.do \in Edits => Exists(q.id)
  BY <1>7, <1>10
<1>21. q.then # "switch"
  BY <1>7
<1> QED BY <1>2, <1>4, <1>6, <1>7, <1>16, <1>17, <1>19, <1>20, <1>21, BerryAsk

(***************************************************************************)
(* Berry's rows appear and go                                              *)
(***************************************************************************)
LEMMA RemountShape ==
  ASSUME NEW w, w = Remount
  PROVE  /\ \A i \in Shown' : List'[i][2] \in DOMAIN w
         /\ \A id \in DOMAIN w : id \in DOMAIN switch => w[id] = switch[id]
         /\ \A id \in DOMAIN w : id \notin DOMAIN switch =>
              \E i \in Shown' : /\ List'[i][2] = id
                                /\ w[id] = [value |-> heap'[List'[i][1]].status[id], waits |-> {}]
<1>1. PICK S : S = Shown'
  OBVIOUS
<1>2. PICK new : new = List'
  OBVIOUS
<1>3. PICK h : h = heap'
  OBVIOUS
<1> DEFINE At(id) == CHOOSE j \in S : new[j][2] = id
<1>4. w = [id \in {new[i][2] : i \in S} |->
             IF id \in DOMAIN switch THEN switch[id]
             ELSE [value |-> h[new[At(id)][1]].status[id], waits |-> {}]]
  BY <1>1, <1>2, <1>3 DEF Remount, IdOf
<1>5. \A id \in {new[i][2] : i \in S} : At(id) \in S /\ new[At(id)][2] = id
  OBVIOUS
<1> HIDE DEF At
<1>6. /\ \A i \in S : new[i][2] \in DOMAIN w
      /\ \A id \in DOMAIN w : id \in DOMAIN switch => w[id] = switch[id]
      /\ \A id \in DOMAIN w : id \notin DOMAIN switch =>
           /\ At(id) \in S /\ new[At(id)][2] = id
           /\ w[id] = [value |-> h[new[At(id)][1]].status[id], waits |-> {}]
  BY <1>4, <1>5
<1> QED BY <1>1, <1>2, <1>3, <1>6

\* The rows that appear tell how the records are; the others keep their switch.
LEMMA RemountValues ==
  ASSUME CalmInv, table \in Berry, SameServer, NEW w, w = Remount,
         \A i \in Shown' : List'[i][2] \notin DOMAIN switch => Current(List[i])'
  PROVE  /\ \A i \in Shown' : Id(i)' \in DOMAIN w
         /\ \A id \in DOMAIN w : /\ DOMAIN w[id] = {"value", "waits"}
                                 /\ IF id \in DOMAIN switch THEN w[id] = switch[id]
                                    ELSE w[id].value = status[id] /\ w[id].waits = {}
<1>1. status' = status
  BY DEF SameServer, server
<1>2. \A i \in Shown' : Id(i)' \in DOMAIN w
  BY RemountShape DEF Id, IdOf
<1>3. ASSUME NEW id \in DOMAIN w
      PROVE  /\ DOMAIN w[id] = {"value", "waits"}
             /\ IF id \in DOMAIN switch THEN w[id] = switch[id]
                ELSE w[id].value = status[id] /\ w[id].waits = {}
  <2>1. CASE id \in DOMAIN switch
    BY <2>1, RemountShape DEF CalmInv, Mounted
  <2>2. CASE id \notin DOMAIN switch
    <3>1. PICK i \in Shown' : /\ List'[i][2] = id
                              /\ w[id] = [value |-> heap'[List'[i][1]].status[id], waits |-> {}]
      BY <2>2, RemountShape
    <3>2. Current(List[i])'
      BY <2>2, <3>1
    <3>3. heap'[List'[i][1]].status[id] = status[id]
      BY <1>1, <3>1, <3>2 DEF Current
    <3>4. PICK v : v = heap'[List'[i][1]].status[id]
      OBVIOUS
    <3>5. w[id] = [value |-> v, waits |-> {}] /\ v = status[id]
      BY <3>1, <3>3, <3>4
    <3> QED BY <2>2, <3>5
  <2> QED BY <2>1, <2>2
<1> QED BY <1>2, <1>3

LEMMA RemountCalm ==
  ASSUME CalmInv, table \in Berry, SameServer, KeepSwitches,
         \A r \in net : ~(r.do \in Switches /\ Answer(r)) /\ r.then # "switch",
         \A i \in Shown' : List'[i][2] \notin DOMAIN switch => Current(List[i])'
  PROVE  Switched' /\ Mounted'
<1>1. PICK w : w = Remount
  OBVIOUS
<1>2. switch' = w /\ status' = status
  BY <1>1 DEF KeepSwitches, SameServer, server
<1>3. /\ \A i \in Shown' : Id(i)' \in DOMAIN w
      /\ \A id \in DOMAIN w : /\ DOMAIN w[id] = {"value", "waits"}
                              /\ IF id \in DOMAIN switch THEN w[id] = switch[id]
                                 ELSE w[id].value = status[id] /\ w[id].waits = {}
  BY <1>1, RemountValues
<1>4. \A id \in DOMAIN switch : switch[id].value = status[id]
  BY NobodyAwaits
<1>5. Switched'
  BY <1>2, <1>3, <1>4 DEF Switched
<1> QED BY <1>2, <1>3, <1>5 DEF Mounted

LEMMA BerryTurnCalm ==
  ASSUME IInv, CalmInv, calm', table \in Berry, BerryTurn
  PROVE  CalmInv'
<1>1. PICK p \in 1 .. Pages :
        IF IsNextPage(p) THEN BerryAskLoad([start |-> p - 1, goto |-> p])
        ELSE /\ UNCHANGED <<heap, arrays, cur>>
             /\ KeepSwitches
             /\ net = {} /\ ~Forgets
             /\ UNCHANGED <<table, server, wire, had>>
  BY DEF BerryTurn
<1>2. p \in Positive /\ p \in Nat /\ p > 0
  BY PagesNat DEF Positive
<1>3. CASE BerryAskLoad([start |-> p - 1, goto |-> p])
  <2> DEFINE f == [start |-> p - 1, goto |-> p]
  <2>1. Ask(f) /\ SameRows /\ UNCHANGED <<page, size, switch>>
    BY <1>3 DEF BerryAskLoad, SameRows
  <2>2. f.start = p - 1 /\ f.goto = p /\ DOMAIN f = {"start", "goto"}
    OBVIOUS
  <2>3. p = (p - 1) + 1
    BY <1>2
  <2> HIDE DEF f
  <2> QED BY <1>2, <2>1, <2>2, <2>3, BerryListAsk
<1>4. CASE ~IsNextPage(p)
  <2>1. net = {} /\ net' = {} /\ SameServer /\ SameRows /\ KeepSwitches /\ ~Forgets
    BY <1>1, <1>4 DEF SameServer, SameRows, wire
  <2>2. List' = List
    BY <2>1 DEF SameRows, List
  <2>3. ASSUME NEW i \in Shown', List'[i][2] \notin DOMAIN switch PROVE Current(List[i])'
    <3>1. heap[List[i][1]].status[List[i][2]] = status[List[i][2]]
      BY <2>1, <2>2, <2>3 DEF Forgets, IdOf
    <3> QED BY <2>1, <2>2, <3>1 DEF Current, SameServer, SameRows, server
  <2>4. Switched' /\ Mounted'
    BY <2>1, <2>3, RemountCalm
  <2>5. Alone'
    BY <2>1 DEF Alone
  <2> QED BY <2>1, <2>4, <2>5, QuietScreen
<1> QED BY <1>1, <1>3, <1>4

\* Rows of the page that an answer fills
LEMMA PageRow ==
  ASSUME NEW k \in Nat, NEW n \in Nat \ {0}, NEW i \in Nat, (i - 1) \div n = k
  PROVE  i > k * n
<1>1. i - 1 >= ((i - 1) \div n) * n
  OBVIOUS
<1>2. i - 1 >= k * n
  BY <1>1
<1>3. k * n \in Nat
  OBVIOUS
<1> QED BY <1>2, <1>3

LEMMA FilledPage ==
  ASSUME NEW k \in Nat, page' = k + 1, size' \in Nat \ {0}, NEW new, new = List', NEW i \in Shown',
         DOMAIN new \subseteq Nat
  PROVE  i \in DOMAIN new /\ i > k * size'
<1>1. i \in DOMAIN new /\ (i - 1) \div size' = page' - 1
  BY DEF Shown, Positions
<1>2. PICK n \in Nat \ {0} : n = size'
  OBVIOUS
<1>3. i \in Nat /\ (i - 1) \div n = k
  BY <1>1, <1>2
<1>4. i > k * n
  BY <1>3, PageRow
<1> QED BY <1>1, <1>2, <1>4

(***************************************************************************)
(* Answers on berry's tables                                               *)
(***************************************************************************)
\* An answer is done with, and the rows and switches are right.
LEMMA BerryRows ==
  ASSUME CalmInv, table \in Berry, SameServer, NEW r \in net, net' = net \ {r}, Unique', Standing',
         Switched' /\ Mounted',
         \A q \in net' : Plain(q) => Present(q)'
  PROVE  CalmInv'
<1>1. \A q \in net' : Plain(q)
  BY DEF CalmInv, Alone
<1>2. Alone'
  BY DEF CalmInv, Alone, Plain, SameServer
<1> QED BY <1>1, <1>2 DEF CalmInv

LEMMA NewDomain == IInv' => DOMAIN List' \subseteq Nat
<1> SUFFICES ASSUME IInv' PROVE DOMAIN List' \subseteq Nat
  OBVIOUS
<1>1. arrays'[cur'] \in ArraySet
  BY DEF IInv, ArraysInv
<1>2. List' \in Seq(Nat \X Ids)
  BY <1>1 DEF List, ArraySet
<1> QED BY <1>2

\* The rows that were there are right unless the request was a deletion.
LEMMA BerryStands ==
  ASSUME CalmInv, table \in Berry, net = {}  \/ \E r \in net : net = {r} /\ r.do \in Writes /\ Answer(r)
  PROVE  \A i \in DOMAIN List : Stands(List[i])
<1> SUFFICES ASSUME NEW i \in DOMAIN List, ~Stands(List[i]) PROVE FALSE
  OBVIOUS
<1>1. PICK r \in net : Doubts(r, Id(i), i) /\ r.do \in Writes /\ Answer(r)
  BY DEF CalmInv, Standing
<1>2. r.id = Id(i) /\ Exists(r.id)
  BY <1>1 DEF Doubts, Writes, CalmInv, Present, Truth
<1> QED BY <1>2 DEF Stands, Right, Id, IdOf

\* A write is answered and leaves the rows alone.
LEMMA BerryDone ==
  ASSUME IInv, CalmInv, table \in Berry, table # "berry/logs", NEW r \in net, r.do \in Writes, Answer(r),
         Done(r), SameRows, UNCHANGED <<page, size>>,
         NEW w, w = switch', DOMAIN w = DOMAIN switch,
         \A id \in DOMAIN switch : w[id].value = status[id] /\ DOMAIN w[id] = {"value", "waits"}
  PROVE  CalmInv'
<1>1. net = {r} /\ net' = {} /\ SameServer
  BY Leaves, SoleRequest DEF Plain, Done
<1>2. \A i \in DOMAIN List : Stands(List[i])
  BY <1>1, BerryStands
<1>3. Switched' /\ Mounted'
  BY <1>1, StillSwitched
<1>4. Alone'
  BY <1>1 DEF Alone
<1> QED BY <1>1, <1>2, <1>3, <1>4, QuietScreen

LEMMA FlipEndsCalm ==
  ASSUME IInv, CalmInv, table \in Berry, table # "berry/logs", FlipEnds
  PROVE  CalmInv'
<1>1. PICK r \in Fine({"enable", "disable"}) :
        /\ switch' = Flipped(switch, r)
        /\ SameRows /\ UNCHANGED <<page, size>>
        /\ Done(r)
  BY NoFailure DEF FlipEnds, SameRows
<1>2. r \in net /\ r.do \in Writes /\ r.do \in Switches /\ Answer(r) /\ Present(r)
  BY FineAnswered DEF Writes, Switches
<1>3. r.id \in DOMAIN switch /\ r.n \in switch[r.id].waits /\ r.value = status[r.id]
  BY <1>2 DEF Present, OfBerry
<1>4. net = {r}
  BY <1>2, SoleRequest DEF Plain
<1>5. \A id \in DOMAIN switch : /\ DOMAIN switch[id] = {"value", "waits"}
                                /\ id # r.id => switch[id].value = status[id]
  BY <1>4 DEF CalmInv, Switched, Mounted, Awaits
<1>6. PICK x : x = [value |-> r.value, waits |-> switch[r.id].waits \ {r.n}]
  OBVIOUS
<1>7. x.value = status[r.id] /\ DOMAIN x = {"value", "waits"}
  BY <1>3, <1>6
<1>8. PICK w : w = [switch EXCEPT ![r.id] = x]
  OBVIOUS
<1>9. switch' = w
  BY <1>1, <1>3, <1>6, <1>8 DEF Flipped
<1>10. DOMAIN w = DOMAIN switch
       /\ \A id \in DOMAIN switch : w[id].value = status[id] /\ DOMAIN w[id] = {"value", "waits"}
  BY <1>3, <1>5, <1>7, <1>8
<1> QED BY <1>1, <1>2, <1>9, <1>10, BerryDone

LEMMA TouchedCalm ==
  ASSUME IInv, CalmInv, table \in Berry, table # "berry/logs", NEW r \in Fine({"touch"}),
         UNCHANGED screen, Done(r)
  PROVE  CalmInv'
<1>1. r \in net /\ r.do = "touch" /\ r.do \in Writes /\ Answer(r) /\ Present(r)
  BY FineAnswered DEF Writes
<1>2. net = {r}
  BY <1>1, SoleRequest DEF Plain
<1>3. \A id \in DOMAIN switch : switch[id].value = status[id]
  <2>1. r.do \notin Switches /\ r.then # "switch"
    BY <1>1 DEF Present, Switches
  <2> QED BY <1>2, <2>1, NobodyAwaits
<1>4. SameRows /\ UNCHANGED <<page, size, switch>>
  BY DEF screen, SameRows
<1>5. PICK w : w = switch'
  OBVIOUS
<1>6. DOMAIN w = DOMAIN switch
      /\ \A id \in DOMAIN switch : w[id].value = status[id] /\ DOMAIN w[id] = {"value", "waits"}
  BY <1>3, <1>4, <1>5 DEF CalmInv, Mounted
<1> QED BY <1>1, <1>4, <1>5, <1>6, BerryDone

\* A load brings the page that becomes the active one.
LEMMA BerryLoadArrives ==
  ASSUME IInv, IInv', CalmInv, calm', table \in Berry, NEW r \in net, r.do = "load", r.then # "switch",
         LoadArrives(r)
  PROVE  CalmInv'
<1>1. Present(r) /\ OfBerry(r) /\ r \in RequestSet
  BY DEF CalmInv, Present, IInv, NetInv
<1>2. /\ SameServer /\ Done(r) /\ KeepSwitches /\ Answer(r) /\ ~Disturbs(r) /\ net' = net \ {r}
      /\ heap' = Append(heap, Objects(r)) /\ SpliceRows(r) /\ size' = size
      /\ page' = IF r.goto > 0 THEN r.goto ELSE page
  BY <1>1, BerrySize, AfterLoadSame DEF LoadArrives, AfterLoad, Done, Answer, OfBerry
<1>3. page' = r.start + 1 /\ r.size = size' /\ r.start \in Nat /\ size' \in Nat \ {0}
  BY <1>1, <1>2, BerrySize DEF OfBerry, RequestSet, IInv, PagerInv, Positive
<1>4. Unique' /\ Standing'
  BY <1>2, LoadedRows
<1>5. PICK new : /\ new = List'
                 /\ \A i \in DOMAIN new : i > r.start * r.size => Current(new[i])'
  BY <1>2, LoadedRows
<1>6. ASSUME NEW i \in Shown' PROVE Current(List[i])'
  <2>1. DOMAIN new \subseteq Nat
    BY <1>5, NewDomain
  <2>2. i \in DOMAIN new /\ i > r.start * size'
    BY <1>3, <1>5, <2>1, FilledPage
  <2>3. Current(new[i])'
    BY <1>3, <1>5, <2>2
  <2> QED BY <1>5, <2>3 DEF Current
<1>7. \A q \in net : ~(q.do \in Switches /\ Answer(q)) /\ q.then # "switch"
  <2>1. \A q \in net : q = r \/ Plain(q)
    BY DEF CalmInv, Alone
  <2> QED BY <2>1 DEF Plain, Switches
<1>8. Switched' /\ Mounted'
  BY <1>2, <1>6, <1>7, RemountCalm
<1>9. ASSUME NEW q \in net', Plain(q) PROVE Present(q)'
  <2>1. Present(q) /\ q.do = "load" /\ q.start = 0 /\ q.then = "none" /\ OfBerry(q) /\ Plain(r)
    BY <1>2, <1>9 DEF CalmInv, Present, Alone, Plain
  <2>2. r.start = 0 /\ page' = 1
    BY <1>3, <2>1 DEF Plain
  <2>3. OfBerry(q)'
    BY <2>1, <2>2 DEF OfBerry, Edits, Switches
  <2>4. Answer(q) => Truth(q)'
    <3>1. q.do \notin Writes
      BY <2>1 DEF Writes
    <3> QED BY <1>2, <2>1, <3>1 DEF Present, Truth, Exists, SameServer, server
  <2>5. q.do \notin Edits
    BY <2>1 DEF Edits
  <2> QED BY <2>1, <2>3, <2>4, <2>5 DEF Present
<1>10. \A q \in net' : Plain(q) => Present(q)'
  BY <1>9
<1> HIDE DEF CalmInv
<1> QED BY <1>2, <1>4, <1>8, <1>10, BerryRows

LEMMA BerryLoadEndsCalm ==
  ASSUME IInv, IInv', CalmInv, calm', table \in Berry, BerryLoadEnds
  PROVE  CalmInv'
<1>1. PICK r \in Answers({"load"}) : r.then # "switch" /\ (LoadRefused(r) \/ LoadArrives(r))
  BY NoFailure DEF BerryLoadEnds
<1>2. r \in net /\ r.do = "load" /\ r.ans.ok = "ok"
  BY <1>1, AllAnswered
<1>3. LoadArrives(r)
  BY <1>1, <1>2 DEF LoadRefused
<1> QED BY <1>1, <1>2, <1>3, BerryLoadArrives

LEMMA BerrySearchEndsCalm ==
  ASSUME IInv, IInv', CalmInv, table \in Berry, BerrySearchEnds
  PROVE  CalmInv'
<1>1. PICK r \in Answers({"search"}) : SearchArrives(r) \/ r.ans.ok = "refused"
  BY NoFailure DEF BerrySearchEnds
<1>2. r \in net /\ r.do = "search" /\ r.ans.ok = "ok" /\ Answer(r) /\ Present(r)
  BY <1>1, AllAnswered
<1>3. /\ SearchArrives(r) /\ Done(r) /\ SameServer /\ heap' = Append(heap, Objects(r))
      /\ NewArray(Refs(r), "found") /\ KeepSwitches
  BY <1>1, <1>2, CommonLeave DEF SearchArrives
<1>4. net = {r} /\ net' = {}
  BY <1>2, <1>3, SoleRequest DEF Plain, Done
<1>5. Unique' /\ Standing'
  BY <1>2, <1>3, SearchedRows
<1>6. PICK new : new = List' /\ \A i \in DOMAIN new : Current(new[i])'
  BY <1>2, <1>3, SearchedRows
<1>7. ASSUME NEW i \in Shown' PROVE Current(List[i])'
  <2>1. i \in DOMAIN new
    BY <1>6, <1>7 DEF Shown, Positions
  <2> QED BY <1>6, <2>1 DEF Current
<1>8. r.do \notin Switches /\ r.then # "switch"
  BY <1>2 DEF Present, Switches
<1>9. Switched' /\ Mounted'
  BY <1>3, <1>4, <1>7, <1>8, RemountCalm
<1> QED BY <1>2, <1>3, <1>4, <1>5, <1>9, BerryRows

\* A write, a deletion or a sweep is followed by a load of the active page.
LEMMA BerryThenLoad ==
  ASSUME IInv, CalmInv, calm', table \in Berry, NEW r \in net, r.do \in Edits \cup {"sweep"}, Answer(r),
         NEW then, ThenLoad(r, then), SameRows, UNCHANGED <<page, size, switch>>,
         then = IF r.do \in Switches THEN "switch" ELSE "none",
         r.do \in Switches => table = "berry/users"
  PROVE  CalmInv'
<1>1. /\ r \in RequestSet /\ Present(r) /\ OfBerry(r) /\ Truth(r) /\ r.do # "load"
      /\ r.cap = cur /\ r.then # "switch"
  BY DEF CalmInv, Present, IInv, NetInv, Edits
<1>2. SameServer /\ net = {r} /\ ~Disturbs(r)
  BY <1>1, HandlersLeave, SoleRequest DEF Plain, ThenLoad, Next2
<1>3. PICK q : /\ net' = (net \ {r}) \cup {q}
               /\ q.n = r.n /\ q.do = "load" /\ q.id = r.id /\ q.start = r.page - 1 /\ q.goto = 0
               /\ q.then = then /\ q.cap = r.cap /\ q.page = r.page /\ q.size = r.size
               /\ q.value = r.value /\ q.ans = None
  BY LoadFollows
<1>4. net' = {q}
  BY <1>2, <1>3
<1>5. ~Answer(q) /\ q.do \notin Edits /\ q.do \notin Switches /\ q.do # "delete" /\ q.do # "sweep"
  BY <1>3 DEF Answer, None, Edits, Switches
<1>6. r.page \in Nat \ {0} /\ r.page = page /\ r.size = PageSize
  BY <1>1 DEF OfBerry, RequestSet, Positive
<1>7. List' = List /\ (\A i : Id(i)' = Id(i)) /\ UNCHANGED <<page, switch, status>>
  BY <1>2, SameShown DEF SameServer, server
<1>8. q.start + 1 = page
  BY <1>3, <1>6
<1>9. r.do \in Switches => /\ r.id \in DOMAIN switch /\ r.n \in switch[r.id].waits
                           /\ r.value = status[r.id]
  BY <1>1 DEF OfBerry
<1>10. OfBerry(q)'
  <2>1. q.then = "switch" => q.id \in DOMAIN switch /\ q.n \in switch[q.id].waits
    BY <1>3, <1>9
  <2>2. q.size = PageSize /\ q.then # "clear" /\ q.goto = 0
    BY <1>3, <1>6
  <2>3. q.do = "load" => (IF q.goto > 0 THEN q.goto ELSE page) = q.start + 1
    BY <1>8, <2>2
  <2> QED BY <1>5, <1>7, <2>1, <2>2, <2>3 DEF OfBerry
<1>11. Present(q)'
  <2>1. q.then = "switch" => table = "berry/users" /\ q.value = status[q.id]
    BY <1>3, <1>9
  <2>2. table' = table /\ q.cap = cur'
    BY <1>1, <1>2, <1>3 DEF SameServer, SameRows
  <2> QED BY <1>3, <1>5, <1>7, <1>10, <2>1, <2>2 DEF Present
<1>12. Alone'
  BY <1>4 DEF Alone
<1>13. ASSUME NEW i \in DOMAIN List, Doubts(r, Id(i), i)
       PROVE  Stands(List[i]) \/ Doubts(q, Id(i), i)
  <2>1. CASE r.do \in Writes
    <3>1. r.id = Id(i) /\ Exists(r.id)
      BY <1>1, <1>13, <2>1 DEF Doubts, Truth, Writes
    <3> QED BY <3>1 DEF Stands, Right, Id, IdOf
  <2>2. CASE r.do = "delete"
    <3>1. r.id = Id(i)
      BY <1>13, <2>2 DEF Doubts
    <3>2. i > (r.page - 1) * r.size
      BY <1>1, <2>2, <3>1 DEF OfBerry
    <3> QED BY <1>3, <3>2 DEF Doubts
  <2>3. CASE r.do = "sweep"
    <3>1. ~(r.page > 1)
      BY <1>2, <2>3 DEF Disturbs, Answer
    <3>2. q.start = 0
      BY <1>3, <1>6, <3>1
    <3> QED BY <1>3, <3>2 DEF Doubts
  <2> QED BY <2>1, <2>2, <2>3 DEF Edits, Writes
<1>14. \A i \in DOMAIN List : \A p \in net :
          Doubts(p, Id(i), i) => Stands(List[i]) \/ \E u \in net' : Doubts(u, Id(i), i)
  BY <1>2, <1>4, <1>13
<1>15. Switched'
  <2>1. ASSUME NEW id \in DOMAIN switch PROVE switch[id].value = status[id] \/ Awaits(q, id)
    <3>1. switch[id].value = status[id] \/ Awaits(r, id)
      BY <1>2 DEF CalmInv, Switched
    <3>2. Awaits(r, id) => Awaits(q, id)
      BY <1>1, <1>3 DEF Awaits
    <3> QED BY <3>1, <3>2
  <2> QED BY <1>4, <1>7, <2>1 DEF Switched
<1>16. Mounted'
  <2>1. Shown' = Shown /\ table' = table
    BY <1>2, SameShown DEF SameServer
  <2>2. \A i \in Shown : Id(i) \in DOMAIN switch \/ table = "berry/logs"
    BY DEF CalmInv, Mounted
  <2>3. \A id \in DOMAIN switch : DOMAIN switch[id] = {"value", "waits"}
    BY DEF CalmInv, Mounted
  <2> QED BY <1>4, <1>7, <2>1, <2>2, <2>3 DEF Mounted
<1> QED BY <1>2, <1>4, <1>11, <1>12, <1>14, <1>15, <1>16, QuietScreen

LEMMA ThenRefreshCalm ==
  ASSUME IInv, CalmInv, calm', table \in Berry, NEW dos \in {{"delete"}, {"sweep"}}, ThenRefresh(dos)
  PROVE  CalmInv'
<1>1. PICK r \in Fine(dos) : ThenLoad(r, "none") /\ SameRows /\ UNCHANGED <<page, size, switch>>
  BY NoFailure DEF ThenRefresh, SameRows
<1>2. r \in net /\ r.do \in {"delete", "sweep"} /\ Answer(r)
  BY FineAnswered
<1>3. r.do \in Edits \cup {"sweep"} /\ r.do \notin Switches
  BY <1>2 DEF Edits, Switches
<1>4. PICK then : then = "none"
  OBVIOUS
<1> QED BY <1>1, <1>2, <1>3, <1>4, BerryThenLoad

LEMMA BerryManageUserCalm ==
  ASSUME IInv, CalmInv, calm', BerryManageUser
  PROVE  CalmInv'
<1>1. PICK r \in Fine({"delete", "enable", "disable", "touch"}) :
        /\ ThenLoad(r, IF r.do \in {"enable", "disable"} THEN "switch" ELSE "none")
        /\ SameRows /\ UNCHANGED <<page, size, switch>>
  BY NoFailure DEF BerryManageUser, SameRows
<1>2. r \in net /\ r.do \in {"delete", "enable", "disable", "touch"} /\ Answer(r)
  BY FineAnswered
<1>3. r.do \in Edits \cup {"sweep"}
  BY <1>2 DEF Edits
<1>4. PICK then : then = IF r.do \in Switches THEN "switch" ELSE "none"
  OBVIOUS
<1>5. ThenLoad(r, then)
  BY <1>1, <1>4 DEF Switches
<1>6. table = "berry/users" /\ table \in Berry
  BY BerryNames DEF BerryManageUser, BerryUsers, BerryTables
<1> QED BY <1>1, <1>2, <1>3, <1>4, <1>5, <1>6, BerryThenLoad

\* The load that a user's switch waits for
LEMMA BerryUserStatusCalm ==
  ASSUME IInv, IInv', CalmInv, calm', BerryUserStatus
  PROVE  CalmInv'
<1>0. table \in Berry
  BY BerryNames DEF BerryUserStatus, BerryUsers, BerryTables
<1>1. PICK r \in Answers({"load"}) :
        /\ r.then = "switch"
        /\ \/ heap' = Append(heap, Objects(r)) /\ SpliceRows(r)
           \/ r.ans.ok = "refused"
        /\ UNCHANGED <<page, size>>
        /\ switch' = Flipped(Remount, r)
        /\ Done(r)
  BY DEF BerryUserStatus
<1>2. /\ r \in net /\ r.do = "load" /\ Answer(r) /\ r.ans.ok = "ok" /\ Present(r) /\ OfBerry(r)
      /\ r \in RequestSet
  BY <1>0, AllAnswered DEF Present, IInv, NetInv
<1>3. /\ heap' = Append(heap, Objects(r)) /\ SpliceRows(r) /\ SameServer /\ ~Disturbs(r)
      /\ net = {r} /\ net' = {}
  BY <1>1, <1>2, Leaves, SoleRequest DEF Done, Plain
<1>4. /\ page' = r.start + 1 /\ r.size = size' /\ r.start \in Nat /\ size' \in Nat \ {0}
      /\ r.id \in DOMAIN switch /\ r.n \in switch[r.id].waits /\ r.value = status[r.id]
  BY <1>0, <1>1, <1>2, BerrySize DEF OfBerry, Present, RequestSet, IInv, PagerInv, Positive
<1>5. Unique' /\ Standing'
  BY <1>2, <1>3, LoadedRows
<1>6. PICK new : /\ new = List'
                 /\ \A i \in DOMAIN new : i > r.start * r.size => Current(new[i])'
  BY <1>2, <1>3, LoadedRows
<1>7. ASSUME NEW i \in Shown' PROVE Current(List[i])'
  <2>1. DOMAIN new \subseteq Nat
    BY <1>6, NewDomain
  <2>2. i \in DOMAIN new /\ i > r.start * size'
    BY <1>4, <1>6, <2>1, FilledPage
  <2>3. Current(new[i])'
    BY <1>4, <1>6, <2>2
  <2> QED BY <1>6, <2>3 DEF Current
<1>8. PICK w : w = Remount
  OBVIOUS
<1>9. /\ \A i \in Shown' : Id(i)' \in DOMAIN w
      /\ \A id \in DOMAIN w : /\ DOMAIN w[id] = {"value", "waits"}
                              /\ IF id \in DOMAIN switch THEN w[id] = switch[id]
                                 ELSE w[id].value = status[id] /\ w[id].waits = {}
  BY <1>0, <1>3, <1>7, <1>8, RemountValues
<1>10. \A id \in DOMAIN switch : id # r.id => switch[id].value = status[id]
  BY <1>0, <1>3 DEF CalmInv, Switched, Awaits
<1>11. PICK v : v = Flipped(w, r)
  OBVIOUS
<1>12. switch' = v /\ status' = status
  BY <1>1, <1>3, <1>8, <1>11 DEF SameServer, server
<1>13. DOMAIN v = DOMAIN w /\ \A id \in DOMAIN v : /\ v[id].value = status[id]
                                                   /\ DOMAIN v[id] = {"value", "waits"}
  <2>1. CASE r.id \in DOMAIN w
    <3>1. r.n \in w[r.id].waits
      BY <1>4, <1>9, <2>1
    <3>2. PICK x : x = [value |-> r.value, waits |-> w[r.id].waits \ {r.n}]
      OBVIOUS
    <3>3. x.value = status[r.id] /\ DOMAIN x = {"value", "waits"}
      BY <1>4, <3>2
    <3>4. v = [w EXCEPT ![r.id] = x]
      BY <1>11, <2>1, <3>1, <3>2 DEF Flipped
    <3>5. ASSUME NEW id \in DOMAIN w PROVE v[id].value = status[id] /\ DOMAIN v[id] = {"value", "waits"}
      BY <1>9, <1>10, <2>1, <3>3, <3>4, <3>5
    <3> QED BY <3>4, <3>5
  <2>2. CASE r.id \notin DOMAIN w
    <3>1. v = w
      BY <1>11, <2>2 DEF Flipped
    <3> QED BY <1>9, <1>10, <2>2, <3>1
  <2> QED BY <2>1, <2>2
<1>14. Switched' /\ Mounted'
  BY <1>9, <1>12, <1>13 DEF Switched, Mounted
<1> QED BY <1>0, <1>2, <1>3, <1>5, <1>14, BerryRows

\* Two loads of the first page
LEMMA BerryRefreshLogsCalm ==
  ASSUME IInv, CalmInv, calm', BerryRefreshLogs
  PROVE  CalmInv'
<1>0. table = "berry/logs" /\ table \in Berry
  BY BerryNames DEF BerryRefreshLogs, BerryLogs, BerryTables
<1>1. PICK p : p = Request([query |-> query], issued + 1)
  OBVIOUS
<1>2. PICK q : q = Request([query |-> ""], issued + 2)
  OBVIOUS
<1>3. /\ net = {} /\ net' = {p, q} /\ SameServer /\ SameRows /\ UNCHANGED <<size, switch>>
      /\ page' = 1
  BY <1>1, <1>2 DEF BerryRefreshLogs, SameServer, SameRows
<1>4. ASSUME NEW r \in {p, q} PROVE Plain(r)' /\ Present(r)'
  <2>1. PICK x, n : r = Request([query |-> x], n)
    BY <1>1, <1>2, <1>4
  <2> DEFINE f == [query |-> x]
  <2>2. DOMAIN f = {"query"} /\ r = Request(f, n)
    BY <2>1
  <2> HIDE DEF f
  <2>3. /\ r.do = "load" /\ r.start = 0 /\ r.then = "none" /\ r.goto = 0 /\ r.size = size
        /\ r.ans = None
    BY <2>2, RequestFields, MoreFields
  <2>4. table' = table /\ size = PageSize
    BY <1>0, <1>3, BerrySize DEF SameServer
  <2>5. ~Answer(r) /\ r.do \notin Edits /\ r.do \notin Switches
    BY <2>3 DEF Answer, None, Edits, Switches
  <2>6. OfBerry(r)'
    BY <1>3, <2>3, <2>4, <2>5 DEF OfBerry
  <2> QED BY <1>0, <2>3, <2>4, <2>5, <2>6 DEF Plain, Present
<1>5. Alone'
  BY <1>3, <1>4 DEF Alone
<1>6. Switched' /\ Mounted'
  <2>1. status' = status /\ table' = table
    BY <1>3 DEF SameServer, server
  <2>2. \A id \in DOMAIN switch : /\ switch[id].value = status[id]
                                  /\ DOMAIN switch[id] = {"value", "waits"}
    BY <1>0, <1>3 DEF CalmInv, Switched, Mounted
  <2> QED BY <1>0, <1>3, <2>1, <2>2 DEF Switched, Mounted
<1>7. \A u \in net' : Present(u)'
  BY <1>3, <1>4
<1> QED BY <1>3, <1>5, <1>6, <1>7, QuietScreen

(***************************************************************************)
(* The pages of berry                                                      *)
(***************************************************************************)
LEMMA BerryAskLoadCalm ==
  ASSUME IInv, CalmInv, calm', table \in Berry
  PROVE  /\ BerryAskLoad([goto |-> 1]) => CalmInv'
         /\ BerryAskLoad([start |-> page - 1]) => CalmInv'
         /\ BerrySearch => CalmInv'
         /\ AskOnly([do |-> "sweep"]) => CalmInv'
<1>1. ASSUME NEW f, Ask(f), SameRows, UNCHANGED <<page, size, switch>>,
             f \in {[do |-> "search"], [do |-> "sweep"], [goto |-> 1], [start |-> page - 1]}
      PROVE  CalmInv'
  <2>1. page \in Nat \ {0}
    BY DEF IInv, PagerInv, Positive
  <2>2. "cap" \notin DOMAIN f /\ "then" \notin DOMAIN f /\ "size" \notin DOMAIN f /\ "page" \notin DOMAIN f
    BY <1>1
  <2>3. \/ "do" \in DOMAIN f /\ f.do \in {"search", "sweep"}
        \/ "do" \notin DOMAIN f /\ "goto" \in DOMAIN f /\ f.goto = 1 /\ "start" \notin DOMAIN f
        \/ "do" \notin DOMAIN f /\ "goto" \notin DOMAIN f /\ "start" \in DOMAIN f /\ f.start = page - 1
    BY <1>1
  <2>4. \/ "do" \in DOMAIN f /\ f.do \in {"search", "sweep"}
        \/ /\ "do" \notin DOMAIN f
           /\ (IF "goto" \in DOMAIN f /\ f.goto > 0 THEN f.goto ELSE page)
                = (IF "start" \in DOMAIN f THEN f.start ELSE 0) + 1
    BY <2>1, <2>3
  <2> QED BY <1>1, <2>2, <2>4, BerryListAsk
<1>2. ASSUME NEW f, BerryAskLoad(f) PROVE Ask(f) /\ SameRows /\ UNCHANGED <<page, size, switch>>
  BY <1>2 DEF BerryAskLoad, SameRows
<1>3. ASSUME NEW f, AskOnly(f) PROVE Ask(f) /\ SameRows /\ UNCHANGED <<page, size, switch>>
  BY <1>3 DEF AskOnly, screen, SameRows
<1>4. BerryAskLoad([goto |-> 1]) => CalmInv'
  BY <1>1, <1>2
<1>5. BerryAskLoad([start |-> page - 1]) => CalmInv'
  BY <1>1, <1>2
<1>6. BerrySearch => CalmInv'
  BY <1>1, <1>2 DEF BerrySearch
<1>7. AskOnly([do |-> "sweep"]) => CalmInv'
  BY <1>1, <1>3
<1> QED BY <1>4, <1>5, <1>6, <1>7

LEMMA BerryChannelPageCalm ==
  ASSUME IInv, IInv', CalmInv, calm', BerryChannelPage
  PROVE  CalmInv'
<1>0. table \in Berry /\ table # "berry/logs"
  BY OpenBerry DEF BerryStep
<1>1. CASE BerryLoadChannels
  BY <1>0, <1>1, BerryLoadEndsCalm DEF BerryLoadChannels
<1>2. CASE BerrySearchChannels
  BY <1>0, <1>2, BerryAskLoadCalm, BerrySearchEndsCalm DEF BerrySearchChannels
<1>3. CASE BerryManageChannel
  <2>1. ThenRefresh({"delete"}) => CalmInv'
    BY <1>0, ThenRefreshCalm
  <2>2. FlipEnds => CalmInv'
    BY <1>0, FlipEndsCalm
  <2>3. \A r \in Fine({"touch"}) : UNCHANGED screen /\ Done(r) => CalmInv'
    BY <1>0, TouchedCalm
  <2>4. ~Fails({"touch"})
    BY NoFailure
  <2> QED BY <1>3, <2>1, <2>2, <2>3, <2>4 DEF BerryManageChannel
<1>4. CASE BerrySweep
  BY <1>0, <1>4, ThenRefreshCalm DEF BerrySweep
<1>5. CASE BerryChannelBar
  BY <1>0, <1>5, BerryAskLoadCalm, BerryTurnCalm DEF BerryChannelBar
<1>6. CASE BerryChannelRow
  BY <1>0, <1>6, FlipCalm, BerryRowAsk DEF BerryChannelRow
<1> QED BY <1>1, <1>2, <1>3, <1>4, <1>5, <1>6 DEF BerryChannelPage

LEMMA BerryTokenPageCalm ==
  ASSUME IInv, IInv', CalmInv, calm', BerryTokenPage
  PROVE  CalmInv'
<1>0. table \in Berry /\ table # "berry/logs"
  BY OpenBerry DEF BerryStep
<1>1. CASE BerryLoadTokens
  BY <1>0, <1>1, BerryLoadEndsCalm DEF BerryLoadTokens
<1>2. CASE BerrySearchTokens
  BY <1>0, <1>2, BerryAskLoadCalm, BerrySearchEndsCalm DEF BerrySearchTokens
<1>3. CASE BerryManageToken
  BY <1>0, <1>3, ThenRefreshCalm, FlipEndsCalm DEF BerryManageToken
<1>4. CASE BerryTokenBar
  BY <1>0, <1>4, BerryAskLoadCalm, BerryTurnCalm DEF BerryTokenBar
<1>5. CASE BerryTokenRow
  BY <1>0, <1>5, FlipCalm, BerryRowAsk DEF BerryTokenRow
<1> QED BY <1>1, <1>2, <1>3, <1>4, <1>5 DEF BerryTokenPage

LEMMA BerryUserPageCalm ==
  ASSUME IInv, IInv', CalmInv, calm', BerryUserPage
  PROVE  CalmInv'
<1>0. table \in Berry
  BY OpenBerry DEF BerryStep
<1>1. CASE BerryLoadUsers
  BY <1>0, <1>1, BerryLoadEndsCalm DEF BerryLoadUsers
<1>2. CASE BerrySearchUsers
  BY <1>0, <1>2, BerryAskLoadCalm, BerrySearchEndsCalm DEF BerrySearchUsers
<1>3. CASE BerryManageUser
  BY <1>3, BerryManageUserCalm
<1>4. CASE BerryUserStatus
  BY <1>4, BerryUserStatusCalm
<1>5. CASE BerryUserBar
  BY <1>0, <1>5, BerryAskLoadCalm, BerryTurnCalm DEF BerryUserBar
<1>6. CASE BerryUserRow
  BY <1>0, <1>6, FlipCalm, BerryRowAsk DEF BerryUserRow
<1> QED BY <1>1, <1>2, <1>3, <1>4, <1>5, <1>6 DEF BerryUserPage

LEMMA BerryLogPageCalm ==
  ASSUME IInv, IInv', CalmInv, calm', BerryLogPage
  PROVE  CalmInv'
<1>0. table \in Berry
  BY OpenBerry DEF BerryStep
<1>1. CASE BerryLoadLogs
  BY <1>0, <1>1, BerryLoadEndsCalm DEF BerryLoadLogs
<1>2. CASE BerrySearchLogs
  BY <1>0, <1>2, BerryAskLoadCalm DEF BerrySearchLogs, TypeFilter
<1>3. CASE BerryRefreshLogs
  BY <1>3, BerryRefreshLogsCalm
<1>4. CASE BerryLogBar
  BY <1>0, <1>4, BerryTurnCalm DEF BerryLogBar
<1> QED BY <1>1, <1>2, <1>3, <1>4 DEF BerryLogPage

(***************************************************************************)
(* The calm invariant holds at the start and is kept                       *)
(***************************************************************************)
LEMMA CalmStep ==
  ASSUME IInv, IInv', CInv, [Next]_vars
  PROVE  CInv'
<1>1. Distinct(rows)'
  BY DistinctStep DEF CInv
<1>2. CASE UNCHANGED vars
  BY <1>2 DEF vars, server, screen, wire, history, CInv, CalmInv, Alone, Plain, Present, Truth, OfBerry,
     Unique, Standing, Stands, Hidden, Right, Current, Exists, Switched, Mounted, Shown, Positions,
     Id, List, Distinct, Doubts
<1>3. CASE Refuse \/ Others
  <2>1. ~calm'
    BY <1>3 DEF Refuse, Others
  <2> QED BY <1>1, <2>1 DEF CInv
<1>4. CASE Serve
  <2>1. calm' = calm
    BY <1>4 DEF Serve
  <2> QED BY <1>1, <1>4, <2>1, ServeCalm DEF CInv
<1>5. CASE DefaultStep \/ AirStep \/ BerryStep
  <2> SUFFICES ASSUME calm' PROVE CalmInv'
    BY <1>1 DEF CInv
  <2>1. CalmInv
    BY <1>5, DefaultLeaves, AirLeaves, BerryLeaves DEF Calmer, CInv
  <2>2. CASE DefaultStep
    BY <2>1, <2>2, ChannelsTableCalm, TokensTableCalm, UsersTableCalm, LogsTableCalm DEF DefaultStep
  <2>3. CASE AirStep
    BY <2>1, <2>3, AirChannelsTableCalm, AirTokensTableCalm, AirUsersTableCalm, AirLogsTableCalm
       DEF AirStep
  <2>4. CASE BerryStep
    BY <2>1, <2>4, BerryChannelPageCalm, BerryTokenPageCalm, BerryUserPageCalm, BerryLogPageCalm
       DEF BerryStep
  <2> QED BY <1>5, <2>2, <2>3, <2>4
<1> QED BY <1>2, <1>3, <1>4, <1>5 DEF Next

LEMMA InitCalm == Init => CInv
<1> SUFFICES ASSUME Init PROVE CInv
  OBVIOUS
<1>1. rows = FirstRows /\ List = <<>> /\ page = 1 /\ switch = <<>> /\ heap = <<>>
      /\ (table \notin Air => size = PageSize)
  <2>1. rows = FirstRows /\ arrays = <<[rows |-> <<>>, src |-> "paged"]>> /\ cur = 1
        /\ page = 1 /\ switch = <<>> /\ heap = <<>>
    BY DEF Init
  <2>2. table \notin Air => size = PageSize
    BY DEF Init, Air
  <2> QED BY <2>1, <2>2 DEF List
<1>2. Distinct(rows)
  BY <1>1, TableAssumption DEF Distinct
<1>3. PICK k : k = issued
  OBVIOUS
<1>4. \A r \in net : \E n \in 1 .. k : r = Request([closure |-> PageSize], n)
  BY <1>3 DEF Init
<1>5. k = (IF table = "berry/logs" THEN 2 ELSE 1) /\ (table # "berry/logs" => \A r, q \in net : r = q)
  <2>1. k = IF table = "berry/logs" THEN 2 ELSE 1
    BY <1>3 DEF Init
  <2>2. table # "berry/logs" => \A n \in 1 .. k : n = 1
    BY <2>1
  <2> QED BY <1>4, <2>1, <2>2
<1>6. \A r \in net : /\ r.do = "load" /\ r.start = 0 /\ r.then = "none" /\ r.goto = 0 /\ r.size = size
                     /\ r.ans = None
  <2> TAKE r \in net
  <2>1. PICK n : r = Request([closure |-> PageSize], n)
    BY <1>4
  <2> DEFINE f == [closure |-> PageSize]
  <2>2. DOMAIN f = {"closure"} /\ r = Request(f, n)
    BY <2>1
  <2> HIDE DEF f
  <2> QED BY <2>2, RequestFields, MoreFields
<1>7. Alone
  BY <1>5, <1>6 DEF Alone, Plain
<1>8. \A r \in net : Present(r)
  <2> TAKE r \in net
  <2>1. ~Answer(r) /\ r.do \notin Edits /\ r.do \notin Switches
    BY <1>6 DEF Answer, None, Edits, Switches
  <2>2. table \in Berry => OfBerry(r)
    <3>1. table \in Berry => size = PageSize
      BY <1>1 DEF Air, Berry
    <3> QED BY <1>1, <1>6, <2>1, <3>1 DEF OfBerry
  <2> QED BY <1>6, <2>1, <2>2 DEF Present
<1>9. Unique /\ Standing /\ Switched /\ Mounted
  BY <1>1 DEF Unique, Standing, Switched, Mounted, Shown, Positions
<1> QED BY <1>2, <1>7, <1>8, <1>9 DEF CInv, CalmInv

\* For a user who waits for each answer, any number of requests, arrays and
\* pages on each of the twelve tables.
THEOREM ShowsWhatIs == Spec => []CalmScreen
<1>1. Init => IInv /\ CInv
  BY InitInv, InitCalm
<1>2. IInv /\ CInv /\ [Next]_vars => IInv' /\ CInv'
  BY NextStep, CalmStep
<1>3. IInv /\ CInv => CalmScreen
  <2> SUFFICES ASSUME IInv, CInv, calm, net = {}, NEW i \in Shown
               PROVE  Exists(IdOf(List[i])) /\ StatusShown(List[i]) = status[IdOf(List[i])]
    BY DEF CalmScreen, Calm
  <2>1. CalmInv
    BY DEF CInv
  <2>2. Exists(IdOf(List[i])) /\ (table \notin Berry => StatusShown(List[i]) = status[IdOf(List[i])])
    BY <2>1, ShownAlone
  <2>3. CASE table \in Berry
    <3>1. Id(i) \in DOMAIN switch /\ switch[Id(i)].value = status[Id(i)]
      BY <2>1, <2>3 DEF CalmInv, Switched, Mounted
    <3> QED BY <2>2, <2>3, <3>1 DEF StatusShown, Id
  <2> QED BY <2>2, <2>3
<1> QED BY <1>1, <1>2, <1>3, PTL DEF Spec
(***************************************************************************)
(* Where rows stand: a row's tag is the load that brought it and the place *)
(* of its record in the server's list                                      *)
(***************************************************************************)
\* rows up to i, all of the present epoch and of one order
Alike(t, e, i) == \A j \in 1 .. i : t[j].epoch = e /\ t[j].query = t[i].query
\* the array begins with the first page
Headed(t) == 1 \in DOMAIN t /\ t[1].start = 0
\* A row comes after the other rows of its page, from the first one on.
InRun(t, e, i) ==
  LET first == t[i].start * PageSize + 1
      h == i - t[i].place + first
  IN  /\ t[i].place \in Nat /\ t[i].of \in Nat
      /\ first <= t[i].place /\ t[i].place < first + PageSize /\ t[i].place <= t[i].of
      /\ h \in DOMAIN t
      /\ t[h].epoch = e /\ t[h].query = t[i].query /\ t[h].place = first
\* A row in its place is the last of its page, or of the list, or the next one
\* follows it.
GoesOn(t, i) ==
  (i < t[i].of /\ i # (t[i].start + 1) * PageSize) => i + 1 \in DOMAIN t /\ t[i + 1].place = i + 1
Placed(t, e) ==
  /\ \A i \in DOMAIN t : t[i].start \in Nat /\ t[i].epoch \in Nat /\ t[i].epoch <= e
  /\ \A i \in DOMAIN t : t[i].start = 0 => \A j \in 1 .. i : t[j].start = 0
  /\ \A i \in DOMAIN t : t[i].epoch = e => InRun(t, e, i)
  /\ Headed(t) => \A i \in DOMAIN t : Alike(t, e, i) /\ t[i].place = i => GoesOn(t, i)
\* default and berry put no page behind its place, air puts each page in it
NotBehind(t, e) == \A i \in DOMAIN t : Alike(t, e, i) => i <= t[i].place
InOrder(t, e) == Headed(t) => \A i \in DOMAIN t : Alike(t, e, i) => t[i].place = i
\* no page is left out
Closed(t) == \A i \in DOMAIN t : t[i].start > 0 => \E j \in DOMAIN t : t[j].start = t[i].start - 1

\* Products with the size of a page
LEMMA Pagewise ==
  ASSUME NEW a \in Nat, NEW b \in Nat, NEW k \in Nat \ {0}
  PROVE  /\ a * k \in Nat /\ (a + 1) * k = a * k + k
         /\ a < b => (a + 1) * k <= b * k
         /\ a <= b => a * k <= b * k
<1>1. a * k \in Nat /\ b * k \in Nat /\ (a + 1) * k = a * k + k
  OBVIOUS
<1>2. ASSUME a <= b PROVE a * k <= b * k
  <2>1. PICK d \in Nat : b = a + d
    <3>1. b - a \in Nat /\ b = a + (b - a)
      BY <1>2
    <3> QED BY <3>1
  <2>2. b * k = a * k + d * k /\ d * k \in Nat
    BY <2>1
  <2> QED BY <1>1, <2>2
<1>3. ASSUME a < b PROVE (a + 1) * k <= b * k
  <2>1. PICK d \in Nat : b = (a + 1) + d
    <3>1. b - (a + 1) \in Nat /\ b = (a + 1) + (b - (a + 1))
      BY <1>3
    <3> QED BY <3>1
  <2>2. b * k = (a + 1) * k + d * k /\ d * k \in Nat /\ (a + 1) * k \in Nat
    BY <2>1
  <2> QED BY <2>2
<1> QED BY <1>1, <1>2, <1>3

LEMMA LowerPages ==
  ASSUME NEW t, NEW e, Placed(t, e), Closed(t), NEW i \in DOMAIN t, NEW a \in Nat, a <= t[i].start
  PROVE  \E j \in DOMAIN t : t[j].start = a
<1> DEFINE above == {k \in Nat : k >= a /\ \E j \in DOMAIN t : t[j].start = k}
           R == OpToRel(<, Nat)
<1>1. \A j \in DOMAIN t : t[j].start \in Nat
  BY DEF Placed
<1>2. PICK k \in above : \A m \in above : ~(<<m, k>> \in R)
  <2>1. t[i].start \in above
    BY <1>1
  <2>2. above \subseteq Nat /\ above # {} /\ IsWellFoundedOn(R, Nat)
    BY <2>1, NatLessThanWellFounded
  <2> HIDE DEF above, R
  <2> QED BY <2>2, WFMin
<1>3. PICK j \in DOMAIN t : t[j].start = k
  OBVIOUS
<1>4. k \in Nat /\ k >= a
  OBVIOUS
<1>5. CASE k = a
  BY <1>3, <1>5
<1>6. CASE k > a
  <2>1. k - 1 \in Nat /\ k - 1 >= a /\ k - 1 < k /\ k > 0
    BY <1>4, <1>6
  <2>2. PICK h \in DOMAIN t : t[h].start = k - 1
    BY <1>3, <2>1 DEF Closed
  <2>3. k - 1 \in above
    BY <2>1, <2>2
  <2>4. <<k - 1, k>> \in R
    BY <1>4, <2>1 DEF OpToRel
  <2> QED BY <1>2, <2>3, <2>4
<1> QED BY <1>4, <1>5, <1>6

LEMMA ClosedHeaded ==
  ASSUME NEW t, NEW n \in Nat, DOMAIN t = 1 .. n, NEW e, Placed(t, e), Closed(t), n > 0
  PROVE  Headed(t)
<1>1. 1 \in DOMAIN t
  OBVIOUS
<1>2. 0 <= t[1].start
  BY <1>1 DEF Placed
<1>3. PICK j \in DOMAIN t : t[j].start = 0
  BY <1>1, <1>2, LowerPages
<1>4. 1 \in 1 .. j
  OBVIOUS
<1> QED BY <1>1, <1>3, <1>4 DEF Placed, Headed

\* Pages none of which was put behind its place, none left out, are in order:
\* the first row that is not in its place would leave its place to nobody.
LEMMA NobodyBehind ==
  ASSUME NEW t, NEW n \in Nat, DOMAIN t = 1 .. n, NEW e, Placed(t, e), NotBehind(t, e), Closed(t),
         \A i, j \in 1 .. n : t[i].epoch = e /\ t[j].query = t[i].query /\ t[j].of = t[i].of
  PROVE  \A i \in 1 .. n : t[i].place = i
<1> DEFINE wrong == {i \in 1 .. n : t[i].place # i}
           R == OpToRel(<, Nat)
<1>0. \A i \in 1 .. n : Alike(t, e, i) /\ InRun(t, e, i) /\ i <= t[i].place
  <2>1. \A i \in 1 .. n : \A j \in 1 .. i : j \in 1 .. n
    OBVIOUS
  <2>2. \A i \in 1 .. n : Alike(t, e, i)
    BY <2>1 DEF Alike
  <2> QED BY <2>2 DEF Placed, NotBehind
<1> SUFFICES ASSUME wrong # {} PROVE FALSE
  OBVIOUS
<1>1. PICK i \in wrong : \A m \in wrong : ~(<<m, i>> \in R)
  <2>1. wrong \subseteq Nat
    OBVIOUS
  <2>2. IsWellFoundedOn(R, Nat)
    BY NatLessThanWellFounded
  <2> HIDE DEF wrong, R
  <2> QED BY <2>1, <2>2, WFMin
<1>2. \A j \in 1 .. n : j < i => t[j].place = j
  <2> SUFFICES ASSUME NEW j \in 1 .. n, j < i, j \in wrong PROVE FALSE
    OBVIOUS
  <2>1. <<j, i>> \in R
    BY DEF OpToRel
  <2> QED BY <1>1, <2>1
<1>3. i \in Nat /\ i \in 1 .. n /\ i >= 1 /\ t[i].place \in Nat /\ t[i].place > i
  BY <1>0 DEF InRun
<1>4. \A j \in 1 .. n : t[j].place # i
  <2> SUFFICES ASSUME NEW j \in 1 .. n, t[j].place = i PROVE FALSE
    OBVIOUS
  <2>1. j <= i /\ j \in Nat
    BY <1>0
  <2>2. j < i \/ j = i
    BY <1>3, <2>1
  <2> QED BY <1>2, <1>3, <2>2
<1>5. PageSize \in Nat \ {0}
  BY TableAssumption
<1>6. PICK h \in Nat : h * PageSize < i /\ i <= (h + 1) * PageSize
  <2>1. (i - 1) \div PageSize \in Nat
    BY <1>3, <1>5
  <2>2. PICK h \in Nat : h = (i - 1) \div PageSize
    BY <2>1
  <2>3. h * PageSize <= i - 1 /\ i - 1 < h * PageSize + PageSize
    BY <1>3, <1>5, <2>2
  <2>4. h * PageSize \in Nat /\ (h + 1) * PageSize = h * PageSize + PageSize
    BY <1>5, Pagewise
  <2>5. h * PageSize < i /\ i <= (h + 1) * PageSize
    BY <1>3, <1>5, <2>3, <2>4
  <2> QED BY <2>5
<1>7. CASE i = h * PageSize + 1
  <2>1. h <= t[i].start
    <3>1. /\ t[i].start \in Nat /\ t[i].place < t[i].start * PageSize + 1 + PageSize
      BY <1>0, <1>3 DEF Placed, InRun
    <3>2. PICK st \in Nat : st = t[i].start
      BY <3>1
    <3>3. PICK b \in Nat, c \in Nat : b = st * PageSize /\ c = h * PageSize
      BY <1>5, Pagewise
    <3>4. st < h => b + PageSize <= c
      BY <1>5, <3>3, Pagewise
    <3>5. t[i].place < b + 1 + PageSize
      BY <3>1, <3>2, <3>3
    <3>6. i = c + 1 /\ t[i].place > i /\ t[i].place \in Nat
      BY <1>3, <1>7, <3>3
    <3>7. ~(st < h)
      BY <1>5, <3>4, <3>5, <3>6
    <3> QED BY <3>2, <3>7
  <2>2. PICK j \in DOMAIN t : t[j].start = h
    BY <1>3, <2>1, LowerPages
  <2>3. InRun(t, e, j)
    BY <1>0, <2>2
  <2>4. \E g \in DOMAIN t : t[g].place = h * PageSize + 1
    BY <2>2, <2>3 DEF InRun
  <2> QED BY <1>4, <1>7, <2>4
<1>8. CASE i # h * PageSize + 1
  <2>1. h * PageSize \in Nat /\ (h + 1) * PageSize = h * PageSize + PageSize
    BY <1>5, Pagewise
  <2>2. PICK j \in Nat : j = i - 1
    BY <1>3
  <2>3. j \in 1 .. n /\ j < i /\ h * PageSize < j /\ j < h * PageSize + PageSize /\ j + 1 = i
    BY <1>3, <1>5, <1>6, <1>8, <2>1, <2>2
  <2>4. t[j].place = j /\ Alike(t, e, j) /\ InRun(t, e, j) /\ t[j].start \in Nat
    BY <1>0, <1>2, <2>3 DEF Placed
  <2>5. t[j].start * PageSize < j /\ j < t[j].start * PageSize + 1 + PageSize
    <3>1. t[j].start * PageSize \in Nat
      BY <1>5, <2>4, Pagewise
    <3> QED BY <1>5, <2>3, <2>4, <3>1 DEF InRun
  <2>6. j # (t[j].start + 1) * PageSize
    <3>1. t[j].start \in Nat /\ t[j].start * PageSize \in Nat
          /\ (t[j].start + 1) * PageSize = t[j].start * PageSize + PageSize
          /\ (h < t[j].start => (h + 1) * PageSize <= t[j].start * PageSize)
          /\ (t[j].start < h => (t[j].start + 1) * PageSize <= h * PageSize)
      BY <1>5, <2>4, Pagewise
    <3>2. CASE t[j].start = h
      BY <1>5, <2>1, <2>3, <3>2
    <3>3. CASE t[j].start < h
      BY <1>5, <2>1, <2>3, <2>5, <3>1, <3>3
    <3>4. CASE h < t[j].start
      BY <1>5, <2>1, <2>3, <2>5, <3>1, <3>4
    <3> QED BY <3>1, <3>2, <3>3, <3>4
  <2>7. j < t[j].of
    <3>1. t[i].of \in Nat /\ t[i].place <= t[i].of
      BY <1>0, <1>3 DEF InRun
    <3>2. t[j].of = t[i].of
      BY <1>3, <2>3
    <3> QED BY <1>3, <2>3, <3>1, <3>2
  <2>8. GoesOn(t, j)
    <3>1. Headed(t)
      BY <1>3, ClosedHeaded
    <3> QED BY <2>3, <2>4, <3>1 DEF Placed
  <2>9. t[i].place = i
    BY <2>3, <2>6, <2>7, <2>8 DEF GoesOn
  <2> QED BY <1>3, <2>9
<1> QED BY <1>7, <1>8

(***************************************************************************)
(* A page of f rows is put behind the first m rows                         *)
(***************************************************************************)
Full(f, s, of) ==
  f <= PageSize /\ (f > 0 => s * PageSize + f <= of) /\ (f < PageSize => of <= s * PageSize + f)
PageAdded(t, n, u, m, f, s, q, e, of) ==
  /\ n \in Nat /\ m \in Nat /\ f \in Nat /\ s \in Nat /\ e \in Nat /\ of \in Nat /\ m <= n
  /\ DOMAIN t = 1 .. n /\ DOMAIN u = 1 .. (m + f)
  /\ \A i \in 1 .. m : u[i] = t[i]
  /\ \A j \in 1 .. f : /\ u[m + j].start = s /\ u[m + j].epoch = e /\ u[m + j].query = q
                       /\ u[m + j].place = s * PageSize + j /\ u[m + j].of = of
  /\ Full(f, s, of)
  /\ s = 0 => m = 0

\* The rows are those that stay and those that come.
LEMMA AddedRow ==
  ASSUME NEW t, NEW n, NEW u, NEW m, NEW f, NEW s, NEW q, NEW e, NEW of,
         PageAdded(t, n, u, m, f, s, q, e, of), NEW i \in DOMAIN u
  PROVE  /\ i \in Nat /\ i >= 1
         /\ i <= m => i \in DOMAIN t /\ i \in 1 .. m /\ u[i] = t[i]
         /\ ~(i <= m) => \E j \in 1 .. f : /\ i = m + j /\ j \in Nat /\ u[i].start = s /\ u[i].epoch = e
                                          /\ u[i].query = q /\ u[i].place = s * PageSize + j
                                          /\ u[i].of = of
<1>1. n \in Nat /\ m \in Nat /\ f \in Nat /\ m <= n /\ DOMAIN t = 1 .. n /\ DOMAIN u = 1 .. (m + f)
      /\ \A k \in 1 .. m : u[k] = t[k]
  BY DEF PageAdded
<1>2. i \in Nat /\ i >= 1 /\ i <= m + f
  BY <1>1
<1>3. CASE i <= m
  <2>1. i \in 1 .. m /\ i \in 1 .. n
    BY <1>1, <1>2, <1>3
  <2> QED BY <1>1, <1>2, <1>3, <2>1
<1>4. CASE ~(i <= m)
  <2>1. i - m \in 1 .. f /\ i - m \in Nat /\ i = m + (i - m)
    BY <1>1, <1>2, <1>4
  <2>2. PICK j \in 1 .. f : j \in Nat /\ i = m + j
    BY <2>1
  <2> QED BY <1>2, <1>4, <2>2 DEF PageAdded
<1> QED BY <1>3, <1>4

LEMMA AddedAlike ==
  ASSUME NEW t, NEW n, NEW u, NEW m, NEW f, NEW s, NEW q, NEW e, NEW of,
         PageAdded(t, n, u, m, f, s, q, e, of), NEW i \in DOMAIN u, Alike(u, e, i)
  PROVE  /\ i <= m => Alike(t, e, i)
         /\ (~(i <= m) /\ m > 0) => Alike(t, e, m) /\ t[m].query = q
<1>1. m \in Nat /\ i \in Nat /\ (\A k \in 1 .. m : u[k] = t[k])
  BY AddedRow DEF PageAdded
<1>2. CASE i <= m
  <2>1. i \in 1 .. m /\ \A k \in 1 .. i : k \in 1 .. m
    BY <1>1, <1>2, AddedRow
  <2> QED BY <1>1, <1>2, <2>1 DEF Alike
<1>3. CASE ~(i <= m) /\ m > 0
  <2>1. m \in 1 .. m /\ (\A k \in 1 .. m : k \in 1 .. i)
    BY <1>1, <1>3
  <2>2. u[i].query = q
    BY <1>3, AddedRow
  <2> QED BY <1>1, <1>3, <2>1, <2>2 DEF Alike
<1> QED BY <1>2, <1>3

LEMMA AddedHeaded ==
  ASSUME NEW t, NEW n, NEW u, NEW m, NEW f, NEW s, NEW q, NEW e, NEW of,
         PageAdded(t, n, u, m, f, s, q, e, of), Headed(u)
  PROVE  (m > 0 /\ Headed(t)) \/ (m = 0 /\ s = 0)
<1>1. m \in Nat /\ 1 \in DOMAIN u /\ u[1].start = 0
  BY DEF PageAdded, Headed
<1>2. CASE m > 0
  <2>1. 1 <= m
    BY <1>1, <1>2
  <2> QED BY <1>1, <1>2, <2>1, AddedRow DEF Headed
<1>3. CASE m = 0
  <2>1. ~(1 <= m)
    BY <1>3
  <2> QED BY <1>1, <1>3, <2>1, AddedRow
<1> QED BY <1>1, <1>2, <1>3

LEMMA AddedPlaced ==
  ASSUME NEW t, NEW n, NEW u, NEW m, NEW f, NEW s, NEW q, NEW e, NEW of,
         PageAdded(t, n, u, m, f, s, q, e, of), Placed(t, e),
         (m < n /\ m > 0 /\ Headed(t) /\ Alike(t, e, m)) => m = s * PageSize
  PROVE  Placed(u, e)
<1>0. PageSize \in Nat \ {0}
  BY TableAssumption
<1>1. /\ n \in Nat /\ m \in Nat /\ f \in Nat /\ s \in Nat /\ e \in Nat /\ of \in Nat /\ m <= n
      /\ DOMAIN t = 1 .. n /\ DOMAIN u = 1 .. (m + f)
      /\ (s = 0 => m = 0)
  BY DEF PageAdded
<1>2. PICK b \in Nat : b = s * PageSize
  BY <1>0, <1>1, Pagewise
<1>3. \A i \in DOMAIN u : u[i].start \in Nat /\ u[i].epoch \in Nat /\ u[i].epoch <= e
  <2> TAKE i \in DOMAIN u
  <2>1. CASE i <= m
    BY <2>1, AddedRow DEF Placed
  <2>2. CASE ~(i <= m)
    <3>1. u[i].start = s /\ u[i].epoch = e
      BY <2>2, AddedRow
    <3> QED BY <1>1, <3>1
  <2> QED BY <2>1, <2>2
<1>4. \A i \in DOMAIN u : u[i].start = 0 => \A j \in 1 .. i : u[j].start = 0
  <2> SUFFICES ASSUME NEW i \in DOMAIN u, u[i].start = 0, NEW j \in 1 .. i PROVE u[j].start = 0
    OBVIOUS
  <2>0. j \in DOMAIN u /\ j \in Nat /\ i \in Nat /\ j <= i
    BY <1>1, AddedRow
  <2>1. CASE i <= m
    <3>1. t[i].start = 0 /\ i \in DOMAIN t
      BY <2>1, AddedRow
    <3>2. t[j].start = 0
      BY <3>1 DEF Placed
    <3>3. j <= m
      BY <1>1, <2>0, <2>1
    <3> QED BY <2>0, <3>2, <3>3, AddedRow
  <2>2. CASE ~(i <= m)
    <3>1. s = 0 /\ m = 0
      BY <1>1, <2>2, AddedRow
    <3>2. ~(j <= m)
      BY <2>0, <3>1
    <3> QED BY <2>0, <3>1, <3>2, AddedRow
  <2> QED BY <2>1, <2>2
<1>5. \A i \in DOMAIN u : u[i].epoch = e => InRun(u, e, i)
  <2> SUFFICES ASSUME NEW i \in DOMAIN u, u[i].epoch = e PROVE InRun(u, e, i)
    OBVIOUS
  <2>1. CASE i <= m
    <3>1. i \in DOMAIN t /\ u[i] = t[i] /\ i \in Nat
      BY <2>1, AddedRow
    <3>2. InRun(t, e, i)
      BY <2>1, <3>1 DEF Placed
    <3>3. PICK a \in Nat : a = t[i].start * PageSize + 1
      <4>1. t[i].start \in Nat
        BY <3>1 DEF Placed
      <4>2. t[i].start * PageSize \in Nat
        BY <1>0, <4>1, Pagewise
      <4> QED BY <4>2
    <3>4. PICK h : h = i - t[i].place + a
      OBVIOUS
    <3>5. /\ t[i].place \in Nat /\ t[i].of \in Nat
          /\ a <= t[i].place /\ t[i].place < a + PageSize /\ t[i].place <= t[i].of
          /\ h \in DOMAIN t
          /\ t[h].epoch = e /\ t[h].query = t[i].query /\ t[h].place = a
      BY <3>2, <3>3, <3>4 DEF InRun
    <3>6. h \in DOMAIN u /\ h <= m
      BY <1>1, <2>1, <3>1, <3>3, <3>4, <3>5
    <3>7. u[h] = t[h]
      BY <3>6, AddedRow
    <3> QED BY <3>1, <3>3, <3>4, <3>5, <3>6, <3>7 DEF InRun
  <2>2. CASE ~(i <= m)
    <3>1. PICK j \in 1 .. f : /\ i = m + j /\ j \in Nat /\ u[i].start = s /\ u[i].epoch = e
                              /\ u[i].query = q /\ u[i].place = s * PageSize + j /\ u[i].of = of
      BY <2>2, AddedRow
    <3>2. u[i].place = b + j /\ u[i].start * PageSize + 1 = b + 1
      BY <1>2, <3>1
    <3>3. m + 1 \in DOMAIN u /\ ~(m + 1 <= m) /\ 1 \in 1 .. f
      BY <1>1, <3>1
    <3>4. u[m + 1].epoch = e /\ u[m + 1].query = q /\ u[m + 1].place = b + 1
      BY <1>2, <3>3 DEF PageAdded
    <3>5. f <= PageSize /\ b + f <= of
      BY <1>1, <1>2, <3>1 DEF PageAdded, Full
    <3>6. i - (b + j) + (b + 1) = m + 1
      BY <1>1, <1>2, <3>1
    <3>7. b + 1 <= b + j /\ b + j < b + 1 + PageSize /\ b + j <= of /\ b + j \in Nat
      BY <1>0, <1>1, <1>2, <3>1, <3>5
    <3> QED BY <1>1, <3>1, <3>2, <3>3, <3>4, <3>6, <3>7 DEF InRun
  <2> QED BY <2>1, <2>2
<1>6. ASSUME Headed(u), NEW i \in DOMAIN u, Alike(u, e, i), u[i].place = i, i < u[i].of,
             i # (u[i].start + 1) * PageSize
      PROVE  i + 1 \in DOMAIN u /\ u[i + 1].place = i + 1
  <2>1. CASE i <= m
    <3>1. i \in DOMAIN t /\ u[i] = t[i] /\ i \in Nat /\ i >= 1 /\ m > 0
      BY <1>1, <2>1, AddedRow
    <3>2. Headed(t) /\ Alike(t, e, i)
      BY <1>1, <1>6, <2>1, <3>1, AddedHeaded, AddedAlike
    <3>3. i + 1 \in DOMAIN t /\ t[i + 1].place = i + 1
      BY <1>6, <3>1, <3>2 DEF Placed, GoesOn
    <3>4. CASE i < m
      <4>1. i + 1 <= m /\ i + 1 \in DOMAIN u
        BY <1>1, <3>1, <3>4
      <4> QED BY <3>3, <4>1, AddedRow
    <3>5. CASE i = m
      <4>1. m = b
        BY <1>1, <1>2, <3>1, <3>2, <3>3, <3>5
      <4>2. /\ t[i].start \in Nat /\ InRun(t, e, i)
        <5>1. i \in 1 .. i
          BY <3>1
        <5> QED BY <3>1, <3>2, <5>1 DEF Placed, Alike
      <4>3. PICK k \in Nat : k = t[i].start
        BY <4>2
      <4>4. PICK c \in Nat : c = k * PageSize
        BY <1>0, Pagewise
      <4>5. c + 1 <= i /\ i < c + 1 + PageSize
        BY <1>6, <3>1, <4>2, <4>3, <4>4 DEF InRun
      <4>6. /\ (k + 1) * PageSize = c + PageSize
            /\ (k < s => c + PageSize <= b)
            /\ (s <= k => b <= c)
        BY <1>0, <1>1, <1>2, <4>4, Pagewise
      <4>7. i = (k + 1) * PageSize
        <5>1. k < s
          BY <1>0, <1>1, <3>5, <4>1, <4>5, <4>6
        <5> QED BY <1>0, <1>1, <3>5, <4>1, <4>5, <4>6, <5>1
      <4> QED BY <1>6, <3>1, <4>3, <4>7
    <3> QED BY <1>1, <2>1, <3>1, <3>4, <3>5
  <2>2. CASE ~(i <= m)
    <3>1. PICK j \in 1 .. f : /\ i = m + j /\ j \in Nat /\ u[i].start = s /\ u[i].epoch = e
                              /\ u[i].query = q /\ u[i].place = s * PageSize + j /\ u[i].of = of
      BY <2>2, AddedRow
    <3>2. m = b
      BY <1>1, <1>2, <1>6, <3>1
    <3>3. CASE j = f
      <4>1. f <= PageSize /\ (f < PageSize => of <= b + f)
        BY <1>2 DEF PageAdded, Full
      <4>2. (s + 1) * PageSize = b + PageSize
        BY <1>0, <1>1, <1>2, Pagewise
      <4> QED BY <1>0, <1>1, <1>6, <3>1, <3>2, <3>3, <4>1, <4>2
    <3>4. CASE j # f
      <4>1. j + 1 \in 1 .. f /\ i + 1 = m + (j + 1) /\ i + 1 \in DOMAIN u
        BY <1>1, <3>1, <3>4
      <4>2. u[m + (j + 1)].place = s * PageSize + (j + 1)
        BY <4>1 DEF PageAdded
      <4>3. s * PageSize + (j + 1) = i + 1
        BY <1>1, <1>2, <3>1, <3>2
      <4> QED BY <4>1, <4>2, <4>3
    <3> QED BY <3>3, <3>4
  <2> QED BY <2>1, <2>2
<1> QED BY <1>3, <1>4, <1>5, <1>6 DEF Placed, GoesOn

LEMMA AddedNotBehind ==
  ASSUME NEW t, NEW n, NEW u, NEW m, NEW f, NEW s, NEW q, NEW e, NEW of,
         PageAdded(t, n, u, m, f, s, q, e, of), NotBehind(t, e), m <= s * PageSize
  PROVE  NotBehind(u, e)
<1> SUFFICES ASSUME NEW i \in DOMAIN u, Alike(u, e, i) PROVE i <= u[i].place
  BY DEF NotBehind
<1>1. m \in Nat /\ s \in Nat
  BY DEF PageAdded
<1>2. CASE i <= m
  BY <1>2, AddedRow, AddedAlike DEF NotBehind
<1>3. CASE ~(i <= m)
  <2>1. PICK j \in Nat : i = m + j /\ u[i].place = s * PageSize + j
    BY <1>3, AddedRow
  <2>2. s * PageSize \in Nat
    BY <1>1, TableAssumption, Pagewise
  <2> QED BY <1>1, <2>1, <2>2
<1> QED BY <1>2, <1>3

\* Air: the page is the next one, or one of those that are there; then its
\* first record is not among the rows that stay, so the page stands in its place.
LEMMA AddedAir ==
  ASSUME NEW t, NEW n, NEW u, NEW m, NEW f, NEW s, NEW q, NEW e, NEW of,
         PageAdded(t, n, u, m, f, s, q, e, of), Placed(t, e), InOrder(t, e),
         NEW k \in Nat, k >= PageSize, m < n => m = s * k /\ f > 0 /\ (\A i \in 1 .. n : t[i].query = q),
         (s > 0 /\ Headed(t) /\ t[1].epoch = e) => (s - 1) * k < n,
         \A i \in 1 .. m : (f > 0 /\ t[i].epoch = e /\ t[i].query = q) => t[i].place # s * PageSize + 1,
         \A i \in 1 .. m : (t[i].epoch = e /\ t[i].query = q) => t[i].of = of
  PROVE  /\ (m < n /\ m > 0 /\ Headed(t) /\ Alike(t, e, m)) => m = s * PageSize
         /\ InOrder(u, e)
<1>0. PageSize \in Nat \ {0}
  BY TableAssumption
<1>1. /\ n \in Nat /\ m \in Nat /\ f \in Nat /\ s \in Nat /\ e \in Nat /\ of \in Nat /\ m <= n
      /\ DOMAIN t = 1 .. n /\ DOMAIN u = 1 .. (m + f)
      /\ (s = 0 => m = 0)
  BY DEF PageAdded
<1>2. PICK b \in Nat : b = s * PageSize
  BY <1>0, <1>1, Pagewise
<1>3. ASSUME m > 0, Headed(t), Alike(t, e, m), t[m].query = q, f > 0
      PROVE  m = b
  <2>1. \A i \in 1 .. m : i \in DOMAIN t /\ Alike(t, e, i) /\ t[i].epoch = e /\ t[i].query = q
    <3> TAKE i \in 1 .. m
    <3>1. i \in 1 .. n /\ \A j \in 1 .. i : j \in 1 .. m
      BY <1>1
    <3> QED BY <1>1, <1>3, <3>1 DEF Alike
  <2>2. \A i \in 1 .. m : t[i].place = i
    BY <1>3, <2>1 DEF InOrder
  <2>3. m <= b
    <3>1. b + 1 \notin 1 .. m
      BY <1>2, <1>3, <2>1, <2>2
    <3> QED BY <1>1, <1>2, <3>1
  <2>4. s > 0 /\ s - 1 \in Nat /\ t[1].epoch = e
    <3>1. s # 0 /\ 1 \in 1 .. m
      BY <1>1, <1>3
    <3> QED BY <1>1, <2>1, <3>1
  <2>5. PICK a \in Nat, p \in Nat : a = s - 1 /\ p = a * PageSize
    BY <1>0, <2>4, Pagewise
  <2>6. b = p + PageSize
    <3>1. a + 1 = s
      BY <1>1, <2>4, <2>5
    <3> QED BY <1>0, <1>2, <2>5, <3>1, Pagewise
  <2>7. p < n
    <3>1. a * k < n
      BY <1>3, <2>4, <2>5
    <3>2. PageSize * a \in Nat /\ k * a \in Nat /\ PageSize * a <= k * a
      BY <1>0, Pagewise
    <3>3. a * k = k * a /\ p = PageSize * a
      BY <1>0, <2>5
    <3> QED BY <1>1, <2>5, <3>1, <3>2, <3>3
  <2>8. CASE m < n
    <3>1. m = s * k
      BY <2>8
    <3>2. PageSize * s <= k * s /\ k * s = s * k /\ PageSize * s = b
      BY <1>0, <1>1, <1>2, Pagewise
    <3> QED BY <1>1, <1>2, <2>3, <3>1, <3>2
  <2>9. CASE m = n /\ m # b
    <3>1. m \in DOMAIN t /\ t[m].place = m /\ Alike(t, e, m) /\ InRun(t, e, m) /\ t[m].start \in Nat
      <4>1. m \in 1 .. m
        BY <1>1, <1>3
      <4> QED BY <2>1, <2>2, <4>1 DEF Placed
    <3>2. GoesOn(t, m)
      BY <1>3, <3>1 DEF Placed
    <3>3. PICK h \in Nat, c \in Nat : h = t[m].start /\ c = h * PageSize
      BY <1>0, <3>1, Pagewise
    <3>4. c + 1 <= m /\ m < c + 1 + PageSize
      BY <3>1, <3>3 DEF InRun
    <3>5. /\ (h + 1) * PageSize = c + PageSize
          /\ (h < s => c + PageSize <= b)
          /\ (s <= h => b <= c)
      <4>1. c = h * PageSize /\ b = s * PageSize /\ PageSize \in Nat \ {0} /\ s \in Nat
        BY <1>0, <1>1, <1>2, <3>3
      <4>2. /\ (h + 1) * PageSize = h * PageSize + PageSize
            /\ h < s => (h + 1) * PageSize <= s * PageSize
        BY <4>1, Pagewise
      <4>3. s <= h => s * PageSize <= h * PageSize
        BY <4>1, Pagewise
      <4> QED BY <4>1, <4>2, <4>3
    <3>6. m # (t[m].start + 1) * PageSize
      <4>1. p < m /\ m < p + PageSize
        BY <1>0, <1>1, <1>2, <2>3, <2>5, <2>6, <2>7, <2>9
      <4>2. /\ h + 1 = s \/ h + 1 < s \/ s <= h
            /\ (h + 1 < s => c + PageSize + PageSize <= b)
        <5>1. h + 1 < s => (h + 1) * PageSize + PageSize <= b
          BY <1>0, <1>1, <1>2, Pagewise
        <5> QED BY <1>1, <3>3, <3>5, <5>1
      <4>3. h + 1 = s => c + PageSize = b
        BY <1>2, <3>5
      <4> QED BY <1>0, <1>2, <2>5, <2>6, <3>3, <3>4, <3>5, <4>1, <4>2, <4>3
    <3>7. m < t[m].of
      <4>1. t[m].of = of
        <5>1. m \in 1 .. m
          BY <1>1, <1>3
        <5> QED BY <2>1, <5>1
      <4>2. b + f <= of
        BY <1>2, <1>3 DEF PageAdded, Full
      <4> QED BY <1>1, <1>2, <1>3, <2>3, <2>9, <4>1, <4>2
    <3> QED BY <1>1, <2>9, <3>2, <3>6, <3>7 DEF GoesOn
  <2> QED BY <1>1, <2>8, <2>9
<1>4. ASSUME m < n, m > 0, Headed(t), Alike(t, e, m) PROVE m = b
  <2>1. t[m].query = q /\ f > 0
    <3>1. m \in 1 .. n
      BY <1>1, <1>4
    <3> QED BY <1>4, <3>1
  <2> QED BY <1>3, <1>4, <2>1
<1>5. ASSUME Headed(u), NEW i \in DOMAIN u, Alike(u, e, i) PROVE u[i].place = i
  <2>1. CASE i <= m
    <3>1. i \in DOMAIN t /\ u[i] = t[i] /\ Alike(t, e, i) /\ m > 0
      BY <1>1, <1>5, <2>1, AddedRow, AddedAlike
    <3>2. Headed(t)
      BY <1>5, <3>1, AddedHeaded
    <3> QED BY <3>1, <3>2 DEF InOrder
  <2>2. CASE ~(i <= m)
    <3>1. PICK j \in 1 .. f : i = m + j /\ j \in Nat /\ u[i].place = s * PageSize + j
      BY <2>2, AddedRow
    <3>2. f > 0
      BY <1>1, <3>1
    <3>3. m = b
      <4>1. CASE m = 0
        <5>1. s = 0
          BY <1>5, <4>1, AddedHeaded
        <5> QED BY <1>0, <1>2, <4>1, <5>1
      <4>2. CASE m > 0
        <5>1. Headed(t) /\ Alike(t, e, m) /\ t[m].query = q
          BY <1>5, <2>2, <4>2, AddedHeaded, AddedAlike
        <5> QED BY <1>3, <3>2, <4>2, <5>1
      <4> QED BY <1>1, <4>1, <4>2
    <3> QED BY <1>2, <3>1, <3>3
  <2> QED BY <2>1, <2>2
<1> QED BY <1>2, <1>4, <1>5 DEF InOrder

(***************************************************************************)
(* The pages on the screen of a user who waits                             *)
(***************************************************************************)
Place(s, id) == CHOOSE p \in DOMAIN s : s[p] = id
\* the load that brought a row, and where its record stands in the list it is of
TagOf(ref) ==
  LET o == heap[ref[1]]
      s == Ordered(o.query)
  IN  [query |-> o.query, start |-> o.start, epoch |-> o.epoch, sized |-> o.sized,
       place |-> Place(s, ref[2]), of |-> Len(s), found |-> ref[2] \in Range(s)]
Tags == [i \in DOMAIN List |-> TagOf(List[i])]
FromPages == arrays[cur].src = "paged"

\* What a request under way asks for, and what its answer says.
Zero(r) == r.do = "load" /\ r.start = 0
AskedAir(r) ==
  /\ r.closure >= PageSize
  /\ r.do # "load" => r.closure = size
  /\ r.do = "sweep" => r.page = page
  /\ Zero(r) => r.goto = 1 \/ (r.goto = 0 /\ page = 1)
  /\ (r.do = "load" /\ r.start > 0) =>
       /\ r.goto = 0 /\ r.closure = size /\ r.then # "clear"
       /\ table = "air/logs" => r.start * size >= Len(List)
Asked(r) ==
  /\ r.size = size
  /\ table # "air/logs" => r.query = query
  /\ (r.do = "load" /\ Answer(r)) => r.ans.epoch = epoch /\ r.ans.rows = PageOf(Ordered(r.query), r.start)
  /\ (r.do = "delete" /\ Answer(r) /\ FromPages) => \A i \in DOMAIN Tags : Tags[i].epoch # epoch
  /\ table \in Air => AskedAir(r)

\* The rows are of the query that is chosen, or the first page will come.
Awaited == \E r \in net : Zero(r)
Chosen == table = "air/logs" \/ Awaited \/ \A i \in DOMAIN Tags : Tags[i].query = query
\* The pager of air offers the next page, and no page behind it.
HeadNow == Headed(Tags) /\ Tags[1].epoch = epoch
AllNow == \A i \in DOMAIN Tags : Tags[i].epoch = epoch /\ Tags[i].sized
Offers ==
  /\ page = 1 \/ (page - 2) * size < Len(List)
  /\ total <= Len(List) + size
  /\ (table # "air/logs" /\ size = PageSize /\ AllNow /\ Len(List) < Len(Ordered(query))) =>
       total > Len(List)
AirPager ==
  HeadNow =>
    /\ \A r \in net : (r.do = "load" /\ r.start > 0) => (r.start - 1) * size < Len(List)
    /\ Awaited \/ Offers
PagedRows ==
  /\ \A i \in DOMAIN Tags : Tags[i].epoch = epoch => Tags[i].found
  /\ Placed(Tags, epoch)
  /\ IF table \in Air THEN InOrder(Tags, epoch) ELSE NotBehind(Tags, epoch)
  /\ Chosen
  /\ table \in Air => AirPager
Orderly ==
  /\ \A r \in net : Asked(r)
  /\ table \in Air => size >= PageSize
  /\ FromPages => PagedRows

LEMMA TagsType ==
  ASSUME IInv
  PROVE  /\ DOMAIN Tags = 1 .. Len(List) /\ Len(List) \in Nat
         /\ \A i \in DOMAIN Tags : /\ List[i][1] \in DOMAIN heap /\ Tags[i] = TagOf(List[i])
                                   /\ Tags[i].start \in Nat /\ Tags[i].epoch \in Nat
                                   /\ Tags[i].query \in Queries
<1>1. /\ DOMAIN List = 1 .. Len(List) /\ Len(List) \in Nat /\ heap \in Seq(ObjectSet)
      /\ \A i \in DOMAIN List : List[i][1] \in DOMAIN heap
  BY ListType DEF RefOK
<1>2. ASSUME NEW i \in DOMAIN List
      PROVE  TagOf(List[i]).start \in Nat /\ TagOf(List[i]).epoch \in Nat /\ TagOf(List[i]).query \in Queries
  <2>1. heap[List[i][1]] \in ObjectSet
    BY <1>1
  <2> QED BY <2>1 DEF TagOf, ObjectSet
<1> QED BY <1>1, <1>2 DEF Tags

\* The rows of a page, and their places
LEMMA PageRows ==
  ASSUME NEW T, NEW s \in Seq(T), NEW start \in Nat, NEW p, p = PageOf(s, start)
  PROVE  /\ Len(p) \in Nat /\ DOMAIN p = 1 .. Len(p) /\ Full(Len(p), start, Len(s))
         /\ \A j \in 1 .. Len(p) : start * PageSize + j \in DOMAIN s /\ p[j] = s[start * PageSize + j]
<1>1. PICK k \in Nat \ {0} : k = PageSize
  BY TableAssumption
<1>2. PICK b \in Nat : b = start * k
  BY <1>1, Pagewise
<1>3. PICK l \in Nat : l = Len(s)
  OBVIOUS
<1>4. PICK n : n = Least(b + k, l)
  OBVIOUS
<1>5. n \in Nat /\ n <= l /\ n <= b + k /\ (n < b + k => n = l)
  BY <1>1, <1>2, <1>3, <1>4 DEF Least
<1>6. (start + 1) * PageSize = b + k /\ start * PageSize = b
  BY <1>1, <1>2, Pagewise
<1>7. p = SubSeq(s, b + 1, n)
  BY <1>3, <1>4, <1>6 DEF PageOf
<1>8. \A i \in (b + 1) .. n : i \in DOMAIN s /\ s[i] \in T
  BY <1>2, <1>3, <1>5
<1>9. SubSeq(s, b + 1, n) = [i \in 1 .. (IF b + 1 <= n THEN n - (b + 1) + 1 ELSE 0) |-> s[i + (b + 1) - 1]]
  BY <1>2, <1>5, <1>8
<1>10. PICK f : f = IF b + 1 <= n THEN n - b ELSE 0
  OBVIOUS
<1>11. f \in Nat /\ f <= k /\ (f > 0 => b + f = n) /\ (f < k => l <= b + f)
  BY <1>1, <1>2, <1>3, <1>5, <1>10
<1>12. p = [i \in 1 .. f |-> s[b + i]]
  <2>1. 1 .. (IF b + 1 <= n THEN n - (b + 1) + 1 ELSE 0) = 1 .. f
    BY <1>2, <1>5, <1>10
  <2>2. \A i \in 1 .. f : i + (b + 1) - 1 = b + i
    BY <1>2, <1>11
  <2> QED BY <1>7, <1>9, <2>1, <2>2
<1>13. \A j \in 1 .. f : b + j \in DOMAIN s
  BY <1>2, <1>3, <1>5, <1>11
<1>14. Len(p) = f
  <2>1. \A j \in 1 .. f : s[b + j] \in T
    BY <1>13
  <2> QED BY <1>11, <1>12, <2>1
<1>15. Full(f, start, l)
  BY <1>1, <1>2, <1>3, <1>5, <1>6, <1>11 DEF Full
<1> QED BY <1>3, <1>6, <1>11, <1>12, <1>13, <1>14, <1>15

LEMMA PlaceOf ==
  ASSUME NEW s, Distinct(s), NEW p \in DOMAIN s
  PROVE  Place(s, s[p]) = p /\ s[p] \in Range(s)
<1>1. \A m \in DOMAIN s : s[m] = s[p] => m = p
  BY DEF Distinct
<1> QED BY <1>1 DEF Place, Range

LEMMA FoundAt ==
  ASSUME NEW s, NEW id \in Range(s)
  PROVE  Place(s, id) \in DOMAIN s /\ s[Place(s, id)] = id
<1>1. \E p \in DOMAIN s : s[p] = id
  BY DEF Range
<1> QED BY <1>1 DEF Place

(***************************************************************************)
(* Steps that leave the rows where they are                                *)
(***************************************************************************)
SameObjects ==
  \A g \in DOMAIN heap : /\ heap'[g].query = heap[g].query /\ heap'[g].start = heap[g].start
                         /\ heap'[g].epoch = heap[g].epoch /\ heap'[g].sized = heap[g].sized
SameList == UNCHANGED <<table, rows, epoch>>
Stays == List' = List /\ Tags' = Tags /\ (FromPages' <=> FromPages) /\ SameList

LEMMA SameOrdered == ASSUME UNCHANGED <<table, rows>> PROVE \A q : Ordered(q)' = Ordered(q)
BY DEF Ordered, Keep

LEMMA TagsStay ==
  ASSUME IInv, UNCHANGED <<table, rows>>, SameObjects, List' = List
  PROVE  Tags' = Tags
<1>1. ASSUME NEW i \in DOMAIN List PROVE TagOf(List[i])' = TagOf(List[i])
  <2>1. PICK ref : ref = List[i]
    OBVIOUS
  <2>2. ref = List'[i] /\ ref[1] \in DOMAIN heap
    BY <2>1, TagsType DEF Tags
  <2>3. TagOf(ref)' = TagOf(ref)
    BY <2>2, SameOrdered DEF TagOf, SameObjects
  <2> QED BY <2>1, <2>2, <2>3 DEF TagOf
<1> QED BY <1>1 DEF Tags

LEMMA ScreenStays ==
  ASSUME IInv, SameList, SameRows
  PROVE  Stays
<1>1. List' = List /\ SameObjects /\ (FromPages' <=> FromPages)
  BY DEF SameRows, List, SameObjects, FromPages
<1> QED BY <1>1, TagsStay DEF Stays, SameList

LEMMA CopyStays ==
  ASSUME IInv, SameList, SameObjects, CopyOf(cur)
  PROVE  Stays
<1>1. PICK src : src = arrays[cur].src
  OBVIOUS
<1>2. NewArray(arrays[cur].rows, src)
  BY <1>1 DEF CopyOf
<1>3. List' = List /\ arrays'[cur'].src = src
  BY <1>2, CopySame, NewList
<1> QED BY <1>1, <1>3, TagsStay DEF Stays, SameList, FromPages

\* Rows that stay are in order.
LEMMA StaysOrderly ==
  ASSUME Orderly, Stays, \A r \in net' : Asked(r)', table \in Air => size' >= PageSize,
         FromPages => Chosen' /\ (table \in Air => AirPager')
  PROVE  Orderly'
<1>1. PICK t : t = Tags
  OBVIOUS
<1>2. PICK e : e = epoch
  OBVIOUS
<1>3. Tags' = t /\ epoch' = e /\ table' = table /\ (FromPages' <=> FromPages)
  BY <1>1, <1>2 DEF Stays, SameList
<1>4. ASSUME FromPages PROVE PagedRows'
  <2>1. /\ \A i \in DOMAIN t : t[i].epoch = e => t[i].found
        /\ Placed(t, e)
        /\ IF table \in Air THEN InOrder(t, e) ELSE NotBehind(t, e)
    BY <1>1, <1>2, <1>4 DEF Orderly, PagedRows
  <2> QED BY <1>3, <1>4, <2>1 DEF PagedRows
<1> QED BY <1>3, <1>4 DEF Orderly

\* The rows are no pages.
LEMMA NoPages ==
  ASSUME \A r \in net' : Asked(r)', (table \in Air => size >= PageSize)', ~FromPages'
  PROVE  Orderly'
BY DEF Orderly

LEMMA PagerSize ==
  ASSUME IInv
  PROVE  page \in Nat /\ page >= 1 /\ size \in Nat /\ size >= 1 /\ PageSize \in Nat /\ PageSize >= 1
         /\ OtherSize \in Nat /\ OtherSize >= PageSize /\ total \in Nat /\ (table \notin Air => size = PageSize)
BY TableAssumption DEF IInv, PagerInv, Positive

\* The first page is asked for.
LEMMA ZeroOrderly ==
  ASSUME Orderly, Stays, NEW q \in net', \A r \in net' : Asked(r)' /\ Zero(r),
         table \in Air => size' >= PageSize
  PROVE  Orderly'
<1>1. Chosen' /\ AirPager'
  BY DEF Chosen, AirPager, Awaited, Zero
<1> QED BY <1>1, StaysOrderly

\* No page is asked for, none was.
LEMMA QuietOrderly ==
  ASSUME IInv, Orderly, Stays, UNCHANGED <<page, size, total, query>>,
         \A r \in net : r.do # "load", \A r \in net' : r.do # "load" /\ Asked(r)'
  PROVE  Orderly'
<1>1. ~Awaited /\ ~Awaited' /\ table' = table
  BY DEF Awaited, Zero, Stays, SameList
<1>2. Chosen => Chosen'
  BY <1>1 DEF Chosen, Stays
<1>3. AirPager => AirPager'
  <2>1. HeadNow' <=> HeadNow
    BY DEF HeadNow, Headed, Stays, SameList
  <2>2. AllNow' <=> AllNow
    BY DEF AllNow, Stays, SameList
  <2>3. Ordered(query)' = Ordered(query)
    BY SameOrdered DEF Stays, SameList, Ordered
  <2>4. Offers => Offers'
    BY <1>1, <2>2, <2>3 DEF Offers, Stays
  <2> QED BY <1>1, <2>1, <2>4 DEF AirPager
<1> QED BY <1>2, <1>3, StaysOrderly DEF Orderly, PagedRows

(***************************************************************************)
(* Steps that leave no row of the present epoch                            *)
(***************************************************************************)
LEMMA NewTags == IInv' => DOMAIN Tags' = 1 .. Len(List') /\ Len(List') \in Nat
<1> SUFFICES ASSUME IInv' PROVE DOMAIN Tags' = 1 .. Len(List') /\ Len(List') \in Nat
  OBVIOUS
<1>1. arrays'[cur'] \in ArraySet
  BY DEF IInv, ArraysInv
<1>2. List' \in Seq(Nat \X Ids)
  BY <1>1 DEF List, ArraySet
<1>3. DOMAIN List' = 1 .. Len(List') /\ Len(List') \in Nat
  BY <1>2
<1> QED BY <1>3 DEF Tags

LEMMA OldOrderly ==
  ASSUME IInv, IInv', Orderly, table' = table, epoch <= epoch',
         \A r \in net' : Asked(r)', table \in Air => size' >= PageSize,
         FromPages' => FromPages, FromPages => Chosen',
         NEW t, t = Tags, NEW u, u = Tags',
         \A i \in DOMAIN u : u[i].epoch # epoch',
         NEW at, \A i \in DOMAIN u : at[i] \in DOMAIN t /\ u[i].start = t[at[i]].start /\ u[i].epoch = t[at[i]].epoch,
         \A i \in DOMAIN u : \A j \in 1 .. i : at[j] \in 1 .. at[i]
  PROVE  Orderly'
<1> SUFFICES ASSUME FromPages' PROVE PagedRows'
  BY DEF Orderly
<1>1. Placed(t, epoch) /\ Chosen'
  BY DEF Orderly, PagedRows
<1>2. epoch' \in Nat /\ epoch \in Nat /\ DOMAIN u = 1 .. Len(List') /\ Len(List') \in Nat
  <2>1. epoch' \in Nat /\ epoch \in Nat
    BY DEF IInv, ServerInv
  <2>2. DOMAIN Tags' = 1 .. Len(List') /\ Len(List') \in Nat
    BY NewTags
  <2> QED BY <2>1, <2>2
<1>3. \A i \in DOMAIN u : i \in 1 .. i /\ ~Alike(u, epoch', i)
  <2> TAKE i \in DOMAIN u
  <2>1. i \in 1 .. i
    BY <1>2
  <2> QED BY <2>1 DEF Alike
<1>4. \A i \in DOMAIN u : u[i].start \in Nat /\ u[i].epoch \in Nat
  BY <1>1 DEF Placed
<1>5. \A i \in DOMAIN u : u[i].epoch <= epoch'
  <2> TAKE i \in DOMAIN u
  <2>1. u[i].epoch \in Nat /\ u[i].epoch <= epoch /\ epoch \in Nat
    BY <1>1, <1>2 DEF Placed
  <2> QED BY <1>2, <2>1
<1>6. \A i \in DOMAIN u : u[i].start = 0 => \A j \in 1 .. i : u[j].start = 0
  <2> SUFFICES ASSUME NEW i \in DOMAIN u, u[i].start = 0, NEW j \in 1 .. i PROVE u[j].start = 0
    OBVIOUS
  <2>1. j \in DOMAIN u
    BY <1>2
  <2>2. t[at[i]].start = 0 /\ at[i] \in DOMAIN t /\ at[j] \in 1 .. at[i]
    OBVIOUS
  <2> QED BY <1>1, <2>1, <2>2 DEF Placed
<1>7. Placed(u, epoch') /\ InOrder(u, epoch') /\ NotBehind(u, epoch')
  BY <1>3, <1>4, <1>5, <1>6 DEF Placed, InOrder, NotBehind
<1>8. ~HeadNow'
  BY DEF HeadNow, Headed
<1> QED BY <1>1, <1>7, <1>8 DEF PagedRows, AirPager

(***************************************************************************)
(* The server answers                                                      *)
(***************************************************************************)
LEMMA ServedAsked ==
  ASSUME IInv, UNCHANGED <<table, screen>>, NEW r \in net, Asked(r), r.ans = None,
         NEW a, a.ok = "ok", NEW q, q = [r EXCEPT !.ans = a],
         r.do = "load" => a.epoch = epoch' /\ a.rows = PageOf(Ordered(r.query), r.start)',
         (r.do = "delete" /\ FromPages) => \A i \in DOMAIN Tags' : Tags'[i].epoch # epoch'
  PROVE  /\ Asked(q)' /\ q.do = r.do /\ q.start = r.start /\ (Zero(q) <=> Zero(r))
<1>1. r \in RequestSet
  BY DEF IInv, NetInv
<1>2. /\ q.ans = a /\ q.do = r.do /\ q.start = r.start /\ q.goto = r.goto /\ q.then = r.then
      /\ q.page = r.page /\ q.size = r.size /\ q.closure = r.closure /\ q.query = r.query
  BY <1>1 DEF RequestSet
<1>3. UNCHANGED <<page, size, query, table>> /\ List' = List /\ FromPages' = FromPages
  BY DEF screen, List, FromPages
<1>4. Zero(q) <=> Zero(r)
  BY <1>2 DEF Zero
<1>5. AskedAir(r) => AskedAir(q)'
  BY <1>2, <1>3, <1>4 DEF AskedAir, Zero
<1>6. (q.do = "load" => q.ans.epoch = epoch' /\ q.ans.rows = PageOf(Ordered(r.query), r.start)')
      /\ ((q.do = "delete" /\ FromPages') => \A i \in DOMAIN Tags' : Tags'[i].epoch # epoch')
  BY <1>2, <1>3
<1>7. Asked(q)'
  BY <1>2, <1>3, <1>5, <1>6 DEF Asked
<1> QED BY <1>2, <1>4, <1>7

\* An answer that no row is about, or that says what stands
LEMMA LookOrderly ==
  ASSUME IInv, Orderly, SameList, UNCHANGED screen, NEW r \in net, r.ans = None, r.do # "delete",
         NEW a, a.ok = "ok", NEW q, q = [r EXCEPT !.ans = a], net' = (net \ {r}) \cup {q},
         r.do = "load" => a.epoch = epoch /\ a.rows = PageOf(Ordered(r.query), r.start)
  PROVE  Orderly'
<1>1. Stays
  BY ScreenStays DEF screen, SameRows
<1>2. UNCHANGED <<page, size, total, query, table, epoch>> /\ List' = List /\ Tags' = Tags /\ FromPages' = FromPages
  BY <1>1 DEF screen, Stays, SameList, FromPages
<1>3. \A k : PageOf(Ordered(r.query), k)' = PageOf(Ordered(r.query), k)
  BY SameOrdered DEF PageOf, SameList
<1>4. Asked(q)' /\ q.do = r.do /\ q.start = r.start /\ (Zero(q) <=> Zero(r))
  BY <1>2, <1>3, ServedAsked DEF Orderly
<1>5. ASSUME NEW p \in net PROVE Asked(p)'
  <2>1. Asked(p)
    BY DEF Orderly
  <2>2. AskedAir(p) => AskedAir(p)'
    BY <1>2 DEF AskedAir, Zero
  <2>3. PageOf(Ordered(p.query), p.start)' = PageOf(Ordered(p.query), p.start)
    BY SameOrdered DEF PageOf, SameList
  <2> QED BY <1>2, <2>1, <2>2, <2>3 DEF Asked
<1>6. \A p \in net' : Asked(p)'
  BY <1>4, <1>5
<1>7. Awaited' <=> Awaited
  BY <1>4 DEF Awaited, Zero
<1>8. Chosen => Chosen'
  BY <1>2, <1>7 DEF Chosen
<1>9. AirPager => AirPager'
  <2>1. HeadNow' <=> HeadNow
    BY <1>2 DEF HeadNow
  <2>2. Offers => Offers'
    <3>1. AllNow' <=> AllNow
      BY <1>2 DEF AllNow
    <3>2. Ordered(query)' = Ordered(query)
      BY <1>2, SameOrdered DEF SameList, Ordered
    <3> QED BY <1>2, <3>1, <3>2 DEF Offers
  <2>3. (\A p \in net : (p.do = "load" /\ p.start > 0) => (p.start - 1) * size < Len(List))
        => \A p \in net' : (p.do = "load" /\ p.start > 0) => (p.start - 1) * size < Len(List)
    BY <1>4
  <2> QED BY <1>2, <1>7, <2>1, <2>2, <2>3 DEF AirPager
<1> QED BY <1>1, <1>2, <1>6, <1>8, <1>9, StaysOrderly DEF Orderly, PagedRows

\* A deletion, or a sweep that found one: no row is of the present epoch.
LEMMA GoneOrderly ==
  ASSUME IInv, IInv', Orderly, UNCHANGED <<table, screen>>, epoch' = epoch + 1, NEW r \in net, r.ans = None,
         net = {r}, r.do \in {"delete", "sweep"},
         NEW a, a.ok = "ok", NEW q, q = [r EXCEPT !.ans = a], net' = (net \ {r}) \cup {q}
  PROVE  Orderly'
<1>1. PICK t, u : t = Tags /\ u = Tags'
  OBVIOUS
<1>2. UNCHANGED <<page, size, query, table, heap>> /\ List' = List /\ FromPages' = FromPages
  BY DEF screen, List, FromPages
<1>3. /\ DOMAIN t = 1 .. Len(List) /\ DOMAIN u = 1 .. Len(List) /\ Len(List) \in Nat
      /\ \A i \in DOMAIN u : /\ t[i].start = u[i].start /\ t[i].epoch = u[i].epoch /\ t[i].query = u[i].query
                             /\ t[i].epoch \in Nat
  <2>1. DOMAIN t = 1 .. Len(List) /\ DOMAIN u = DOMAIN t /\ Len(List) \in Nat
    BY <1>1, <1>2, TagsType DEF Tags
  <2>2. ASSUME NEW i \in DOMAIN u
        PROVE  /\ t[i].start = u[i].start /\ t[i].epoch = u[i].epoch /\ t[i].query = u[i].query
               /\ t[i].epoch \in Nat
    <3>1. t[i] = TagOf(List[i]) /\ t[i].epoch \in Nat
      BY <1>1, <2>1, TagsType
    <3>2. u[i] = TagOf(List[i])'
      BY <1>1, <2>1, <1>2 DEF Tags
    <3> QED BY <1>2, <3>1, <3>2 DEF TagOf
  <2> QED BY <2>1, <2>2
<1>4. epoch \in Nat /\ epoch <= epoch'
  BY DEF IInv, ServerInv
<1>5. FromPages => \A i \in DOMAIN u : u[i].epoch # epoch'
  <2> SUFFICES ASSUME FromPages, NEW i \in DOMAIN u PROVE u[i].epoch # epoch'
    OBVIOUS
  <2>1. Placed(t, epoch)
    BY <1>1 DEF Orderly, PagedRows
  <2>2. t[i].epoch <= epoch /\ t[i].epoch \in Nat
    BY <1>3, <2>1 DEF Placed
  <2> QED BY <1>3, <1>4, <2>2
<1>6. Asked(q)' /\ net' = {q}
  BY <1>1, <1>2, <1>5, ServedAsked DEF Orderly
<1>7. FromPages => Chosen'
  <2> SUFFICES ASSUME FromPages PROVE Chosen'
    OBVIOUS
  <2>1. Chosen /\ ~Awaited
    BY DEF Orderly, PagedRows, Awaited, Zero
  <2> QED BY <1>1, <1>2, <1>3, <2>1 DEF Chosen
<1>8. PICK at : at = [i \in DOMAIN u |-> i]
  OBVIOUS
<1>9. /\ \A i \in DOMAIN u : at[i] \in DOMAIN t /\ u[i].start = t[at[i]].start /\ u[i].epoch = t[at[i]].epoch
      /\ \A i \in DOMAIN u : \A j \in 1 .. i : at[j] \in 1 .. at[i]
  <2>1. \A i \in DOMAIN u : \A j \in 1 .. i : j \in DOMAIN u
    BY <1>3
  <2> QED BY <1>3, <1>8, <2>1
<1>10. table \in Air => size' >= PageSize
  BY <1>2 DEF Orderly
<1>11. CASE FromPages
  BY <1>1, <1>2, <1>4, <1>5, <1>6, <1>7, <1>9, <1>10, <1>11, OldOrderly
<1>12. CASE ~FromPages
  BY <1>2, <1>6, <1>10, <1>12, NoPages
<1> QED BY <1>11, <1>12

LEMMA ServeOrderly ==
  ASSUME IInv, IInv', CalmInv, Orderly, Serve
  PROVE  Orderly'
<1>1. PICK r \in net :
        /\ r.ans = None
        /\ \/ ServeList(r) \/ ServeDelete(r) \/ ServeUpdate(r)
           \/ ServeAbsent(r) \/ ServeSweep(r) \/ ServeMeasure(r)
        /\ UNCHANGED <<table, screen>>
  BY DEF Serve
<1>2. ~ServeAbsent(r)
  <2>1. Present(r) /\ ~Answer(r)
    BY <1>1 DEF CalmInv, Answer, None
  <2> QED BY <2>1 DEF ServeAbsent, Present, Edits
<1>3. CASE ServeList(r)
  <2>1. PICK a : a = Ok(IF r.do = "load" THEN PageOf(Ordered(r.query), r.start) ELSE Keep(rows, Found), 0)
    OBVIOUS
  <2>2. /\ a.ok = "ok" /\ (r.do = "load" => a.rows = PageOf(Ordered(r.query), r.start)) /\ a.epoch = epoch
        /\ net' = (net \ {r}) \cup {[r EXCEPT !.ans = a]} /\ SameList /\ r.do # "delete"
    BY <1>1, <1>3, <2>1 DEF ServeList, Answered, Ok, SameList, server
  <2> QED BY <1>1, <2>2, LookOrderly
<1>4. CASE ServeMeasure(r) \/ ServeUpdate(r)
  <2>1. PICK a : a.ok = "ok" /\ net' = (net \ {r}) \cup {[r EXCEPT !.ans = a]}
    <3>1. CASE ServeMeasure(r)
      BY <3>1 DEF ServeMeasure, Answered, Ok
    <3>2. CASE ServeUpdate(r)
      <4>1. PICK s : Answered(r, Ok(<<>>, s))
        BY <3>2 DEF ServeUpdate
      <4> QED BY <4>1 DEF Answered, Ok
    <3> QED BY <1>4, <3>1, <3>2
  <2>2. SameList /\ r.do # "delete" /\ r.do # "load"
    BY <1>1, <1>4 DEF ServeMeasure, ServeUpdate, SameList, server
  <2> QED BY <1>1, <2>1, <2>2, LookOrderly
<1>5. CASE ServeDelete(r) \/ ServeSweep(r)
  <2>1. PICK a : a.ok = "ok" /\ net' = (net \ {r}) \cup {[r EXCEPT !.ans = a]}
    BY <1>5 DEF ServeDelete, ServeSweep, Answered, Ok
  <2>2. r.do \in {"delete", "sweep"} /\ net = {r}
    <3>1. r.do \in {"delete", "sweep"}
      BY <1>5 DEF ServeDelete, ServeSweep
    <3> QED BY <3>1, SoleRequest DEF Plain
  <2>3. CASE epoch' = epoch + 1
    BY <1>1, <2>1, <2>2, <2>3, GoneOrderly
  <2>4. CASE epoch' # epoch + 1
    <3>1. r.do = "sweep" /\ rows' = rows /\ epoch' = epoch
      <4>1. epoch \in Nat
        BY DEF IInv, ServerInv
      <4> QED BY <1>5, <2>4, <4>1 DEF ServeDelete, ServeSweep
    <3> QED BY <1>1, <2>1, <3>1, LookOrderly DEF SameList
  <2> QED BY <2>3, <2>4
<1> QED BY <1>1, <1>2, <1>3, <1>4, <1>5

(***************************************************************************)
(* Clicks of a user who waits: no request is under way                     *)
(***************************************************************************)
LEMMA LastFields ==
  ASSUME NEW f, NEW n
  PROVE  LET q == Request(f, n)
         IN  /\ q.closure = IF "closure" \in DOMAIN f THEN f.closure ELSE size
             /\ q.query = IF "query" \in DOMAIN f THEN f.query ELSE query
BY DEF Request

LEMMA NewAsked ==
  ASSUME SameServer, NEW q, q.ans = None, q.size = size',
         table # "air/logs" => q.query = query', table \in Air => AskedAir(q)'
  PROVE  Asked(q)'
<1>1. ~Answer(q) /\ table' = table
  BY DEF Answer, None, SameServer
<1> QED BY <1>1 DEF Asked

LEMMA AskOrderly ==
  ASSUME IInv, Orderly, calm', NEW f, Ask(f), SameRows, NEW q, q = Request(f, issued + 1), Asked(q)',
         table \in Air => size' >= PageSize,
         Zero(q) \/ (FromPages => Chosen' /\ (table \in Air => AirPager'))
  PROVE  Orderly'
<1>1. net = {} /\ net' = {q} /\ SameServer
  BY Leaves DEF Ask
<1>2. Stays
  BY <1>1, ScreenStays DEF SameServer, SameList, server
<1>3. CASE Zero(q)
  BY <1>1, <1>2, <1>3, ZeroOrderly
<1>4. CASE ~Zero(q)
  BY <1>1, <1>2, <1>4, StaysOrderly
<1> QED BY <1>3, <1>4

\* A click that asks for no page
LEMMA QuietAskOrderly ==
  ASSUME IInv, Orderly, calm', NEW f, Ask(f), SameRows, UNCHANGED <<page, size, total, query>>,
         "do" \in DOMAIN f, f.do # "load", DOMAIN f \cap {"size", "closure", "query", "page"} = {}
  PROVE  Orderly'
<1>1. PICK q : q = Request(f, issued + 1)
  OBVIOUS
<1>2. net = {} /\ net' = {q} /\ SameServer
  BY <1>1, Leaves DEF Ask
<1>3. Stays
  BY <1>2, ScreenStays DEF SameServer, SameList, server
<1>4. "size" \notin DOMAIN f /\ "closure" \notin DOMAIN f /\ "query" \notin DOMAIN f /\ "page" \notin DOMAIN f
  OBVIOUS
<1>5. /\ q.do # "load" /\ q.ans = None /\ q.page = page /\ q.size = size
      /\ q.closure = size /\ q.query = query
  BY <1>1, <1>4, RequestFields, MoreFields, LastFields
<1>6. table \in Air => AskedAir(q)'
  BY <1>5 DEF Orderly, AskedAir, Zero
<1>7. Asked(q)'
  BY <1>2, <1>5, <1>6, NewAsked
<1> QED BY <1>2, <1>3, <1>5, <1>7, QuietOrderly

\* A click that asks for the first page
LEMMA ZeroAskOrderly ==
  ASSUME IInv, Orderly, calm', NEW f, Ask(f), SameRows,
         "do" \notin DOMAIN f, "start" \in DOMAIN f => f.start = 0,
         size' = IF "size" \in DOMAIN f THEN f.size ELSE size,
         query' = (IF "query" \in DOMAIN f THEN f.query ELSE query) \/ table = "air/logs",
         table \in Air => /\ size' >= PageSize
                          /\ "closure" \in DOMAIN f => f.closure >= PageSize
                          /\ ("goto" \in DOMAIN f /\ f.goto = 1) \/ ("goto" \notin DOMAIN f /\ page' = 1)
  PROVE  Orderly'
<1>1. PICK q : q = Request(f, issued + 1)
  OBVIOUS
<1>2. SameServer
  BY Leaves
<1>3. /\ q.do = "load" /\ q.start = 0 /\ q.ans = None /\ q.size = size'
      /\ table # "air/logs" => q.query = query'
      /\ table \in Air => q.closure >= PageSize /\ (q.goto = 1 \/ (q.goto = 0 /\ page' = 1))
  <2>1. /\ q.do = "load" /\ q.start = 0 /\ q.ans = None /\ q.size = size'
        /\ table # "air/logs" => q.query = query'
    BY <1>1, RequestFields, MoreFields, LastFields
  <2>2. q.closure = (IF "closure" \in DOMAIN f THEN f.closure ELSE size)
        /\ q.goto = (IF "goto" \in DOMAIN f THEN f.goto ELSE 0)
    BY <1>1, MoreFields, LastFields
  <2>3. table \in Air => size >= PageSize
    BY DEF Orderly
  <2> QED BY <2>1, <2>2, <2>3
<1>4. table \in Air => AskedAir(q)'
  BY <1>3 DEF AskedAir, Zero
<1>5. Asked(q)' /\ Zero(q)
  BY <1>2, <1>3, <1>4, NewAsked DEF Zero
<1> QED BY <1>1, <1>5, AskOrderly

\* A click that asks for a page of a table of default or berry
LEMMA PageAskOrderly ==
  ASSUME IInv, Orderly, calm', table \notin Air, NEW f, Ask(f), SameRows, UNCHANGED <<size, query>>,
         DOMAIN f \cap {"size", "query"} = {}
  PROVE  Orderly'
<1>1. PICK q : q = Request(f, issued + 1)
  OBVIOUS
<1>2. SameServer /\ net = {}
  BY Leaves DEF Ask
<1>3. Stays
  BY <1>2, ScreenStays DEF SameServer, SameList, server
<1>4. "size" \notin DOMAIN f /\ "query" \notin DOMAIN f
  OBVIOUS
<1>5. Asked(q)'
  <2>1. q.ans = None /\ q.size = size' /\ q.query = query'
    BY <1>1, <1>4, RequestFields, MoreFields, LastFields
  <2> QED BY <1>2, <2>1, NewAsked
<1>6. FromPages => Chosen'
  BY <1>2, <1>3 DEF Orderly, PagedRows, Chosen, Awaited, Stays, SameList
<1> QED BY <1>1, <1>5, <1>6, AskOrderly

\* The pager of air
LEMMA TurnBound ==
  ASSUME IInv, table \in Air, NEW p \in 1 .. Pages, total <= Len(List) + size
  PROVE  p \in Nat /\ p >= 1 /\ (p = 1 \/ (p - 2) * size < Len(List))
<1>1. PICK k \in Nat \ {0}, l \in Nat, n \in Nat : k = size /\ l = Len(List) /\ n = total
  <2>1. size \in Nat \ {0} /\ Len(List) \in Nat /\ total \in Nat
    BY PagerSize, ListType
  <2> QED BY <2>1
<1>2. p \in Nat /\ p >= 1 /\ p <= (n + k - 1) \div k
  <2>1. Pages = (n + k - 1) \div k
    BY <1>1 DEF Pages
  <2>2. (n + k - 1) \div k \in Nat
    BY <1>1
  <2> QED BY <2>1, <2>2
<1>3. CASE p > 1
  <2>1. PICK a \in Nat : p = a + 2
    <3>1. p - 2 \in Nat /\ p = (p - 2) + 2
      BY <1>2, <1>3
    <3> QED BY <3>1
  <2>2. PICK d \in Nat : d = (n + k - 1) \div k
    BY <1>1
  <2>3. d * k <= n + k - 1
    BY <1>1, <2>2
  <2>4. (a + 2) * k <= d * k /\ d * k \in Nat /\ (a + 2) * k \in Nat
    BY <1>1, <1>2, <2>1, <2>2, Pagewise
  <2>5. (a + 2) * k = a * k + 2 * k /\ a * k \in Nat
    BY <1>1
  <2>6. a * k < l
    BY <1>1, <2>3, <2>4, <2>5
  <2>7. p - 2 = a
    BY <2>1
  <2> QED BY <1>1, <1>2, <2>6, <2>7
<1> QED BY <1>2, <1>3

LEMMA NextBeyond ==
  ASSUME IInv, NEW p, IsNextPage(p)
  PROVE  p \in Nat /\ p >= 1 /\ (p - 1) * size >= Len(List)
<1>1. PICK k \in Nat \ {0}, l \in Nat : k = size /\ l = Len(List)
  <2>1. size \in Nat \ {0} /\ Len(List) \in Nat
    BY PagerSize, ListType
  <2> QED BY <2>1
<1>2. PICK d \in Nat : d = (l + k - 1) \div k
  BY <1>1
<1>3. l + k - 1 < d * k + k /\ d * k \in Nat
  BY <1>1, <1>2
<1>4. p = d + 1 /\ p - 1 = d
  BY <1>1, <1>2 DEF IsNextPage
<1> QED BY <1>1, <1>3, <1>4

\* The pager still offers what it did when the page is turned.
LEMMA OffersTurn ==
  ASSUME IInv, Orderly, FromPages, net = {}, Stays, table \in Air, UNCHANGED <<size, total, query>>,
         (HeadNow /\ total <= Len(List) + size) => page' = 1 \/ (page' - 2) * size < Len(List)
  PROVE  HeadNow' => HeadNow /\ Offers'
<1>1. List' = List /\ Tags' = Tags /\ epoch' = epoch /\ table' = table
  BY DEF Stays, SameList
<1>2. HeadNow' <=> HeadNow
  BY <1>1 DEF HeadNow
<1>3. HeadNow => Offers
  BY DEF Orderly, PagedRows, AirPager, Awaited
<1>4. AllNow' <=> AllNow
  BY <1>1 DEF AllNow
<1>5. Ordered(query)' = Ordered(query)
  BY SameOrdered DEF Stays, SameList, Ordered
<1> QED BY <1>1, <1>2, <1>3, <1>4, <1>5 DEF Offers

LEMMA AirPageOrderly ==
  ASSUME IInv, Orderly, calm', table \in Air, NEW f, Ask(f), SameRows, UNCHANGED <<size, total, query>>,
         DOMAIN f \subseteq {"start", "query"}, "start" \in DOMAIN f, f.start \in Nat, page' = f.start + 1,
         table # "air/logs" => ("query" \in DOMAIN f => f.query = query),
         (FromPages /\ HeadNow /\ total <= Len(List) + size) => page' = 1 \/ (page' - 2) * size < Len(List),
         table = "air/logs" => f.start * size >= Len(List)
  PROVE  Orderly'
<1>1. PICK q : q = Request(f, issued + 1)
  OBVIOUS
<1>2. SameServer /\ net = {} /\ net' = {q}
  BY <1>1, Leaves DEF Ask
<1>3. Stays
  BY <1>2, ScreenStays DEF SameServer, SameList, server
<1>4. /\ "do" \notin DOMAIN f /\ "goto" \notin DOMAIN f /\ "then" \notin DOMAIN f /\ "size" \notin DOMAIN f
      /\ "closure" \notin DOMAIN f
  OBVIOUS
<1>5. /\ q.do = "load" /\ q.start = f.start /\ q.goto = 0 /\ q.then = "none" /\ q.ans = None
      /\ q.size = size /\ q.closure = size /\ (table # "air/logs" => q.query = query)
  BY <1>1, <1>4, RequestFields, MoreFields, LastFields
<1>6. AskedAir(q)'
  <2>1. List' = List /\ table' = table
    BY <1>3 DEF Stays, SameList
  <2>2. Zero(q) => page' = 1
    BY <1>5 DEF Zero
  <2>3. size >= PageSize
    BY DEF Orderly
  <2> QED BY <1>5, <2>1, <2>2, <2>3 DEF AskedAir, Zero
<1>7. Asked(q)'
  BY <1>2, <1>5, <1>6, NewAsked
<1>8. ASSUME FromPages PROVE Chosen' /\ AirPager'
  <2>1. Chosen'
    BY <1>2, <1>3, <1>8 DEF Orderly, PagedRows, Chosen, Awaited, Stays, SameList
  <2>2. HeadNow' => HeadNow /\ Offers'
    BY <1>2, <1>3, <1>8, OffersTurn
  <2>3. ASSUME HeadNow', q.start > 0 PROVE (q.start - 1) * size' < Len(List')
    <3>1. page' # 1 /\ page' - 2 = q.start - 1
      BY <1>5, <2>3
    <3>2. HeadNow /\ (total <= Len(List) + size)
      BY <1>2, <1>8, <2>2, <2>3 DEF Orderly, PagedRows, AirPager, Awaited, Offers
    <3> QED BY <1>3, <1>8, <3>1, <3>2 DEF Stays
  <2> QED BY <1>2, <2>1, <2>2, <2>3 DEF AirPager
<1>9. size' >= PageSize
  BY DEF Orderly
<1> QED BY <1>1, <1>7, <1>8, <1>9, AskOrderly

\* A turn of the page that asks for nothing
LEMMA TurnOrderly ==
  ASSUME IInv, Orderly, SameServer, SameRows, net = {}, net' = {}, UNCHANGED <<size, total, query>>,
         table \in Air => ((HeadNow /\ total <= Len(List) + size) => page' = 1 \/ (page' - 2) * size < Len(List))
  PROVE  Orderly'
<1>1. Stays
  BY ScreenStays DEF SameServer, SameList, server
<1>2. table \in Air => size' >= PageSize
  BY DEF Orderly
<1>3. FromPages => Chosen'
  BY <1>1 DEF Orderly, PagedRows, Chosen, Awaited, Stays, SameList
<1>4. FromPages /\ table \in Air => AirPager'
  BY <1>1, OffersTurn DEF AirPager
<1> QED BY <1>1, <1>2, <1>3, <1>4, StaysOrderly

(***************************************************************************)
(* Answers that change a row, or nothing                                   *)
(***************************************************************************)
LEMMA SwapKeeps ==
  ASSUME IInv, NEW g, NEW p, heap' = [heap EXCEPT ![g] = p],
         (g \in DOMAIN heap /\ heap[g] \in ObjectSet) =>
           /\ p.query = heap[g].query /\ p.start = heap[g].start
           /\ p.epoch = heap[g].epoch /\ p.sized = heap[g].sized
  PROVE  SameObjects
<1>1. \A h \in DOMAIN heap : heap[h] \in ObjectSet
  BY DEF IInv, HeapInv
<1> QED BY <1>1 DEF SameObjects

LEMMA WritesKeep ==
  ASSUME IInv
  PROVE  /\ \A ref, s : SetStatus(ref, s) => SameObjects
         /\ \A ref : Mark(ref) => SameObjects
         /\ \A ref, id : Measure("tested", ref, id) \/ Measure("balance", ref, id) => SameObjects
<1>1. ASSUME NEW ref, NEW s, SetStatus(ref, s) PROVE SameObjects
  <2>1. PICK g, o, p : g = ref[1] /\ o = heap[g] /\ p = [o EXCEPT !.status[ref[2]] = s]
    OBVIOUS
  <2>2. heap' = [heap EXCEPT ![g] = p]
    BY <1>1, <2>1 DEF SetStatus
  <2>3. o \in ObjectSet => p.query = o.query /\ p.start = o.start /\ p.epoch = o.epoch /\ p.sized = o.sized
    BY <2>1 DEF ObjectSet
  <2>4. (g \in DOMAIN heap /\ heap[g] \in ObjectSet) =>
          /\ p.query = heap[g].query /\ p.start = heap[g].start
          /\ p.epoch = heap[g].epoch /\ p.sized = heap[g].sized
    BY <2>1, <2>3
  <2> QED BY <2>2, <2>4, SwapKeeps
<1>2. ASSUME NEW ref, Mark(ref) PROVE SameObjects
  <2>1. PICK g, o, p : g = ref[1] /\ o = heap[g] /\ p = [o EXCEPT !.deleted = @ \cup {ref[2]}]
    OBVIOUS
  <2>2. heap' = [heap EXCEPT ![g] = p]
    BY <1>2, <2>1 DEF Mark
  <2>3. o \in ObjectSet => p.query = o.query /\ p.start = o.start /\ p.epoch = o.epoch /\ p.sized = o.sized
    BY <2>1 DEF ObjectSet
  <2>4. (g \in DOMAIN heap /\ heap[g] \in ObjectSet) =>
          /\ p.query = heap[g].query /\ p.start = heap[g].start
          /\ p.epoch = heap[g].epoch /\ p.sized = heap[g].sized
    BY <2>1, <2>3
  <2> QED BY <2>2, <2>4, SwapKeeps
<1>3. ASSUME NEW ref, NEW id, Measure("tested", ref, id) PROVE SameObjects
  <2>1. PICK g, o, p : g = ref[1] /\ o = heap[g] /\ p = [o EXCEPT !.tested[ref[2]] = id]
    OBVIOUS
  <2>2. heap' = [heap EXCEPT ![g] = p]
    BY <1>3, <2>1 DEF Measure
  <2>3. o \in ObjectSet => p.query = o.query /\ p.start = o.start /\ p.epoch = o.epoch /\ p.sized = o.sized
    BY <2>1 DEF ObjectSet
  <2>4. (g \in DOMAIN heap /\ heap[g] \in ObjectSet) =>
          /\ p.query = heap[g].query /\ p.start = heap[g].start
          /\ p.epoch = heap[g].epoch /\ p.sized = heap[g].sized
    BY <2>1, <2>3
  <2> QED BY <2>2, <2>4, SwapKeeps
<1>4. ASSUME NEW ref, NEW id, Measure("balance", ref, id) PROVE SameObjects
  <2>1. PICK g, o, p : g = ref[1] /\ o = heap[g] /\ p = [o EXCEPT !.balance[ref[2]] = id]
    OBVIOUS
  <2>2. heap' = [heap EXCEPT ![g] = p]
    BY <1>4, <2>1 DEF Measure
  <2>3. o \in ObjectSet => p.query = o.query /\ p.start = o.start /\ p.epoch = o.epoch /\ p.sized = o.sized
    BY <2>1 DEF ObjectSet
  <2>4. (g \in DOMAIN heap /\ heap[g] \in ObjectSet) =>
          /\ p.query = heap[g].query /\ p.start = heap[g].start
          /\ p.epoch = heap[g].epoch /\ p.sized = heap[g].sized
    BY <2>1, <2>3
  <2> QED BY <2>2, <2>4, SwapKeeps
<1> QED BY <1>1, <1>2, <1>3, <1>4

\* The last request is done.
LEMMA DoneOrderly ==
  ASSUME IInv, Orderly, Stays, UNCHANGED <<page, size, total, query>>, NEW r \in net, net = {r},
         r.do # "load", Done(r)
  PROVE  Orderly'
<1>1. net' = {}
  BY DEF Done
<1> QED BY <1>1, QuietOrderly

LEMMA CopyOrderly ==
  ASSUME IInv, CalmInv, Orderly, SameObjects, UNCHANGED <<page, size, total, query>>,
         NEW r \in net, r.do # "load", r.cap = cur, CopyOf(r.cap), Done(r)
  PROVE  Orderly'
<1>1. SameList
  BY DEF Done, SameList, server
<1>2. net = {r}
  BY SoleRequest DEF Plain
<1> QED BY <1>1, <1>2, CopyStays, DoneOrderly

LEMMA CapIsCur ==
  ASSUME CalmInv, NEW r \in net, r.do # "load"
  PROVE  r.cap = cur
BY DEF CalmInv, Present

LEMMA ShowCopyOrderly ==
  ASSUME IInv, CalmInv, Orderly, SameObjects, NEW r \in net, r.do # "load", ShowCopy(r)
  PROVE  Orderly'
BY CapIsCur, CopyOrderly DEF ShowCopy

LEMMA ManagedOrderly ==
  ASSUME IInv, CalmInv, Orderly, NEW dos \in SUBSET Edits, Managed(dos)
  PROVE  Orderly'
<1>1. PICK r \in Fine(dos) :
        /\ IF r.do = "delete" THEN Mark(RowAt(r)) ELSE SetStatus(RowAt(r), r.ans.value)
        /\ ShowCopy(r)
  BY NoFailure DEF Managed
<1>2. r \in net /\ r.do # "load"
  BY FineAnswered DEF Edits
<1>3. SameObjects
  BY <1>1, WritesKeep
<1> QED BY <1>1, <1>2, <1>3, ShowCopyOrderly

LEMMA UpdateBalanceOrderly ==
  ASSUME IInv, CalmInv, Orderly, UpdateBalance \/ TestChannel
  PROVE  Orderly'
<1>1. CASE UpdateBalance
  <2>1. PICK r \in Fine({"balance"}) : Measure("balance", RowAt(r), r.ans.value) /\ ShowCopy(r)
    BY <1>1, NoFailure DEF UpdateBalance
  <2>2. r \in net /\ r.do # "load"
    BY FineAnswered
  <2> QED BY <2>1, <2>2, WritesKeep, ShowCopyOrderly
<1>2. CASE TestChannel
  <2>1. PICK r \in Answers({"test"}) : Measure("tested", RowAt(r), r.id) /\ ShowCopy(r)
    BY <1>2, NoFailure DEF TestChannel
  <2>2. r \in net /\ r.do # "load"
    BY AllAnswered
  <2> QED BY <2>1, <2>2, WritesKeep, ShowCopyOrderly
<1> QED BY <1>1, <1>2

\* A measurement of air, or an answer that changes a switch
LEMMA MeasuredOrderly ==
  ASSUME IInv, CalmInv, Orderly, NEW do \in {"test", "balance"}, Measured(do)
  PROVE  Orderly'
<1>1. PICK r \in Fine({do}) :
        /\ heap' = IF do = "test" THEN [heap EXCEPT ![r.ref[1]].tested[r.ref[2]] = r.id]
                   ELSE [heap EXCEPT ![r.ref[1]].balance[r.ref[2]] = r.ans.value]
        /\ UNCHANGED <<arrays, cur, page, size, total, query>>
        /\ Done(r)
  BY NoFailure DEF Measured
<1>2. r \in net /\ r.do # "load"
  BY FineAnswered
<1>3. Measure("tested", r.ref, r.id) \/ Measure("balance", r.ref, r.ans.value)
  BY <1>1 DEF Measure
<1>4. SameObjects /\ List' = List /\ FromPages' = FromPages /\ SameList
  BY <1>1, <1>3, WritesKeep DEF List, FromPages, SameList, Done, server
<1>5. Stays
  BY <1>4, TagsStay DEF Stays, SameList
<1>6. net = {r}
  BY <1>2, SoleRequest DEF Plain
<1> QED BY <1>1, <1>2, <1>5, <1>6, DoneOrderly

LEMMA StillOrderly ==
  ASSUME IInv, CalmInv, Orderly, SameRows, UNCHANGED <<page, size, total, query>>,
         NEW r \in net, r.do # "load", Done(r)
  PROVE  Orderly'
<1>1. SameList /\ net = {r}
  BY SoleRequest DEF Done, SameList, server, Plain
<1> QED BY <1>1, ScreenStays, DoneOrderly

\* Rows that a search brought, or that were sorted
LEMMA FoundOrderly ==
  ASSUME IInv, CalmInv, Orderly, NEW r \in net, r.do = "search", SearchArrives(r)
  PROVE  Orderly'
<1>1. net = {r} /\ net' = {} /\ table' = table /\ size' = size
  BY SoleRequest DEF SearchArrives, Done, Plain
<1>2. ~FromPages'
  <2>1. PICK rs : rs = Refs(r)
    OBVIOUS
  <2>2. NewArray(rs, "found")
    BY <2>1 DEF SearchArrives
  <2> QED BY <2>2, NewList DEF FromPages
<1> QED BY <1>1, <1>2, NoPages DEF Orderly

LEMMA SortOrderly ==
  ASSUME IInv, Orderly, calm', NEW key, SortRows(key)
  PROVE  Orderly'
<1>1. PICK rs : NewArray(rs, "sorted")
  BY DEF SortRows
<1>2. net' = {} /\ table' = table /\ size' = size
  BY DEF SortRows, NoRequest, wire
<1>3. ~FromPages'
  BY <1>1, NewList DEF FromPages
<1> QED BY <1>2, <1>3, NoPages DEF Orderly

\* A record of air is taken out of the rows after its deletion.
LEMMA RemoveOrderly ==
  ASSUME IInv, IInv', CalmInv, Orderly, table \in Air, NEW r \in net, Answer(r), RemoveRecord(r)
  PROVE  Orderly'
<1>1. r.do = "delete" /\ heap' = heap /\ Done(r) /\ UNCHANGED <<table, rows, epoch, size, query>>
  BY DEF RemoveRecord, Done, server
<1>2. r.cap = cur /\ r.ref[2] = r.id /\ (\E j \in DOMAIN List : List[j] = r.ref) /\ net = {r} /\ net' = {}
  <2>1. table \notin Berry
    BY DEF Air, Berry
  <2>2. r.do \in Edits
    BY <1>1 DEF Edits
  <2> QED BY <1>1, <2>1, <2>2, EditedRow DEF Done
<1>3. PICK rs : rs = List
  OBVIOUS
<1>4. PICK new, src : new = Without(rs, r.id) /\ src = arrays[cur].src
  OBVIOUS
<1>5. List' = new /\ (FromPages' <=> FromPages)
  <2>1. NewArray(new, src)
    BY <1>2, <1>3, <1>4 DEF RemoveRecord, List
  <2> QED BY <1>4, <2>1, NewList DEF FromPages
<1>6. PICK k \in 1 .. Len(rs) :
        /\ DOMAIN new = 1 .. (Len(rs) - 1)
        /\ \A i \in DOMAIN new : new[i] = IF i < k THEN rs[i] ELSE rs[i + 1]
  <2> DEFINE T == Nat \X Ids
  <2>1. rs \in Seq(T)
    BY <1>3, ListType
  <2>2. \E j \in DOMAIN rs : IdOf(rs[j]) = r.id
    BY <1>2, <1>3 DEF IdOf
  <2> HIDE DEF T
  <2>3. new = Without(rs, r.id)
    BY <1>4
  <2>4. \E k \in 1 .. Len(rs) : TakenOut(new, rs, r.id, k)
    BY <2>1, <2>2, <2>3, WithoutAt, Zenon
  <2> QED BY <2>4 DEF TakenOut
<1>7. PICK n \in Nat : n = Len(rs)
  BY <1>3, ListType
<1>8. PICK at : at = [i \in 1 .. (n - 1) |-> IF i < k THEN i ELSE i + 1]
  OBVIOUS
<1>9. PICK t, u : t = Tags /\ u = Tags'
  OBVIOUS
<1>10. DOMAIN t = 1 .. n /\ DOMAIN u = 1 .. (n - 1)
  BY <1>3, <1>5, <1>6, <1>7, <1>9, TagsType DEF Tags
<1>11. \A i \in 1 .. (n - 1) : at[i] \in 1 .. n /\ u[i] = t[at[i]]
  <2> TAKE i \in 1 .. (n - 1)
  <2>1. at[i] = IF i < k THEN i ELSE i + 1
    BY <1>8
  <2>2. PICK m : m = at[i]
    OBVIOUS
  <2>3. m \in 1 .. n
    BY <1>6, <1>7, <2>1, <2>2
  <2>4. new[i] = rs[m]
    BY <1>6, <1>7, <2>1, <2>2
  <2>5. PICK ref : ref = rs[m]
    OBVIOUS
  <2>6. u[i] = TagOf(ref)' /\ t[m] = TagOf(ref)
    BY <1>3, <1>5, <1>9, <1>10, <2>3, <2>4, <2>5 DEF Tags
  <2>7. TagOf(ref)' = TagOf(ref)
    BY <1>1, SameOrdered DEF TagOf
  <2> QED BY <2>2, <2>3, <2>6, <2>7
<1>12. \A i \in DOMAIN u : \A j \in 1 .. i : at[j] \in 1 .. at[i]
  <2> TAKE i \in DOMAIN u
  <2> TAKE j \in 1 .. i
  <2>1. i \in 1 .. (n - 1) /\ j \in 1 .. (n - 1) /\ j <= i
    BY <1>10
  <2>2. at[i] = (IF i < k THEN i ELSE i + 1) /\ at[j] = (IF j < k THEN j ELSE j + 1)
    BY <1>8, <2>1
  <2>3. k \in Nat
    BY <1>7
  <2> QED BY <2>1, <2>2, <2>3
<1>13. CASE FromPages
  <2>1. \A i \in DOMAIN t : t[i].epoch # epoch
    BY <1>1, <1>9, <1>13 DEF Orderly, Asked
  <2>2. \A i \in DOMAIN u : u[i].epoch # epoch'
    BY <1>1, <1>10, <1>11, <2>1
  <2>3. Chosen'
    <3>1. Chosen /\ ~Awaited
      BY <1>1, <1>2, <1>13 DEF Orderly, PagedRows, Awaited, Zero
    <3>2. table = "air/logs" \/ \A i \in DOMAIN t : t[i].query = query
      BY <1>9, <3>1 DEF Chosen
    <3> QED BY <1>1, <1>9, <1>10, <1>11, <3>2 DEF Chosen
  <2>4. \A i \in DOMAIN u : at[i] \in DOMAIN t /\ u[i].start = t[at[i]].start /\ u[i].epoch = t[at[i]].epoch
    BY <1>10, <1>11
  <2>5. epoch <= epoch' /\ size' >= PageSize /\ (\A q \in net' : Asked(q)')
    BY <1>1, <1>2 DEF IInv, ServerInv, Orderly
  <2> QED BY <1>1, <1>5, <1>9, <1>12, <2>2, <2>3, <2>4, <2>5, OldOrderly
<1>14. CASE ~FromPages
  BY <1>1, <1>2, <1>5, <1>14, NoPages DEF Orderly
<1> QED BY <1>13, <1>14

\* The load that follows a sweep, a deletion or a change
LEMMA FollowOrderly ==
  ASSUME IInv, CalmInv, Orderly, calm', SameRows, UNCHANGED <<page, size, total, query>>,
         NEW r \in net, Answer(r), NEW then, ThenLoad(r, then),
         IF table \in Air THEN r.do = "sweep" ELSE r.do # "load"
  PROVE  Orderly'
<1>1. net = {r} /\ SameServer /\ r \in RequestSet /\ ~Disturbs(r)
  BY SoleRequest, HandlersLeave DEF Plain, IInv, NetInv, ThenLoad, Next2
<1>2. Stays
  BY <1>1, ScreenStays DEF SameServer, SameList, server
<1> DEFINE f == [start |-> r.page - 1, id |-> r.id, value |-> r.value, then |-> then, cap |-> r.cap,
                 page |-> r.page, size |-> r.size, closure |-> r.closure, query |-> r.query]
<1>3. /\ "start" \in DOMAIN f /\ "size" \in DOMAIN f /\ "closure" \in DOMAIN f /\ "query" \in DOMAIN f
      /\ "do" \notin DOMAIN f /\ "goto" \notin DOMAIN f
      /\ f.start = r.page - 1 /\ f.size = r.size /\ f.closure = r.closure /\ f.query = r.query
  OBVIOUS
<1>4. PICK q : q = Request(f, r.n)
  OBVIOUS
<1>5. net' = {q}
  BY <1>1, <1>4 DEF ThenLoad, Next2
<1> HIDE DEF f
<1>6. /\ q.do = "load" /\ q.start = r.page - 1 /\ q.goto = 0 /\ q.ans = None
      /\ q.size = r.size /\ q.closure = r.closure /\ q.query = r.query
  BY <1>3, <1>4, RequestFields, MoreFields, LastFields
<1>7. Asked(r)
  BY DEF Orderly
<1>8. CASE table \in Air
  <2>1. r.page = 1 /\ page = 1 /\ r.closure = size
    <3>1. r.page \in Nat \ {0} /\ r.page = page /\ r.closure = size
      BY <1>1, <1>7, <1>8 DEF Asked, AskedAir, RequestSet, Positive
    <3>2. ~(r.page > 1)
      BY <1>1, <1>8 DEF Disturbs, Answer
    <3> QED BY <3>1, <3>2
  <2>2. Zero(q) /\ size' >= PageSize
    BY <1>6, <1>8, <2>1 DEF Zero, Orderly
  <2>3. AskedAir(q)'
    BY <1>6, <2>1, <2>2 DEF AskedAir, Zero
  <2>4. q.size = size' /\ (table # "air/logs" => q.query = query')
    BY <1>6, <1>7 DEF Asked
  <2>5. Asked(q)'
    BY <1>1, <1>6, <2>3, <2>4, NewAsked
  <2> QED BY <1>2, <1>5, <2>2, <2>5, ZeroOrderly
<1>9. CASE table \notin Air
  <2>1. q.size = size' /\ (table # "air/logs" => q.query = query')
    BY <1>6, <1>7 DEF Asked
  <2>2. Asked(q)'
    BY <1>1, <1>6, <1>9, <2>1, NewAsked
  <2>3. FromPages => Chosen'
    <3>1. ~Awaited
      BY <1>1, <1>9 DEF Awaited, Zero
    <3> QED BY <1>2, <3>1 DEF Orderly, PagedRows, Chosen, Stays, SameList
  <2> QED BY <1>2, <1>5, <1>9, <2>2, <2>3, StaysOrderly
<1> QED BY <1>8, <1>9

(***************************************************************************)
(* A page arrives                                                          *)
(***************************************************************************)
\* the rows that a page may be put behind
Behind(r) == IF r.start = 0 THEN <<>> ELSE Tags
Arrived(r, t, n, u, m, f) ==
  /\ PageAdded(t, n, u, m, f, r.start, r.query, epoch, Len(Ordered(r.query)))
  /\ Len(List') = m + f
  /\ m <= r.start * r.size
  /\ r.start = 0 => n = 0
  /\ r.start # 0 => n = Len(List) /\ m + f >= n /\ (m < n => m = r.start * r.size)
  /\ \A j \in 1 .. f : u[m + j].found /\ u[m + j].sized = (r.closure = PageSize /\ r.page <= r.start + 1)
  /\ \A i \in 1 .. m : t[i].query = r.query =>
       /\ t[i].of = Len(Ordered(r.query))
       /\ (f > 0 /\ t[i].found) => t[i].place # r.start * PageSize + 1

LEMMA LoadedTags ==
  ASSUME IInv, IInv', Distinct(rows), SameServer, NEW r \in net, Asked(r), Answer(r), r.do = "load",
         ~Disturbs(r), r.start = 0 \/ r.cap = cur,
         heap' = Append(heap, Objects(r)), SpliceRows(r) \/ (table \in Pushing /\ PushRows(r))
  PROVE  /\ \E n, m, f : Arrived(r, Behind(r), n, Tags', m, f)
         /\ FromPages' <=> (r.start = 0 \/ FromPages)
<1>1. r \in RequestSet /\ RequestInv(r) /\ Lists(r) /\ r.start \in Nat /\ r.size \in Nat /\ r.query \in Queries
  BY DEF IInv, NetInv, RequestSet, Lists, Answer, Positive
<1>2. PICK m, new :
        /\ new = List' /\ Followed(r, m, new)
        /\ m \in Nat /\ m <= r.start * r.size
        /\ \A i \in 1 .. m : Id(i) \notin Range(r.ans.rows)
        /\ r.start # 0 => m + Len(r.ans.rows) >= Len(List)
        /\ (r.start # 0 /\ m < Len(List)) => m = r.start * r.size
        /\ arrays'[cur'].src = IF r.start = 0 THEN "paged" ELSE arrays[cur].src
  BY <1>1, LoadShape
<1>3. FromPages' <=> (r.start = 0 \/ FromPages)
  BY <1>2 DEF FromPages
<1>4. PICK l \in Nat : l = Len(List)
  BY ListType
<1>5. PICK t, u : t = Tags /\ u = Tags'
  OBVIOUS
<1>6. PICK s : s = Ordered(r.query)
  OBVIOUS
<1>7. s \in Seq(Ids) /\ Len(s) \in Nat /\ Distinct(s)
  BY <1>6, OrderedType, OrderedDistinct DEF IInv
<1>8. PICK p : p = r.ans.rows
  OBVIOUS
<1>9. p = PageOf(s, r.start) /\ r.ans.epoch = epoch
  BY <1>6, <1>8 DEF Asked
<1>10. /\ Len(p) \in Nat /\ DOMAIN p = 1 .. Len(p) /\ Full(Len(p), r.start, Len(s))
       /\ \A j \in 1 .. Len(p) : r.start * PageSize + j \in DOMAIN s /\ p[j] = s[r.start * PageSize + j]
  <2>1. PICK T, start : T = Ids /\ start = r.start
    OBVIOUS
  <2>2. s \in Seq(T)
    BY <1>7, <2>1
  <2>4. start \in Nat
    BY <1>1, <2>1
  <2>5. p = PageOf(s, start)
    BY <1>9, <2>1
  <2>3. /\ Len(p) \in Nat /\ DOMAIN p = 1 .. Len(p) /\ Full(Len(p), start, Len(s))
        /\ \A j \in 1 .. Len(p) : start * PageSize + j \in DOMAIN s /\ p[j] = s[start * PageSize + j]
    BY <2>2, <2>4, <2>5, PageRows, TableAssumption
  <2> QED BY <2>1, <2>3
<1>11. PICK f \in Nat : f = Len(p)
  BY <1>10
<1>12. /\ DOMAIN new = 1 .. (m + f) /\ m <= l
       /\ \A i \in DOMAIN new : new[i] = IF i <= m THEN List[i] ELSE <<Len(heap) + 1, p[i - m]>>
  BY <1>2, <1>4, <1>8, <1>11 DEF Followed
<1>13. DOMAIN t = 1 .. l /\ DOMAIN u = 1 .. (m + f) /\ Len(List') = m + f
  <2>1. DOMAIN u = DOMAIN new
    BY <1>2, <1>5 DEF Tags
  <2>2. DOMAIN u = 1 .. Len(List') /\ Len(List') \in Nat
    BY <1>5, NewTags
  <2>3. 1 .. Len(List') = 1 .. (m + f)
    BY <1>12, <2>1, <2>2
  <2>4. Len(List') = m + f
    BY <1>2, <2>2, <2>3
  <2> QED BY <1>4, <1>5, <1>12, <2>1, <2>4, TagsType
<1>14. /\ heap \in Seq(ObjectSet) /\ Len(heap) \in Nat /\ heap'[Len(heap) + 1] = Objects(r)
       /\ \A g \in DOMAIN heap : heap'[g] = heap[g]
  BY ListType
<1>15. \A q : Ordered(q)' = Ordered(q)
  BY SameOrdered DEF SameServer, server
<1>16. ASSUME NEW i \in 1 .. m PROVE u[i] = t[i] /\ t[i] = TagOf(List[i])
  <2>1. i \in 1 .. l /\ i \in DOMAIN new /\ i <= m
    BY <1>2, <1>11, <1>12
  <2>2. PICK ref : ref = List[i]
    OBVIOUS
  <2>3. t[i] = TagOf(ref) /\ ref[1] \in DOMAIN heap
    BY <1>5, <1>13, <2>1, <2>2, TagsType
  <2>4. new[i] = ref
    BY <1>12, <2>1, <2>2
  <2>5. u[i] = TagOf(ref)'
    BY <1>2, <1>5, <2>1, <2>4 DEF Tags
  <2>6. TagOf(ref)' = TagOf(ref)
    BY <1>14, <1>15, <2>3 DEF TagOf
  <2> QED BY <2>2, <2>3, <2>5, <2>6
<1>17. ASSUME NEW j \in 1 .. f
       PROVE  /\ u[m + j].start = r.start /\ u[m + j].epoch = epoch /\ u[m + j].query = r.query
              /\ u[m + j].place = r.start * PageSize + j /\ u[m + j].of = Len(s)
              /\ u[m + j].found
              /\ u[m + j].sized = (r.closure = PageSize /\ r.page <= r.start + 1)
  <2>1. m + j \in DOMAIN new /\ ~(m + j <= m) /\ m + j - m = j
    BY <1>2, <1>11, <1>12
  <2>2. PICK ref : ref = <<Len(heap) + 1, p[j]>>
    OBVIOUS
  <2>3. new[m + j] = ref
    <3>1. PICK k : k = m + j
      OBVIOUS
    <3>2. k \in DOMAIN new /\ ~(k <= m) /\ k - m = j
      BY <1>2, <1>11, <2>1, <3>1
    <3>3. new[k] = <<Len(heap) + 1, p[j]>>
      BY <1>12, <3>2
    <3> QED BY <2>2, <3>1, <3>3
  <2>4. u[m + j] = TagOf(ref)'
    BY <1>2, <1>5, <2>1, <2>3 DEF Tags
  <2>5. /\ heap'[ref[1]].query = r.query /\ heap'[ref[1]].start = r.start /\ heap'[ref[1]].epoch = epoch
        /\ heap'[ref[1]].sized = (r.closure = PageSize /\ r.page <= r.start + 1)
    BY <1>9, <1>14, <2>2 DEF Objects
  <2>6. ref[2] = s[r.start * PageSize + j] /\ r.start * PageSize + j \in DOMAIN s
    BY <1>10, <1>11, <2>2
  <2>7. Place(s, ref[2]) = r.start * PageSize + j /\ ref[2] \in Range(s)
    BY <1>7, <2>6, PlaceOf
  <2>9. TagOf(ref)'.query = r.query /\ TagOf(ref)'.start = r.start /\ TagOf(ref)'.epoch = epoch
        /\ TagOf(ref)'.sized = (r.closure = PageSize /\ r.page <= r.start + 1)
    BY <2>5 DEF TagOf
  <2>10. PICK o : o = heap'[ref[1]]
    OBVIOUS
  <2>11. Ordered(o.query)' = s
    BY <1>6, <1>15, <2>5, <2>10
  <2>12. TagOf(ref)'.place = Place(s, ref[2]) /\ TagOf(ref)'.of = Len(s)
         /\ TagOf(ref)'.found = (ref[2] \in Range(s))
    BY <2>10, <2>11 DEF TagOf
  <2> QED BY <2>4, <2>7, <2>9, <2>12
<1>18. ASSUME NEW i \in 1 .. m, t[i].query = r.query
       PROVE  /\ t[i].of = Len(s)
              /\ (f > 0 /\ t[i].found) => t[i].place # r.start * PageSize + 1
  <2>1. PICK ref : ref = List[i]
    OBVIOUS
  <2>2. t[i] = TagOf(ref)
    BY <1>16, <2>1
  <2>3. t[i].of = Len(s) /\ t[i].place = Place(s, ref[2]) /\ t[i].found = (ref[2] \in Range(s))
    BY <1>6, <1>18, <2>2 DEF TagOf
  <2>4. ASSUME f > 0, t[i].found, t[i].place = r.start * PageSize + 1 PROVE FALSE
    <3>1. s[t[i].place] = ref[2]
      BY <2>3, <2>4, FoundAt
    <3>2. 1 \in 1 .. Len(p)
      BY <1>11, <2>4
    <3>3. p[1] = ref[2] /\ 1 \in DOMAIN p
      BY <1>10, <2>4, <3>1, <3>2
    <3>4. ref[2] \in Range(p)
      BY <3>3 DEF Range
    <3> QED BY <1>2, <1>8, <2>1, <3>4 DEF Id, IdOf
  <2> QED BY <2>3, <2>4
<1>19. CASE r.start = 0
  <2>1. m = 0
    <3>1. r.start * r.size = 0
      BY <1>1, <1>19
    <3> QED BY <1>2, <3>1
  <2>2. Behind(r) = <<>> /\ DOMAIN <<>> = 1 .. 0 /\ 1 .. m = {}
    BY <1>19, <2>1 DEF Behind
  <2>3. PageAdded(<<>>, 0, u, m, f, r.start, r.query, epoch, Len(s))
    BY <1>1, <1>2, <1>7, <1>10, <1>11, <1>13, <1>17, <1>19, <2>1, <2>2 DEF PageAdded, IInv, ServerInv
  <2>4. Arrived(r, <<>>, 0, u, m, f)
    BY <1>2, <1>6, <1>13, <1>17, <1>19, <2>2, <2>3 DEF Arrived
  <2> QED BY <1>3, <1>5, <2>2, <2>4
<1>20. CASE r.start # 0
  <2>1. Behind(r) = t
    BY <1>5, <1>20 DEF Behind
  <2>2. PageAdded(t, l, u, m, f, r.start, r.query, epoch, Len(s))
    BY <1>1, <1>2, <1>7, <1>10, <1>11, <1>12, <1>13, <1>16, <1>17, <1>20 DEF PageAdded, IInv, ServerInv
  <2>3. /\ l = Len(List) /\ m + f >= l /\ (m < l => m = r.start * r.size) /\ m <= r.start * r.size
    <3>2. Len(r.ans.rows) = f /\ Len(List) = l
      BY <1>4, <1>8, <1>11
    <3>3. m <= r.start * r.size
      BY <1>2
    <3>4. m + Len(r.ans.rows) >= Len(List)
      BY <1>2, <1>20
    <3>5. m < Len(List) => m = r.start * r.size
      BY <1>2, <1>20
    <3> QED BY <3>2, <3>3, <3>4, <3>5
  <2>4. PageAdded(t, l, u, m, f, r.start, r.query, epoch, Len(Ordered(r.query)))
    BY <1>6, <2>2
  <2>5. \A i \in 1 .. m : t[i].query = r.query =>
          /\ t[i].of = Len(Ordered(r.query))
          /\ (f > 0 /\ t[i].found) => t[i].place # r.start * PageSize + 1
    BY <1>6, <1>18
  <2>6. \A j \in 1 .. f : u[m + j].found /\ u[m + j].sized = (r.closure = PageSize /\ r.page <= r.start + 1)
    BY <1>17
  <2>7. Arrived(r, t, l, u, m, f)
    BY <1>13, <1>20, <2>3, <2>4, <2>5, <2>6 DEF Arrived
  <2> QED BY <1>3, <1>5, <2>1, <2>7
<1> QED BY <1>19, <1>20

\* Rows in order, the last of which is not the last of the list, are full pages.
LEMMA FullPages ==
  ASSUME NEW t, NEW n \in Nat \ {0}, DOMAIN t = 1 .. n, NEW e, Placed(t, e), Headed(t),
         \A i \in 1 .. n : t[i].epoch = e /\ t[i].query = t[n].query, t[n].place = n, n < t[n].of
  PROVE  n = (t[n].start + 1) * PageSize
<1>1. n \in DOMAIN t /\ Alike(t, e, n) /\ n + 1 \notin DOMAIN t
  BY DEF Alike
<1> QED BY <1>1 DEF Placed, GoesOn

LEMMA ArrivedPlaced ==
  ASSUME IInv, CalmInv, Orderly, NEW r \in net, r.do = "load", r.start = 0 \/ FromPages,
         NEW n, NEW u, NEW m, NEW f, Arrived(r, Behind(r), n, u, m, f)
  PROVE  /\ Placed(u, epoch)
         /\ \A i \in DOMAIN u : u[i].epoch = epoch => u[i].found
         /\ IF table \in Air THEN InOrder(u, epoch) ELSE NotBehind(u, epoch)
<1>1. PICK t, e, q, s, of : t = Behind(r) /\ e = epoch /\ q = r.query /\ s = r.start /\ of = Len(Ordered(r.query))
  OBVIOUS
<1>2. /\ PageAdded(t, n, u, m, f, s, q, e, of)
      /\ n \in Nat /\ m \in Nat /\ f \in Nat /\ s \in Nat /\ m <= n /\ DOMAIN t = 1 .. n
      /\ s = 0 => n = 0
      /\ s # 0 => n = Len(List) /\ m + f >= n /\ (m < n => m = s * r.size)
      /\ m <= s * r.size
  BY <1>1 DEF Arrived, PageAdded
<1>3. /\ Placed(t, e)
      /\ \A i \in DOMAIN t : t[i].epoch = e => t[i].found
      /\ IF table \in Air THEN InOrder(t, e) ELSE NotBehind(t, e)
  <2>1. CASE s = 0
    <3>1. DOMAIN t = {}
      BY <1>2, <2>1
    <3> QED BY <3>1 DEF Placed, InOrder, NotBehind, Headed
  <2>2. CASE s # 0
    <3>1. t = Tags /\ FromPages
      BY <1>1, <2>2 DEF Behind
    <3> QED BY <1>1, <3>1 DEF Orderly, PagedRows
  <2> QED BY <2>1, <2>2
<1>4. \A i \in DOMAIN u : u[i].epoch = e => u[i].found
  <2> SUFFICES ASSUME NEW i \in DOMAIN u, u[i].epoch = e PROVE u[i].found
    OBVIOUS
  <2>1. CASE i <= m
    BY <1>2, <1>3, <2>1, AddedRow
  <2>2. CASE ~(i <= m)
    <3>1. \E j \in 1 .. f : i = m + j
      BY <1>2, <2>2, AddedRow
    <3> QED BY <3>1 DEF Arrived
  <2> QED BY <2>1, <2>2
<1>5. r.size = size /\ size \in Nat /\ PageSize \in Nat \ {0}
  BY PagerSize, TableAssumption DEF Orderly, Asked
<1>6. PICK k \in Nat : k = size
  BY <1>5
<1>7. CASE table \notin Air
  <2>1. k = PageSize
    BY <1>6, <1>7, PagerSize
  <2>2. m <= s * PageSize
    BY <1>2, <1>5, <1>6, <2>1
  <2>3. m < n => m = s * PageSize
    BY <1>2, <1>5, <1>6, <2>1
  <2>4. Placed(u, e)
    BY <1>2, <1>3, <2>3, AddedPlaced
  <2>5. NotBehind(u, e)
    BY <1>2, <1>3, <1>7, <2>2, AddedNotBehind
  <2> QED BY <1>1, <1>4, <1>7, <2>4, <2>5
<1>8. CASE table \in Air
  <2>1. k >= PageSize /\ InOrder(t, e)
    BY <1>3, <1>6, <1>8 DEF Orderly
  <2>2. ASSUME m < n PROVE m = s * k /\ f > 0 /\ (\A i \in 1 .. n : t[i].query = q)
    <3>1. s # 0 /\ m = s * k /\ f > 0
      BY <1>2, <1>5, <1>6, <2>2
    <3>2. FromPages /\ t = Tags /\ n = Len(List)
      BY <1>1, <1>2, <3>1 DEF Behind
    <3>3. ~Plain(r) /\ s > 0
      BY <1>1, <1>2, <3>1 DEF Plain
    <3>4. net = {r} /\ ~Awaited
      BY <1>1, <3>1, <3>3, SoleRequest DEF Awaited, Zero
    <3>5. table # "air/logs"
      <4>1. table = "air/logs" => s * size >= Len(List)
        BY <1>1, <1>8, <3>3 DEF Orderly, Asked, AskedAir
      <4> QED BY <1>2, <1>6, <2>2, <3>1, <3>2, <4>1
    <3>6. r.query = query /\ \A i \in DOMAIN Tags : Tags[i].query = query
      BY <3>2, <3>4, <3>5 DEF Orderly, PagedRows, Chosen, Asked
    <3> QED BY <1>1, <1>2, <3>1, <3>2, <3>6
  <2>3. ASSUME s > 0, Headed(t), t[1].epoch = e PROVE (s - 1) * k < n
    <3>1. FromPages /\ t = Tags /\ n = Len(List)
      BY <1>1, <1>2, <2>3 DEF Behind
    <3>2. AirPager /\ HeadNow
      BY <1>1, <1>8, <2>3, <3>1 DEF Orderly, PagedRows, HeadNow
    <3> QED BY <1>1, <1>6, <2>3, <3>1, <3>2 DEF AirPager
  <2>4. \A i \in 1 .. m : (t[i].epoch = e /\ t[i].query = q) => t[i].of = of
    BY <1>1 DEF Arrived
  <2>5. \A i \in 1 .. m : (f > 0 /\ t[i].epoch = e /\ t[i].query = q) => t[i].place # s * PageSize + 1
    <3>1. \A i \in 1 .. m : t[i].epoch = e => t[i].found
      BY <1>2, <1>3
    <3> QED BY <1>1, <3>1 DEF Arrived
  <2>6. /\ (m < n /\ m > 0 /\ Headed(t) /\ Alike(t, e, m)) => m = s * PageSize
        /\ InOrder(u, e)
    BY <1>2, <1>3, <2>1, <2>2, <2>3, <2>4, <2>5, AddedAir
  <2>7. Placed(u, e)
    BY <1>2, <1>3, <2>6, AddedPlaced
  <2> QED BY <1>1, <1>4, <1>8, <2>6, <2>7
<1> QED BY <1>7, <1>8

\* After the last load the rows are of the query that is chosen.
LEMMA ArrivedChosen ==
  ASSUME IInv, Orderly, NEW r \in net, net = {r}, r.do = "load", r.start = 0 \/ FromPages, table # "air/logs",
         NEW n, NEW u, NEW m, NEW f, Arrived(r, Behind(r), n, u, m, f)
  PROVE  r.query = query /\ \A i \in DOMAIN u : u[i].query = query
<1>1. PICK t, e, q, s, of : t = Behind(r) /\ e = epoch /\ q = r.query /\ s = r.start /\ of = Len(Ordered(r.query))
  OBVIOUS
<1>2. /\ PageAdded(t, n, u, m, f, s, q, e, of)
      /\ n \in Nat /\ m \in Nat /\ s \in Nat /\ m <= n /\ DOMAIN t = 1 .. n
      /\ s = 0 => n = 0
  BY <1>1 DEF Arrived, PageAdded
<1>3. q = query
  BY <1>1 DEF Orderly, Asked
<1>4. ASSUME NEW i \in DOMAIN u PROVE u[i].query = query
  <2>1. CASE i <= m
    <3>1. i \in DOMAIN t /\ u[i] = t[i]
      BY <1>2, <2>1, AddedRow
    <3>2. s # 0
      BY <1>2, <3>1
    <3>3. t = Tags /\ FromPages /\ ~Awaited
      BY <1>1, <3>2 DEF Behind, Awaited, Zero
    <3>4. Chosen
      BY <3>3 DEF Orderly, PagedRows
    <3> QED BY <3>1, <3>3, <3>4 DEF Chosen
  <2>2. CASE ~(i <= m)
    BY <1>2, <1>3, <2>2, AddedRow
  <2> QED BY <2>1, <2>2
<1> QED BY <1>1, <1>3, <1>4

\* ... and if the last of them is not the last of the list, they are full pages.
FillPages(l, k) == l = (k + 1) * PageSize
LEMMA ArrivedFull ==
  ASSUME IInv, Orderly, NEW r \in net, net = {r}, r.do = "load", r.start = 0 \/ FromPages, table # "air/logs",
         NEW n, NEW u, NEW m, NEW f, Arrived(r, Behind(r), n, u, m, f),
         Placed(u, epoch), InOrder(u, epoch), Headed(u), \A i \in DOMAIN u : u[i].epoch = epoch,
         NEW l, l = m + f, l < Len(Ordered(query))
  PROVE  /\ l \in Nat /\ l >= 1
         /\ \E k \in Nat : FillPages(l, k) /\ (f > 0 => k = r.start)
<1>1. PICK t, e, q, s, of : t = Behind(r) /\ e = epoch /\ q = r.query /\ s = r.start /\ of = Len(Ordered(r.query))
  OBVIOUS
<1>2. /\ PageAdded(t, n, u, m, f, s, q, e, of)
      /\ m \in Nat /\ f \in Nat /\ DOMAIN u = 1 .. (m + f)
      /\ \A i \in 1 .. m : t[i].query = q => t[i].of = of
  BY <1>1 DEF Arrived, PageAdded
<1>3. q = query /\ \A i \in DOMAIN u : u[i].query = q
  BY <1>1, ArrivedChosen
<1>5. l \in Nat \ {0} /\ DOMAIN u = 1 .. l
  <2>1. 1 \in 1 .. (m + f)
    BY <1>2 DEF Headed
  <2> QED BY <1>2, <2>1
<1>6. l \in DOMAIN u /\ Alike(u, e, l)
  <2>1. \A j \in 1 .. l : u[j].epoch = e /\ u[j].query = u[l].query
    BY <1>1, <1>3, <1>5
  <2> QED BY <1>5, <2>1 DEF Alike
<1>7. u[l].place = l /\ u[l].start \in Nat
  BY <1>1, <1>6 DEF InOrder, Placed
<1>8. u[l].of = of /\ (f > 0 => u[l].start = s)
  <2>1. CASE l <= m
    <3>1. l \in 1 .. m /\ u[l] = t[l] /\ f = 0
      <4>1. l \in 1 .. m /\ f = 0
        BY <1>2, <1>5, <2>1
      <4> QED BY <1>2, <1>6, <2>1, <4>1, AddedRow
    <3>2. t[l].query = q
      BY <1>3, <1>6, <3>1
    <3> QED BY <1>2, <3>1, <3>2
  <2>2. CASE ~(l <= m)
    BY <1>2, <1>6, <2>2, AddedRow
  <2> QED BY <2>1, <2>2
<1>9. l < u[l].of
  BY <1>1, <1>3, <1>8
<1>10. l = (u[l].start + 1) * PageSize
  <2>1. \A i \in 1 .. l : u[i].epoch = e /\ u[i].query = u[l].query
    BY <1>1, <1>3, <1>5
  <2> QED BY <1>1, <1>5, <1>7, <1>9, <2>1, FullPages
<1>11. FillPages(l, u[l].start)
  BY <1>10 DEF FillPages
<1> QED BY <1>1, <1>5, <1>7, <1>8, <1>11

LEMMA CountBounds ==
  ASSUME NEW k \in Nat, NEW p \in Nat, NEW z \in Nat, NEW c \in Nat, NEW l \in Nat, NEW tot,
         k >= 1, z >= k, c >= 1, l >= c => c <= z,
         \/ tot = IF l >= c THEN l + c ELSE l
         \/ tot = IF l >= p * k THEN l + 1 ELSE l
         \/ tot = l + k
  PROVE  tot \in Nat /\ tot <= l + z
OBVIOUS

\* The pager of air after the last load
LEMMA ArrivedOffers ==
  ASSUME IInv, Orderly, NEW r \in net, net = {r}, r.do = "load", r.start = 0 \/ FromPages, table \in Air,
         NEW n, NEW u, NEW m, NEW f, Arrived(r, Behind(r), n, u, m, f),
         Placed(u, epoch), InOrder(u, epoch), Headed(u), u[1].epoch = epoch,
         NEW l, l = m + f, NEW p, p = IF r.goto > 0 THEN r.goto ELSE page, NEW tot, tot = AirCount(r, l)
  PROVE  /\ p = 1 \/ (p - 2) * size < l
         /\ tot <= l + size
         /\ (/\ table # "air/logs" /\ size = PageSize /\ \A i \in DOMAIN u : u[i].epoch = epoch /\ u[i].sized
             /\ l < Len(Ordered(query))) => tot > l
<1>1. PICK t, e, q, s, of : t = Behind(r) /\ e = epoch /\ q = r.query /\ s = r.start /\ of = Len(Ordered(r.query))
  OBVIOUS
<1>2. /\ PageAdded(t, n, u, m, f, s, q, e, of)
      /\ m \in Nat /\ f \in Nat /\ n \in Nat /\ s \in Nat /\ of \in Nat /\ DOMAIN u = 1 .. (m + f) /\ Full(f, s, of)
      /\ s = 0 => m = 0
      /\ s # 0 => n = Len(List) /\ l >= n
      /\ \A j \in 1 .. f : u[m + j].sized = (r.closure = PageSize /\ r.page <= s + 1)
  BY <1>1 DEF Arrived, PageAdded
<1>3. /\ l \in Nat /\ PageSize \in Nat /\ PageSize >= 1 /\ size \in Nat /\ size >= PageSize /\ page \in Nat
      /\ r.closure \in Nat /\ r.closure >= PageSize /\ r.page \in Nat /\ r.page >= 1
      /\ s > 0 => r.goto = 0 /\ r.closure = size
      /\ s = 0 => r.goto = 1 \/ (r.goto = 0 /\ page = 1)
  <2>1. r \in RequestSet /\ AskedAir(r) /\ size >= PageSize
    BY DEF IInv, NetInv, Orderly, Asked
  <2>2. r.closure \in Nat /\ r.page \in Nat /\ r.page >= 1
    BY <2>1 DEF RequestSet, Positive
  <2> QED BY <1>1, <1>2, <2>1, <2>2, PagerSize DEF AskedAir, Zero
<1>4. ASSUME s > 0
      PROVE  /\ page = 1 \/ (page - 2) * size < n
             /\ (s - 1) * size < n
  <2>1. m > 0 /\ Headed(t)
    BY <1>2, <1>4, AddedHeaded
  <2>2. u[1] = t[1]
    <3>1. 1 \in DOMAIN u /\ 1 <= m
      BY <1>2, <2>1 DEF Headed
    <3> QED BY <1>2, <3>1, AddedRow
  <2>3. t = Tags /\ FromPages /\ n = Len(List)
    BY <1>1, <1>2, <1>4 DEF Behind
  <2>4. HeadNow /\ AirPager /\ ~Awaited
    BY <1>1, <1>4, <2>1, <2>2, <2>3 DEF HeadNow, Orderly, PagedRows, Awaited, Zero
  <2> QED BY <1>1, <1>4, <2>3, <2>4 DEF AirPager, Offers
<1>5. p = 1 \/ (p - 2) * size < l
  <2>1. CASE s = 0
    BY <1>3, <2>1
  <2>2. CASE s > 0
    <3>1. p = page /\ n <= l
      BY <1>2, <1>3, <2>2
    <3>2. page = 1 \/ ((page - 2) * size < n /\ (page - 2) * size \in Int)
      BY <1>3, <1>4, <2>2
    <3> QED BY <1>2, <1>3, <3>1, <3>2
  <2> QED BY <1>2, <2>1, <2>2
<1>6. tot <= l + size
  <2>1. l >= r.closure => r.closure <= size
    <3>1. CASE s = 0
      <4>1. l = f /\ f <= PageSize
        BY <1>2, <3>1 DEF Full
      <4> QED BY <1>2, <1>3, <4>1
    <3>2. CASE s > 0
      BY <1>3, <3>2
    <3> QED BY <1>2, <3>1, <3>2
  <2>2. \/ tot = IF l >= r.closure THEN l + r.closure ELSE l
        \/ tot = IF l >= r.page * PageSize THEN l + 1 ELSE l
        \/ tot = l + PageSize
    BY DEF AirCount, CountBySize, CountByPage, CountLogs, Air
  <2>3. PICK k \in Nat, z \in Nat, c \in Nat, a \in Nat : k = PageSize /\ z = size /\ c = r.closure /\ a = r.page
    BY <1>3
  <2>4. k >= 1 /\ z >= k /\ c >= 1 /\ (l >= c => c <= z)
    BY <1>3, <2>1, <2>3
  <2>5. \/ tot = IF l >= c THEN l + c ELSE l
        \/ tot = IF l >= a * k THEN l + 1 ELSE l
        \/ tot = l + k
    BY <2>2, <2>3
  <2> QED BY <1>3, <2>3, <2>4, <2>5, CountBounds
<1>7. ASSUME table # "air/logs", size = PageSize, \A i \in DOMAIN u : u[i].epoch = epoch /\ u[i].sized,
             l < Len(Ordered(query))
      PROVE  tot > l
  <2>1. PICK k \in Nat : l = (k + 1) * PageSize /\ (f > 0 => k = s)
    <3>1. \A i \in DOMAIN u : u[i].epoch = epoch
      BY <1>7
    <3>2. PICK k \in Nat : FillPages(l, k) /\ (f > 0 => k = r.start)
      BY <1>7, <3>1, ArrivedFull
    <3> QED BY <1>1, <3>2 DEF FillPages
  <2>2. q = query
    BY <1>1, <1>7, ArrivedChosen
  <2>3. PICK z \in Nat, h \in Nat : z = PageSize /\ h = k * z
    <3>1. PageSize \in Nat \ {0} /\ k * PageSize \in Nat
      BY TableAssumption
    <3> QED BY <3>1
  <2>4. l = h + z
    BY <1>3, <2>1, <2>3, Pagewise, TableAssumption
  <2>5. f > 0 => r.closure = PageSize /\ r.page <= s + 1
    <3> SUFFICES ASSUME f > 0 PROVE r.closure = PageSize /\ r.page <= s + 1
      OBVIOUS
    <3>1. 1 \in 1 .. f /\ m + 1 \in DOMAIN u
      BY <1>2
    <3> QED BY <1>2, <1>7, <3>1
  <2>6. r.closure = PageSize
    <3>1. s = 0 => f > 0
      BY <1>2, <1>3, <2>3, <2>4
    <3> QED BY <1>2, <1>3, <1>7, <2>5, <3>1
  <2>7. CASE table = "air/users"
    <3>1. f > 0
      <4> SUFFICES ASSUME f = 0 PROVE FALSE
        BY <1>2
      <4>1. s > 0
        BY <1>2, <1>3, <2>3, <2>4
      <4>2. of <= s * PageSize /\ l < of
        <5>1. of <= s * PageSize + f /\ s * PageSize \in Nat
          BY <1>2, <1>3 DEF Full
        <5> QED BY <1>1, <1>2, <1>7, <2>2, <5>1
      <4>3. PICK a \in Nat : a = s - 1
        BY <1>2, <4>1
      <4>4. PICK b \in Nat : b = a * PageSize
        BY <1>3
      <4>5. s = a + 1
        BY <1>2, <4>3
      <4>6. s * PageSize = b + PageSize
        BY <4>4, <4>5, Pagewise, TableAssumption
      <4>7. b < l
        <5>1. (s - 1) * size < n
          BY <1>4, <4>1
        <5>2. b < n
          BY <1>7, <4>3, <4>4, <5>1
        <5> QED BY <1>2, <1>3, <4>1, <5>2
      <4>8. (k < a => h + z <= b) /\ (a < k => b + z <= h)
        BY <2>3, <4>4, Pagewise, TableAssumption
      <4>9. k = a => h = b
        BY <2>3, <4>4
      <4> QED BY <1>2, <1>3, <2>3, <2>4, <4>2, <4>6, <4>7, <4>8, <4>9
    <3>2. k = s /\ r.page <= s + 1
      BY <2>1, <2>5, <3>1
    <3>3. r.page * PageSize <= l
      <4>1. (s + 1) * PageSize = l /\ s + 1 \in Nat
        BY <1>2, <2>1, <3>2
      <4> QED BY <1>3, <3>2, <4>1, Pagewise, TableAssumption
    <3>4. r.page * PageSize \in Nat
      BY <1>3
    <3>5. tot = IF l >= r.page * PageSize THEN l + 1 ELSE l
      BY <2>7 DEF AirCount, CountByPage
    <3> QED BY <1>3, <3>3, <3>4, <3>5
  <2>8. CASE table # "air/users"
    <3>1. tot = IF l >= r.closure THEN l + r.closure ELSE l
      BY <1>7, <2>8 DEF AirCount, CountBySize, Air
    <3> QED BY <1>3, <2>3, <2>4, <2>6, <3>1
  <2> QED BY <2>7, <2>8
<1> QED BY <1>5, <1>6, <1>7

\* What is left under way when a load has arrived: berry's other load of a log,
\* or the load that follows when the order was cleared.
Landed(r) ==
  /\ UNCHANGED size
  /\ query' = IF r.then = "clear" THEN "" ELSE query
  /\ table \in Air => page' = IF r.goto > 0 THEN r.goto ELSE page
  /\ IF r.then = "clear" /\ query # ""
     THEN Next2(r, [query |-> "", page |-> 1, cap |-> cur'])
     ELSE Done(r)

LEMMA LandedAsks ==
  ASSUME IInv, CalmInv, Orderly, SameServer, NEW r \in net, r.do = "load", Landed(r)
  PROVE  /\ \A q \in net' : Asked(q)' /\ Zero(q)
         /\ net' = {} => net = {r} /\ query' = query
<1>1. UNCHANGED <<table, rows, epoch, size>>
  BY DEF SameServer, server, Landed
<1>2. CASE r.then = "clear" /\ query # ""
  <2>1. net = {r}
    BY <1>2, SoleRequest DEF Plain
  <2> DEFINE f == [query |-> "", page |-> 1, cap |-> cur']
  <2>2. /\ "do" \notin DOMAIN f /\ "start" \notin DOMAIN f /\ "goto" \notin DOMAIN f /\ "size" \notin DOMAIN f
        /\ "closure" \notin DOMAIN f /\ "query" \in DOMAIN f /\ f.query = ""
    OBVIOUS
  <2>3. PICK q : q = Request(f, r.n)
    OBVIOUS
  <2>4. net' = {q} /\ query' = ""
    BY <1>2, <2>1, <2>3 DEF Landed, Next2
  <2> HIDE DEF f
  <2>5. /\ q.do = "load" /\ q.start = 0 /\ q.goto = 0 /\ q.ans = None
        /\ q.size = size /\ q.closure = size /\ q.query = ""
    BY <2>2, <2>3, RequestFields, MoreFields, LastFields
  <2>6. Zero(q)
    BY <2>5 DEF Zero
  <2>7. table \in Air => AskedAir(q)'
    <3> SUFFICES ASSUME table \in Air PROVE AskedAir(q)'
      OBVIOUS
    <3>1. AskedAir(r) /\ size >= PageSize
      BY DEF Orderly, Asked
    <3>2. r.start \in Nat /\ r.goto \in Nat
      BY DEF IInv, NetInv, RequestSet
    <3>3. (r.start > 0 => r.then # "clear") /\ (Zero(r) => r.goto = 1 \/ (r.goto = 0 /\ page = 1))
      BY <3>1, Zenon DEF AskedAir
    <3>4. r.start = 0
      <4>1. PICK st \in Nat : st = r.start
        BY <3>2
      <4>2. ~(st > 0)
        BY <1>2, <3>3, <4>1
      <4> QED BY <4>1, <4>2
    <3>5. Zero(r)
      BY <3>4 DEF Zero
    <3>6. page' = IF r.goto > 0 THEN r.goto ELSE page
      BY DEF Landed
    <3>7. page' = 1
      BY <3>3, <3>5, <3>6
    <3>9. q.closure >= PageSize
      BY <2>5, <3>1
    <3>10. q.do # "sweep"
      BY <2>5
    <3>11. ~(q.start > 0)
      <4>1. PICK st \in Nat : st = q.start /\ st = 0
        BY <2>5
      <4> QED BY <4>1
    <3>8. /\ q.closure >= PageSize /\ (q.do # "load" => q.closure = size') /\ (q.do = "sweep" => q.page = page')
          /\ (Zero(q) => q.goto = 1 \/ (q.goto = 0 /\ page' = 1)) /\ ~(q.do = "load" /\ q.start > 0)
      BY <1>1, <2>5, <3>7, <3>9, <3>10, <3>11, Zenon
    <3> QED BY <3>8, Zenon DEF AskedAir, Zero
  <2>8. Asked(q)'
    BY <1>1, <2>4, <2>5, <2>7, NewAsked
  <2> QED BY <2>4, <2>6, <2>8
<1>3. CASE ~(r.then = "clear" /\ query # "")
  <2>1. net' = net \ {r} /\ query' = query
    BY <1>3 DEF Landed, Done
  <2>2. ASSUME NEW q \in net' PROVE Asked(q)' /\ Zero(q)
    <3>1. q \in net /\ q # r
      BY <2>1
    <3>2. Plain(q) /\ Asked(q)
      BY <3>1 DEF CalmInv, Alone, Orderly
    <3>3. Zero(q) /\ table \notin Air
      BY <3>2 DEF Plain, Zero, Air
    <3>4. \A k : PageOf(Ordered(q.query), k)' = PageOf(Ordered(q.query), k)
      BY <1>1, SameOrdered DEF PageOf
    <3> QED BY <1>1, <2>1, <3>2, <3>3, <3>4 DEF Asked, Plain
  <2> QED BY <2>1, <2>2
<1> QED BY <1>2, <1>3

LEMMA LoadedOrderly ==
  ASSUME IInv, IInv', CalmInv, Distinct(rows), Orderly, SameServer, NEW r \in net, Answer(r), r.do = "load",
         ~Disturbs(r), heap' = Append(heap, Objects(r)), SpliceRows(r) \/ (table \in Pushing /\ PushRows(r)),
         Landed(r), table \in Air => total' = AirCount(r, Len(List'))
  PROVE  Orderly'
<1>1. UNCHANGED <<table, rows, epoch, size>>
  BY DEF SameServer, server, Landed
<1>2. /\ \A q \in net' : Asked(q)' /\ Zero(q)
      /\ net' = {} => net = {r} /\ query' = query
  BY LandedAsks
<1>3. r.start = 0 \/ r.cap = cur
  BY DEF CalmInv, Present
<1>4. Asked(r)
  BY DEF Orderly
<1>5. PICK n, m, f : Arrived(r, Behind(r), n, Tags', m, f)
  BY <1>3, <1>4, LoadedTags
<1>6. FromPages' <=> (r.start = 0 \/ FromPages)
  BY <1>3, <1>4, LoadedTags
<1>7. PICK u, e : u = Tags' /\ e = epoch
  OBVIOUS
<1>8. Arrived(r, Behind(r), n, u, m, f)
  BY <1>5, <1>7
<1>9. ASSUME FromPages' PROVE PagedRows'
  <2>1. /\ Placed(u, e)
        /\ \A i \in DOMAIN u : u[i].epoch = e => u[i].found
        /\ IF table \in Air THEN InOrder(u, e) ELSE NotBehind(u, e)
    BY <1>6, <1>7, <1>8, <1>9, ArrivedPlaced
  <2>2. CASE net' # {}
    <3>1. Awaited'
      BY <1>2, <2>2 DEF Awaited, Zero
    <3>2. Chosen' /\ AirPager'
      BY <1>2, <3>1 DEF Chosen, AirPager, Zero
    <3> QED BY <1>1, <1>7, <2>1, <3>2 DEF PagedRows
  <2>3. CASE net' = {}
    <3>1. net = {r} /\ query' = query
      BY <1>2, <2>3
    <3>2. table # "air/logs" => r.query = query /\ \A i \in DOMAIN u : u[i].query = query
      BY <1>6, <1>8, <1>9, <3>1, ArrivedChosen
    <3>3. Chosen'
      BY <1>1, <1>7, <3>1, <3>2 DEF Chosen
    <3>4. ASSUME table \in Air PROVE AirPager'
      <4> SUFFICES ASSUME HeadNow' PROVE Offers'
        BY <2>3 DEF AirPager
      <4>1. Headed(u) /\ u[1].epoch = epoch /\ InOrder(u, epoch) /\ Placed(u, epoch)
        BY <1>1, <1>7, <2>1, <3>4 DEF HeadNow
      <4>2. PICK l, p, tot : l = m + f /\ p = (IF r.goto > 0 THEN r.goto ELSE page) /\ tot = AirCount(r, l)
        OBVIOUS
      <4>3. /\ p = 1 \/ (p - 2) * size < l
            /\ tot <= l + size
            /\ (/\ table # "air/logs" /\ size = PageSize /\ \A i \in DOMAIN u : u[i].epoch = epoch /\ u[i].sized
                /\ l < Len(Ordered(query))) => tot > l
        BY <1>6, <1>8, <1>9, <3>1, <3>4, <4>1, <4>2, ArrivedOffers
      <4>4. Len(List') = l /\ page' = p /\ total' = tot
        BY <1>5, <3>4, <4>2 DEF Arrived, Landed
      <4>5. Ordered(query)' = Ordered(query)
        BY <1>1, <3>1, SameOrdered DEF Ordered
      <4> QED BY <1>1, <1>7, <3>1, <4>3, <4>4, <4>5 DEF Offers, AllNow
    <3> QED BY <1>1, <1>7, <2>1, <3>3, <3>4 DEF PagedRows
  <2> QED BY <2>2, <2>3
<1>10. table \in Air => size' >= PageSize
  BY <1>1 DEF Orderly
<1> QED BY <1>1, <1>2, <1>9, <1>10 DEF Orderly

LEMMA LoadArrivesOrderly ==
  ASSUME IInv, IInv', CalmInv, Distinct(rows), Orderly, calm', NEW r \in Answers({"load"}),
         LoadRefused(r) \/ LoadArrives(r),
         (LoadArrives(r) /\ table \in Air) => total' = AirCount(r, Len(List'))
  PROVE  Orderly'
<1>1. r \in net /\ r.do = "load" /\ Answer(r) /\ r.ans.ok = "ok"
  BY AllAnswered
<1>2. LoadArrives(r)
  BY <1>1 DEF LoadRefused
<1>3. AfterLoad(r) /\ heap' = Append(heap, Objects(r)) /\ UNCHANGED size
  BY <1>2 DEF LoadArrives
<1>4. SpliceRows(r) \/ (table \in Pushing /\ PushRows(r))
  BY <1>2 DEF LoadArrives
<1>5. SameServer
  BY <1>3, HandlersLeave
<1>6. ~Disturbs(r)
  BY <1>3 DEF AfterLoad, Next2, Done
<1>7. Landed(r)
  BY <1>3 DEF AfterLoad, Landed
<1> QED BY <1>1, <1>2, <1>3, <1>4, <1>5, <1>6, <1>7, LoadedOrderly

LEMMA LoadEndsOrderly ==
  ASSUME IInv, IInv', CalmInv, Distinct(rows), Orderly, calm', table \notin Air, LoadEnds \/ HandlerDies({"load"})
  PROVE  Orderly'
BY NoFailure, LoadArrivesOrderly DEF LoadEnds

LEMMA AirLoadEndsOrderly ==
  ASSUME IInv, IInv', CalmInv, Distinct(rows), Orderly, calm', AirLoadEnds \/ HandlerDies({"load"})
  PROVE  Orderly'
<1>1. PICK r \in Answers({"load"}) : LoadRefused(r) \/ (LoadArrives(r) /\ total' = AirCount(r, Len(List')))
  BY NoFailure DEF AirLoadEnds
<1>2. ~LoadRefused(r)
  BY AllAnswered DEF LoadRefused
<1> QED BY <1>1, <1>2, LoadArrivesOrderly

LEMMA BerryLoadEndsOrderly ==
  ASSUME IInv, IInv', CalmInv, Distinct(rows), Orderly, calm', table \notin Air, BerryLoadEnds
  PROVE  Orderly'
BY NoFailure, LoadArrivesOrderly DEF BerryLoadEnds

LEMMA BerryUserStatusOrderly ==
  ASSUME IInv, IInv', CalmInv, Distinct(rows), Orderly, calm', table \notin Air, BerryUserStatus
  PROVE  Orderly'
<1>1. PICK r \in Answers({"load"}) :
       /\ r.then = "switch"
       /\ \/ /\ r.ans.ok = "ok"
             /\ heap' = Append(heap, Objects(r))
             /\ SpliceRows(r)
          \/ r.ans.ok = "refused"
       /\ UNCHANGED <<page, size, total, query>>
       /\ Done(r)
  BY DEF BerryUserStatus
<1>2. r \in net /\ r.do = "load" /\ Answer(r) /\ r.ans.ok = "ok"
  BY AllAnswered
<1>3. heap' = Append(heap, Objects(r)) /\ SpliceRows(r)
  BY <1>1, <1>2
<1>4. SameServer /\ ~Disturbs(r)
  BY <1>1, Leaves DEF Done
<1>5. Landed(r)
  BY <1>1 DEF Landed
<1> QED BY <1>2, <1>3, <1>4, <1>5, LoadedOrderly

\* A change of a record in air; tokens count their rows again.
LEMMA SetRecordOrderly ==
  ASSUME IInv, IInv', CalmInv, Orderly, table \in Air, NEW r \in net, SetRecord(r),
         total' = total \/ total' = CountBySize(r, Len(List'))
  PROVE  Orderly'
<1>1. r.do \in {"enable", "disable", "touch"} /\ SetStatus(r.ref, r.ans.value) /\ CopyOf(r.cap) /\ Done(r)
      /\ UNCHANGED <<page, size, query>> /\ r.do # "load"
  BY DEF SetRecord
<1>2. SameObjects /\ r.cap = cur /\ SameList /\ net = {r} /\ net' = {}
  BY <1>1, WritesKeep, CapIsCur, SoleRequest DEF Done, SameList, server, Plain
<1>3. Stays
  BY <1>1, <1>2, CopyStays
<1>4. CASE total' = total
  BY <1>1, <1>2, <1>3, <1>4, DoneOrderly
<1>5. CASE total' = CountBySize(r, Len(List'))
  <2>1. FromPages => Chosen'
    <3>1. ~Awaited
      BY <1>1, <1>2 DEF Awaited, Zero
    <3> QED BY <1>1, <1>3, <3>1 DEF Orderly, PagedRows, Chosen, Stays, SameList
  <2>2. ASSUME FromPages, HeadNow' PROVE Offers'
    <3>1. PICK t, e, l : t = Tags /\ e = epoch /\ l = Len(List)
      OBVIOUS
    <3>2. Tags' = t /\ epoch' = e /\ Len(List') = l /\ table' = table
      BY <1>3, <3>1 DEF Stays, SameList
    <3>3. HeadNow /\ ~Awaited
      BY <1>1, <1>2, <2>2, <3>1, <3>2 DEF HeadNow, Awaited, Zero
    <3>4. Offers /\ Placed(t, e) /\ InOrder(t, e) /\ Chosen
      BY <2>2, <3>1, <3>3 DEF Orderly, PagedRows, AirPager
    <3>5. PICK c, z, k : c = r.closure /\ z = size /\ k = PageSize
      OBVIOUS
    <3>6. c = z /\ z \in Nat /\ z >= 1 /\ k \in Nat /\ k >= 1 /\ l \in Nat
      <4>1. r.closure = size
        BY <1>1 DEF Orderly, Asked, AskedAir
      <4> QED BY <3>1, <3>5, <4>1, PagerSize, TagsType
    <3>7. total' = IF l >= c THEN l + c ELSE l
      BY <1>5, <3>2, <3>5 DEF CountBySize
    <3>8. total' <= l + z
      BY <3>6, <3>7
    <3>9. ASSUME table # "air/logs", size = PageSize, AllNow, l < Len(Ordered(query)) PROVE total' > l
      <4>1. DOMAIN t = 1 .. l
        BY <3>1, TagsType
      <4>2. l \in Nat \ {0} /\ l \in DOMAIN t /\ Headed(t)
        <5>1. 1 \in 1 .. l /\ Headed(t)
          BY <3>1, <3>3, <4>1 DEF HeadNow, Headed
        <5> QED BY <3>6, <4>1, <5>1
      <4>3. \A i \in 1 .. l : t[i].epoch = e /\ t[i].query = query
        BY <3>1, <3>3, <3>4, <3>9, <4>1 DEF AllNow, Chosen
      <4>4. t[l].query = query /\ Alike(t, e, l)
        <5>1. t[l].query = query
          BY <4>1, <4>2, <4>3
        <5> QED BY <4>3, <5>1 DEF Alike
      <4>5. t[l].place = l /\ t[l].start \in Nat
        BY <3>4, <4>2, <4>4 DEF InOrder, Placed
      <4>6. t[l].of = Len(Ordered(query))
        <5>1. t[l] = TagOf(List[l])
          BY <3>1, <4>2, TagsType
        <5> QED BY <4>4, <5>1 DEF TagOf
      <4>7. l = (t[l].start + 1) * PageSize
        <5>1. \A i \in 1 .. l : t[i].epoch = e /\ t[i].query = t[l].query
          BY <4>3, <4>4
        <5>2. l < t[l].of
          BY <3>9, <4>6
        <5> QED BY <3>4, <4>1, <4>2, <4>5, <5>1, <5>2, FullPages
      <4>8. PICK a \in Nat : a = t[l].start
        BY <4>5
      <4>9. k \in Nat /\ a * k \in Nat /\ l = a * k + k
        <5>1. k \in Nat \ {0}
          BY <3>6
        <5>2. a * k \in Nat /\ (a + 1) * k = a * k + k
          BY <5>1, Pagewise
        <5> QED BY <3>5, <4>7, <4>8, <5>1, <5>2
      <4>10. l >= c
        BY <3>5, <3>6, <3>9, <4>9
      <4> QED BY <3>6, <3>7, <4>10
    <3>10. Ordered(query)' = Ordered(query)
      BY <1>1, <1>2, SameOrdered DEF SameList, Ordered
    <3>11. AllNow' <=> AllNow
      BY <3>1, <3>2 DEF AllNow
    <3>12. page = 1 \/ (page - 2) * size < l
      BY <3>1, <3>4 DEF Offers
    <3> QED BY <1>1, <3>2, <3>5, <3>8, <3>9, <3>10, <3>11, <3>12 DEF Offers
  <2>3. FromPages => AirPager'
    BY <1>2, <2>2 DEF AirPager
  <2> QED BY <1>1, <1>2, <1>3, <2>1, <2>3, StaysOrderly DEF Orderly
<1> QED BY <1>4, <1>5

(***************************************************************************)
(* The clicks                                                              *)
(***************************************************************************)
LEMMA RowAskOrderly ==
  ASSUME IInv, Orderly, calm', NEW do, do # "load", NEW i, AskRow(do, i)
  PROVE  Orderly'
<1> DEFINE f == [do |-> do, id |-> IdOf(List[i]), ref |-> List[i], idx |-> i - (page - 1) * size]
<1>1. Ask(f) /\ SameRows /\ UNCHANGED <<page, size, total, query>>
  BY DEF AskRow, AskOnly, screen, SameRows
<1>2. f.do = do /\ DOMAIN f = {"do", "id", "ref", "idx"}
  OBVIOUS
<1> HIDE DEF f
<1> QED BY <1>1, <1>2, QuietAskOrderly

LEMMA ToggleOrderly ==
  ASSUME IInv, Orderly, calm', NEW i, AskToggle(i)
  PROVE  Orderly'
<1>1. PICK do : do \in {"disable", "enable"} /\ AskRow(do, i)
  BY DEF AskToggle
<1> QED BY <1>1, RowAskOrderly

\* A search, or a sweep of what is disabled
LEMMA CommandOrderly ==
  ASSUME IInv, Orderly, calm', NEW do \in {"search", "sweep"}, Ask([do |-> do]), SameRows,
         UNCHANGED <<page, size, total, query>>
  PROVE  Orderly'
<1> DEFINE f == [do |-> do]
<1>1. Ask(f) /\ f.do = do /\ DOMAIN f = {"do"}
  OBVIOUS
<1> HIDE DEF f
<1> QED BY <1>1, QuietAskOrderly

LEMMA CommandsOrderly ==
  ASSUME IInv, Orderly, calm', NEW do \in {"search", "sweep"},
         AskOnly([do |-> do]) \/ BerryAskLoad([do |-> do])
  PROVE  Orderly'
BY CommandOrderly DEF AskOnly, BerryAskLoad, screen, SameRows

LEMMA ChooseQueryOrderly ==
  ASSUME IInv, Orderly, calm', ChooseQuery
  PROVE  Orderly'
<1>1. PICK q : /\ query' = q /\ page' = 1 /\ Ask([query |-> q, page |-> 1])
               /\ UNCHANGED <<heap, arrays, cur, size>>
  BY DEF ChooseQuery
<1> DEFINE f == [query |-> q, page |-> 1]
<1>2. Ask(f) /\ f.query = q /\ DOMAIN f = {"query", "page"}
  BY <1>1
<1>3. table \in Air => size' >= PageSize
  BY <1>1 DEF Orderly
<1> HIDE DEF f
<1> QED BY <1>1, <1>2, <1>3, ZeroAskOrderly DEF SameRows

\* The first page, when a keyword was cleared
LEMMA GotoFirstOrderly ==
  ASSUME IInv, Orderly, calm', NEW then \in {"none", "clear"},
         Ask([goto |-> 1, then |-> then]) \/ Ask([goto |-> 1]), SameRows,
         UNCHANGED <<page, size, total, query>>
  PROVE  Orderly'
<1>1. PICK f \in {[goto |-> 1, then |-> then], [goto |-> 1]} : Ask(f)
  OBVIOUS
<1>2. /\ "do" \notin DOMAIN f /\ "start" \notin DOMAIN f /\ "size" \notin DOMAIN f /\ "query" \notin DOMAIN f
      /\ "closure" \notin DOMAIN f /\ "goto" \in DOMAIN f /\ f.goto = 1
  BY <1>1
<1>3. table \in Air => size' >= PageSize
  BY DEF Orderly
<1> QED BY <1>1, <1>2, <1>3, ZeroAskOrderly

LEMMA SearchClickOrderly ==
  ASSUME IInv, Orderly, calm', NEW then \in {"none", "clear"}, Search(then)
  PROVE  Orderly'
<1>1. CASE AskOnly([do |-> "search"])
  BY <1>1, CommandsOrderly
<1>2. CASE AskOnly([goto |-> 1, then |-> then])
  BY <1>2, GotoFirstOrderly DEF AskOnly, screen, SameRows
<1> QED BY <1>1, <1>2 DEF Search

LEMMA SizesEnough ==
  ASSUME IInv, Orderly, table \in Air
  PROVE  size >= PageSize /\ OtherSize >= PageSize /\ PageSize >= PageSize
<1>1. size >= PageSize
  BY DEF Orderly
<1>2. PageSize \in Nat /\ OtherSize >= PageSize
  BY PagerSize
<1> QED BY <1>1, <1>2

\* Another page size of air, or its query of a log
LEMMA SizeOrderly ==
  ASSUME IInv, Orderly, calm', table \in Air, SameRows, UNCHANGED query, page' = 1,
         \/ \E s \in {PageSize, OtherSize} \ {size} :
              /\ size' = s
              /\ \/ Ask([size |-> s])
                 \/ Ask([size |-> s, closure |-> s, page |-> 1])
                 \/ table = "air/logs" /\ Ask([size |-> s, query |-> ""])
         \/ table = "air/logs" /\ size' = size /\ Ask([query |-> ""])
  PROVE  Orderly'
<1>0. size >= PageSize /\ OtherSize >= PageSize /\ PageSize >= PageSize
  BY SizesEnough
<1>1. PICK s, f :
        /\ s \in {PageSize, OtherSize, size} /\ size' = s /\ Ask(f)
        /\ "do" \notin DOMAIN f /\ "start" \notin DOMAIN f /\ "goto" \notin DOMAIN f
        /\ s = (IF "size" \in DOMAIN f THEN f.size ELSE size)
        /\ "query" \in DOMAIN f => table = "air/logs"
        /\ "closure" \in DOMAIN f => f.closure = s
  <2>1. CASE table = "air/logs" /\ size' = size /\ Ask([query |-> ""])
    <3> DEFINE f == [query |-> ""]
    <3>1. Ask(f) /\ DOMAIN f = {"query"}
      BY <2>1
    <3> HIDE DEF f
    <3> QED BY <2>1, <3>1
  <2>2. CASE \E s \in {PageSize, OtherSize} \ {size} : size' = s /\ Ask([size |-> s])
    <3>1. PICK s \in {PageSize, OtherSize} : size' = s /\ Ask([size |-> s])
      BY <2>2
    <3> DEFINE f == [size |-> s]
    <3>2. Ask(f) /\ DOMAIN f = {"size"} /\ f.size = s
      BY <3>1
    <3> HIDE DEF f
    <3> QED BY <3>1, <3>2
  <2>3. CASE \E s \in {PageSize, OtherSize} \ {size} : size' = s /\ Ask([size |-> s, closure |-> s, page |-> 1])
    <3>1. PICK s \in {PageSize, OtherSize} : size' = s /\ Ask([size |-> s, closure |-> s, page |-> 1])
      BY <2>3
    <3> DEFINE f == [size |-> s, closure |-> s, page |-> 1]
    <3>2. Ask(f) /\ DOMAIN f = {"size", "closure", "page"} /\ f.size = s /\ f.closure = s
      BY <3>1
    <3> HIDE DEF f
    <3> QED BY <3>1, <3>2
  <2>4. CASE table = "air/logs"
             /\ \E s \in {PageSize, OtherSize} \ {size} : size' = s /\ Ask([size |-> s, query |-> ""])
    <3>1. PICK s \in {PageSize, OtherSize} : size' = s /\ Ask([size |-> s, query |-> ""])
      BY <2>4
    <3> DEFINE f == [size |-> s, query |-> ""]
    <3>2. Ask(f) /\ DOMAIN f = {"size", "query"} /\ f.size = s
      BY <3>1
    <3> HIDE DEF f
    <3> QED BY <2>4, <3>1, <3>2
  <2> QED BY <2>1, <2>2, <2>3, <2>4
<1>2. s >= PageSize
  BY <1>0, <1>1, Zenon
<1> QED BY <1>1, <1>2, ZeroAskOrderly

\* A page of a table of default or berry
LEMMA AskPageOrderly ==
  ASSUME IInv, Orderly, calm', table \notin Air, NEW x, NEW y,
         Ask([start |-> x]) \/ Ask([start |-> x, goto |-> y]), SameRows, UNCHANGED <<size, query>>
  PROVE  Orderly'
<1>1. PICK f \in {[start |-> x], [start |-> x, goto |-> y]} : Ask(f)
  OBVIOUS
<1>2. DOMAIN f \cap {"size", "query"} = {}
  BY <1>1
<1> QED BY <1>1, <1>2, PageAskOrderly

LEMMA RefreshOrderly ==
  ASSUME IInv, Orderly, calm', table \notin Air,
         Refresh \/ RefreshLogs \/ AskOnly([start |-> 0]) \/ BerryAskLoad([start |-> page - 1])
  PROVE  Orderly'
<1>1. PICK x \in {0, page - 1} : Ask([start |-> x]) /\ SameRows /\ UNCHANGED <<size, query>>
  <2>1. CASE Refresh
    BY <2>1 DEF Refresh, Reload, SameRows
  <2>2. CASE RefreshLogs
    BY <2>2 DEF RefreshLogs, SameRows
  <2>3. CASE AskOnly([start |-> 0])
    BY <2>3 DEF AskOnly, screen, SameRows
  <2>4. CASE BerryAskLoad([start |-> page - 1])
    BY <2>4 DEF BerryAskLoad, SameRows
  <2> QED BY <2>1, <2>2, <2>3, <2>4
<1> QED BY <1>1, AskPageOrderly

LEMMA AwaitTurnOrderly ==
  ASSUME IInv, Orderly, calm', table \notin Air, AwaitTurn
  PROVE  Orderly'
<1>1. PICK p : \/ AskOnly([start |-> p - 1, goto |-> p])
               \/ NoRequest /\ UNCHANGED <<heap, arrays, cur, size, total, query>>
  BY DEF AwaitTurn
<1>2. CASE AskOnly([start |-> p - 1, goto |-> p])
  BY <1>2, AskPageOrderly DEF AskOnly, screen, SameRows
<1>3. CASE NoRequest /\ UNCHANGED <<heap, arrays, cur, size, total, query>>
  BY <1>3, Leaves, TurnOrderly DEF NoRequest, wire, SameRows
<1> QED BY <1>1, <1>2, <1>3

LEMMA BerryTurnOrderly ==
  ASSUME IInv, Orderly, calm', table \notin Air, BerryTurn
  PROVE  Orderly'
<1>1. PICK p : \/ BerryAskLoad([start |-> p - 1, goto |-> p])
               \/ /\ UNCHANGED <<heap, arrays, cur, size, total, query>>
                  /\ net = {}
                  /\ UNCHANGED <<table, server, wire, had>>
  BY DEF BerryTurn
<1>2. CASE BerryAskLoad([start |-> p - 1, goto |-> p])
  BY <1>2, AskPageOrderly DEF BerryAskLoad, SameRows
<1>3. CASE /\ UNCHANGED <<heap, arrays, cur, size, total, query>>
           /\ net = {}
           /\ UNCHANGED <<table, server, wire, had>>
  BY <1>3, TurnOrderly DEF wire, SameRows, SameServer
<1> QED BY <1>1, <1>2, <1>3

\* The first page, in all three themes
LEMMA GotoOrderly ==
  ASSUME IInv, Orderly, calm', NEW then \in {"none", "clear"},
         \/ AirAskLoad([goto |-> 1]) \/ AirAskLoad([goto |-> 1, then |-> then])
         \/ BerryAskLoad([goto |-> 1])
  PROVE  Orderly'
BY GotoFirstOrderly DEF AirAskLoad, BerryAskLoad, SameRows

\* A turn of air's page, which is active before its rows are there
LEMMA EagerTurnOrderly ==
  ASSUME IInv, Orderly, calm', table \in Air, NEW q, q = query \/ table = "air/logs",
         NEW spins, EagerTurn(q, spins)
  PROVE  Orderly'
<1>1. PICK p \in 1 .. Pages :
        /\ page' = p
        /\ IF IsNextPage(p) THEN Ask([start |-> p - 1, query |-> q]) ELSE NoRequest
        /\ UNCHANGED <<heap, arrays, cur, size, total, query>>
  BY DEF EagerTurn
<1>2. (HeadNow /\ total <= Len(List) + size) => page' = 1 \/ (page' - 2) * size < Len(List)
  BY <1>1, TurnBound
<1>3. CASE IsNextPage(p)
  <2>1. p \in Nat /\ p >= 1 /\ (p - 1) * size >= Len(List)
    BY <1>3, NextBeyond
  <2> DEFINE f == [start |-> p - 1, query |-> q]
  <2>2. Ask(f) /\ DOMAIN f = {"start", "query"} /\ f.query = q /\ f.start = p - 1
    BY <1>1, <1>3
  <2> HIDE DEF f
  <2>3. f.start \in Nat /\ page' = f.start + 1
    BY <1>1, <2>1, <2>2
  <2> QED BY <1>1, <1>2, <2>1, <2>2, <2>3, AirPageOrderly DEF SameRows
<1>4. CASE ~IsNextPage(p)
  BY <1>1, <1>2, <1>4, Leaves, TurnOrderly DEF NoRequest, wire, SameRows
<1> QED BY <1>3, <1>4

\* The active page again
LEMMA AirReloadOrderly ==
  ASSUME IInv, Orderly, calm', table \in Air, table # "air/logs",
         AirAskLoad([start |-> page - 1]) \/ AskOnly([start |-> page - 1])
  PROVE  Orderly'
<1>1. Ask([start |-> page - 1]) /\ SameRows /\ UNCHANGED <<page, size, total, query>>
  BY DEF AirAskLoad, AskOnly, screen, SameRows
<1>2. net = {}
  BY <1>1, AskedCalm
<1>3. (FromPages /\ HeadNow /\ total <= Len(List) + size) => page' = 1 \/ (page' - 2) * size < Len(List)
  BY <1>1, <1>2 DEF Orderly, PagedRows, AirPager, Awaited, Offers
<1>4. PICK f : f = [start |-> page - 1]
  OBVIOUS
<1>5. DOMAIN f = {"start"} /\ f.start = page - 1 /\ Ask(f)
  BY <1>1, <1>4
<1>6. f.start \in Nat /\ page' = f.start + 1
  BY <1>1, <1>5, PagerSize
<1> QED BY <1>1, <1>3, <1>5, <1>6, AirPageOrderly

LEMMA AirTokenRowOrderly ==
  ASSUME IInv, Orderly, calm', AirTokenRow
  PROVE  Orderly'
<1>1. PICK i \in Shown, do \in {"delete", "disable", "enable"} :
        Ask([do |-> do, id |-> IdOf(List[i]), ref |-> List[i]])
  <2>1. PICK i \in Shown, do \in {"delete", "toggle"} :
          Ask([do |-> IF do = "delete" THEN "delete"
                      ELSE IF heap[List[i][1]].status[IdOf(List[i])] = Enabled
                           THEN "disable" ELSE "enable",
               id |-> IdOf(List[i]), ref |-> List[i]])
    BY DEF AirTokenRow
  <2> QED BY <2>1
<1> DEFINE f == [do |-> do, id |-> IdOf(List[i]), ref |-> List[i]]
<1>2. f.do = do /\ DOMAIN f = {"do", "id", "ref"} /\ Ask(f)
  BY <1>1
<1>3. SameRows /\ UNCHANGED <<page, size, total, query>>
  BY DEF AirTokenRow, SameRows
<1> HIDE DEF f
<1> QED BY <1>1, <1>2, <1>3, QuietAskOrderly

LEMMA BalanceUsageOrderly ==
  ASSUME IInv, Orderly, calm', BalanceUsage
  PROVE  Orderly'
<1>1. PICK i : AskOnly([do |-> "balance", id |-> IdOf(List[i]), idx |-> 1])
  BY DEF BalanceUsage
<1> DEFINE f == [do |-> "balance", id |-> IdOf(List[i]), idx |-> 1]
<1>2. f.do = "balance" /\ DOMAIN f = {"do", "id", "idx"} /\ AskOnly(f)
  BY <1>1
<1> HIDE DEF f
<1> QED BY <1>2, QuietAskOrderly DEF AskOnly, screen, SameRows

LEMMA FlipOrderly ==
  ASSUME IInv, Orderly, calm', NEW i, Flip(i)
  PROVE  Orderly'
<1> DEFINE id == IdOf(List[i])
           to == IF StatusShown(List[i]) = Enabled THEN Disabled ELSE Enabled
           do == IF to = Enabled THEN "enable" ELSE "disable"
           f == [do |-> do, id |-> id, value |-> to]
<1>1. Ask(f)
  BY DEF Flip
<1>2. f.do \in {"enable", "disable"} /\ DOMAIN f = {"do", "id", "value"}
  OBVIOUS
<1>3. SameRows /\ UNCHANGED <<page, size, total, query>>
  BY DEF Flip, SameRows
<1> HIDE DEF f
<1> QED BY <1>1, <1>2, <1>3, QuietAskOrderly

\* Berry's log is asked for twice, the second time without the filter: calm
\* when there was none.
LEMMA BerryRefreshLogsOrderly ==
  ASSUME IInv, Orderly, calm', table \notin Air, BerryRefreshLogs
  PROVE  Orderly'
<1>1. PICK p : p = Request([query |-> query], issued + 1)
  OBVIOUS
<1>2. PICK q : q = Request([query |-> ""], issued + 2)
  OBVIOUS
<1>3. net' = {p, q} /\ SameServer /\ SameRows /\ UNCHANGED size /\ query' = "" /\ query = ""
  BY <1>1, <1>2 DEF BerryRefreshLogs, SameServer, SameRows
<1>4. ASSUME NEW r \in {p, q} PROVE Asked(r)' /\ Zero(r)
  <2>1. PICK n : r = Request([query |-> ""], n)
    BY <1>1, <1>2, <1>3, <1>4
  <2> DEFINE f == [query |-> ""]
  <2>2. DOMAIN f = {"query"} /\ r = Request(f, n)
    BY <2>1
  <2>5. "query" \in DOMAIN f /\ f.query = ""
    OBVIOUS
  <2> HIDE DEF f
  <2>3. r.do = "load" /\ r.start = 0 /\ r.size = size /\ r.ans = None
    BY <2>2, RequestFields, MoreFields
  <2>4. r.query = ""
    BY <2>2, <2>5, LastFields
  <2> QED BY <1>3, <2>3, <2>4, NewAsked DEF Zero
<1>5. Stays
  BY <1>3, ScreenStays DEF SameServer, SameList, server
<1>6. \A r \in net' : Asked(r)' /\ Zero(r)
  BY <1>3, <1>4
<1>7. p \in net'
  BY <1>3
<1> QED BY <1>5, <1>6, <1>7, ZeroOrderly

(***************************************************************************)
(* The answers                                                             *)
(***************************************************************************)
LEMMA FineFollowOrderly ==
  ASSUME IInv, CalmInv, Orderly, calm', SameRows, UNCHANGED <<page, size, total, query>>,
         NEW dos, NEW r \in Fine(dos), NEW then, ThenLoad(r, then),
         IF table \in Air THEN dos = {"sweep"} ELSE "load" \notin dos
  PROVE  Orderly'
<1>1. r \in net /\ r.do \in dos /\ Answer(r)
  BY FineAnswered
<1> QED BY <1>1, FollowOrderly

LEMMA SweepEndsOrderly ==
  ASSUME IInv, CalmInv, Orderly, calm',
         \/ \E r \in Fine({"sweep"}) :
              /\ ThenLoad(r, "none")
              /\ loading' = TRUE
              /\ UNCHANGED <<heap, arrays, cur, page, size, total, query, switch>>
         \/ Fails({"sweep"})
  PROVE  Orderly'
<1>1. PICK r \in Fine({"sweep"}) : ThenLoad(r, "none") /\ SameRows /\ UNCHANGED <<page, size, total, query>>
  BY NoFailure DEF SameRows
<1>2. PICK dos, then : dos = {"sweep"} /\ then = "none"
  OBVIOUS
<1>3. "load" \notin dos
  BY <1>2
<1> QED BY <1>1, <1>2, <1>3, FineFollowOrderly

LEMMA ThenRefreshOrderly ==
  ASSUME IInv, CalmInv, Orderly, calm', table \notin Air,
         NEW dos \in {{"delete"}, {"sweep"}}, ThenRefresh(dos)
  PROVE  Orderly'
<1>1. PICK r \in Fine(dos) : ThenLoad(r, "none") /\ SameRows /\ UNCHANGED <<page, size, total, query>>
  BY NoFailure DEF ThenRefresh, SameRows
<1>2. "load" \notin dos
  OBVIOUS
<1>3. PICK then : then = "none"
  OBVIOUS
<1> QED BY <1>1, <1>2, <1>3, FineFollowOrderly

LEMMA BerryManageUserOrderly ==
  ASSUME IInv, CalmInv, Orderly, calm', table \notin Air, BerryManageUser
  PROVE  Orderly'
<1>1. PICK dos : dos = {"delete", "enable", "disable", "touch"}
  OBVIOUS
<1>2. PICK r, then : r \in Fine(dos) /\ ThenLoad(r, then) /\ SameRows /\ UNCHANGED <<page, size, total, query>>
  BY <1>1, NoFailure DEF BerryManageUser, SameRows
<1>3. "load" \notin dos
  BY <1>1
<1> QED BY <1>2, <1>3, FineFollowOrderly

\* The answers that leave the rows alone
LEMMA FineStillOrderly ==
  ASSUME IInv, CalmInv, Orderly, SameRows, UNCHANGED <<page, size, total, query>>,
         NEW dos, "load" \notin dos, NEW r \in Fine(dos), Done(r)
  PROVE  Orderly'
<1>1. r \in net /\ r.do \in dos
  BY FineAnswered
<1> QED BY <1>1, StillOrderly

LEMMA FlipEndsOrderly ==
  ASSUME IInv, CalmInv, Orderly, FlipEnds
  PROVE  Orderly'
<1>1. PICK dos : dos = {"enable", "disable"}
  OBVIOUS
<1>2. PICK r \in Fine(dos) : Done(r) /\ SameRows /\ UNCHANGED <<page, size, total, query>>
  BY <1>1, NoFailure DEF FlipEnds, SameRows
<1>3. "load" \notin dos
  BY <1>1
<1> QED BY <1>2, <1>3, FineStillOrderly

LEMMA TouchedOrderly ==
  ASSUME IInv, CalmInv, Orderly, NEW r \in Fine({"touch"}), UNCHANGED screen, Done(r)
  PROVE  Orderly'
<1>1. PICK dos : dos = {"touch"}
  OBVIOUS
<1>2. "load" \notin dos
  BY <1>1
<1> QED BY <1>1, <1>2, FineStillOrderly DEF screen, SameRows

LEMMA SearchEndsOrderly ==
  ASSUME IInv, CalmInv, Orderly,
         \/ SearchEnds \/ AirSearchEnds \/ BerrySearchEnds
         \/ \E r \in Answers({"search"}) : SearchArrives(r)
  PROVE  Orderly'
<1>1. PICK r \in Answers({"search"}) : SearchArrives(r) \/ r.ans.ok = "refused"
  BY NoFailure DEF SearchEnds, AirSearchEnds, BerrySearchEnds
<1>2. r \in net /\ r.do = "search" /\ r.ans.ok = "ok"
  BY AllAnswered
<1> QED BY <1>1, <1>2, FoundOrderly

\* Air's answers to the operations on its rows
LEMMA AirRecordOrderly ==
  ASSUME IInv, IInv', CalmInv, Orderly, table \in Air, NEW r \in Answers(Manages),
         RemoveRecord(r) \/ SetRecord(r), total' = total \/ total' = CountBySize(r, Len(List'))
  PROVE  Orderly'
<1>1. r \in net /\ Answer(r)
  BY AllAnswered
<1> QED BY <1>1, RemoveOrderly, SetRecordOrderly

LEMMA AirManagedOrderly ==
  ASSUME IInv, IInv', CalmInv, Orderly, table \in Air, AirManaged
  PROVE  Orderly'
<1>1. PICK r \in Answers(Manages) : (RemoveRecord(r) \/ SetRecord(r)) /\ total' = total
  BY NoFailure DEF AirManaged
<1> QED BY <1>1, AirRecordOrderly

LEMMA AirManageTokenOrderly ==
  ASSUME IInv, IInv', CalmInv, Orderly, table \in Air, AirManageToken
  PROVE  Orderly'
<1>1. ~ \E r \in Answers(Manages) : r.ans.ok = "refused"
  BY AllAnswered
<1>2. PICK r \in Answers(Manages) : (RemoveRecord(r) \/ SetRecord(r)) /\ total' = CountBySize(r, Len(List'))
  BY <1>1, NoFailure DEF AirManageToken
<1> QED BY <1>2, AirRecordOrderly

(***************************************************************************)
(* The twelve tables                                                       *)
(***************************************************************************)

LEMMA BerrySearchOrderly ==
  ASSUME IInv, Orderly, calm', BerrySearch
  PROVE  Orderly'
<1>1. CASE BerryAskLoad([do |-> "search"])
  BY <1>1, CommandsOrderly
<1>2. CASE BerryAskLoad([goto |-> 1])
  BY <1>2, GotoOrderly
<1> QED BY <1>1, <1>2 DEF BerrySearch

LEMMA ChannelsOrderly ==
  ASSUME IInv, IInv', CalmInv, Distinct(rows), Orderly, calm', ChannelsTable
  PROVE  Orderly'
<1>0. table \notin Air
  BY OpenDefault DEF DefaultStep
<1>1. CASE LoadChannels
  BY <1>0, <1>1, LoadEndsOrderly DEF LoadChannels
<1>2. CASE ManageChannel
  BY <1>0, <1>2, ManagedOrderly DEF ManageChannel, Edits
<1>3. CASE SearchChannels
  BY <1>0, <1>3, SearchClickOrderly, SearchEndsOrderly DEF SearchChannels
<1>4. CASE BalanceUsage
  BY <1>4, BalanceUsageOrderly
<1>5. CASE UpdateBalance
  BY <1>5, UpdateBalanceOrderly
<1>6. CASE TestChannel
  BY <1>6, UpdateBalanceOrderly
<1>7. CASE DeleteDisabled
  BY <1>0, <1>7, SweepEndsOrderly DEF DeleteDisabled
<1>8. CASE ChannelHeader
  BY <1>0, <1>8, SortOrderly DEF ChannelHeader, SortChannel
<1>9. CASE ChannelRow
  BY <1>0, <1>9, RowAskOrderly, ToggleOrderly DEF ChannelRow
<1>10. CASE ChannelFooter
  BY <1>0, <1>10, CommandsOrderly, AwaitTurnOrderly, RefreshOrderly DEF ChannelFooter
<1> QED BY <1>1, <1>2, <1>3, <1>4, <1>5, <1>6, <1>7, <1>8, <1>9, <1>10 DEF ChannelsTable

LEMMA TokensOrderly ==
  ASSUME IInv, IInv', CalmInv, Distinct(rows), Orderly, calm', TokensTable
  PROVE  Orderly'
<1>0. table \notin Air
  BY OpenDefault DEF DefaultStep
<1>1. CASE LoadTokens
  BY <1>0, <1>1, LoadEndsOrderly DEF LoadTokens
<1>2. CASE TokensFocus
  BY <1>0, <1>2, RefreshOrderly DEF TokensFocus
<1>3. CASE ManageToken
  BY <1>0, <1>3, ManagedOrderly DEF ManageToken, Edits
<1>4. CASE SearchTokens
  BY <1>0, <1>4, SearchClickOrderly, SearchEndsOrderly DEF SearchTokens
<1>5. CASE TokenHeader
  BY <1>0, <1>5, SortOrderly DEF TokenHeader, SortToken
<1>6. CASE TokenRow
  BY <1>0, <1>6, RowAskOrderly, ToggleOrderly DEF TokenRow
<1>7. CASE TokenFooter
  BY <1>0, <1>7, ChooseQueryOrderly, AwaitTurnOrderly, RefreshOrderly DEF TokenFooter
<1> QED BY <1>1, <1>2, <1>3, <1>4, <1>5, <1>6, <1>7 DEF TokensTable

LEMMA UsersOrderly ==
  ASSUME IInv, IInv', CalmInv, Distinct(rows), Orderly, calm', UsersTable
  PROVE  Orderly'
<1>0. table \notin Air
  BY OpenDefault DEF DefaultStep
<1>1. CASE LoadUsers
  BY <1>0, <1>1, LoadEndsOrderly DEF LoadUsers
<1>2. CASE ManageUser
  BY <1>0, <1>2, ManagedOrderly DEF ManageUser, Edits
<1>3. CASE SearchUsers
  BY <1>0, <1>3, SearchClickOrderly, SearchEndsOrderly DEF SearchUsers
<1>4. CASE UserHeader
  BY <1>0, <1>4, SortOrderly DEF UserHeader, SortUser
<1>5. CASE UserRow
  BY <1>0, <1>5, RowAskOrderly, ToggleOrderly DEF UserRow
<1>6. CASE UserFooter
  BY <1>0, <1>6, ChooseQueryOrderly, AwaitTurnOrderly DEF UserFooter
<1> QED BY <1>1, <1>2, <1>3, <1>4, <1>5, <1>6 DEF UsersTable

LEMMA LogsOrderly ==
  ASSUME IInv, IInv', CalmInv, Distinct(rows), Orderly, calm', LogsTable
  PROVE  Orderly'
<1>0. table \notin Air
  BY OpenDefault DEF DefaultStep
<1>1. CASE LoadLogs
  BY <1>0, <1>1, LoadEndsOrderly DEF LoadLogs
<1>2. CASE FilterLogs
  BY <1>0, <1>2, RefreshOrderly DEF FilterLogs, TypeFilter
<1>3. CASE LogHeader
  BY <1>0, <1>3, SortOrderly DEF LogHeader, SortLog
<1>4. CASE LogFooter
  BY <1>0, <1>4, RefreshOrderly, ChooseQueryOrderly, AwaitTurnOrderly DEF LogFooter
<1> QED BY <1>1, <1>2, <1>3, <1>4 DEF LogsTable

LEMMA AirChannelsOrderly ==
  ASSUME IInv, IInv', CalmInv, Distinct(rows), Orderly, calm', AirChannelsTable
  PROVE  Orderly'
<1>0. table \in Air /\ table # "air/logs"
  BY OpenAir DEF AirStep
<1>1. CASE AirChannelRow
  BY <1>0, <1>1, RowAskOrderly, ToggleOrderly DEF AirChannelRow
<1>2. CASE AirLoadChannels
  BY <1>0, <1>2, AirLoadEndsOrderly DEF AirLoadChannels
<1>3. CASE AirManageChannel
  BY <1>0, <1>3, AirManagedOrderly DEF AirManageChannel
<1>4. CASE AirSearchChannels
  BY <1>0, <1>4, CommandsOrderly, GotoOrderly, SearchEndsOrderly DEF AirSearchChannels
<1>5. CASE AirTestChannel
  BY <1>0, <1>5, MeasuredOrderly DEF AirTestChannel
<1>6. CASE AirDeleteDisabled
  BY <1>0, <1>6, SweepEndsOrderly DEF AirDeleteDisabled
<1>7. CASE AirUpdateBalance
  BY <1>0, <1>7, MeasuredOrderly DEF AirUpdateBalance
<1>8. CASE AirChannelSizes
  <2>1. PICK s \in {PageSize, OtherSize} \ {size} : size' = s /\ Ask([size |-> s])
    BY <1>8 DEF AirChannelSizes
  <2>2. SameRows /\ UNCHANGED query /\ page' = 1
    BY <1>8 DEF AirChannelSizes, SameRows
  <2> QED BY <1>0, <2>1, <2>2, SizeOrderly
<1>9. CASE AirChannelPage
  BY <1>0, <1>9, EagerTurnOrderly DEF AirChannelPage
<1>10. CASE AirChannelBar
  BY <1>0, <1>10, AirReloadOrderly, CommandsOrderly DEF AirChannelBar
<1> QED BY <1>1, <1>2, <1>3, <1>4, <1>5, <1>6, <1>7, <1>8, <1>9, <1>10 DEF AirChannelsTable

LEMMA AirTokensOrderly ==
  ASSUME IInv, IInv', CalmInv, Distinct(rows), Orderly, calm', AirTokensTable
  PROVE  Orderly'
<1>0. table \in Air /\ table # "air/logs"
  BY OpenAir DEF AirStep
<1>1. CASE AirTokenRow
  BY <1>1, AirTokenRowOrderly
<1>2. CASE AirLoadTokens
  BY <1>0, <1>2, AirLoadEndsOrderly DEF AirLoadTokens
<1>3. CASE AirManageToken
  BY <1>0, <1>3, AirManageTokenOrderly
<1>4. CASE AirSearchTokens
  <2>1. ~Fails({"search"})
    BY NoFailure
  <2> QED BY <1>0, <1>4, <2>1, CommandsOrderly, GotoOrderly, SearchEndsOrderly DEF AirSearchTokens
<1>5. CASE AirTokenPage
  BY <1>0, <1>5, EagerTurnOrderly DEF AirTokenPage
<1>6. CASE AirTokenEffect
  <2>1. CASE ChooseQuery
    BY <2>1, ChooseQueryOrderly
  <2>2. CASE ~ChooseQuery
    <3>1. PICK s \in {PageSize, OtherSize} \ {size} : size' = s /\ Ask([size |-> s, closure |-> s, page |-> 1])
      BY <1>6, <2>2 DEF AirTokenEffect
    <3>2. SameRows /\ UNCHANGED query /\ page' = 1
      BY <1>6, <2>2 DEF AirTokenEffect, SameRows
    <3> QED BY <1>0, <3>1, <3>2, SizeOrderly
  <2> QED BY <2>1, <2>2
<1>7. CASE AirTokenSaved
  BY <1>0, <1>7, AirReloadOrderly DEF AirTokenSaved
<1> QED BY <1>1, <1>2, <1>3, <1>4, <1>5, <1>6, <1>7 DEF AirTokensTable

LEMMA AirUsersOrderly ==
  ASSUME IInv, IInv', CalmInv, Distinct(rows), Orderly, calm', AirUsersTable
  PROVE  Orderly'
<1>0. table \in Air /\ table # "air/logs"
  BY OpenAir DEF AirStep
<1>1. CASE AirUserRow
  BY <1>0, <1>1, RowAskOrderly, ToggleOrderly DEF AirUserRow
<1>2. CASE AirLoadUsers
  BY <1>0, <1>2, AirLoadEndsOrderly DEF AirLoadUsers
<1>3. CASE AirManageUser
  BY <1>0, <1>3, AirManagedOrderly DEF AirManageUser
<1>4. CASE AirSearchUsers
  BY <1>0, <1>4, SearchClickOrderly, SearchEndsOrderly DEF AirSearchUsers
<1>5. CASE AirUserPage
  BY <1>0, <1>5, EagerTurnOrderly DEF AirUserPage
<1>6. CASE AirUserSaved
  BY <1>0, <1>6, AirReloadOrderly, CommandsOrderly DEF AirUserSaved
<1>7. CASE AirUserOrder
  BY <1>0, <1>7, ChooseQueryOrderly DEF AirUserOrder
<1> QED BY <1>1, <1>2, <1>3, <1>4, <1>5, <1>6, <1>7 DEF AirUsersTable

LEMMA AirLogsOrderly ==
  ASSUME IInv, IInv', CalmInv, Distinct(rows), Orderly, calm', AirLogsTable
  PROVE  Orderly'
<1>0. table \in Air /\ table = "air/logs"
  BY OpenAir DEF AirStep
<1>1. CASE AirLoadLogs
  BY <1>0, <1>1, AirLoadEndsOrderly DEF AirLoadLogs
<1>2. CASE AirLogPage
  BY <1>0, <1>2, EagerTurnOrderly DEF AirLogPage
<1>3. CASE AirLogSizes
  <2>1. PICK s \in {PageSize, OtherSize} \ {size} : size' = s /\ Ask([size |-> s, query |-> ""])
    BY <1>3 DEF AirLogSizes
  <2>2. SameRows /\ UNCHANGED query /\ page' = 1
    BY <1>3 DEF AirLogSizes, SameRows
  <2> QED BY <1>0, <2>1, <2>2, SizeOrderly
<1>4. CASE AirLogQuery
  BY <1>0, <1>4, SizeOrderly DEF AirLogQuery, SameRows
<1>5. CASE AirLogType
  BY <1>0, <1>5, ChooseQueryOrderly DEF AirLogType
<1> QED BY <1>1, <1>2, <1>3, <1>4, <1>5 DEF AirLogsTable

LEMMA BerryChannelsOrderly ==
  ASSUME IInv, IInv', CalmInv, Distinct(rows), Orderly, calm', BerryChannelPage
  PROVE  Orderly'
<1>0. table \notin Air
  BY OpenBerry DEF BerryStep
<1>1. CASE BerryLoadChannels
  BY <1>0, <1>1, BerryLoadEndsOrderly DEF BerryLoadChannels
<1>2. CASE BerrySearchChannels
  BY <1>0, <1>2, BerrySearchOrderly, SearchEndsOrderly DEF BerrySearchChannels
<1>3. CASE BerryManageChannel
  <2>1. ThenRefresh({"delete"}) => Orderly'
    BY <1>0, ThenRefreshOrderly
  <2>2. FlipEnds => Orderly'
    BY FlipEndsOrderly
  <2>3. \A r \in Fine({"touch"}) : UNCHANGED screen /\ Done(r) => Orderly'
    BY TouchedOrderly
  <2>4. ~Fails({"touch"})
    BY NoFailure
  <2> QED BY <1>3, <2>1, <2>2, <2>3, <2>4 DEF BerryManageChannel
<1>4. CASE BerrySweep
  BY <1>0, <1>4, ThenRefreshOrderly DEF BerrySweep
<1>5. CASE BerryChannelBar
  BY <1>0, <1>5, RefreshOrderly, CommandsOrderly, BerryTurnOrderly DEF BerryChannelBar
<1>6. CASE BerryChannelRow
  BY <1>0, <1>6, FlipOrderly, RowAskOrderly DEF BerryChannelRow
<1> QED BY <1>1, <1>2, <1>3, <1>4, <1>5, <1>6 DEF BerryChannelPage

LEMMA BerryTokensOrderly ==
  ASSUME IInv, IInv', CalmInv, Distinct(rows), Orderly, calm', BerryTokenPage
  PROVE  Orderly'
<1>0. table \notin Air
  BY OpenBerry DEF BerryStep
<1>1. CASE BerryLoadTokens
  BY <1>0, <1>1, BerryLoadEndsOrderly DEF BerryLoadTokens
<1>2. CASE BerrySearchTokens
  BY <1>0, <1>2, BerrySearchOrderly, SearchEndsOrderly DEF BerrySearchTokens
<1>3. CASE BerryManageToken
  BY <1>0, <1>3, ThenRefreshOrderly, FlipEndsOrderly DEF BerryManageToken
<1>4. CASE BerryTokenBar
  BY <1>0, <1>4, RefreshOrderly, BerryTurnOrderly DEF BerryTokenBar
<1>5. CASE BerryTokenRow
  BY <1>0, <1>5, FlipOrderly, RowAskOrderly DEF BerryTokenRow
<1> QED BY <1>1, <1>2, <1>3, <1>4, <1>5 DEF BerryTokenPage

LEMMA BerryUsersOrderly ==
  ASSUME IInv, IInv', CalmInv, Distinct(rows), Orderly, calm', BerryUserPage
  PROVE  Orderly'
<1>0. table \notin Air
  BY OpenBerry DEF BerryStep
<1>1. CASE BerryLoadUsers
  BY <1>0, <1>1, BerryLoadEndsOrderly DEF BerryLoadUsers
<1>2. CASE BerrySearchUsers
  BY <1>0, <1>2, BerrySearchOrderly, SearchEndsOrderly DEF BerrySearchUsers
<1>3. CASE BerryManageUser
  BY <1>0, <1>3, BerryManageUserOrderly
<1>4. CASE BerryUserStatus
  BY <1>0, <1>4, BerryUserStatusOrderly
<1>5. CASE BerryUserBar
  BY <1>0, <1>5, RefreshOrderly, BerryTurnOrderly DEF BerryUserBar
<1>6. CASE BerryUserRow
  BY <1>0, <1>6, FlipOrderly, RowAskOrderly DEF BerryUserRow
<1> QED BY <1>1, <1>2, <1>3, <1>4, <1>5, <1>6 DEF BerryUserPage

LEMMA BerryLogsOrderly ==
  ASSUME IInv, IInv', CalmInv, Distinct(rows), Orderly, calm', BerryLogPage
  PROVE  Orderly'
<1>0. table \notin Air
  BY OpenBerry DEF BerryStep
<1>1. CASE BerryLoadLogs
  BY <1>0, <1>1, BerryLoadEndsOrderly DEF BerryLoadLogs
<1>2. CASE BerrySearchLogs
  BY <1>0, <1>2, GotoOrderly DEF BerrySearchLogs, TypeFilter
<1>3. CASE BerryRefreshLogs
  BY <1>0, <1>3, BerryRefreshLogsOrderly
<1>4. CASE BerryLogBar
  BY <1>0, <1>4, BerryTurnOrderly DEF BerryLogBar
<1> QED BY <1>1, <1>2, <1>3, <1>4 DEF BerryLogPage

(***************************************************************************)
(* The pages of a calm screen are in order at the start, and stay so       *)
(***************************************************************************)
OInv == calm => Orderly

LEMMA ResponseOrderly ==
  ASSUME IInv, IInv', CInv, Orderly, calm', DefaultStep \/ AirStep \/ BerryStep
  PROVE  Orderly'
<1>1. CalmInv /\ Distinct(rows)
  BY DefaultLeaves, AirLeaves, BerryLeaves DEF Calmer, CInv
<1>2. CASE DefaultStep
  BY <1>1, <1>2, ChannelsOrderly, TokensOrderly, UsersOrderly, LogsOrderly DEF DefaultStep
<1>3. CASE AirStep
  BY <1>1, <1>3, AirChannelsOrderly, AirTokensOrderly, AirUsersOrderly, AirLogsOrderly DEF AirStep
<1>4. CASE BerryStep
  BY <1>1, <1>4, BerryChannelsOrderly, BerryTokensOrderly, BerryUsersOrderly, BerryLogsOrderly DEF BerryStep
<1> QED BY <1>2, <1>3, <1>4

LEMMA StutterOrderly ==
  ASSUME IInv, Orderly, UNCHANGED vars
  PROVE  Orderly'
<1>1. /\ UNCHANGED <<table, rows, epoch, heap, arrays, cur, page, size, total, query, net>>
  BY DEF vars, server, screen, wire
<1>2. Stays
  BY <1>1, ScreenStays DEF SameList, SameRows
<1>3. List' = List /\ Tags' = Tags /\ (FromPages' <=> FromPages)
  BY <1>2 DEF Stays
<1>4. \A q : Ordered(q)' = Ordered(q)
  BY <1>1, SameOrdered
<1>5. ASSUME NEW r \in net' PROVE Asked(r)'
  <2>1. Asked(r)
    BY <1>1 DEF Orderly
  <2>2. table \in Air => AskedAir(r)'
    BY <1>1, <1>3, <2>1 DEF Asked, AskedAir
  <2>3. (r.do = "load" /\ Answer(r)) => r.ans.rows = PageOf(Ordered(r.query)', r.start)
    BY <1>4, <2>1 DEF Asked
  <2> QED BY <1>1, <1>3, <2>1, <2>2, <2>3 DEF Asked
<1>6. Chosen' <=> Chosen
  BY <1>1, <1>3 DEF Chosen, Awaited
<1>7. Offers' <=> Offers
  BY <1>1, <1>3, <1>4 DEF Offers, AllNow
<1>8. AirPager' <=> AirPager
  BY <1>1, <1>3, <1>7 DEF AirPager, HeadNow, Awaited
<1>9. table \in Air => size' >= PageSize
  BY <1>1 DEF Orderly
<1>10. FromPages => Chosen' /\ (table \in Air => AirPager')
  BY <1>6, <1>8 DEF Orderly, PagedRows
<1> QED BY <1>2, <1>5, <1>9, <1>10, StaysOrderly

LEMMA OrderStep == IInv /\ IInv' /\ CInv /\ OInv /\ [Next]_vars => OInv'
<1> SUFFICES ASSUME IInv, IInv', CInv, OInv, [Next]_vars, calm' PROVE Orderly'
  BY DEF OInv
<1>1. CASE UNCHANGED vars
  <2>1. Orderly
    BY <1>1 DEF OInv, vars, history
  <2> QED BY <1>1, <2>1, StutterOrderly
<1>2. CASE Refuse \/ Others
  <2>1. ~calm'
    BY <1>2 DEF Refuse, Others
  <2> QED BY <2>1
<1>3. CASE Serve
  <2>1. calm' = calm
    BY <1>3 DEF Serve
  <2> QED BY <1>3, <2>1, ServeOrderly DEF CInv, OInv
<1>4. CASE DefaultStep \/ AirStep \/ BerryStep
  <2>1. calm
    BY <1>4, DefaultLeaves, AirLeaves, BerryLeaves DEF Calmer
  <2> QED BY <1>4, <2>1, ResponseOrderly DEF OInv
<1> QED BY <1>1, <1>2, <1>3, <1>4 DEF Next

LEMMA InitOrderly == Init => OInv
<1> SUFFICES ASSUME Init PROVE Orderly
  BY DEF OInv
<1>0. IInv
  BY InitInv
<1>1. List = <<>> /\ page = 1 /\ query = "" /\ (table \in Air => size >= PageSize)
  <2>1. arrays = <<[rows |-> <<>>, src |-> "paged"]>> /\ cur = 1 /\ page = 1 /\ query = ""
    BY DEF Init
  <2>2. PageSize \in Nat /\ OtherSize >= PageSize /\ PageSize >= PageSize
    BY TableAssumption
  <2>3. size \in {PageSize, OtherSize}
    BY DEF Init
  <2>4. size >= PageSize
    BY <2>2, <2>3, Zenon
  <2> QED BY <2>1, <2>4 DEF List
<1>2. PICK k : k = issued
  OBVIOUS
<1>3. \A r \in net : \E n \in 1 .. k : r = Request([closure |-> PageSize], n)
  BY <1>2 DEF Init
<1>4. ASSUME NEW r \in net PROVE Asked(r)
  <2>1. PICK n : r = Request([closure |-> PageSize], n)
    BY <1>3
  <2> DEFINE f == [closure |-> PageSize]
  <2>2. DOMAIN f = {"closure"} /\ r = Request(f, n)
    BY <2>1
  <2>3. "closure" \in DOMAIN f /\ f.closure = PageSize
    OBVIOUS
  <2> HIDE DEF f
  <2>4. r.do = "load" /\ r.start = 0 /\ r.size = size /\ r.ans = None /\ r.goto = 0
    BY <2>2, RequestFields, MoreFields
  <2>5. r.query = query /\ r.closure = PageSize
    BY <2>2, <2>3, LastFields
  <2>6. r.closure >= PageSize
    BY <2>5, TableAssumption
  <2>7. ~(r.start > 0)
    <3>1. ~(0 > 0)
      OBVIOUS
    <3> QED BY <2>4, <3>1, Zenon
  <2>8. AskedAir(r)
    BY <1>1, <2>4, <2>6, <2>7, Zenon DEF AskedAir, Zero
  <2>9. ~Answer(r) /\ r.do # "delete"
    BY <2>4 DEF Answer, None
  <2> QED BY <2>4, <2>5, <2>8, <2>9, Zenon DEF Asked
<1>5. DOMAIN Tags = {}
  <2>1. DOMAIN Tags = DOMAIN List
    BY DEF Tags
  <2>2. DOMAIN << >> = {}
    OBVIOUS
  <2> QED BY <1>1, <2>1, <2>2
<1>6. ~Headed(Tags)
  BY <1>5 DEF Headed
<1>7. Placed(Tags, epoch) /\ InOrder(Tags, epoch) /\ NotBehind(Tags, epoch)
  BY <1>5, <1>6 DEF Placed, InOrder, NotBehind
<1>8. Chosen /\ AirPager
  BY <1>5, <1>6 DEF Chosen, AirPager, HeadNow
<1>9. PagedRows
  BY <1>5, <1>7, <1>8 DEF PagedRows
<1> QED BY <1>1, <1>4, <1>9 DEF Orderly

\* How a pager of full pages counts
LEMMA PageCounts ==
  ASSUME NEW k \in Nat \ {0}, NEW a \in Nat, NEW l \in Nat, l = (a + 1) * k
  PROVE  /\ (l + k - 1) \div k = a + 1 /\ l \div k = a + 1
         /\ \A tot \in Nat : tot > l => (tot + k - 1) \div k >= a + 2
<1>1. PICK b \in Nat : b = a + 1
  OBVIOUS
<1>2. l = b * k /\ b * k \in Nat /\ (b + 1) * k = b * k + k
  BY <1>1
<1>3. l \div k = b
  <2>1. PICK d \in Nat : d = l \div k
    OBVIOUS
  <2>2. d * k <= l /\ l < d * k + k /\ d * k \in Nat
    BY <2>1
  <2>3. ~(d < b)
    <3> SUFFICES ASSUME d < b PROVE FALSE
      OBVIOUS
    <3>1. (d + 1) * k <= b * k
      BY Pagewise
    <3> QED BY <1>2, <2>2, <3>1
  <2>4. ~(b < d)
    <3> SUFFICES ASSUME b < d PROVE FALSE
      OBVIOUS
    <3>1. (b + 1) * k <= d * k
      BY Pagewise
    <3> QED BY <1>2, <2>2, <3>1
  <2> QED BY <2>1, <2>3, <2>4
<1>4. (l + k - 1) \div k = b
  <2>0. PICK m \in Nat : m = l + k - 1
    <3>1. l + k - 1 \in Nat
      OBVIOUS
    <3> QED BY <3>1
  <2>1. PICK d \in Nat : d = m \div k
    <3>1. m \div k \in Nat
      OBVIOUS
    <3> QED BY <3>1
  <2>2. d * k <= m /\ m < d * k + k /\ d * k \in Nat
    BY <2>1
  <2>3. ~(d < b)
    <3> SUFFICES ASSUME d < b PROVE FALSE
      OBVIOUS
    <3>1. (d + 1) * k <= b * k
      BY Pagewise
    <3> QED BY <1>2, <2>0, <2>2, <3>1
  <2>4. ~(b < d)
    <3> SUFFICES ASSUME b < d PROVE FALSE
      OBVIOUS
    <3>1. (b + 1) * k <= d * k
      BY Pagewise
    <3> QED BY <1>2, <2>0, <2>2, <3>1
  <2> QED BY <2>0, <2>1, <2>3, <2>4
<1>5. ASSUME NEW tot \in Nat, tot > l PROVE (tot + k - 1) \div k >= b + 1
  <2>0. PICK m \in Nat : m = tot + k - 1
    <3>1. tot + k - 1 \in Nat
      OBVIOUS
    <3> QED BY <3>1
  <2>1. PICK d \in Nat : d = m \div k
    <3>1. m \div k \in Nat
      OBVIOUS
    <3> QED BY <3>1
  <2>2. d * k <= m /\ m < d * k + k /\ d * k \in Nat
    BY <2>1
  <2>3. ~(d < b + 1)
    <3> SUFFICES ASSUME d < b + 1 PROVE FALSE
      OBVIOUS
    <3>1. d <= b
      OBVIOUS
    <3>2. d * k <= b * k
      BY <3>1, Pagewise
    <3> QED BY <1>2, <1>5, <2>0, <2>2, <3>2
  <2> QED BY <2>0, <2>1, <2>3
<1> QED BY <1>1, <1>3, <1>4, <1>5

\* The pages that stand on a calm screen, none left out
LEMMA WholePages ==
  ASSUME IInv, CInv, OInv, Calm, Paged
  PROVE  /\ PagedRows /\ net = {}
         /\ Len(List) > 0 => Headed(Tags)
         /\ Closed(Tags)
<1>1. PagedRows /\ net = {}
  BY DEF OInv, Orderly, FromPages, Calm, Paged
<1>2. DOMAIN Tags = 1 .. Len(List) /\ Len(List) \in Nat /\ DOMAIN List = DOMAIN Tags
  BY TagsType DEF Tags
<1>3. \A i \in DOMAIN List : Tags[i].start = heap[List[i][1]].start
  BY DEF Tags, TagOf
<1>4. Closed(Tags)
  BY <1>2, <1>3 DEF Closed, Paged
<1>5. Len(List) > 0 => Headed(Tags)
  BY <1>1, <1>2, <1>4, ClosedHeaded DEF PagedRows
<1> QED BY <1>1, <1>4, <1>5

\* ... stand each in its place when they are of one epoch and of one order
LEMMA InPlaces ==
  ASSUME IInv, CInv, OInv, Calm, Paged, Len(List) > 0, NEW q, NEW n, n = Len(List),
         \A i \in DOMAIN Tags : Tags[i].epoch = epoch /\ Tags[i].query = q
  PROVE  \A i \in 1 .. n : Tags[i].place = i /\ Tags[i].of = Len(Ordered(q))
<1>1. PICK t, e : t = Tags /\ e = epoch
  OBVIOUS
<1>2. DOMAIN t = 1 .. n /\ n \in Nat
  BY <1>1, TagsType
<1>3. \A i \in 1 .. n : t[i].of = Len(Ordered(q))
  <2> TAKE i \in 1 .. n
  <2>1. t[i] = TagOf(List[i]) /\ t[i].query = q
    BY <1>1, <1>2, TagsType
  <2> QED BY <2>1 DEF TagOf
<1>4. \A i \in 1 .. n : t[i].epoch = e /\ t[i].query = q
  BY <1>1, <1>2
<1>5. Placed(t, e) /\ Headed(t) /\ Closed(t) /\ IF table \in Air THEN InOrder(t, e) ELSE NotBehind(t, e)
  BY <1>1, WholePages DEF PagedRows
<1>6. CASE table \in Air
  <2>1. \A i \in 1 .. n : \A j \in 1 .. i : j \in 1 .. n
    BY <1>2
  <2>2. \A i \in 1 .. n : Alike(t, e, i)
    BY <1>4, <2>1 DEF Alike
  <2>3. \A i \in 1 .. n : t[i].place = i
    BY <1>2, <1>5, <1>6, <2>2 DEF InOrder
  <2> QED BY <1>1, <1>3, <2>3
<1>7. CASE table \notin Air
  <2>1. \A i, j \in 1 .. n : t[i].epoch = e /\ t[j].query = t[i].query /\ t[j].of = t[i].of
    BY <1>3, <1>4
  <2>2. \A i \in 1 .. n : t[i].place = i
    BY <1>2, <1>5, <1>7, <2>1, NobodyBehind
  <2> QED BY <1>1, <1>3, <2>2
<1> QED BY <1>6, <1>7

LEMMA PrefixOf ==
  ASSUME NEW T, NEW s \in Seq(T), NEW n \in Nat, NEW p, p = [i \in 1 .. n |-> p[i]],
         \A i \in 1 .. n : i \in DOMAIN s /\ p[i] = s[i]
  PROVE  IsPrefix(p, s)
<1>1. p \in Seq(T) /\ Len(p) = n
  <2>1. \A i \in 1 .. n : p[i] \in T
    OBVIOUS
  <2> QED BY <2>1
<1>2. n <= Len(s)
  <2>1. CASE n = 0
    BY <2>1
  <2>2. CASE n > 0
    <3>1. n \in 1 .. n
      BY <2>2
    <3> QED BY <3>1
  <2> QED BY <2>1, <2>2
<1>3. SubSeq(s, 1, n) = SubSeq(p, 1, n)
  <2>1. /\ SubSeq(s, 1, n) \in Seq(T) /\ Len(SubSeq(s, 1, n)) = n
        /\ SubSeq(p, 1, n) \in Seq(T) /\ Len(SubSeq(p, 1, n)) = n
    BY <1>1, <1>2
  <2>2. \A i \in 1 .. n : SubSeq(s, 1, n)[i] = s[i] /\ SubSeq(p, 1, n)[i] = p[i]
    BY <1>1, <1>2
  <2>3. PICK u \in Seq(T), v \in Seq(T) : u = SubSeq(s, 1, n) /\ v = SubSeq(p, 1, n)
    BY <2>1
  <2>4. Len(u) = Len(v) /\ \A i \in 1 .. Len(u) : u[i] = v[i]
    BY <2>1, <2>2, <2>3
  <2>5. u = [i \in 1 .. Len(u) |-> u[i]] /\ v = [i \in 1 .. Len(v) |-> v[i]]
    OBVIOUS
  <2> QED BY <2>3, <2>4, <2>5
<1> QED BY <1>1, <1>2, <1>3 DEF IsPrefix

LEMMA TagPlace ==
  ASSUME NEW ref, NEW q, TagOf(ref).query = q
  PROVE  /\ TagOf(ref).place = Place(Ordered(q), ref[2])
         /\ TagOf(ref).found <=> ref[2] \in Range(Ordered(q))
<1>1. heap[ref[1]].query = q
  BY DEF TagOf
<1> QED BY <1>1 DEF TagOf

\* The rows are the server's list from its beginning.
LEMMA PrefixShown ==
  ASSUME IInv, CInv, OInv, Calm, Paged, InPlace, OneQuery
  PROVE  \E q \in {"", "other"} : IsPrefix([i \in DOMAIN List |-> IdOf(List[i])], Ordered(q))
<1>1. PICK n \in Nat : n = Len(List)
  BY TagsType
<1>2. DOMAIN List = 1 .. n /\ DOMAIN Tags = 1 .. n /\ \A i \in 1 .. n : Tags[i] = TagOf(List[i])
  BY <1>1, TagsType DEF Tags
<1>3. PICK p : p = [i \in DOMAIN List |-> IdOf(List[i])]
  OBVIOUS
<1>4. p = [i \in 1 .. n |-> p[i]] /\ \A i \in 1 .. n : p[i] = List[i][2]
  BY <1>2, <1>3 DEF IdOf
<1>5. \A q : Ordered(q) \in Seq(Ids)
  BY OrderedType DEF IInv
<1>6. CASE n = 0
  <2>1. \A i \in 1 .. n : FALSE
    BY <1>6
  <2>2. IsPrefix(p, Ordered(""))
    BY <1>4, <1>5, <2>1, PrefixOf
  <2> QED BY <1>3, <2>2
<1>7. CASE n > 0
  <2>1. 1 \in 1 .. n
    BY <1>7
  <2>2. PICK q : q = Tags[1].query
    OBVIOUS
  <2>3. q \in {"", "other"}
    BY <1>2, <2>1, <2>2, TagsType DEF Queries
  <2>4. \A i \in 1 .. n : Tags[i].epoch = epoch /\ Tags[i].query = q
    <3>1. \A i \in 1 .. n : Tags[i].epoch = heap[List[i][1]].epoch /\ Tags[i].query = heap[List[i][1]].query
      BY <1>2 DEF TagOf
    <3> QED BY <1>2, <2>1, <2>2, <3>1 DEF InPlace, OneQuery
  <2>5. \A i \in 1 .. n : Tags[i].place = i
    <3>1. \A i \in DOMAIN Tags : Tags[i].epoch = epoch /\ Tags[i].query = q
      BY <1>2, <2>4
    <3>2. Len(List) > 0
      BY <1>1, <1>7
    <3> QED BY <1>1, <3>1, <3>2, InPlaces
  <2>6. \A i \in 1 .. n : Tags[i].found
    BY <1>2, <2>4, WholePages DEF PagedRows
  <2>7. PICK s : s = Ordered(q)
    OBVIOUS
  <2>8. ASSUME NEW i \in 1 .. n PROVE i \in DOMAIN s /\ p[i] = s[i]
    <3>1. Tags[i] = TagOf(List[i]) /\ Tags[i].query = q
      BY <1>2, <2>4
    <3>2. Tags[i].place = Place(s, List[i][2]) /\ (Tags[i].found <=> List[i][2] \in Range(s))
      BY <2>7, <3>1, TagPlace
    <3>3. Place(s, List[i][2]) \in DOMAIN s /\ s[Place(s, List[i][2])] = List[i][2]
      BY <2>6, <3>2, FoundAt
    <3> QED BY <1>4, <2>5, <3>2, <3>3
  <2>9. IsPrefix(p, s)
    BY <1>4, <1>5, <2>7, <2>8, PrefixOf
  <2> QED BY <1>3, <2>3, <2>7, <2>9
<1>8. n = 0 \/ n > 0
  OBVIOUS
<1> QED BY <1>6, <1>7, <1>8

\* The pager offers the page that brings the next rows.
LEMMA NextOffered ==
  ASSUME IInv, CInv, OInv, Calm, Paged, table # "air/logs", List # <<>>, size = PageSize, InPlace,
         \A i \in DOMAIN List : heap[List[i][1]].sized, Len(Ordered(query)) > Len(List)
  PROVE  \E p \in 1 .. Pages : IsNextPage(p) /\ (p - 1) * PageSize = Len(List)
<1>1. PICK n \in Nat \ {0} : n = Len(List)
  <2>1. Len(List) \in Nat /\ Len(List) # 0
    BY ListType, EmptySeq DEF RefOK
  <2> QED BY <2>1
<1>2. DOMAIN List = 1 .. n /\ DOMAIN Tags = 1 .. n /\ \A i \in 1 .. n : Tags[i] = TagOf(List[i])
  BY <1>1, TagsType DEF Tags
<1>3. PagedRows /\ net = {} /\ Headed(Tags)
  BY <1>1, WholePages
<1>4. \A i \in 1 .. n : Tags[i].query = query
  BY <1>2, <1>3 DEF PagedRows, Chosen, Awaited
<1>5. \A i \in 1 .. n : Tags[i].epoch = epoch /\ Tags[i].sized
  BY <1>2 DEF TagOf, InPlace
<1>6. \A i \in 1 .. n : Tags[i].place = i /\ Tags[i].of = Len(Ordered(query))
  BY <1>1, <1>2, <1>4, <1>5, InPlaces
<1>7. PICK t, e : t = Tags /\ e = epoch
  OBVIOUS
<1>8. n \in DOMAIN t /\ n \in 1 .. n
  BY <1>2, <1>7
<1>9. n = (t[n].start + 1) * PageSize
  <2>1. Placed(t, e) /\ Headed(t) /\ DOMAIN t = 1 .. n
    BY <1>2, <1>3, <1>7 DEF PagedRows
  <2>2. \A i \in 1 .. n : t[i].epoch = e /\ t[i].query = t[n].query
    BY <1>4, <1>5, <1>7, <1>8
  <2>3. t[n].place = n /\ n < t[n].of
    BY <1>1, <1>6, <1>7, <1>8
  <2> QED BY <2>1, <2>2, <2>3, FullPages
<1>10. PICK k \in Nat \ {0}, a \in Nat : k = PageSize /\ a = t[n].start
  <2>1. t[n].start \in Nat /\ PageSize \in Nat \ {0}
    BY <1>7, <1>8, TagsType, TableAssumption
  <2> QED BY <2>1
<1>11. n = (a + 1) * k
  BY <1>9, <1>10
<1>12. (n + k - 1) \div k = a + 1 /\ n \div k = a + 1 /\ \A tot \in Nat : tot > n => (tot + k - 1) \div k >= a + 2
  BY <1>11, PageCounts
<1>13. IsNextPage(a + 2)
  <2>1. a + 2 = (n + k - 1) \div k + 1
    BY <1>12
  <2> QED BY <1>1, <1>10, <2>1, Zenon DEF IsNextPage
<1>14. Pages \in Nat /\ Pages >= a + 2
  <2>1. CASE table \in Air
    <3>1. HeadNow /\ AllNow
      BY <1>2, <1>3, <1>5, <1>8 DEF HeadNow, AllNow, Headed
    <3>2. total > n /\ total \in Nat
      BY <1>1, <1>3, <2>1, <3>1, PagerSize DEF PagedRows, AirPager, Awaited, Offers
    <3>3. Pages = (total + k - 1) \div k
      BY <1>10, <2>1 DEF Pages
    <3>4. (total + k - 1) \div k \in Nat /\ (total + k - 1) \div k >= a + 2
      BY <1>12, <3>2
    <3> QED BY <3>3, <3>4
  <2>2. CASE table \notin Air
    BY <1>1, <1>10, <1>12, <2>2 DEF Pages
  <2> QED BY <2>1, <2>2
<1>15. a + 2 \in 1 .. Pages /\ (a + 2) - 1 = a + 1
  BY <1>14
<1> QED BY <1>1, <1>10, <1>11, <1>13, <1>15

\* For a user who waits for each answer, any number of records, pages and loads
\* on each of the twelve tables.
THEOREM PagesStayInOrder == Spec => []PagesInOrder
<1>1. Init => IInv /\ CInv /\ OInv
  BY InitInv, InitCalm, InitOrderly
<1>2. IInv /\ CInv /\ OInv /\ [Next]_vars => IInv' /\ CInv' /\ OInv'
  BY NextStep, CalmStep, OrderStep
<1>3. IInv /\ CInv /\ OInv => PagesInOrder
  <2> SUFFICES ASSUME IInv, CInv, OInv, Calm, Paged
               PROVE  /\ (InPlace /\ OneQuery) =>
                           \E q \in {"", "other"} :
                             IsPrefix([i \in DOMAIN List |-> IdOf(List[i])], Ordered(q))
                      /\ table # "air/logs" => \A i \in DOMAIN List : heap[List[i][1]].query = query
                      /\ (/\ table # "air/logs" /\ List # <<>> /\ size = PageSize /\ InPlace
                          /\ \A i \in DOMAIN List : heap[List[i][1]].sized
                          /\ Len(Ordered(query)) > Len(List))
                           => \E p \in 1 .. Pages : IsNextPage(p) /\ (p - 1) * PageSize = Len(List)
    BY DEF PagesInOrder
  <2>1. table # "air/logs" => \A i \in DOMAIN List : heap[List[i][1]].query = query
    <3>1. \A i \in DOMAIN List : Tags[i].query = heap[List[i][1]].query
      BY DEF Tags, TagOf
    <3>2. DOMAIN Tags = DOMAIN List
      BY DEF Tags
    <3> QED BY <3>1, <3>2, WholePages DEF PagedRows, Chosen, Awaited
  <2> QED BY <2>1, PrefixShown, NextOffered
<1> QED BY <1>1, <1>2, <1>3, PTL DEF Spec
=============================================================================
