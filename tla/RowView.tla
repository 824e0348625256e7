-------------------------------- MODULE RowView --------------------------------
(***************************************************************************)
(* A filtered and sorted view of a result (ApplyResultView of              *)
(* core/src/actor.rs): the cursor is read to its end, every stored page is *)
(* filtered, the rows are put in order by a temporary table when a sort is *)
(* asked for, and the pages of the view replace those of the view before.  *)
(* A result has one column that is filtered and sorted; rows have a size,  *)
(* which stands for their bytes in memory and on disk.                     *)
(***************************************************************************)
EXTENDS Integers, Sequences, FiniteSets
LOCAL INSTANCE SequencesExt
LOCAL INSTANCE FiniteSetsExt

CONSTANTS
    RvResults,          \* what the cursor delivers: sequences of pages, sequences of rows
    RvFilters,          \* sequences of filters [op, operand] that are asked for
    RvSorts,            \* subset of {"none", "up", "down", "json"}
    RvSizes,            \* page sizes of views
    RvPageBytes,        \* the limit of a page in memory
    RvDisk,             \* the disk budget of a result and its view
    RvViews             \* bound: views asked for

ASSUME RvAssumption ==
    /\ RvSizes \subseteq Nat \ {0} /\ RvSorts \subseteq {"none", "up", "down", "json"}
    /\ RvPageBytes \in Nat /\ RvDisk \in Nat /\ RvViews \in Nat

VARIABLES
    rvResult,           \* the pages of the cursor
    rvCursor,           \* "open", also when all is stored but not settled, "done",
                        \* "broken" (kept, but no page follows) or "closed"
    rvStored,           \* how many of its pages are stored
    rvView,             \* the pages of the view: [rows, more]
    rvJob,              \* the view that is made
    rvCancelled,        \* its cancellation
    rvAnswer,           \* the last event: [kind, rows]
    rvAsked

rvVars == <<rvResult, rvCursor, rvStored, rvView, rvJob, rvCancelled, rvAnswer, rvAsked>>

NoView == <<>>
Resting == [phase |-> "none"]
NoPages == [pages |-> <<>>, pending |-> <<>>]
RowsOf(pages) == FlattenSeq([i \in DOMAIN pages |-> pages[i].rows])
SizeOf(rows) == FoldLeft(LAMBDA sum, row : sum + row.size, 0, rows)
DiskOf(pages) == SizeOf(RowsOf(pages))
StoredRows == FlattenSeq(SubSeq(rvResult, 1, rvStored))

RvInit ==
    /\ rvResult \in RvResults /\ rvCursor = "open" /\ rvStored = 0
    /\ rvView = NoView /\ rvJob = Resting /\ rvCancelled = FALSE
    /\ rvAnswer = [kind |-> "none", rows |-> 0] /\ rvAsked = 0

-----------------------------------------------------------------------------
(* Filters: value_matches and Predicates::row_matches.  A value is "null", *)
(* an "integer", a "text" of a number, "nan", a text that is not of the    *)
(* declared type ("malformed"), or one that is not complete ("partial").   *)

IsNumber(value) == value.kind \in {"integer", "nan"}
\* cmp has an answer.
Comparable(value, operand) == value.kind = operand.kind /\ value.kind \notin {"nan", "partial"}
Answer(yes) == IF yes THEN "yes" ELSE "no"
Equal(value, operand) ==
    IF value.kind = "partial" THEN "invalid"
    ELSE IF value.kind = "null" THEN "no"
    ELSE IF ~Comparable(value, operand) THEN "invalid" ELSE Answer(value.n = operand.n)

Matches(value, filter) ==
    LET operand == filter.operand IN
    CASE filter.op = "isNull" -> Answer(value.kind = "null")
      [] filter.op = "isNotNull" -> Answer(value.kind # "null")
      [] filter.op = "in" ->
            LET found == {Equal(value, o) : o \in {x \in operand : x.kind # "null"}} IN
            IF "invalid" \in found THEN "invalid" ELSE Answer("yes" \in found)
      \* A value is bound to the condition; SQLite takes NaN for NULL.
      [] filter.op \in {"like", "notLike"} ->
            IF value.kind = "partial" THEN "invalid"
            ELSE Answer(value.kind \notin {"null", "nan"} /\ (value.n = operand.n) = (filter.op = "like"))
      \* A condition that reads no column holds of every row.
      [] filter.op = "sqlOfOthers" -> "yes"
      [] value.kind = "partial" -> "invalid"
      [] value.kind = "null" -> "no"
      [] filter.op = "contains" ->
            IF value.kind \notin {"text", "malformed"} \/ operand.kind # "text" THEN "invalid"
            ELSE Answer(operand.n \in {0, value.n})
      [] filter.op = "equals" -> Equal(value, operand)
      [] filter.op = "notEquals" ->
            IF Comparable(value, operand) THEN Answer(value.n # operand.n) ELSE "invalid"
      [] OTHER ->
            IF ~IsNumber(value) \/ ~Comparable(value, operand) THEN "invalid"
            ELSE Answer(IF filter.op = "less" THEN value.n < operand.n ELSE value.n >= operand.n)

\* Every filter is asked, also when an earlier one does not match.
RowMatches(row, filters) ==
    LET answers == {Matches(row.value, filters[i]) : i \in DOMAIN filters} IN
    IF "invalid" \in answers THEN "invalid" ELSE Answer("no" \notin answers)

\* Predicates::new refuses what is no condition, no list and no pattern.
Readable(filters) == \A i \in DOMAIN filters : filters[i].op # "unreadable"

-----------------------------------------------------------------------------
(* Order: sort_key, sort_compare and the temporary table. *)

Sorted(job) == job.sort # "none"
\* The key of a row can be had, and compared with the sample.
Sortable(value, sample) ==
    /\ value.kind \notin {"partial", "malformed"}
    /\ value.kind # "null" /\ sample # {} => Comparable(CHOOSE v \in sample : TRUE, value)
Sampled(value, sample) == IF value.kind # "null" /\ sample = {} THEN {value} ELSE sample

\* As it would be if a descending sort reversed all of it.
BeforeReversed(a, b, sort) ==
    LET null(row) == row.value.kind = "null"
        less(x, y) == ~null(x) /\ (null(y) \/ x.value.n < y.value.n)
    IN  IF sort = "down" THEN less(b, a) ELSE less(a, b)

\* NULL is last in both directions.
Before(a, b, sort) ==
    LET null(row) == row.value.kind = "null" IN
    ~null(a) /\ (null(b) \/ (IF sort = "down" THEN a.value.n > b.value.n ELSE a.value.n < b.value.n))
\* ORDER BY the key and the sequence in which rows came.
Ordered(rows, sort) ==
    LET first(i, j) == Before(rows[i], rows[j], sort) \/ (~Before(rows[j], rows[i], sort) /\ i < j)
        place(i) == 1 + Cardinality({j \in DOMAIN rows : j # i /\ first(j, i)})
    IN  [p \in DOMAIN rows |-> rows[CHOOSE i \in DOMAIN rows : place(i) = p]]

-----------------------------------------------------------------------------
(* Pages of a view. *)

Closed(paged) == [rows |-> paged.pending, more |-> TRUE]
\* As it would be if a page that grew too long were closed with the row that begins the next one.
AddRowTwice(paged, row, size) ==
    LET room == IF Len(paged.pending) < size THEN paged
                ELSE [pages |-> Append(paged.pages, Closed(paged)), pending |-> <<>>]
        full == [room EXCEPT !.pending = Append(@, row)]
    IN  IF Len(full.pending) > 1 /\ SizeOf(full.pending) > RvPageBytes
        THEN [pages |-> Append(room.pages, Closed(full)), pending |-> <<row>>]
        ELSE full
\* A full page is closed before a row is added; a row that exceeds the limit begins another.
AddRow(paged, row, size) ==
    LET room == IF Len(paged.pending) < size THEN paged
                ELSE [pages |-> Append(paged.pages, Closed(paged)), pending |-> <<>>]
        full == Append(room.pending, row)
    IN  IF Len(full) > 1 /\ SizeOf(full) > RvPageBytes
        THEN [pages |-> Append(room.pages, Closed(room)), pending |-> <<row>>]
        ELSE [room EXCEPT !.pending = full]
Pages(paged) == Append(paged.pages, [rows |-> paged.pending, more |-> FALSE])

-----------------------------------------------------------------------------
(* Reading the cursor. *)

Idle == rvJob = Resting
\* The store is complete with the last page, and takes none after it.
StoreTakesPage ==
    /\ rvCursor = "open" /\ rvStored < Len(rvResult)
    /\ SizeOf(StoredRows) + SizeOf(rvResult[rvStored + 1]) <= RvDisk
AfterPage == IF rvStored + 1 = Len(rvResult) THEN "done" ELSE "open"

\* The user pages through the result; a page that fails closes its cursor.
RvFetch ==
    /\ Idle /\ rvCursor \in {"open", "broken"}
    /\ \/ /\ StoreTakesPage
          /\ rvStored' = rvStored + 1 /\ rvCursor' = AfterPage
       \/ rvStored' = rvStored /\ rvCursor' = "closed"
    /\ UNCHANGED <<rvResult, rvView, rvJob, rvCancelled, rvAnswer, rvAsked>>

-----------------------------------------------------------------------------
(* ApplyResultView. *)

\* The view is asked for, and what is stored of its result is the beginning.
RvApply(filters, sort, size) ==
    /\ Idle /\ rvAsked < RvViews /\ rvAsked' = rvAsked + 1
    /\ rvJob' = [phase |-> IF rvCursor \in {"open", "broken"} THEN "reading" ELSE "beginning",
                 filters |-> filters, sort |-> sort, size |-> size,
                 room |-> 0, at |-> 0, sample |-> {}, kept |-> <<>>, paged |-> NoPages]
    /\ rvCancelled' = FALSE
    /\ UNCHANGED <<rvResult, rvCursor, rvStored, rvView, rvAnswer>>

\* What was made of a view is dropped, and the view before it stays.
Fails ==
    /\ rvJob' = Resting /\ rvAnswer' = [kind |-> "failed", rows |-> 0]
    /\ UNCHANGED <<rvView, rvResult, rvAsked>>

\* A page of the rest of the result.  The cancellation is looked at before the fetch and after it, and
\* only then is the last page the end of the cursor.
RvRead ==
    /\ rvJob.phase = "reading" /\ ~rvCancelled
    /\ \/ /\ StoreTakesPage
          /\ rvStored' = rvStored + 1 /\ rvCursor' = AfterPage
          /\ rvJob' = [rvJob EXCEPT !.phase = IF AfterPage = "done" THEN "beginning" ELSE @]
          /\ UNCHANGED <<rvResult, rvView, rvCancelled, rvAnswer, rvAsked>>
       \* The cancellation came during the fetch: the page is stored, and the cursor stays as it was.
       \/ /\ StoreTakesPage
          /\ rvStored' = rvStored + 1 /\ rvCursor' = "open" /\ rvCancelled' = TRUE /\ Fails
       \* The page is stored, but the cursor cannot be settled.
       \/ /\ StoreTakesPage /\ AfterPage = "open"
          /\ rvStored' = rvStored + 1 /\ rvCursor' = "broken" /\ UNCHANGED rvCancelled /\ Fails
       \* The database fails, or the store does not take the page: then it takes no later one either.
       \/ rvCursor' = "broken" /\ UNCHANGED <<rvStored, rvCancelled>> /\ Fails

\* The cancellation is seen between pages, or by the sort.
RvStopped ==
    /\ rvJob.phase \in {"reading", "scanning", "ordering"} /\ rvCancelled
    /\ Fails /\ UNCHANGED <<rvCursor, rvStored, rvCancelled>>

\* The filters are prepared and the budget of the view is what the others leave of it.
RvBegin ==
    /\ rvJob.phase = "beginning" /\ UNCHANGED <<rvCursor, rvStored>>
    /\ LET used == SizeOf(StoredRows) + DiskOf(rvView) IN
       IF ~Readable(rvJob.filters) \/ rvJob.sort = "json" \/ used > RvDisk
       THEN Fails /\ UNCHANGED rvCancelled
       ELSE /\ rvJob' = [rvJob EXCEPT !.phase = IF rvStored = 0 THEN "ordering" ELSE "scanning",
                                      !.room = RvDisk - used]
            /\ UNCHANGED <<rvResult, rvView, rvCancelled, rvAnswer, rvAsked>>

\* The job after one more row of a page; phase "invalid" when it cannot be filtered or sorted.
Scanned(job, row) ==
    LET matches == RowMatches(row, job.filters) IN
    IF job.phase = "invalid" \/ matches = "invalid" \/ (Sorted(job) /\ ~Sortable(row.value, job.sample))
    THEN [job EXCEPT !.phase = "invalid"]
    ELSE [job EXCEPT
            !.sample = IF Sorted(job) THEN Sampled(row.value, @) ELSE @,
            !.kept = IF Sorted(job) /\ matches = "yes" THEN Append(@, row) ELSE @,
            !.paged = IF ~Sorted(job) /\ matches = "yes" THEN AddRow(@, row, job.size) ELSE @]

\* One stored page, into the temporary table or the pages of the view.
RvScan ==
    /\ rvJob.phase = "scanning" /\ ~rvCancelled /\ UNCHANGED <<rvCursor, rvStored>>
    /\ LET job == FoldLeft(Scanned, [rvJob EXCEPT !.at = @ + 1], rvResult[rvJob.at + 1]) IN
       IF job.phase = "invalid" \/ SizeOf(job.kept) > job.room \/ DiskOf(job.paged.pages) > job.room
       THEN Fails /\ UNCHANGED rvCancelled
       ELSE /\ rvJob' = [job EXCEPT !.phase = IF job.at = rvStored THEN "ordering" ELSE @]
            /\ UNCHANGED <<rvResult, rvView, rvCancelled, rvAnswer, rvAsked>>

\* The rows in order are paged beside the temporary table, and the view replaces the one before.
RvFinish ==
    /\ rvJob.phase = "ordering" /\ UNCHANGED <<rvCursor, rvStored>>
    /\ LET add(paged, row) == AddRow(paged, row, rvJob.size)
           pages == Pages(IF Sorted(rvJob) THEN FoldLeft(add, NoPages, Ordered(rvJob.kept, rvJob.sort)) ELSE rvJob.paged)
       IN  IF DiskOf(pages) > rvJob.room - SizeOf(rvJob.kept) THEN Fails /\ UNCHANGED rvCancelled
           ELSE /\ rvView' = pages /\ rvJob' = Resting
                /\ rvAnswer' = [kind |-> "applied", rows |-> Len(RowsOf(pages))]
                /\ UNCHANGED <<rvResult, rvCancelled, rvAsked>>

RvCancel ==
    /\ ~Idle /\ ~rvCancelled /\ rvCancelled' = TRUE
    /\ UNCHANGED <<rvResult, rvCursor, rvStored, rvView, rvJob, rvAnswer, rvAsked>>

\* ClearResultView: the result is shown as it is stored.
RvClear ==
    /\ Idle /\ rvView # NoView /\ rvView' = NoView
    /\ rvAnswer' = [kind |-> "applied", rows |-> Len(StoredRows)]
    /\ UNCHANGED <<rvResult, rvCursor, rvStored, rvJob, rvCancelled, rvAsked>>

RvNext ==
    \/ RvFetch \/ RvRead \/ RvStopped \/ RvBegin \/ RvScan \/ RvFinish \/ RvCancel \/ RvClear
    \/ \E filters \in RvFilters, sort \in RvSorts, size \in RvSizes : RvApply(filters, sort, size)

RvSpec == RvInit /\ [][RvNext]_rvVars

-----------------------------------------------------------------------------
(* What a view is. *)

\* A filter holds of a value that is known, whatever is asked of it; NULL is known to be NULL.
Holds(value, filter) ==
    CASE filter.op = "isNull" -> value.kind = "null"
      [] filter.op = "isNotNull" -> value.kind # "null"
      [] filter.op = "sqlOfOthers" -> TRUE
      [] OTHER ->
            /\ value.kind \notin {"null", "nan"}
            /\ CASE filter.op \in {"equals", "like"} -> value.n = filter.operand.n
                 [] filter.op \in {"notEquals", "notLike"} -> value.n # filter.operand.n
                 [] filter.op = "in" -> \E o \in filter.operand : o.kind = value.kind /\ o.n = value.n
                 [] filter.op = "contains" -> filter.operand.n \in {0, value.n}
                 [] filter.op = "less" -> value.n < filter.operand.n
                 [] filter.op = "atLeast" -> value.n >= filter.operand.n
\* A filter that has to know the value.
Reads(filter) ==
    /\ filter.op \notin {"isNull", "isNotNull", "sqlOfOthers"}
    /\ filter.op = "in" => \E o \in filter.operand : o.kind # "null"
Selected(job) == {row \in Range(StoredRows) : \A i \in DOMAIN job.filters : Holds(row.value, job.filters[i])}
InPlace(a, b, sort) ==
    LET known(row) == row.value.kind # "null" IN
    IF sort = "none" \/ ~(known(a) \/ known(b)) THEN a.id < b.id
    ELSE IF known(a) # known(b) THEN known(a)
    ELSE IF a.value.n = b.value.n THEN a.id < b.id ELSE (a.value.n < b.value.n) = (sort = "up")

\* A view that is applied shows exactly the rows of the whole result that its filters hold of, in its
\* order, rows that compare equal in the order of the result and NULL last; no row was passed over
\* because its value was not complete.  Its pages have no more rows and bytes than allowed, only the
\* last is marked as such, and the count that is reported is theirs.  The files of a result and of its
\* view stay within their budget.  A view that fails or is cancelled leaves the earlier one and what
\* is stored (ApplyResultView, SortedRows and row_matches).
RvShowsWhatWasAsked ==
    [][/\ rvView' # rvView /\ rvView' # NoView =>
            LET shown == RowsOf(rvView') IN
            /\ rvCursor \in {"done", "closed"} /\ rvAnswer'.kind = "applied" /\ rvAnswer'.rows = Len(shown)
            /\ Range(shown) = Selected(rvJob)
            /\ \A i, j \in DOMAIN shown : i < j => InPlace(shown[i], shown[j], rvJob.sort)
            /\ \A row \in Range(StoredRows) :
                    row.value.kind = "partial" =>
                        rvJob.sort = "none" /\ \A i \in DOMAIN rvJob.filters : ~Reads(rvJob.filters[i])
            /\ \A p \in DOMAIN rvView' :
                    LET page == rvView'[p] IN
                    /\ page.more = (p < Len(rvView'))
                    /\ Len(page.rows) \in (IF Len(rvView') = 1 THEN 0 ELSE 1) .. rvJob.size
                    /\ Len(page.rows) > 1 => SizeOf(page.rows) <= RvPageBytes
            /\ SizeOf(StoredRows) + DiskOf(rvView') <= RvDisk
       /\ rvAnswer'.kind = "failed" => rvView' = rvView /\ rvStored' >= rvStored
       /\ rvCursor' = "done" => rvStored' = Len(rvResult)]_rvVars

RvTypeOK ==
    /\ rvCursor \in {"open", "done", "broken", "closed"}
    /\ rvStored \in 0 .. Len(rvResult) /\ rvAsked \in 0 .. RvViews /\ rvCancelled \in BOOLEAN
    /\ rvAnswer.kind \in {"none", "applied", "failed"} /\ rvAnswer.rows \in 0 .. Len(StoredRows)
    /\ rvJob.phase \in {"none", "reading", "beginning", "scanning", "ordering"}
    /\ ~Idle => rvJob.at \in 0 .. rvStored /\ rvJob.room \in 0 .. RvDisk /\ Cardinality(rvJob.sample) <= 1
=============================================================================
