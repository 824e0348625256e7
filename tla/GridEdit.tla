-------------------------------- MODULE GridEdit --------------------------------
(***************************************************************************)
(* The changes a user makes in the result grid: planned as one statement   *)
(* per row (driver-api/src/grid_edit.rs) and applied in a transaction of   *)
(* their own (apply_batch and apply_edit_batch of the drivers), while      *)
(* another client writes the same table.  Rows are those of a table with   *)
(* the one key column "key"; rows differ in its value.                     *)
(***************************************************************************)
EXTENDS Integers, Sequences, FiniteSets

CONSTANTS
    GeKeys,             \* the values of the key column
    GeColumns,          \* the other columns
    GeOpaque,           \* those whose values may be shown as a fallback or not at all
    GeDrivers,
    GeEdits,            \* bound: changes made in the grid
    GeWrites            \* bound: changes of the other client

ASSUME GeAssumption == GeOpaque \subseteq GeColumns /\ "key" \notin GeColumns

VARIABLES
    geDriver,
    geFolds,            \* whether the columns compare without case
    geComparable,       \* whether PostgreSQL compares values of every column
    geTable,            \* the committed rows, by key
    geWork,             \* the changes of the batch's transaction, by key
    geGrid,             \* the rows of the grid: GridEditRow
    gePlan,             \* the statements that are left
    geState,            \* "editing", "open", "applied", "conflict", "failed" or "refused"
    geEdited, geWritten

geVars == <<geDriver, geFolds, geComparable, geTable, geWork, geGrid, gePlan, geState, geEdited, geWritten>>

\* Values as the grid shows them: complete ones, one it shows a fallback of, and one not loaded.
Plain == {"x", "X"}
Opaque == "fallback"
Unresolved == "deferred"
ValuesOf(column) == Plain \cup (IF column \in GeOpaque THEN {Opaque, Unresolved} ELSE {})
Rows == {row \in [GeColumns -> Plain \cup {Opaque, Unresolved}] : \A c \in GeColumns : row[c] \in ValuesOf(c)}
NoRow == [c \in {} |-> ""]
MaybeRow == Rows \cup {NoRow}
\* No change of the transaction.
Kept == [c \in {"kept"} |-> ""]

Same(u, v) == u = v \/ (geFolds /\ {u, v} \subseteq Plain)

\* What the transaction reads: its own changes over what is committed.
Now(key) == IF geWork[key] # Kept THEN geWork[key] ELSE geTable[key]

GridRows ==
    [key : GeKeys, original : MaybeRow, current : Rows, touched : SUBSET GeColumns,
     inserted : BOOLEAN, deleted : BOOLEAN]

GeTypeOK ==
    /\ geDriver \in GeDrivers /\ geFolds \in BOOLEAN /\ geComparable \in BOOLEAN
    /\ geTable \in [GeKeys -> MaybeRow] /\ geWork \in [GeKeys -> MaybeRow \cup {Kept}]
    /\ geGrid \in Seq(GridRows) /\ gePlan \in Seq(1 .. Len(geGrid))
    /\ geState \in {"editing", "open", "applied", "conflict", "failed", "refused"}
    /\ geEdited \in 0 .. GeEdits /\ geWritten \in 0 .. GeWrites

Shown(table) ==
    LET keys == {k \in GeKeys : table[k] # NoRow}
        order == CHOOSE s \in [1 .. Cardinality(keys) -> keys] : \A i, j \in DOMAIN s : s[i] = s[j] => i = j
    IN  [i \in DOMAIN order |->
            [key |-> order[i], original |-> table[order[i]], current |-> table[order[i]], touched |-> {},
             inserted |-> FALSE, deleted |-> FALSE]]

GeInit ==
    /\ geDriver \in GeDrivers /\ geFolds \in BOOLEAN /\ geComparable \in BOOLEAN
    /\ geFolds => geDriver = "mysql"
    /\ geDriver # "postgres" => geComparable
    /\ geTable \in [GeKeys -> MaybeRow]
    /\ geWork = [k \in GeKeys |-> Kept]
    /\ geGrid = Shown(geTable) /\ gePlan = <<>> /\ geState = "editing"
    /\ geEdited = 0 /\ geWritten = 0

-----------------------------------------------------------------------------
(* Editing: what grid_editability and the kind of the cell allow. *)

HasOpaque(column) == \E i \in DOMAIN geGrid : geGrid[i].current[column] = Opaque
HasUnresolved == \E i \in DOMAIN geGrid : \E c \in GeColumns : geGrid[i].current[c] = Unresolved
\* Rows can be told apart and compared with what they were.
Keyed == geComparable /\ ~HasUnresolved
InsertEditable(column) == ~HasOpaque(column)
EditableColumn(column) == Keyed /\ ~HasOpaque(column)

Editing == geState = "editing" /\ geEdited < GeEdits /\ geEdited' = geEdited + 1
GridOnly == UNCHANGED <<geDriver, geFolds, geComparable, geTable, geWork, gePlan, geState, geWritten>>

\* A cell of a complete value gets another one.
GeEdit(i, column, value) ==
    /\ Editing /\ geGrid[i].current[column] \in Plain \ {value}
    /\ IF geGrid[i].inserted THEN InsertEditable(column) ELSE EditableColumn(column)
    /\ geGrid' = [geGrid EXCEPT ![i].current[column] = value, ![i].touched = @ \cup {column}]
    /\ GridOnly

\* A row without partial values is marked, and unmarked.
GeMark(i) ==
    /\ Editing /\ (geGrid[i].inserted \/ Keyed)
    /\ \A c \in GeColumns : geGrid[i].current[c] # Opaque
    /\ geGrid' = [geGrid EXCEPT ![i].deleted = ~@] /\ GridOnly

\* A row is added, with its key and other values than the default in some columns.
GeAdd(key, touched) ==
    /\ Editing /\ \A c \in touched : InsertEditable(c)
    /\ geGrid' = Append(geGrid,
            [key |-> key, original |-> NoRow, current |-> [c \in GeColumns |-> IF c \in touched THEN "X" ELSE "x"],
             touched |-> touched, inserted |-> TRUE, deleted |-> FALSE])
    /\ GridOnly

-----------------------------------------------------------------------------
(* Planning: plan_grid_edits. *)

Changes(row) == IF row.inserted THEN ~row.deleted ELSE row.deleted \/ row.touched # {}
Planned == SelectSeq([i \in DOMAIN geGrid |-> i], LAMBDA i : Changes(geGrid[i]))
\* The columns a row is matched by; one shown as a fallback is left out.
Matched(row) == {c \in GeColumns : row.original[c] # Opaque}
\* What the plan cannot express: then nothing of it is applied.
Inexpressible(row) ==
    IF row.inserted THEN \E c \in row.touched : ~InsertEditable(c) \/ row.current[c] \notin Plain
    ELSE \/ ~Keyed
         \/ \E c \in GeColumns : row.original[c] = Unresolved
         \/ row.deleted /\ Matched(row) # GeColumns
         \/ ~row.deleted /\ \E c \in row.touched : ~EditableColumn(c) \/ row.current[c] \notin Plain

\* The review is confirmed: the batch's transaction begins, or nothing is applied.
GeApply ==
    /\ geState = "editing" /\ Planned # <<>>
    /\ IF \E i \in DOMAIN geGrid : Changes(geGrid[i]) /\ Inexpressible(geGrid[i])
       THEN geState' = "refused" /\ gePlan' = gePlan
       ELSE geState' = "open" /\ gePlan' = Planned
    /\ UNCHANGED <<geDriver, geFolds, geComparable, geTable, geWork, geGrid, geEdited, geWritten>>

-----------------------------------------------------------------------------
(* Applying: apply_batch and apply_edit_batch. *)

AsShown(row, found) == found # NoRow /\ \A c \in Matched(row) : Same(found[c], row.original[c])
\* As it would be if the key alone identified the row.
HitsByKey(row) == {k \in {row.key} : Now(k) # NoRow}

\* The rows a statement changes; an UPDATE that changes nothing counts the row it finds.
Hits(row) == {k \in {row.key} : AsShown(row, Now(k))}
\* Columns an INSERT leaves out get their default.
Filled(row) == [c \in GeColumns |-> IF c \in row.touched THEN row.current[c] ELSE "x"]
Written(row, found) ==
    IF row.deleted THEN NoRow
    ELSE [c \in GeColumns |-> IF c \in row.touched THEN row.current[c] ELSE found[c]]

Applying == UNCHANGED <<geDriver, geFolds, geComparable, geGrid, geEdited, geWritten>>

\* Ends the transaction without its changes.
RollBack(report) ==
    /\ geWork' = [k \in GeKeys |-> Kept] /\ gePlan' = <<>> /\ geState' = report
    /\ UNCHANGED geTable

\* The next statement; expected_rows is 1 but for an INSERT.
GeStatement ==
    /\ geState = "open" /\ gePlan # <<>> /\ Applying
    /\ LET row == geGrid[Head(gePlan)] IN
       IF row.inserted
       THEN IF Now(row.key) # NoRow THEN RollBack("failed")
            ELSE /\ geWork' = [geWork EXCEPT ![row.key] = Filled(row)]
                 /\ gePlan' = Tail(gePlan) /\ UNCHANGED <<geState, geTable>>
       ELSE IF Cardinality(Hits(row)) # 1 THEN RollBack("conflict")
            ELSE /\ geWork' = [geWork EXCEPT ![row.key] = Written(row, Now(row.key))]
                 /\ gePlan' = Tail(gePlan) /\ UNCHANGED <<geState, geTable>>

\* The server refuses a statement, or the connection is lost before the COMMIT.
GeFails == geState = "open" /\ RollBack("failed") /\ Applying

\* The COMMIT; its answer may be lost.
GeCommit ==
    /\ geState = "open" /\ gePlan = <<>> /\ Applying
    /\ geTable' = [k \in GeKeys |-> Now(k)] /\ geWork' = [k \in GeKeys |-> Kept]
    /\ geState' \in {"applied", "failed"} /\ UNCHANGED gePlan

\* SQLite refuses the COMMIT: the transaction and its changes stay.
GeCommitRefused ==
    /\ geState = "open" /\ gePlan = <<>> /\ geDriver = "sqlite" /\ geState' = "failed"
    /\ Applying /\ UNCHANGED <<geTable, geWork, gePlan>>

-----------------------------------------------------------------------------
\* Another client inserts, changes or deletes a row, but for one that the transaction has changed;
\* SQLite admits one writer only.
GeOther(key, row) ==
    /\ geWritten < GeWrites /\ geWritten' = geWritten + 1
    /\ geState \in {"editing", "open"} /\ geWork[key] = Kept /\ row # geTable[key]
    /\ ~(geState = "open" /\ geDriver = "sqlite")
    /\ geTable' = [geTable EXCEPT ![key] = row]
    /\ UNCHANGED <<geDriver, geFolds, geComparable, geWork, geGrid, gePlan, geState, geEdited>>

OtherRows(row) ==
    {NoRow} \cup (IF row = NoRow THEN {[c \in GeColumns |-> "x"]}
                  ELSE UNION {{[row EXCEPT ![c] = v] : v \in ValuesOf(c)} : c \in GeColumns})

GeNext ==
    \/ \E i \in DOMAIN geGrid : GeMark(i) \/ \E c \in GeColumns, v \in Plain : GeEdit(i, c, v)
    \/ \E key \in GeKeys, touched \in SUBSET GeColumns : GeAdd(key, touched)
    \/ GeApply \/ GeStatement \/ GeFails \/ GeCommit \/ GeCommitRefused
    \/ \E key \in GeKeys : \E row \in OtherRows(geTable[key]) : GeOther(key, row)

GeSpec == GeInit /\ [][GeNext]_geVars

-----------------------------------------------------------------------------
\* What the grid asks of the row with this key.
Asked(key, P(_)) == \E i \in DOMAIN geGrid : geGrid[i].key = key /\ Changes(geGrid[i]) /\ P(geGrid[i])
Inserts(row) == row.inserted
ChangesIt(row) == ~row.inserted

\* The batch's transaction changes the rows that were reviewed and no other, each only while it is
\* what the user saw of it, and in the columns the user touched; or it changes nothing.  What is
\* reported as applied is applied whole (plan_grid_edits with the drivers' batches; "If ChoscorDB
\* cannot apply all changes, it applies none of them").
GeAppliedAsReviewed ==
    [][geState = "open" /\ geState' # "open" =>
        \/ geTable' = geTable /\ geState' # "applied"
        \/ \A key \in GeKeys :
             LET before == geTable[key]  after == geTable'[key]
                 seen(row) == before # NoRow
                              /\ \A c \in GeColumns : row.original[c] \in Plain => Same(before[c], row.original[c])
                 kept(row) == \A c \in GeColumns : after[c] = IF c \in row.touched THEN row.current[c] ELSE before[c]
                 changed(row) == seen(row) /\ IF row.deleted THEN after = NoRow ELSE after # NoRow /\ kept(row)
                 removed(row) == ~row.inserted /\ seen(row) /\ row.deleted
                 filled(row) == row.inserted /\ after = row.current
             IN  IF Asked(key, Inserts)
                 THEN (before = NoRow \/ Asked(key, removed)) /\ Asked(key, filled)
                 ELSE IF Asked(key, ChangesIt) THEN Asked(key, changed) ELSE after = before]_geVars
=============================================================================
