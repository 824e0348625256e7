---------------------------- MODULE SqliteSession ----------------------------
(***************************************************************************)
(* A SQLite session (driver-sqlite/src/worker.rs, lib.rs, object_data.rs). *)
(* A thread of its own owns the database and takes commands one after      *)
(* another; while a result is open its statement stays suspended between   *)
(* pages.  Finishing a suspended statement would save what it wrote, so    *)
(* one that was cancelled or is late is resumed and interrupted first.     *)
(*                                                                         *)
(* An interrupt may also reach the read or the statement that runs by      *)
(* then: SQLite may fail any of them.                                      *)
(***************************************************************************)
EXTENDS Naturals

CONSTANTS
    SqExecutes,         \* bound on the statements and edit batches
    SqSorts,            \* "write", "rows", "begin", "commit", "rollback"
    SqEditCommitFails   \* whether the database may refuse the COMMIT of an edit batch
ASSUME SqAssumption == SqExecutes \in Nat

VARIABLES
    sqCancel,           \* CancellationState, and the flag of the progress handler
    sqDb,               \* the transaction of the connection
    sqWorker,           \* the thread and its suspended statement
    sqCaller,           \* the command that is waited for
    sqStopped           \* results cancelled, or late, while suspended, and refused edits
sqVars == <<sqCancel, sqDb, sqWorker, sqCaller, sqStopped>>

SqEffects == 1..SqExecutes
SqQuiet == [of |-> {}, done |-> FALSE, own |-> FALSE]
SqIdle == [at |-> "idle", n |-> 0, sort |-> "none", stepped |-> FALSE, live |-> FALSE,
           late |-> FALSE]

SqInit ==
    /\ sqCancel = [gen |-> 0, cancelled |-> 0, requested |-> FALSE]
    /\ sqDb = [open |-> FALSE, work |-> {}, saved |-> {}, undone |-> {}]
    /\ sqWorker = SqIdle /\ sqStopped = {}
    /\ sqCaller = [op |-> "idle", sort |-> "none", manual |-> FALSE, executed |-> 0,
                   cursor |-> FALSE, said |-> SqQuiet]

SqTypeOK ==
    /\ sqCancel.gen \in 0..SqExecutes /\ sqCancel.cancelled \in 0..(SqExecutes + 1)
    /\ sqCancel.requested \in BOOLEAN
    /\ {sqDb.work, sqDb.saved, sqDb.undone} \subseteq SUBSET SqEffects
    /\ sqDb.work = {} \/ sqDb.open \/ sqWorker.live
    /\ sqWorker.at \in {"idle", "start", "cursor", "ended"}
    /\ sqWorker.live => sqWorker.at = "cursor" /\ sqWorker.stepped
    /\ sqCaller.op \in {"idle", "execute", "fetch", "read", "finish", "commit", "rollback",
                        "edit", "gone"}

-----------------------------------------------------------------------------
\* External: what SQLite does to the transaction of the connection.
SqCommitted(db) == [db EXCEPT !.saved = @ \cup db.work, !.work = {}, !.open = FALSE]
SqRolledBack(db) == [db EXCEPT !.undone = @ \cup db.work, !.work = {}, !.open = FALSE]
\* A statement that fails is undone; one that is interrupted may take its transaction along.
SqFailed(db, n) ==
    {[db EXCEPT !.work = @ \ {n}, !.undone = @ \cup (db.work \cap {n})], SqRolledBack(db)}
SqWrote(db, n) == [db EXCEPT !.work = @ \cup {n}]
\* The end of a statement saves it, unless a transaction is open.
SqStatementEnds(db) == IF db.open THEN db ELSE SqCommitted(db)
SqRan(db, sort, n) ==
    CASE sort = "begin" -> IF db.open THEN {} ELSE {[db EXCEPT !.open = TRUE]}
      [] sort = "commit" -> IF db.open THEN {SqCommitted(db)} ELSE {}
      [] sort = "rollback" -> IF db.open THEN {SqRolledBack(db)} ELSE {}
      [] OTHER -> {SqStatementEnds(SqWrote(db, n))}

SqReply(said) == sqCaller' = IF sqCaller.op = "gone" THEN sqCaller
    ELSE [sqCaller EXCEPT !.op = "idle", !.said = said]
\* Started: the caller has a cursor.
SqStarted(said) == sqCaller' = IF sqCaller.op = "gone" THEN sqCaller
    ELSE [sqCaller EXCEPT !.op = "idle", !.said = said, !.cursor = TRUE]
SqSaid(n, done, own) == [of |-> {n}, done |-> done, own |-> own]
SqStop == sqCancel.requested

-----------------------------------------------------------------------------
\* The session and its cursor; the actor closes a result before anything but a read.
SqRequest(op) ==
    /\ sqCaller.op = "idle"
    /\ IF op \in {"fetch", "finish"} THEN sqCaller.cursor
       ELSE op = "read" \/ ~sqCaller.cursor
    /\ op = "edit" => sqCaller.executed < SqExecutes
    /\ sqCaller' = [sqCaller EXCEPT !.op = op, !.said = SqQuiet,
            !.cursor = @ /\ op # "finish",
            !.executed = @ + IF op = "edit" THEN 1 ELSE 0]
    /\ UNCHANGED <<sqCancel, sqDb, sqWorker, sqStopped>>

SqExecute(sort, manual) ==
    /\ sqCaller.op = "idle" /\ ~sqCaller.cursor /\ sqCaller.executed < SqExecutes
    /\ sqCaller' = [sqCaller EXCEPT !.op = "execute", !.sort = sort, !.manual = manual,
            !.executed = @ + 1, !.said = SqQuiet]
    /\ UNCHANGED <<sqCancel, sqDb, sqWorker, sqStopped>>

SqSuspended == sqWorker.live /\ ~sqDb.open /\ sqCaller.op = "idle"
SqStopping == IF SqSuspended THEN sqStopped \cup {sqWorker.n} ELSE sqStopped

\* QueryCancellation::cancel, under the mutex of the generation.
SqCancelQuery(g) ==
    /\ sqCancel.cancelled # g /\ sqCaller.op # "gone"
    /\ \/ /\ g = sqCancel.gen
          /\ sqCancel' = [sqCancel EXCEPT !.requested = TRUE,
                  !.cancelled = IF @ > g THEN @ ELSE g]
          /\ sqStopped' = SqStopping
       \/ /\ g = sqCancel.gen + 1 /\ (sqCaller.op = "execute" \/ (sqCaller.op = "idle" /\ ~sqCaller.cursor))
          /\ sqCancel' = [sqCancel EXCEPT !.cancelled = g]
          /\ UNCHANGED sqStopped
    /\ UNCHANGED <<sqDb, sqWorker, sqCaller>>

\* The deadline of the statement passes.
SqDeadline ==
    /\ sqWorker.at \in {"start", "cursor"} /\ ~sqWorker.late
    /\ sqWorker' = [sqWorker EXCEPT !.late = TRUE]
    /\ sqStopped' = SqStopping
    /\ UNCHANGED <<sqCancel, sqDb, sqCaller>>

\* SqliteConnection::close and Drop: interrupt what runs, then Close.
SqLeave(drop) ==
    /\ sqCaller.op # "gone"
    /\ sqCaller' = [sqCaller EXCEPT !.op = "gone", !.cursor = FALSE, !.said = SqQuiet]
    /\ sqCancel' = [sqCancel EXCEPT !.requested = @ \/ drop]
    /\ UNCHANGED <<sqDb, sqWorker, sqStopped>>

-----------------------------------------------------------------------------
\* run: the next generation begins, cancelled already if its cancellation came first.
SqTakeExecute == LET g == sqCancel.gen + 1 IN
    /\ sqWorker.at = "idle" /\ sqCaller.op = "execute"
    /\ sqCancel' = [sqCancel EXCEPT !.gen = g, !.requested = sqCancel.cancelled = g]
    /\ sqWorker' = [SqIdle EXCEPT !.at = "start", !.n = sqCaller.executed, !.sort = sqCaller.sort]
    /\ UNCHANGED <<sqDb, sqCaller, sqStopped>>

\* execute: BEGIN for a manual statement; one without columns runs to its end at once.
SqStart ==
    /\ sqWorker.at = "start"
    /\ LET begun == [sqDb EXCEPT !.open = @ \/ sqCaller.manual]
           n == sqWorker.n
           fails == SqReply(SqSaid(n, FALSE, FALSE)) /\ sqWorker' = SqIdle
           cursor == [sqWorker EXCEPT !.at = "cursor"] IN
        \/ SqStop /\ fails /\ UNCHANGED sqDb
        \/ ~SqStop /\ fails /\ sqDb' \in {sqDb, begun} \cup SqFailed(begun, n)
        \/ /\ ~SqStop /\ sqWorker.sort # "rows"
           /\ sqDb' \in SqRan(begun, sqWorker.sort, n)
           /\ sqWorker' = cursor
           /\ SqStarted(IF sqWorker.sort = "write" THEN SqSaid(n, TRUE, ~begun.open) ELSE SqQuiet)
        \/ /\ ~SqStop /\ sqWorker.sort = "rows"
           /\ sqDb' = begun /\ sqWorker' = cursor /\ SqStarted(SqQuiet)
    /\ UNCHANGED <<sqCancel, sqStopped>>

\* A page; the statement writes when its first row is asked for, and a row more than the
\* page is read ahead to tell whether there are further rows.
SqFetch == LET n == sqWorker.n
              wrote == IF sqWorker.stepped THEN sqDb ELSE SqWrote(sqDb, n) IN
    /\ sqWorker.at = "cursor" /\ sqCaller.op = "fetch"
    /\ \/ /\ SqStop \/ sqWorker.late      \* refused before a row is read
          /\ SqReply(SqQuiet) /\ UNCHANGED <<sqDb, sqWorker>>
       \/ /\ ~SqStop /\ ~sqWorker.late
          /\ sqWorker.sort # "rows" \/ (sqWorker.stepped /\ ~sqWorker.live)
          /\ SqReply(SqQuiet) /\ UNCHANGED <<sqDb, sqWorker>>
       \/ /\ ~SqStop /\ ~sqWorker.late
          /\ sqWorker.sort = "rows" /\ (sqWorker.stepped => sqWorker.live)
          /\ \/ \E read \in BOOLEAN :       \* suspended, or a row could not be kept
                /\ sqDb' = wrote
                /\ sqWorker' = [sqWorker EXCEPT !.stepped = TRUE, !.live = TRUE]
                /\ SqReply(IF read THEN SqSaid(n, TRUE, FALSE) ELSE SqQuiet)
             \/ /\ sqDb' = SqStatementEnds(wrote)
                /\ sqWorker' = [sqWorker EXCEPT !.stepped = TRUE, !.live = FALSE]
                /\ SqReply(SqSaid(n, TRUE, ~sqDb.open))
             \/ /\ sqDb' \in SqFailed(sqDb, n)
                /\ sqWorker' = [sqWorker EXCEPT !.stepped = TRUE, !.live = FALSE]
                /\ SqReply(SqSaid(n, FALSE, FALSE))
    /\ UNCHANGED <<sqCancel, sqStopped>>

\* Catalog and object reads, with the deadline of the statement set aside.
SqRead ==
    /\ sqWorker.at \in {"idle", "cursor"} /\ sqCaller.op = "read"
    /\ SqReply(SqQuiet)
    /\ UNCHANGED <<sqCancel, sqDb, sqWorker, sqStopped>>

\* abort_suspended_rows
SqAbort == sqWorker.live /\ (SqStop \/ sqWorker.late)

SqFinish ==
    /\ sqWorker.at = "cursor" /\ sqCaller.op = "finish"
    /\ IF SqAbort THEN sqDb' \in SqFailed(sqDb, sqWorker.n)
       ELSE sqDb' = SqStatementEnds(sqDb)
    /\ sqWorker' = SqIdle /\ SqReply(SqQuiet)
    /\ UNCHANGED <<sqCancel, sqStopped>>

\* COMMIT may be refused, and leaves the transaction open.
SqTransaction ==
    /\ sqWorker.at = "idle" /\ sqCaller.op \in {"commit", "rollback"}
    /\ sqDb' \in IF ~sqDb.open THEN {sqDb}
                 ELSE IF sqCaller.op = "commit" THEN {SqCommitted(sqDb), sqDb}
                 ELSE {SqRolledBack(sqDb)}
    /\ SqReply(SqQuiet)
    /\ UNCHANGED <<sqCancel, sqWorker, sqStopped>>

SqBatchAnywhere == TRUE
\* Grid changes are a transaction of their own.
SqBatchAlone == ~sqDb.open

\* apply_edit_batch: a statement that fails or changes another number of rows than expected
\* rolls the batch back; a COMMIT that is refused does not.
SqEdit == LET n == sqCaller.executed IN
    /\ sqWorker.at = "idle" /\ sqCaller.op = "edit"
    /\ \/ /\ SqReply(SqSaid(n, FALSE, FALSE)) /\ sqStopped' = sqStopped \cup {n}
          /\ \/ UNCHANGED sqDb
             \/ /\ SqBatchAlone /\ SqEditCommitFails
                /\ sqDb' = [SqWrote(sqDb, n) EXCEPT !.open = TRUE]
       \/ /\ SqBatchAlone
          /\ sqDb' = SqCommitted(SqWrote(sqDb, n)) /\ SqReply(SqSaid(n, TRUE, TRUE))
          /\ UNCHANGED sqStopped
    /\ UNCHANGED <<sqCancel, sqWorker>>

\* Close aborts a suspended statement, and the database rolls the transaction back.
SqTakeClose ==
    /\ sqWorker.at \in {"idle", "cursor"} /\ sqCaller.op = "gone"
    /\ sqWorker' = [SqIdle EXCEPT !.at = "ended"] /\ sqDb' = SqRolledBack(sqDb)
    /\ UNCHANGED <<sqCancel, sqCaller, sqStopped>>

SqNext ==
    \/ \E op \in {"fetch", "read", "finish", "commit", "rollback", "edit"} : SqRequest(op)
    \/ \E sort \in SqSorts, manual \in BOOLEAN : SqExecute(sort, manual)
    \/ \E g \in 1..SqExecutes : SqCancelQuery(g)
    \/ \E drop \in BOOLEAN : SqLeave(drop)
    \/ SqDeadline \/ SqTakeExecute \/ SqStart \/ SqFetch \/ SqRead \/ SqFinish
    \/ SqTransaction \/ SqEdit \/ SqTakeClose

SqSpec == SqInit /\ [][SqNext]_sqVars

-----------------------------------------------------------------------------
\* A result that was stopped while its statement was suspended leaves nothing behind, and
\* grid changes that could not be applied are not applied, later either.
SqStoppedIsUndone == sqStopped \cap sqDb.saved = {}

\* What is asked to be saved just now.
SqWant ==
    IF sqCaller.op = "commit" \/ (sqWorker.at = "start" /\ sqWorker.sort = "commit") THEN "all"
    ELSE IF ~sqDb.open /\ (sqCaller.op = "edit" \/ sqWorker.at \in {"start", "cursor"}) THEN "one"
    ELSE "nothing"

SqPromise == INSTANCE SessionPromise WITH
    Effects <- SqEffects, work <- sqDb.work, saved <- sqDb.saved,
    undone <- sqDb.undone, want <- SqWant, said <- sqCaller.said

\* What the connection actor relies on, as for the other drivers.
SqKeepsItsPromise == SqPromise!PromiseSpec
=============================================================================
