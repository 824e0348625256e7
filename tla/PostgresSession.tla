--------------------------- MODULE PostgresSession ---------------------------
(***************************************************************************)
(* A PostgreSQL session (driver-postgres/src/worker.rs, lib.rs,            *)
(* transaction_control.rs).  One task owns the client and takes commands   *)
(* from a queue.  Every statement runs in a transaction: an automatic one  *)
(* ends with its result, which a suspended portal may keep open for as     *)
(* long as the user reads.  A cancellation names a generation, is          *)
(* remembered when its statement has not begun, and is sent to the server  *)
(* out of band while the lock of the generation is held.                   *)
(*                                                                         *)
(* The server may fail any operation, so one that a late cancellation      *)
(* reaches is an operation that fails.                                     *)
(***************************************************************************)
EXTENDS Naturals, Sequences

CONSTANTS
    PgExecutes,         \* bound on the statements and edit batches
    PgSorts,            \* "write", "rows", "implicit" and the controls
    PgCatalogErrors     \* whether a catalog read may fail in an open transaction
ASSUME PgAssumption == PgExecutes \in Nat

VARIABLES
    pgCancel,           \* Generation: current, cancelled, running; its lock; Closing
    pgServer,           \* the transaction on the server
    pgWorker,           \* the task and its portal
    pgQueue,            \* commands that were sent
    pgCaller,           \* the operation of the session that is waited for
    pgStopped           \* statements cancelled while their portal was suspended
pgVars == <<pgCancel, pgServer, pgWorker, pgQueue, pgCaller, pgStopped>>

PgEffects == 1..PgExecutes
PgControls == {"begin", "commit", "rollback", "chain"}
PgQuiet == [of |-> {}, done |-> FALSE, own |-> FALSE]
PgOutside == [at |-> "outside", n |-> 0, gen |-> 0, sort |-> "none", auto |-> FALSE,
              fresh |-> FALSE, active |-> FALSE, complete |-> FALSE,
              then |-> "none"]

PgInit ==
    /\ pgCancel = [current |-> 0, cancelled |-> 0, running |-> FALSE, sending |-> FALSE,
                   closing |-> FALSE]
    /\ pgServer = [up |-> TRUE, open |-> FALSE, failed |-> FALSE,
                   work |-> {}, saved |-> {}, undone |-> {}]
    /\ pgWorker = PgOutside /\ pgQueue = <<>> /\ pgStopped = {}
    /\ pgCaller = [op |-> "idle", executed |-> 0, cursor |-> 0, said |-> PgQuiet]

PgTypeOK ==
    /\ pgCancel.current \in 0..PgExecutes /\ pgCancel.cancelled \in 0..(PgExecutes + 1)
    /\ {pgCancel.running, pgCancel.sending, pgCancel.closing} \subseteq BOOLEAN
    /\ {pgServer.work, pgServer.saved, pgServer.undone} \subseteq SUBSET PgEffects
    /\ pgServer.work = {} \/ pgServer.open
    /\ pgServer.open => pgServer.up
    /\ pgWorker.at \in {"outside", "implicit", "begin", "bind", "first", "inside", "page",
                        "commit", "rollback", "ended"}
    /\ pgWorker.then \in {"none", "started", "page", "failed", "closed", "asked"}
    /\ pgWorker.active => pgWorker.at \in {"inside", "page"}
    /\ Len(pgQueue) <= 2
    /\ pgCaller.op \in {"idle", "execute", "control", "controlled", "fetch", "ask", "gone"}

-----------------------------------------------------------------------------
\* External: how the transaction of the server ends.
PgCommitted(s) == [s EXCEPT !.saved = @ \cup s.work, !.work = {}, !.open = FALSE, !.failed = FALSE]
PgRolledBack(s) == [s EXCEPT !.undone = @ \cup s.work, !.work = {}, !.open = FALSE, !.failed = FALSE]
PgErred(s) == [s EXCEPT !.undone = @ \cup s.work, !.work = {}, !.failed = TRUE]
\* A commit of a failed transaction is a rollback, and no error.
PgEnded(s) == IF s.failed THEN PgRolledBack(s) ELSE PgCommitted(s)

PgUnlocked == ~pgCancel.sending
PgSends == pgServer.up /\ ~pgCancel.closing
PgLost == ~pgServer.up
PgCommand == Head(pgQueue)
PgHas(op) == pgQueue # <<>> /\ PgCommand.op = op
PgTaken == pgQueue # <<>> /\ pgQueue' = Tail(pgQueue)
PgQueued(op, n, sort, auto) ==
    pgQueue' = Append(pgQueue, [op |-> op, n |-> n, sort |-> sort, auto |-> auto])

PgReply(said, cursor) == pgCaller' =
    IF pgCaller.op = "gone" THEN pgCaller
    ELSE [pgCaller EXCEPT !.op = IF @ = "control" THEN "controlled" ELSE "idle",
                          !.cursor = cursor, !.said = said]
PgAnswer == PgReply(PgQuiet, pgCaller.cursor)
PgDid(own) == [of |-> {pgWorker.n}, done |-> TRUE, own |-> own]
PgDidNot(n) == [of |-> {n}, done |-> FALSE, own |-> FALSE]
PgGoOutside == pgWorker' = PgOutside
PgGo(at) == pgWorker' = [pgWorker EXCEPT !.at = at]

-----------------------------------------------------------------------------
\* execute_bounded: the actor closes the result before first.
PgExecute(sort, auto) == LET n == pgCaller.executed + 1 IN
    /\ pgCaller.op = "idle" /\ pgCaller.cursor = 0
    /\ n <= PgExecutes /\ sort \notin PgControls
    /\ PgQueued("execute", n, sort, auto)
    /\ pgCaller' = [pgCaller EXCEPT !.op = "execute", !.executed = n, !.said = PgQuiet]
    /\ UNCHANGED <<pgCancel, pgServer, pgWorker, pgStopped>>

\* transaction_control::execute: BEGIN, COMMIT and ROLLBACK that the user wrote.
PgControl(sort) == LET n == pgCaller.executed + 1 IN
    /\ pgCaller.op = "idle" /\ pgCaller.cursor = 0 /\ PgUnlocked
    /\ n <= PgExecutes /\ sort \in PgControls
    /\ LET stop == pgCancel.cancelled = pgCancel.current + 1 IN
        /\ pgCancel' = [pgCancel EXCEPT !.current = @ + 1, !.running = ~stop]
        /\ pgCaller' = [pgCaller EXCEPT !.op = IF stop THEN "idle" ELSE "control",
                                        !.executed = n, !.said = PgQuiet]
        /\ IF stop THEN UNCHANGED pgQueue ELSE PgQueued(sort, n, sort, FALSE)
    /\ UNCHANGED <<pgServer, pgWorker, pgStopped>>

PgControlled ==
    /\ pgCaller.op = "controlled" /\ PgUnlocked
    /\ pgCancel' = [pgCancel EXCEPT !.running = FALSE]
    /\ pgCaller' = [pgCaller EXCEPT !.op = "idle"]
    /\ UNCHANGED <<pgServer, pgWorker, pgQueue, pgStopped>>

\* Its deadline passes first: the session cannot be used again.
PgControlTimesOut ==
    /\ pgCaller.op \in {"control", "controlled"}
    /\ pgCancel' = [pgCancel EXCEPT !.closing = TRUE]
    /\ pgCaller' = [pgCaller EXCEPT !.op = "gone", !.said = PgQuiet]
    /\ PgQueued("close", 0, "none", FALSE)
    /\ UNCHANGED <<pgServer, pgWorker, pgStopped>>

\* Cursor: fetch_page_bounded and close.
PgFetch ==
    /\ pgCaller.op = "idle" /\ pgCaller.cursor # 0
    /\ PgQueued("fetch", pgCaller.cursor, "none", FALSE)
    /\ pgCaller' = [pgCaller EXCEPT !.op = "fetch", !.said = PgQuiet]
    /\ UNCHANGED <<pgCancel, pgServer, pgWorker, pgStopped>>

PgFinish ==
    /\ pgCaller.op = "idle" /\ pgCaller.cursor # 0
    /\ PgQueued("finish", pgCaller.cursor, "none", FALSE)
    /\ pgCaller' = [pgCaller EXCEPT !.op = "ask", !.cursor = 0, !.said = PgQuiet]
    /\ UNCHANGED <<pgCancel, pgServer, pgWorker, pgStopped>>

\* commit, rollback and chain_transaction, when no result is open; catalog reads beside one.
PgAsk(op) ==
    /\ pgCaller.op = "idle" /\ (pgCaller.cursor = 0 \/ op = "catalog")
    /\ PgQueued(op, 0, "none", FALSE)
    /\ pgCaller' = [pgCaller EXCEPT !.op = "ask", !.said = PgQuiet]
    /\ UNCHANGED <<pgCancel, pgServer, pgWorker, pgStopped>>

\* apply_edit_batch
PgEdit == LET n == pgCaller.executed + 1 IN
    /\ pgCaller.op = "idle" /\ pgCaller.cursor = 0 /\ n <= PgExecutes
    /\ PgQueued("edit", n, "none", FALSE)
    /\ pgCaller' = [pgCaller EXCEPT !.op = "ask", !.executed = n, !.said = PgQuiet]
    /\ UNCHANGED <<pgCancel, pgServer, pgWorker, pgStopped>>

\* PostgresConnection::close and Drop, at any time.
PgLeave ==
    /\ pgCaller.op # "gone"
    /\ pgCancel' = [pgCancel EXCEPT !.closing = TRUE]
    /\ pgCaller' = [pgCaller EXCEPT !.op = "gone", !.said = PgQuiet]
    /\ PgQueued("close", 0, "none", FALSE)
    /\ UNCHANGED <<pgServer, pgWorker, pgStopped>>

PgInterrupt ==
    /\ pgCaller.op = "gone" /\ PgUnlocked /\ pgCancel.cancelled # pgCancel.current
    /\ pgCancel' = [pgCancel EXCEPT !.cancelled = pgCancel.current, !.sending = pgCancel.running]
    /\ UNCHANGED <<pgServer, pgWorker, pgQueue, pgCaller, pgStopped>>

PgSuspended == pgWorker.at = "inside" /\ pgWorker.active /\ pgWorker.auto /\ ~pgWorker.complete

\* The actor takes the handle of a statement when the result before it is closed.
PgHandleTaken == pgCaller.op = "execute" \/ (pgCaller.op = "idle" /\ pgCaller.cursor = 0)

\* QueryCancellation::cancel: of the current generation, or of the one to begin next.
PgCancelQuery(g) ==
    /\ PgUnlocked /\ pgCaller.op # "gone" /\ pgCancel.cancelled # g
    /\ g = pgCancel.current \/ (g = pgCancel.current + 1 /\ PgHandleTaken)
    /\ pgCancel' = [pgCancel EXCEPT !.cancelled = g,
            !.sending = g = pgCancel.current /\ pgCancel.running]
    /\ pgStopped' = IF g = pgWorker.gen /\ PgSuspended THEN pgStopped \cup {pgWorker.n} ELSE pgStopped
    /\ UNCHANGED <<pgServer, pgWorker, pgQueue, pgCaller>>

\* send_cancel is answered, or its time is up.
PgSent ==
    /\ pgCancel.sending
    /\ pgCancel' = [pgCancel EXCEPT !.sending = FALSE]
    /\ UNCHANGED <<pgServer, pgWorker, pgQueue, pgCaller, pgStopped>>

\* The connection breaks, or Closing::auxiliary aborts the pump; the server goes back on what
\* is open, unless it was just committing.
PgHangUp ==
    /\ pgServer.up
    /\ pgServer' \in {[PgRolledBack(s) EXCEPT !.up = FALSE] : s \in {pgServer}
            \cup (IF pgWorker.at = "commit" THEN {PgEnded(pgServer)} ELSE {})
            \cup (IF pgWorker.at = "implicit"
                  THEN {[pgServer EXCEPT !.saved = @ \cup {pgWorker.n}]} ELSE {})}
    /\ UNCHANGED <<pgCancel, pgWorker, pgQueue, pgCaller, pgStopped>>

-----------------------------------------------------------------------------
\* begin_generation and running(true): a statement cancelled before it begins is refused.
PgBeginGeneration(c, at, fresh) ==
    /\ PgUnlocked
    /\ LET stop == pgCancel.cancelled = pgCancel.current + 1 IN
        /\ pgCancel' = [pgCancel EXCEPT !.current = @ + 1, !.running = ~stop]
        /\ IF stop
           THEN /\ PgReply(PgDidNot(c.n), 0)
                /\ pgWorker' = IF fresh THEN PgOutside
                               ELSE [pgWorker EXCEPT !.active = FALSE]
           ELSE /\ pgWorker' = [pgWorker EXCEPT !.at = at, !.n = c.n, !.sort = c.sort,
                        !.gen = pgCancel.current + 1, !.auto = c.auto, !.fresh = fresh,
                        !.active = FALSE, !.complete = FALSE]
                /\ UNCHANGED pgCaller

PgTakeExecute ==
    /\ pgWorker.at = "outside" /\ PgHas("execute") /\ PgTaken
    /\ LET c == PgCommand IN
        PgBeginGeneration(c, IF c.auto /\ c.sort = "implicit" THEN "implicit" ELSE "begin", TRUE)
    /\ UNCHANGED <<pgServer, pgStopped>>

\* start_implicit: the server forbids the command inside a transaction.
PgImplicit ==
    /\ pgWorker.at = "implicit" /\ PgUnlocked
    /\ pgCancel' = [pgCancel EXCEPT !.running = FALSE]
    /\ \/ /\ PgSends
          /\ pgServer' = [pgServer EXCEPT !.saved = @ \cup {pgWorker.n}]
          /\ PgGoOutside
          /\ \/ PgReply(PgDid(TRUE), pgWorker.gen)
             \/ PgReply(PgQuiet, 0)     \* the timeout could not be reset
       \/ /\ PgSends \/ PgLost
          /\ PgReply(IF PgLost THEN PgQuiet ELSE PgDidNot(pgWorker.n), 0)
          /\ PgGoOutside /\ UNCHANGED pgServer
    /\ UNCHANGED <<pgQueue, pgStopped>>

PgTakeBegin ==
    /\ pgWorker.at = "outside" /\ PgHas("begin") /\ PgTaken
    /\ pgWorker' = [PgOutside EXCEPT !.at = "begin", !.sort = "begin"]
    /\ UNCHANGED <<pgCancel, pgServer, pgCaller, pgStopped>>

\* BEGIN, and the Parse of the first statement in the same round trip.
PgBegun ==
    /\ pgWorker.at = "begin" /\ PgUnlocked
    /\ \/ /\ PgSends /\ pgServer' = [pgServer EXCEPT !.open = TRUE]
          /\ IF pgWorker.sort = "begin" THEN PgGo("inside") /\ PgAnswer
             ELSE PgGo("bind") /\ UNCHANGED pgCaller
          /\ UNCHANGED pgCancel
       \/ /\ PgSends \/ PgLost
          /\ PgAnswer /\ PgGoOutside
          /\ pgCancel' = [pgCancel EXCEPT
                !.running = IF pgWorker.sort = "begin" THEN @ ELSE FALSE]
          /\ UNCHANGED pgServer
    /\ UNCHANGED <<pgQueue, pgStopped>>

\* start: Bind and the Execute of the first row share a round trip; the statement writes.
PgBind ==
    /\ pgWorker.at = "bind" /\ PgGo("first")
    /\ \/ /\ PgSends /\ ~pgServer.failed /\ pgWorker.sort # "implicit"
          /\ pgServer' = [pgServer EXCEPT !.work = @ \cup {pgWorker.n}]
       \/ PgSends /\ pgServer' = PgErred(pgServer)
       \/ PgLost /\ UNCHANGED pgServer
    /\ UNCHANGED <<pgCancel, pgQueue, pgCaller, pgStopped>>

PgStop == pgCancel.cancelled = pgCancel.current

\* A first statement that fails ends its transaction, a manual one too.
PgFirstFails ==
    /\ pgWorker.at = "first" /\ PgUnlocked
    /\ pgCancel' = [pgCancel EXCEPT !.running = FALSE]
    /\ PgReply(IF pgServer.failed THEN PgDidNot(pgWorker.n) ELSE PgQuiet, 0)
    /\ pgWorker' = [pgWorker EXCEPT !.at = IF pgWorker.fresh THEN "rollback" ELSE "inside",
                                    !.then = "none"]
    /\ UNCHANGED <<pgServer, pgQueue, pgStopped>>

PgStarted ==
    /\ pgWorker.at = "first" /\ PgUnlocked
    /\ ~PgLost /\ ~pgServer.failed /\ ~PgStop
    /\ pgCancel' = [pgCancel EXCEPT !.running = FALSE]
    /\ \E suspended \in IF pgWorker.sort = "rows" THEN BOOLEAN ELSE {FALSE} :
        IF pgWorker.auto /\ ~suspended
        THEN /\ pgWorker' = [pgWorker EXCEPT !.at = "commit", !.then = "started"]
             /\ UNCHANGED pgCaller
        ELSE /\ pgWorker' = [pgWorker EXCEPT !.at = "inside", !.active = TRUE,
                                             !.complete = ~suspended]
             /\ PgReply(PgDid(FALSE), pgWorker.gen)
    /\ UNCHANGED <<pgServer, pgQueue, pgStopped>>

-----------------------------------------------------------------------------
\* Commands between transactions.
PgTakeOutside ==
    /\ pgWorker.at = "outside"
    /\ \/ /\ \E op \in {"commit", "rollback", "finish"} : PgHas(op)
          /\ PgAnswer
          /\ UNCHANGED <<pgServer, pgWorker>>
       \/ /\ PgHas("fetch") \/ ((PgSends \/ PgLost) /\ (PgHas("chain") \/ PgHas("catalog")))
          /\ PgAnswer /\ UNCHANGED <<pgServer, pgWorker>>
       \/ /\ PgHas("edit") /\ PgSends
          /\ pgServer' = [pgServer EXCEPT !.saved = @ \cup {PgCommand.n}]
          /\ PgReply([of |-> {PgCommand.n}, done |-> TRUE, own |-> TRUE], 0)
          /\ UNCHANGED pgWorker
       \/ /\ PgHas("edit") /\ (PgSends \/ PgLost)
          /\ PgReply(PgDidNot(PgCommand.n), 0) /\ UNCHANGED <<pgServer, pgWorker>>
    /\ PgTaken
    /\ UNCHANGED <<pgCancel, pgStopped>>

\* The pump ends with the client, and the server rolls back.
PgTakeClose ==
    /\ pgWorker.at \in {"outside", "inside"} /\ PgHas("close") /\ PgTaken
    /\ pgWorker' = [PgOutside EXCEPT !.at = "ended"]
    /\ pgServer' = [PgRolledBack(pgServer) EXCEPT !.up = FALSE]
    /\ UNCHANGED <<pgCancel, pgCaller, pgStopped>>

-----------------------------------------------------------------------------
PgWasCancelledNever == FALSE
PgWasCancelled == pgCancel.cancelled = pgWorker.gen
\* A cancelled portal is rolled back when it is closed.
PgClosing == IF PgWasCancelled THEN "rollback" ELSE "commit"
PgEndsWithPortal(at, then) == pgWorker' = [pgWorker EXCEPT !.at = at, !.then = then]
\* dispose, and then the end of the transaction.
PgEndsWith(at, then) ==
    pgWorker' = [pgWorker EXCEPT !.at = at, !.then = then, !.active = FALSE]

PgTakeManual ==
    /\ pgWorker.at = "inside" /\ PgHas("execute") /\ PgTaken
    /\ PgBeginGeneration([PgCommand EXCEPT !.auto = FALSE], "bind", FALSE)
    /\ UNCHANGED <<pgServer, pgStopped>>

PgTakeFetch ==
    /\ pgWorker.at = "inside" /\ PgHas("fetch") /\ PgTaken
    /\ IF pgWorker.active /\ pgWorker.gen = PgCommand.n
       THEN PgGo("page") /\ UNCHANGED pgCaller
       ELSE PgAnswer /\ UNCHANGED pgWorker
    /\ UNCHANGED <<pgCancel, pgServer, pgStopped>>

PgPageEnds(more) ==
    IF pgWorker.auto /\ ~more THEN PgEndsWith("commit", "page") /\ UNCHANGED pgCaller
    ELSE PgGo("inside") /\ PgReply(PgDid(FALSE), pgCaller.cursor)

PgPage ==
    /\ pgWorker.at = "page" /\ PgUnlocked
    /\ \/ /\ pgWorker.complete      \* the rows that are left were read ahead
          /\ \E more \in BOOLEAN : PgPageEnds(more)
          /\ UNCHANGED pgServer
       \/ /\ ~pgWorker.complete /\ PgSends /\ ~pgServer.failed /\ ~PgStop
          /\ \E complete \in BOOLEAN, more \in BOOLEAN :
                IF pgWorker.auto /\ complete /\ ~more THEN PgPageEnds(FALSE)
                ELSE /\ pgWorker' = [pgWorker EXCEPT !.at = "inside", !.complete = complete]
                     /\ PgReply(PgDid(FALSE), pgCaller.cursor)
          /\ UNCHANGED pgServer
       \/ /\ PgSends \/ PgLost      \* the server, a value or the memory budget refuses it
          /\ pgServer' \in {pgServer} \cup IF PgLost \/ pgWorker.complete THEN {} ELSE {PgErred(pgServer)}
          /\ IF pgWorker.auto THEN PgEndsWith("rollback", "failed") /\ UNCHANGED pgCaller
             ELSE PgGo("inside") /\ PgAnswer
    /\ UNCHANGED <<pgCancel, pgQueue, pgStopped>>

PgTakeFinish ==
    /\ pgWorker.at = "inside" /\ PgHas("finish") /\ PgTaken /\ PgUnlocked
    /\ IF pgWorker.active /\ pgWorker.gen = PgCommand.n /\ pgWorker.auto
       THEN PgEndsWith(PgClosing, "closed") /\ UNCHANGED pgCaller
       ELSE /\ pgWorker' = [pgWorker EXCEPT !.active = @ /\ pgWorker.gen # PgCommand.n]
            /\ PgAnswer
    /\ UNCHANGED <<pgCancel, pgServer, pgStopped>>

PgTakeEnd ==
    /\ pgWorker.at = "inside" /\ PgTaken
    /\ \E op \in {"commit", "rollback"} : PgHas(op) /\ PgEndsWith(op, "asked")
    /\ UNCHANGED <<pgCancel, pgServer, pgCaller, pgStopped>>

\* Requests that stay inside the transaction.
PgTakeInside ==
    /\ pgWorker.at = "inside" /\ PgTaken
    /\ \/ /\ PgHas("begin") /\ PgSends
          /\ pgServer' \in {pgServer, PgErred(pgServer)}
          /\ pgWorker' = [pgWorker EXCEPT !.active = FALSE,
                                          !.auto = @ /\ pgServer' # pgServer]
          /\ PgAnswer
       \/ /\ PgHas("chain") /\ PgSends
          /\ pgServer' \in {[s EXCEPT !.open = TRUE] : s \in {PgEnded(pgServer), PgRolledBack(pgServer)}}
                           \cup {PgErred(pgServer)}
          /\ pgWorker' = [pgWorker EXCEPT !.active = FALSE, !.auto = @ /\ pgServer'.failed]
          /\ PgAnswer
       \/ /\ PgHas("catalog") /\ PgSends
          /\ pgServer' \in {pgServer} \cup IF PgCatalogErrors THEN {PgErred(pgServer)} ELSE {}
          /\ PgAnswer /\ UNCHANGED pgWorker
       \/ /\ PgHas("edit")
          /\ PgReply(PgDidNot(PgCommand.n), 0) /\ UNCHANGED <<pgServer, pgWorker>>
       \/ /\ \E op \in {"begin", "chain", "catalog"} : PgHas(op)
          /\ PgLost /\ PgAnswer /\ UNCHANGED <<pgServer, pgWorker>>
    /\ UNCHANGED <<pgCancel, pgStopped>>

-----------------------------------------------------------------------------
\* What is said when the transaction has ended, well or not.
PgSaying(ok) ==
    CASE pgWorker.then = "started" -> PgReply(IF ok THEN PgDid(TRUE) ELSE PgQuiet, IF ok THEN pgWorker.gen ELSE 0)
      [] pgWorker.then = "page" -> PgReply(IF ok THEN PgDid(TRUE) ELSE PgQuiet, pgCaller.cursor)
      [] pgWorker.then = "failed" -> PgReply(IF ok THEN PgDidNot(pgWorker.n) ELSE PgQuiet, pgCaller.cursor)
      [] pgWorker.then \in {"asked", "closed"} -> PgAnswer
      [] OTHER -> UNCHANGED pgCaller

PgCommit ==
    /\ pgWorker.at = "commit"
    /\ \/ PgSends /\ pgServer' = PgEnded(pgServer) /\ PgSaying(TRUE) /\ PgGoOutside
       \/ PgSends /\ pgServer' = PgRolledBack(pgServer) /\ PgSaying(FALSE) /\ PgGoOutside
       \/ PgLost /\ UNCHANGED pgServer /\ PgSaying(FALSE) /\ PgGoOutside
    /\ UNCHANGED <<pgCancel, pgQueue, pgStopped>>

PgRollback ==
    /\ pgWorker.at = "rollback"
    /\ \/ PgSends /\ pgServer' = PgRolledBack(pgServer) /\ PgSaying(TRUE) /\ PgGoOutside
       \/ PgLost /\ UNCHANGED pgServer /\ PgSaying(FALSE) /\ PgGoOutside
    /\ UNCHANGED <<pgCancel, pgQueue, pgStopped>>

PgNext ==
    \/ \E sort \in PgSorts, auto \in BOOLEAN : PgExecute(sort, auto)
    \/ \E sort \in PgSorts : PgControl(sort)
    \/ \E op \in {"commit", "rollback", "chain", "catalog"} : PgAsk(op)
    \/ \E g \in 1..PgExecutes : PgCancelQuery(g)
    \/ PgControlled \/ PgControlTimesOut \/ PgFetch \/ PgFinish \/ PgEdit \/ PgLeave \/ PgInterrupt
    \/ PgSent \/ PgHangUp \/ PgTakeExecute \/ PgImplicit \/ PgTakeBegin \/ PgBegun \/ PgBind
    \/ PgFirstFails \/ PgStarted \/ PgTakeOutside \/ PgTakeClose
    \/ PgTakeManual \/ PgTakeFetch \/ PgPage \/ PgTakeFinish \/ PgTakeEnd \/ PgTakeInside
    \/ PgCommit \/ PgRollback

PgSpec == PgInit /\ [][PgNext]_pgVars

-----------------------------------------------------------------------------
\* A result the user stopped while it was being read leaves nothing behind: its transaction
\* is rolled back by whichever command closes it, or by the connection.
PgStoppedIsUndone == pgStopped \cap pgServer.saved = {}

\* What is asked to be saved just now.
PgWant ==
    IF (pgWorker.at = "commit" /\ pgWorker.auto) \/ pgWorker.at = "implicit"
       \/ (pgWorker.at = "outside" /\ pgQueue # <<>> /\ PgHas("edit")) THEN "one"
    ELSE IF pgWorker.at = "commit" \/ (pgWorker.at = "inside" /\ pgQueue # <<>> /\ PgHas("chain"))
    THEN "all" ELSE "nothing"

PgPromise == INSTANCE SessionPromise WITH
    Effects <- PgEffects, work <- pgServer.work, saved <- pgServer.saved,
    undone <- pgServer.undone, want <- PgWant, said <- pgCaller.said

\* What the connection actor relies on, as for the other drivers.
PgKeepsItsPromise == PgPromise!PromiseSpec
=============================================================================
