---------------------------- MODULE MysqlSession ----------------------------
(***************************************************************************)
(* A MySQL or MariaDB session (driver-mysql/src/lib.rs, runtime.rs).  A    *)
(* statement takes the connection away: a worker of its own runs the       *)
(* script, spools its results and hands the connection back.  A            *)
(* cancellation or a deadline makes the worker kill the statement from a   *)
(* second transport and read the answer that is still to come.  What the   *)
(* session knows of its transaction is the status of the last OK packet.   *)
(***************************************************************************)
EXTENDS Naturals, Sequences

CONSTANTS
    MyExecutes,         \* bound on the executed scripts
    MyScripts,          \* sequences of "write", "begin" and "commit"
    MyCatalogErrors     \* whether a catalog read may fail while a transaction is open
\* A script has one statement or two: what comes between two statements is what matters.
ASSUME MyAssumption ==
    /\ MyExecutes \in Nat
    /\ \A script \in MyScripts : script \in Seq({"write", "begin", "commit"}) /\ Len(script) \in 1..2

VARIABLES
    myLink,             \* where the connection is, and what is known of its transaction
    myServer,           \* the session's thread on the server
    myWorker,           \* the task of the script that has the connection
    myCancelled,        \* the handles that were used, of scripts yet to end
    myResult,           \* Shared: the results, as the worker and the cursor see them
    myCaller            \* the operation of the session and its cursor
myVars == <<myLink, myServer, myWorker, myCancelled, myResult, myCaller>>

MyHandles == 1..MyExecutes
MyGrid == <<0, 1>>      \* the effect of a batch of grid changes
MyEffects == ((1..MyExecutes) \X (1..2)) \cup {MyGrid}
MyIdle == [step |-> "none", drain |-> "no", n |-> 0, script |-> <<>>, at |-> 1,
           manual |-> FALSE, started |-> FALSE, end |-> "none"]
MyNoFailure == [at |-> 0, kind |-> "none"]
MyNoResult == [sets |-> <<>>, done |-> TRUE, failure |-> MyNoFailure]
MyQuiet == [of |-> {}, done |-> FALSE, own |-> FALSE]

MyInit ==
    /\ myLink = [at |-> "session", known |-> "closed"]
    /\ myServer = [open |-> FALSE, work |-> {}, saved |-> {}, undone |-> {}, running |-> "nothing"]
    /\ myWorker = MyIdle /\ myCancelled = {} /\ myResult = MyNoResult
    /\ myCaller = [op |-> "idle", executed |-> 0, cursor |-> FALSE, set |-> 0,
                   told |-> "nothing", said |-> MyQuiet]

MySetType == [rows : BOOLEAN, done : BOOLEAN, final : BOOLEAN, more : BOOLEAN]
MyTypeOK ==
    /\ myLink.at \in {"session", "worker", "closed"}
    /\ myLink.known \in {"open", "closed", "unknown"}
    /\ {myServer.work, myServer.saved, myServer.undone} \subseteq SUBSET MyEffects
    /\ myServer.running \in {"nothing", "statement", "ok", "error"}
    /\ myWorker.step \in {"none", "admit", "prepare", "begin", "check", "run", "rows",
                          "probe", "ping", "finish"}
    /\ myWorker.drain \in {"no", "kill", "drain"}
    /\ myWorker.end \in {"none", "ok", "error", "cancelled", "lost"}
    /\ myCancelled \subseteq MyHandles
    /\ myResult.sets \in Seq(MySetType) /\ Len(myResult.sets) <= 2
    /\ myCaller.op \in {"idle", "execute", "reading", "commit", "rollback", "edit", "gone"}
    /\ myCaller.told \in {"nothing", "end", "failure"}

-----------------------------------------------------------------------------
MyTruth(server) == IF server.open THEN "open" ELSE "closed"
MyKnow(server) == myLink' = [myLink EXCEPT !.known = MyTruth(server)]
\* An ERR packet clears the status of the last OK packet.
MyForget == myLink' = [myLink EXCEPT !.known = "unknown"]
\* transaction_active(conn).unwrap_or(false)
MyBelievesOpen == myLink.known = "open"

MyEffect == <<myWorker.n, myWorker.at>>
MyKind == myWorker.script[myWorker.at]
MyStep(step) == myWorker' = [myWorker EXCEPT !.step = step]
MyEnd(step, end) == myWorker' = [myWorker EXCEPT !.step = step, !.end = end]
MyPolled == myWorker.drain # "kill"
MyUsed(n) == n \in myCancelled
MyMax(a, b) == IF a > b THEN a ELSE b

\* External: what statements do to the server's session.
MyCommitted(s) == [s EXCEPT !.saved = @ \cup s.work, !.work = {}, !.open = FALSE]
MyRolledBack(s) == [s EXCEPT !.undone = @ \cup s.work, !.work = {}, !.open = FALSE]
MyBegun(s) == [MyCommitted(s) EXCEPT !.open = TRUE]
MyRan(s, kind, effect) ==
    CASE kind = "begin" -> MyBegun(s)
      [] kind = "commit" -> MyCommitted(s)
      [] kind = "write" /\ s.open -> [s EXCEPT !.work = @ \cup {effect}]
      [] OTHER -> [s EXCEPT !.saved = @ \cup {effect}]
\* The server sees the connection go; a statement it was running may still end.
MyHangUp(s) ==
    {[MyRolledBack(r) EXCEPT !.running = "nothing"] :
        r \in {s} \cup IF s.running = "statement" /\ ~(s.open /\ MyKind = "write") THEN {MyRan(s, MyKind, MyEffect)} ELSE {}}

-----------------------------------------------------------------------------
\* execute_bounded: the handle is used up; connection() waits for the script before.
MyExecute(script, manual) == LET n == myCaller.executed + 1 IN
    /\ myCaller.op = "idle" /\ myLink.at = "session" /\ n <= MyExecutes
    /\ ~MyUsed(n)
    /\ myCaller' = [myCaller EXCEPT !.op = "execute", !.executed = n, !.cursor = FALSE,
            !.set = 0, !.told = "nothing", !.said = MyQuiet]
    /\ myWorker' = [MyIdle EXCEPT !.step = "admit", !.n = n, !.script = script,
            !.manual = manual]
    /\ myLink' = [myLink EXCEPT !.at = "worker"]
    /\ myResult' = [MyNoResult EXCEPT !.done = FALSE]
    /\ myCancelled' = {}
    /\ UNCHANGED myServer

MyRefuseExecute == LET n == myCaller.executed + 1 IN
    /\ myCaller.op = "idle" /\ n <= MyExecutes /\ MyUsed(n)
    /\ myCaller' = [myCaller EXCEPT !.executed = n,
            !.said = [of |-> {n} \X (1..2), done |-> FALSE, own |-> FALSE]]
    /\ myCancelled' = {}
    /\ UNCHANGED <<myLink, myServer, myWorker, myResult>>

\* Cancellation::cancel, of the script that is running or of the next one.
MyCancel(n) ==
    /\ n = myCaller.executed + 1 \/ (n = myWorker.n /\ ~myResult.done)
    /\ n \in MyHandles /\ ~MyUsed(n)
    /\ myCancelled' = myCancelled \cup {n}
    /\ UNCHANGED <<myLink, myServer, myWorker, myResult, myCaller>>

\* A server error says that its statement was not performed.
MySaid(failure) ==
    [of |-> {e \in MyEffects : failure.kind = "error" /\ e = <<myWorker.n, failure.at + 1>>},
     done |-> FALSE, own |-> FALSE]
MyFails(failure) == myCaller' = [myCaller EXCEPT !.op = "idle", !.told = "failure",
                                     !.said = MySaid(failure)]

\* start: a failure of the first statement, or a first result to be read.
MyStartFails ==
    /\ myCaller.op = "execute"
    /\ myResult.failure.kind # "none" /\ myResult.failure.at = 0
    /\ MyFails(myResult.failure)
    /\ UNCHANGED <<myLink, myServer, myWorker, myCancelled, myResult>>

MyStarted ==
    /\ myCaller.op = "execute" /\ myResult.sets # <<>>
    /\ myResult.failure.kind = "none" \/ myResult.failure.at # 0
    /\ LET first == Head(myResult.sets) IN first.rows \/ first.final \/ myResult.done
    /\ myCaller' = [myCaller EXCEPT !.op = "idle", !.cursor = TRUE]
    /\ UNCHANGED <<myLink, myServer, myWorker, myCancelled, myResult>>

\* check_interruption: what keeps a cursor from the result at index set.
MyInterrupted(set) ==
    \/ /\ myResult.failure.kind # "none"
       /\ set >= myResult.failure.at \/ myResult.failure.kind = "interrupted"
    \/ ~myResult.done /\ MyUsed(myWorker.n)

\* fetch_page_bounded: the last rows of a result are shown when its summary is complete.
MyAvailable(set) ==
    /\ myResult.sets[set + 1].done
    /\ myResult.sets[set + 1].final \/ myResult.done \/ set + 1 < Len(myResult.sets)

MyFetch ==
    /\ myCaller.op = "idle" /\ myCaller.cursor
    /\ ~MyInterrupted(myCaller.set) /\ MyAvailable(myCaller.set)
    /\ myCaller' = [myCaller EXCEPT !.op = "reading"]
    /\ UNCHANGED <<myLink, myServer, myWorker, myCancelled, myResult>>

\* The page was read from disk meanwhile: the failure of the script comes first.
MyFetched == LET set == myResult.sets[myCaller.set + 1] IN
    /\ myCaller.op = "reading" /\ ~MyInterrupted(myCaller.set)
    /\ myCaller' = [myCaller EXCEPT !.op = "idle",
            !.told = IF set.more THEN "nothing" ELSE "end",
            !.said = [of |-> IF myWorker.script[myCaller.set + 1] = "write"
                             THEN {<<myWorker.n, myCaller.set + 1>>} ELSE {},
                      done |-> TRUE, own |-> FALSE]]
    /\ UNCHANGED <<myLink, myServer, myWorker, myCancelled, myResult>>

MyFetchFails ==
    /\ myCaller.op \in {"idle", "reading"} /\ myCaller.cursor
    /\ MyInterrupted(myCaller.set)
    /\ MyFails([myResult.failure EXCEPT !.kind = IF myCaller.set = myResult.failure.at THEN @ ELSE "interrupted"])
    /\ UNCHANGED <<myLink, myServer, myWorker, myCancelled, myResult>>

\* next_result_set
MyNextSet ==
    /\ myCaller.op = "idle" /\ myCaller.cursor
    /\ IF MyInterrupted(myCaller.set + 1)
       THEN MyFails([myResult.failure EXCEPT !.kind = IF myCaller.set + 1 = myResult.failure.at THEN @ ELSE "interrupted"])
       ELSE \/ /\ Len(myResult.sets) > myCaller.set + 1
               /\ myCaller' = [myCaller EXCEPT !.set = @ + 1, !.told = "nothing"]
            \/ /\ Len(myResult.sets) = myCaller.set + 1 /\ myResult.done
               /\ myCaller' = [myCaller EXCEPT !.told = "end"]
    /\ UNCHANGED <<myLink, myServer, myWorker, myCancelled, myResult>>

\* StreamCursor::close and Drop
MyCloseCursor ==
    /\ myCaller.op = "idle" /\ myCaller.cursor
    /\ myCaller' = [myCaller EXCEPT !.cursor = FALSE, !.said = MyQuiet]
    /\ myCancelled' = IF myResult.done THEN myCancelled ELSE myCancelled \cup {myWorker.n}
    /\ UNCHANGED <<myLink, myServer, myWorker, myResult>>

\* Waiting::drop: the actor gives up on a statement that has not started, and the session
\* with it.  MysqlConnection::close and Drop do the same to the script that is active.
MyLeave ==
    /\ myCaller.op # "gone"
    /\ myCaller' = [myCaller EXCEPT !.op = "gone", !.cursor = FALSE, !.set = 0,
            !.told = "nothing", !.said = MyQuiet]
    /\ myCancelled' = IF myLink.at = "worker" THEN myCancelled \cup {myWorker.n} ELSE myCancelled
    /\ IF myLink.at = "session"
       THEN /\ myLink' = [myLink EXCEPT !.at = "closed"]
            /\ myServer' \in MyHangUp(myServer)
       ELSE UNCHANGED <<myLink, myServer>>
    /\ UNCHANGED <<myWorker, myResult>>

MyAsk(op) ==
    /\ myCaller.op = "idle" /\ myLink.at = "session"
    /\ op = "edit" => MyGrid \notin myServer.saved
    /\ myCaller' = [myCaller EXCEPT !.op = op, !.cursor = FALSE, !.said = MyQuiet]
    /\ UNCHANGED <<myLink, myServer, myWorker, myCancelled, myResult>>

\* commit and rollback; a commit that the server refuses ends the transaction too.
MyAsked ==
    /\ myCaller.op \in {"commit", "rollback"}
    /\ \/ /\ myServer' = IF myCaller.op = "commit" THEN MyCommitted(myServer)
                         ELSE MyRolledBack(myServer)
          /\ MyKnow(myServer')
       \/ myServer' = MyRolledBack(myServer) /\ MyForget
    /\ myCaller' = [myCaller EXCEPT !.op = "idle"]
    /\ UNCHANGED <<myWorker, myCancelled, myResult>>

\* apply_batch: grid changes are a transaction of their own, rolled back when a statement
\* fails or changes another number of rows; reading the mode first renews what is known.
MyEdited ==
    /\ myCaller.op = "edit" /\ MyKnow(myServer)
    /\ \E done \in IF myServer.open THEN {FALSE} ELSE BOOLEAN :
        /\ myServer' = [myServer EXCEPT !.saved = @ \cup IF done THEN {MyGrid} ELSE {}]
        /\ myCaller' = [myCaller EXCEPT !.op = "idle",
                !.said = [of |-> {MyGrid}, done |-> done, own |-> done]]
    /\ UNCHANGED <<myWorker, myCancelled, myResult>>

\* object_ddl, load_metadata_page, sql_mode, inspect_...: reads on the same connection.
MyCatalog ==
    /\ myCaller.op = "idle" /\ myLink.at = "session"
    /\ \/ MyKnow(myServer)
       \/ (MyCatalogErrors \/ ~myServer.open) /\ MyForget
    /\ UNCHANGED <<myServer, myWorker, myCancelled, myResult, myCaller>>

-----------------------------------------------------------------------------
\* admit: one of the permits of the process, unless the statement is cancelled first.
MyAdmit ==
    /\ myWorker.step = "admit" /\ MyPolled
    /\ IF MyUsed(myWorker.n) THEN MyEnd("finish", "cancelled") ELSE MyStep("prepare")
    /\ UNCHANGED <<myLink, myServer, myCancelled, myResult, myCaller>>

\* produce: whether a transaction is open is read before the statement is prepared, which
\* may replace the status flags; a script asks for the mode first, which renews them.
MyPrepare ==
    /\ myWorker.step = "prepare" /\ MyPolled
    /\ \/ /\ \E known \in {"open", "closed"} : myLink' = [myLink EXCEPT !.known = known]
          /\ myWorker' = [myWorker EXCEPT !.step = "begin",
                !.started = IF Len(myWorker.script) = 1 THEN MyBelievesOpen ELSE myServer.open]
       \/ MyForget /\ MyEnd("ping", "error")
    /\ UNCHANGED <<myServer, myCancelled, myResult, myCaller>>

\* produce_statement: START TRANSACTION, which saves the work of one that is open...
MyBegin ==
    /\ myWorker.step = "begin" /\ MyPolled
    /\ \/ /\ myWorker.manual /\ ~myWorker.started
          /\ myServer' = MyBegun(myServer) /\ MyKnow(myServer') /\ MyStep("check")
       \/ /\ myWorker.manual /\ ~myWorker.started
          /\ MyForget /\ MyEnd("ping", "error") /\ UNCHANGED myServer
       \/ /\ ~myWorker.manual \/ myWorker.started
          /\ MyStep("check") /\ UNCHANGED <<myServer, myLink>>
    /\ UNCHANGED <<myCancelled, myResult, myCaller>>

\* ... and the statement itself, unless it was cancelled meanwhile.
MyCheck ==
    /\ myWorker.step = "check" /\ MyPolled
    /\ \/ /\ MyUsed(myWorker.n)
          /\ MyEnd("ping", "cancelled") /\ UNCHANGED myServer
       \/ /\ ~MyUsed(myWorker.n)
          /\ MyStep("run") /\ myServer' = [myServer EXCEPT !.running = "statement"]
    /\ UNCHANGED <<myLink, myCancelled, myResult, myCaller>>

\* External: the statement ends on the server, in time, killed, or as a deadlock's victim.
MyServerEnds ==
    /\ myServer.running = "statement"
    /\ myServer' \in
        {[MyRan(myServer, MyKind, MyEffect) EXCEPT !.running = "ok"]}
        \cup {[s EXCEPT !.running = "error"] : s \in {myServer, MyRolledBack(myServer)}}
    /\ UNCHANGED <<myLink, myWorker, myCancelled, myResult, myCaller>>

\* collect: a result appears when its columns arrive, and its rows are spooled.
MyOpenSet ==
    /\ myWorker.step = "run" /\ MyPolled
    /\ \E rows \in BOOLEAN :
        myResult' = [myResult EXCEPT !.sets =
            Append(@, [rows |-> rows, done |-> FALSE, final |-> FALSE, more |-> FALSE])]
    /\ MyStep("rows")
    /\ UNCHANGED <<myLink, myServer, myCancelled, myCaller>>

MyCloseSet ==
    /\ myWorker.step = "rows" /\ MyPolled /\ myServer.running = "ok"
    /\ myServer' = [myServer EXCEPT !.running = "nothing"]
    /\ myResult' = [myResult EXCEPT !.sets[Len(myResult.sets)].done = TRUE]
    /\ MyKnow(myServer) /\ MyStep("probe")
    /\ UNCHANGED <<myCancelled, myCaller>>

MyStatementFails ==
    /\ myWorker.step \in {"run", "rows"} /\ MyPolled /\ myServer.running = "error"
    /\ myServer' = [myServer EXCEPT !.running = "nothing"]
    /\ MyForget /\ MyEnd("ping", "error")
    /\ UNCHANGED <<myCancelled, myResult, myCaller>>

\* A result that does not fit, a disk that is full: the answer is left half read.
MySpoolFails ==
    /\ myWorker.step = "rows" /\ MyPolled
    /\ MyEnd("finish", "lost")
    /\ UNCHANGED <<myLink, myServer, myCancelled, myResult, myCaller>>

\* SELECT @@SESSION.sql_mode completes the summary of the statement.
MyProbe == LET last == Len(myResult.sets)  more == myWorker.at < Len(myWorker.script) IN
    /\ myWorker.step = "probe" /\ MyPolled
    /\ \/ /\ MyKnow(myServer)
          /\ myResult' = [myResult EXCEPT !.sets[last].final = TRUE, !.sets[last].more = more]
          /\ IF more THEN myWorker' = [myWorker EXCEPT !.step =
                            IF MyUsed(myWorker.n) THEN "ping" ELSE "prepare",
                            !.end = IF MyUsed(myWorker.n) THEN "cancelled" ELSE @,
                            !.at = @ + 1]
             ELSE MyEnd("finish", "ok")
       \/ MyForget /\ MyEnd("ping", "error") /\ UNCHANGED myResult
    /\ UNCHANGED <<myServer, myCancelled, myCaller>>

\* An error leaves the transaction unknown: a ping renews what is known of it.
MyPing ==
    /\ myWorker.step = "ping" /\ MyPolled
    /\ \/ MyKnow(myServer) /\ MyStep("finish")
       \/ MyEnd("finish", "lost") /\ UNCHANGED myLink
    /\ UNCHANGED <<myServer, myCancelled, myResult, myCaller>>

\* The cancellation or the deadline is seen first: readers are told before anything else.
MyInterrupt ==
    /\ myWorker.step # "none" /\ myWorker.drain = "no"
    /\ myWorker' = [myWorker EXCEPT !.drain = "kill"]
    /\ myResult' = [myResult EXCEPT !.failure =
            [at |-> MyMax(Len(myResult.sets), 1) - 1, kind |-> "interrupted"]]
    /\ myCancelled' = myCancelled \cup {myWorker.n}
    /\ UNCHANGED <<myLink, myServer, myCaller>>

\* KILL QUERY through a transport of its own; then the statement is polled again.
MyKill ==
    /\ myWorker.drain = "kill"
    /\ myWorker' = [myWorker EXCEPT !.drain = "drain"]
    /\ UNCHANGED <<myLink, myServer, myCancelled, myResult, myCaller>>

\* Killing or draining fails, or takes more than five seconds.
MyGiveUp ==
    /\ myWorker.drain # "no"
    /\ myWorker' = [myWorker EXCEPT !.step = "finish", !.drain = "drain", !.end = "lost"]
    /\ UNCHANGED <<myLink, myServer, myCancelled, myResult, myCaller>>

MyReusableAlways == TRUE
\* Whether the answers of the server have been read to the end.
MyReusable == myWorker.end # "lost"

MyFailure == LET sets == myResult.sets IN
    IF myWorker.drain # "no" \/ myWorker.end = "cancelled"
    THEN [at |-> MyMax(Len(sets), 1) - 1, kind |-> "interrupted"]
    ELSE IF myWorker.end = "ok" THEN MyNoFailure
    ELSE [at |-> IF sets = <<>> THEN 0
                 ELSE Len(sets) - IF sets[Len(sets)].done THEN 0 ELSE 1,
          kind |-> myWorker.end]

\* The worker publishes how the script ended and hands the connection back, or drops it.
MyFinish ==
    /\ myWorker.step = "finish" /\ MyPolled
    /\ LET failure == MyFailure IN
        myResult' = [myResult EXCEPT !.done = TRUE, !.failure = failure,
            !.sets = IF failure.kind # "none" /\ failure.at > 0
                     THEN [@ EXCEPT ![failure.at].more = TRUE] ELSE @]
    /\ IF MyReusable /\ myCaller.op # "gone"
       THEN myLink' = [myLink EXCEPT !.at = "session"] /\ UNCHANGED myServer
       ELSE myLink' = [myLink EXCEPT !.at = "closed"] /\ myServer' \in MyHangUp(myServer)
    /\ myWorker' = [myWorker EXCEPT !.step = "none", !.drain = "no", !.end = "none",
                                     !.at = 1, !.started = FALSE]
    /\ myCancelled' = myCancelled \ {myWorker.n}
    /\ UNCHANGED myCaller

MyNext ==
    \/ \E script \in MyScripts, manual \in BOOLEAN : MyExecute(script, manual)
    \/ \E n \in MyHandles : MyCancel(n)
    \/ \E op \in {"commit", "rollback", "edit"} : MyAsk(op)
    \/ MyRefuseExecute \/ MyStartFails \/ MyStarted \/ MyFetch \/ MyFetched \/ MyFetchFails
    \/ MyNextSet \/ MyCloseCursor \/ MyLeave \/ MyAsked \/ MyEdited
    \/ MyCatalog
    \/ MyAdmit \/ MyPrepare \/ MyBegin \/ MyCheck \/ MyServerEnds \/ MyOpenSet \/ MyCloseSet
    \/ MyStatementFails \/ MySpoolFails \/ MyProbe \/ MyPing \/ MyInterrupt \/ MyKill
    \/ MyGiveUp \/ MyFinish

MySpec == MyInit /\ [][MyNext]_myVars

-----------------------------------------------------------------------------
\* The connection is with the session only between an answer and the next request, and
\* what the session then believes of its transaction is so or is nothing; a caller told that there
\* is no further result has been told of every statement (lend and settle of the runtime).
MyInStep ==
    /\ (myLink.at = "session" /\ myCaller.op # "gone") =>
            /\ myServer.running = "nothing"
            /\ myLink.known \in {MyTruth(myServer), "unknown"}
    /\ myCaller.told = "end" => Len(myResult.sets) = Len(myWorker.script)

\* What is asked to be saved just now.
MyWant ==
    IF myCaller.op = "commit" THEN "all"
    ELSE IF myCaller.op = "edit" THEN "one"
    ELSE IF myLink.at # "worker" THEN "nothing"
    ELSE IF myServer.running = "statement" /\ MyKind \in {"begin", "commit"} THEN "all"
    ELSE IF myServer.running = "statement" /\ ~myServer.open THEN "one"
    ELSE "nothing"

MyPromise == INSTANCE SessionPromise WITH
    Effects <- MyEffects, work <- myServer.work, saved <- myServer.saved,
    undone <- myServer.undone, want <- MyWant, said <- myCaller.said

\* What the connection actor relies on: no statement, cancellation or lost answer saves
\* work that nobody asked to save, and no answer says what is not so.
MyKeepsItsPromise == MyPromise!PromiseSpec
=============================================================================
