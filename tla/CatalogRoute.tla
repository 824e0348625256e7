---------------------------- MODULE CatalogRoute ----------------------------
(***************************************************************************)
(* Which session of a connection answers the navigator, and what it saves. *)
(* The engine sends a read to the catalog session's queue or to the query  *)
(* session's (core/src/lib.rs, reserve_catalog; core/src/catalog.rs); the  *)
(* catalog session opens at the first read and hands reads back while it   *)
(* cannot open; the query session's actor (core/src/actor.rs) tells the    *)
(* route whether a transaction is open, but only when it asks.  Children   *)
(* of a saved profile are shown from the storage worker first and saved    *)
(* after a complete read (core/src/metadata_cache.rs).                     *)
(*                                                                         *)
(* Events always find room here: the event channel is in RecoveryQueue.    *)
(***************************************************************************)
EXTENDS Integers, Sequences
LOCAL INSTANCE FiniteSets

CONSTANTS
    CrReads,        \* metadata reads
    CrCapacity,     \* of either queue
    CrStatements    \* bound: statements

NoRead == "no read"
Statement == "statement"
Sessions == {"catalog", "query"}

ASSUME CrAssumption == CrReads \cap {NoRead, Statement} = {} /\ CrStatements \in Nat

VARIABLES
    crRoute,        \* reads.is_some() and in_transaction, with the reader's own session
    crQueue,        \* the two queues
    crReserved,     \* the reads that hold a place in one, while their saved children are looked up
    crRun,          \* per session: what it does, and for which read
    crOpen,         \* the catalog session is open
    crRetry,        \* Instant::now() < retry_at
    crQuery,        \* the query session: a transaction is open, a result streams, and the
                    \* transaction's state was asked for since the last statement
    crStatements,
    crAnswers,      \* per read: the events it got
    crSaved,        \* what the storage worker keeps
    crStopped       \* the connection is told to stop

crVars == <<crRoute, crQueue, crReserved, crRun, crOpen, crRetry, crQuery, crStatements,
            crAnswers, crSaved, crStopped>>

CrTypeOK ==
    /\ crRoute \in [second : BOOLEAN, transaction : BOOLEAN]
    /\ crQueue \in [Sessions -> Seq(CrReads \cup {Statement})]
    /\ crReserved \in [CrReads -> Sessions \cup {NoRead}]
    /\ crRun \in [Sessions -> [at : {"idle", "opening", "handing back", "reading", "saving", "gone"},
                               read : CrReads \cup {NoRead}]]
    /\ crQuery \in [transaction : BOOLEAN, streams : BOOLEAN, asked : BOOLEAN]
    /\ {crOpen, crRetry, crStopped} \subseteq BOOLEAN /\ crStatements \in 0..CrStatements
    /\ crAnswers \in [CrReads -> Seq({"saved", "live", "failed"})]
    /\ crSaved \in {"nothing", "committed", "unknown", "uncommitted"}

\* Idle sessions hold no read.
CrIdle == [at |-> "idle", read |-> NoRead]
CrGone == [at |-> "gone", read |-> NoRead]

\* Connected: the first state is asked for, and counts as open when the driver does not know it; the
\* session's opener, if it has one, is routed to.
CrInit ==
    /\ crQuery \in [transaction : {FALSE}, streams : {FALSE}, asked : {TRUE}]
    /\ crRoute \in [second : BOOLEAN, transaction : BOOLEAN]
    /\ crQueue = [s \in Sessions |-> <<>>] /\ crReserved = [r \in CrReads |-> NoRead]
    /\ crRun = [s \in Sessions |-> CrIdle] /\ crOpen = FALSE /\ crRetry = FALSE
    /\ crStatements = 0 /\ crAnswers = [r \in CrReads |-> <<>>] /\ crSaved = "nothing"
    /\ crStopped = FALSE

-----------------------------------------------------------------------------
(* The engine.                                                             *)

CrPlaces(s) == Len(crQueue[s]) + Cardinality({r \in CrReads : crReserved[r] = s})
CrRoom(s) == CrPlaces(s) < CrCapacity /\ crRun[s] # CrGone
CrUnsent(r) ==
    /\ crAnswers[r] = <<>> /\ crReserved[r] = NoRead
    /\ \A s \in Sessions : crRun[s].read # r /\ \A i \in 1..Len(crQueue[s]) : crQueue[s][i] # r

\* CatalogRoute::reads
CrToCatalog == crRoute.second /\ ~crRoute.transaction /\ crRun["catalog"] # CrGone

\* reserve_catalog: a full queue refuses the read; the query session answers for a catalog
\* session that stopped.
CrReserve(s) == s = (IF CrToCatalog THEN "catalog" ELSE "query") /\ CrRoom(s)

\* metadata_page, without the saved children.
CrSubmit(r, s) ==
    /\ ~crStopped /\ CrUnsent(r) /\ CrReserve(s)
    /\ crQueue' = [crQueue EXCEPT ![s] = Append(@, r)]
    /\ UNCHANGED <<crRoute, crReserved, crRun, crOpen, crRetry, crQuery, crStatements, crAnswers,
                   crSaved, crStopped>>

CrSubmitSavedAtOnce(r, s) ==
    /\ ~crStopped /\ CrUnsent(r) /\ CrReserve(s)
    /\ crReserved' = [crReserved EXCEPT ![r] = s]
    /\ crQueue' = [crQueue EXCEPT ![s] = Append(@, r)]
    /\ UNCHANGED <<crRoute, crRun, crOpen, crRetry, crQuery, crStatements, crAnswers, crSaved,
                   crStopped>>

\* metadata_page with them: the place is reserved before they are looked up.
CrSubmitSaved(r, s) ==
    /\ ~crStopped /\ CrUnsent(r) /\ CrReserve(s)
    /\ crReserved' = [crReserved EXCEPT ![r] = s]
    /\ UNCHANGED <<crRoute, crQueue, crRun, crOpen, crRetry, crQuery, crStatements, crAnswers,
                   crSaved, crStopped>>

\* The spawned task: saved children, when there are any, or the error of looking them up are
\* shown before the live read is sent.
CrShowSaved(r) ==
    /\ crReserved[r] # NoRead /\ crReserved' = [crReserved EXCEPT ![r] = NoRead]
    /\ crQueue' = [crQueue EXCEPT ![crReserved[r]] = IF crRun[crReserved[r]] = CrGone THEN @
                                                     ELSE Append(@, r)]
    /\ \/ crSaved # "nothing" /\ crAnswers' = [crAnswers EXCEPT ![r] = Append(@, "saved")]
       \/ UNCHANGED crAnswers
    /\ UNCHANGED <<crRoute, crRun, crOpen, crRetry, crQuery, crStatements, crSaved, crStopped>>

\* Execute, or a Fetch that reads the result to its end.
CrSubmitStatement ==
    /\ ~crStopped /\ crStatements < CrStatements /\ CrRoom("query")
    /\ crStatements' = crStatements + 1
    /\ crQueue' = [crQueue EXCEPT !["query"] = Append(@, Statement)]
    /\ UNCHANGED <<crRoute, crReserved, crRun, crOpen, crRetry, crQuery, crAnswers, crSaved,
                   crStopped>>

CrStop ==
    /\ ~crStopped /\ crStopped' = TRUE
    /\ UNCHANGED <<crRoute, crQueue, crReserved, crRun, crOpen, crRetry, crQuery, crStatements,
                   crAnswers, crSaved>>

-----------------------------------------------------------------------------
(* The catalog session's task (catalog.rs, run).                           *)

CrGo(s, at, r) == crRun' = [crRun EXCEPT ![s] = [at |-> at, read |-> r]]
CrTake(s) == crQueue' = [crQueue EXCEPT ![s] = Tail(@)]

CrReceive ==
    /\ crRun["catalog"] = CrIdle /\ ~crStopped /\ crQueue["catalog"] # <<>> /\ CrTake("catalog")
    /\ CrGo("catalog", IF crOpen THEN "reading" ELSE IF crRetry THEN "handing back" ELSE "opening",
            Head(crQueue["catalog"]))
    /\ UNCHANGED <<crRoute, crReserved, crOpen, crRetry, crQuery, crStatements, crAnswers, crSaved,
                   crStopped>>

CrOpened ==
    /\ crRun["catalog"].at = "opening" /\ crOpen' = TRUE /\ crRetry' = FALSE
    /\ CrGo("catalog", "reading", crRun["catalog"].read)
    /\ UNCHANGED <<crRoute, crQueue, crReserved, crQuery, crStatements, crAnswers, crSaved,
                   crStopped>>

CrOpenFailedForgets ==
    /\ crRun["catalog"].at = "opening" /\ crRetry' = TRUE
    /\ crRun' = [crRun EXCEPT !["catalog"] = CrIdle]
    /\ UNCHANGED <<crRoute, crQueue, crReserved, crOpen, crQuery, crStatements, crAnswers, crSaved,
                   crStopped>>

CrOpenFailed ==
    /\ crRun["catalog"].at = "opening" /\ crRetry' = TRUE
    /\ CrGo("catalog", "handing back", crRun["catalog"].read)
    /\ UNCHANGED <<crRoute, crQueue, crReserved, crOpen, crQuery, crStatements, crAnswers, crSaved,
                   crStopped>>

\* CATALOG_RETRY is over.
CrRetryOver ==
    /\ crRetry /\ crRetry' = FALSE
    /\ UNCHANGED <<crRoute, crQueue, crReserved, crRun, crOpen, crQuery, crStatements, crAnswers,
                   crSaved, crStopped>>

\* The read goes to the query session, whose queue may be full for a while.
CrHandBack ==
    /\ crRun["catalog"].at = "handing back" /\ CrRoom("query")
    /\ crQueue' = [crQueue EXCEPT !["query"] = Append(@, crRun["catalog"].read)]
    /\ crRun' = [crRun EXCEPT !["catalog"] = CrIdle]
    /\ UNCHANGED <<crRoute, crReserved, crOpen, crRetry, crQuery, crStatements, crAnswers, crSaved,
                   crStopped>>

\* The biased selects: told to stop, or the query session has gone.
CrEndCatalog ==
    /\ \/ crRun["catalog"].at \in {"idle", "opening"} /\ crStopped
       \/ crRun["catalog"].at = "handing back" /\ crRun["query"] = CrGone
    /\ crRun' = [crRun EXCEPT !["catalog"] = CrGone] /\ crOpen' = FALSE
    /\ crQueue' = [crQueue EXCEPT !["catalog"] = <<>>]
    /\ UNCHANGED <<crRoute, crReserved, crRetry, crQuery, crStatements, crAnswers, crSaved,
                   crStopped>>

-----------------------------------------------------------------------------
(* catalog_read, on either session.                                        *)

CrAnswer(r, answer) == crAnswers' = [crAnswers EXCEPT ![r] = Append(@, answer)]

\* The children are complete and belong to a profile, so they are saved after they are shown,
\* unless the target was dropped.
CrReadOk(s, save) ==
    LET r == crRun[s].read
    IN /\ crRun[s].at = "reading" /\ CrAnswer(r, "live")
       /\ crRun' = [crRun EXCEPT ![s] = IF save THEN [at |-> "saving", read |-> r] ELSE CrIdle]
       /\ UNCHANGED <<crRoute, crQueue, crReserved, crOpen, crRetry, crQuery, crStatements,
                      crSaved, crStopped>>

\* A lost catalog session is closed; the next read opens it again.
CrReadFails(s) ==
    /\ crRun[s].at = "reading" /\ CrAnswer(crRun[s].read, "failed")
    /\ crRun' = [crRun EXCEPT ![s] = CrIdle]
    /\ crOpen' \in IF s = "catalog" THEN BOOLEAN ELSE {crOpen}
    /\ UNCHANGED <<crRoute, crQueue, crReserved, crRetry, crQuery, crStatements, crSaved, crStopped>>

\* What children read on a session show: only the query session sees its own transaction.
CrShown(s) ==
    IF s = "catalog" \/ ~crQuery.transaction THEN "committed"
    ELSE IF crQuery.asked THEN "uncommitted" ELSE "unknown"

\* CacheTarget::write; a failed write is reported and changes nothing.
CrSave(s) ==
    /\ crRun[s].at = "saving" /\ crRun' = [crRun EXCEPT ![s] = CrIdle]
    /\ crSaved' \in {crSaved, CrShown(s)}
    /\ UNCHANGED <<crRoute, crQueue, crReserved, crOpen, crRetry, crQuery, crStatements, crAnswers,
                   crStopped>>

-----------------------------------------------------------------------------
(* The query session's actor (actor.rs, run).                              *)

CrActorReceives(kind) ==
    /\ crRun["query"] = CrIdle /\ ~crStopped /\ crQueue["query"] # <<>> /\ CrTake("query")
    /\ (Head(crQueue["query"]) = Statement) = (kind = Statement)

CrActorReads ==
    /\ CrActorReceives("read") /\ CrGo("query", "reading", Head(crQueue["query"]))
    /\ UNCHANGED <<crRoute, crReserved, crOpen, crRetry, crQuery, crStatements, crAnswers, crSaved,
                   crStopped>>

\* follow, after a statement whose result is complete: an unreadable state counts as open.
CrFollow(transaction) ==
    \E readable \in BOOLEAN :
        crRoute' = [crRoute EXCEPT !.transaction = readable => transaction]

\* A statement may open or end a transaction, and a script may do so and end in a result that
\* still streams; the state is asked for when nothing streams.
CrExecutes ==
    /\ CrActorReceives(Statement)
    /\ \E transaction, streams \in BOOLEAN :
         /\ crQuery' = [transaction |-> transaction, streams |-> streams, asked |-> ~streams]
         /\ IF streams THEN UNCHANGED crRoute ELSE CrFollow(transaction)
    /\ UNCHANGED <<crReserved, crRun, crOpen, crRetry, crStatements, crAnswers, crSaved, crStopped>>

\* Cancelled or out of time while idle: the loop goes on without asking.
CrIdleStop ==
    /\ crRun["query"] = CrIdle /\ crQuery.streams /\ crQuery' = [crQuery EXCEPT !.streams = FALSE]
    /\ UNCHANGED <<crRoute, crQueue, crReserved, crRun, crOpen, crRetry, crStatements, crAnswers,
                   crSaved, crStopped>>

CrEndQuery ==
    /\ crRun["query"].at = "idle" /\ crStopped /\ crRun' = [crRun EXCEPT !["query"] = CrGone]
    /\ crQueue' = [crQueue EXCEPT !["query"] = <<>>]
    /\ crQuery' = [transaction |-> FALSE, streams |-> FALSE, asked |-> TRUE]
    /\ UNCHANGED <<crRoute, crReserved, crOpen, crRetry, crStatements, crAnswers, crSaved,
                   crStopped>>

CrSavesAnyway(s) == TRUE
\* The actor drops the target while the route knows of a transaction.
CrSaves(s) == s = "catalog" \/ ~crRoute.transaction

CrRead(s) ==
    \/ \E save \in BOOLEAN : (save => CrSaves(s)) /\ CrReadOk(s, save)
    \/ CrReadFails(s) \/ CrSave(s)

CrCatalogTask == CrReceive \/ CrOpened \/ CrOpenFailed \/ CrHandBack \/ CrEndCatalog \/ CrRead("catalog")
CrActor == CrActorReads \/ CrExecutes \/ CrEndQuery \/ CrRead("query")

CrNext ==
    \/ \E r \in CrReads :
         \/ \E s \in Sessions : CrSubmit(r, s) \/ CrSubmitSaved(r, s)
         \/ CrShowSaved(r)
    \/ CrSubmitStatement \/ CrStop \/ CrRetryOver \/ CrIdleStop \/ CrCatalogTask \/ CrActor

\* The tasks keep running, and reads of the catalog end.
CrFairness ==
    /\ WF_crVars(CrCatalogTask) /\ WF_crVars(CrActor)
    /\ \A r \in CrReads : WF_crVars(CrShowSaved(r))

CrSpec == CrInit /\ [][CrNext]_crVars /\ CrFairness

-----------------------------------------------------------------------------
CrFinal(r) == {i \in DOMAIN crAnswers[r] : crAnswers[r][i] # "saved"}

\* Children that an open transaction shows are not saved for the next connection (catalog.rs:39),
\* whichever way the read came to the query session, from the moment the transaction's state has
\* been asked for; an unreadable state counts as open.
CrNothingUncommittedSaved == crSaved # "uncommitted"

\* A read is answered by one session, once; saved children are shown before the live ones, never
\* over them.
CrSavedFirst ==
    \A r \in CrReads :
        /\ \A i, j \in CrFinal(r) : i = j
        /\ Len(crAnswers[r]) = 2 => crAnswers[r][1] = "saved"

\* A read that was accepted is answered, although the catalog session cannot open, is lost or has
\* its reads handed back, unless the connection is told to stop: time and again none is outstanding.
CrEveryReadAnswered ==
    []<>(crStopped \/ \A r \in CrReads : CrUnsent(r) \/ CrFinal(r) # {})
=============================================================================
