----------------------------- MODULE PageTransfer -----------------------------
(***************************************************************************)
(* Pages and schemas on their way from the actor of a connection to the    *)
(* grid of a query workspace, and who holds the memory that is reserved    *)
(* for them.  The engine reserves it before it sends the event; the bridge *)
(* converts the event and keeps the lease in a table (bridge/src/lib.rs);  *)
(* the drain of the frontend dispatches the converted events one by one    *)
(* and gives every lease back afterwards that no handler has retained      *)
(* (desktop/bridge/engine_adapter.cpp); the workspace retains the schema   *)
(* and the page it shows, and builds the page in another thread first      *)
(* (desktop/app/query_workspace*.cpp).  A handler may run an event loop of *)
(* its own, in which the rest goes on while the drain waits.  Lease 0 is   *)
(* none, query 0 is none and page 0 is none: pages count from 1.           *)
(***************************************************************************)
EXTENDS Integers, Sequences, SequencesExt, FiniteSets

CONSTANTS
    PtQueue,        \* commands and events that wait between frontend and engine
    PtBudget,       \* EVENT_DRAIN_BUDGET: events in conversion
    PtNested,       \* event loops inside of handlers, a bound
    PtQueries, PtPages, PtAsks, PtOthers    \* bounds: queries, pages of one, pages asked for, others' refused commands

ASSUME PtAssumption == {PtQueue, PtBudget, PtNested, PtQueries, PtPages, PtAsks, PtOthers} \subseteq Nat

VARIABLES
    ptAsked,    \* the commands that wait for the actor
    ptCancelled, \* the queries with a cancellation signal
    ptEngine,   \* the actor: alive, its cursor's query, per query the stored pages and whether more may follow
    ptSent,     \* the events that wait for the frontend
    ptRaw,      \* the events in conversion
    ptLeases,   \* the lease table of the bridge
    ptTransfers, ptRetained, ptReleased,    \* EngineAdapter's transfers
    ptDrains,   \* the drains, the innermost last: the events still to be dispatched, the leases of the others
    ptLoop,     \* the frontend is in an event loop
    ptUi,       \* the workspace
    ptBuilds,   \* the pages that are built in the other thread
    ptCount     \* what has been used of the bounds

ptLink == <<ptAsked, ptCancelled>>
ptTable == <<ptLeases, ptTransfers, ptRetained, ptReleased>>
ptVars == <<ptLink, ptEngine, ptSent, ptRaw, ptTable, ptDrains, ptLoop, ptUi, ptBuilds, ptCount>>

Nothing == [query |-> 0, page |-> 0]
Says(kind, query) == [kind |-> kind, query |-> query, page |-> 0, more |-> FALSE, lease |-> 0]
PageOf(query, page, more) == [Says("stored_page", query) EXCEPT !.page = page, !.more = more]
Reserved(event) == event.kind \in {"schema", "stored_page"}

PtInit ==
    /\ ptAsked = <<>> /\ ptCancelled = {}
    /\ ptEngine = [alive |-> TRUE, cursor |-> 0, stored |-> [q \in 1 .. PtQueries |-> -1]]
    /\ ptSent = <<>> /\ ptRaw = <<>>
    /\ ptLeases = {} /\ ptTransfers = {} /\ ptRetained = {} /\ ptReleased = {}
    /\ ptDrains = <<>> /\ ptLoop = TRUE
    /\ ptUi = [connected |-> TRUE, query |-> 0, shown |-> Nothing, page |-> 0, more |-> FALSE,
               visible |-> 0, schema |-> 0, building |-> 0, busy |-> FALSE, fetching |-> FALSE, cancelling |-> FALSE]
    /\ ptBuilds = {} /\ ptCount = [queries |-> 0, asks |-> 0, others |-> 0]

-----------------------------------------------------------------------------
(* The actor of the connection: one command after the other. *)

Sends(events) == Len(ptSent) + Len(events) <= PtQueue + 1 /\ ptSent' = ptSent \o events

\* A statement returns columns, or has finished or failed at once.
Executed(query) ==
    \/ /\ Sends(<<Says("schema", query)>>)
       /\ ptEngine' = [ptEngine EXCEPT !.cursor = query, !.stored[query] = 0]
    \/ /\ \E kind \in {"finished", "failed"} : Sends(<<Says(kind, query)>>)
       /\ ptEngine' = [ptEngine EXCEPT !.cursor = 0]

\* Stored pages outlive their cursor, and a cancellation of it.  No page lies beyond the last.
Fetched(query, page) ==
    LET stored == ptEngine.stored[query]  live == ptEngine.cursor = query IN
    \/ /\ page <= stored /\ Sends(<<PageOf(query, page, page < stored \/ live)>>)
       /\ UNCHANGED ptEngine
    \/ /\ page = stored + 1 /\ live
       /\ \/ Sends(<<PageOf(query, page, FALSE), Says("finished", query)>>)
             /\ ptEngine' = [ptEngine EXCEPT !.cursor = 0, !.stored[query] = page]
          \/ page < PtPages /\ Sends(<<PageOf(query, page, TRUE)>>)
             /\ ptEngine' = [ptEngine EXCEPT !.stored[query] = page]
          \/ Sends(<<Says("failed", query)>>) /\ ptEngine' = [ptEngine EXCEPT !.cursor = 0]
    \* A stored page cannot be read, or there is no such page.
    \/ /\ ~(page = stored + 1 /\ live) /\ Sends(<<Says("failed", query)>>)
       /\ UNCHANGED ptEngine

Released(query) ==
    /\ ptEngine' = [ptEngine EXCEPT !.stored[query] = -1, !.cursor = IF @ = query THEN 0 ELSE @]
    /\ UNCHANGED ptSent

PtServe ==
    /\ ptEngine.alive /\ ptAsked # <<>> /\ ptAsked' = Tail(ptAsked)
    /\ LET command == Head(ptAsked) IN
       CASE command.op = "execute" -> Executed(command.query)
         [] command.op = "fetch" -> Fetched(command.query, command.page)
         [] command.op = "release" -> Released(command.query)
    /\ UNCHANGED <<ptCancelled, ptRaw, ptTable, ptDrains, ptLoop, ptUi, ptBuilds, ptCount>>

\* The statement of the cursor is cancelled while the actor is idle, or its time is over.
Stopped ==
    /\ ptEngine.alive /\ ptEngine.cursor # 0 /\ Sends(<<Says("failed", ptEngine.cursor)>>)
    /\ ptEngine' = [ptEngine EXCEPT !.cursor = 0]
    /\ UNCHANGED <<ptLink, ptRaw, ptTable, ptDrains, ptLoop, ptUi, ptBuilds, ptCount>>
PtCancelIdle == ptEngine.cursor \in ptCancelled /\ Stopped
PtTimeOut == Stopped

\* The connection is lost.
PtLose ==
    /\ ptEngine.alive
    /\ Sends((IF ptEngine.cursor # 0 THEN <<Says("failed", ptEngine.cursor)>> ELSE <<>>) \o <<Says("disconnected", 0)>>)
    /\ ptEngine' = [ptEngine EXCEPT !.alive = FALSE, !.cursor = 0] /\ ptAsked' = <<>>
    /\ UNCHANGED <<ptCancelled, ptRaw, ptTable, ptDrains, ptLoop, ptUi, ptBuilds, ptCount>>

-----------------------------------------------------------------------------
(* The drain: a timer of the frontend. *)

\* Each converted event that has a reservation gets a place of its own in the table, the first unused one.
Placed(events, leases) ==
    \A i \in DOMAIN leases :
        LET before == ptLeases \cup {leases[j] : j \in 1 .. i - 1} IN
        IF Reserved(events[i])
        THEN leases[i] \notin before \cup {0} /\ 1 .. leases[i] - 1 \subseteq before
        ELSE leases[i] = 0
Converted(events, leases) == [i \in DOMAIN leases |-> [events[i] EXCEPT !.lease = leases[i]]]

\* As many events as there is room for go into conversion; the first ones have been converted.
PtTick ==
    /\ ptLoop /\ Len(ptDrains) <= PtNested
    /\ LET room == PtBudget - Len(ptRaw)
           sent == IF Len(ptSent) < room THEN Len(ptSent) ELSE room
           raw == ptRaw \o SubSeq(ptSent, 1, sent)
       IN  \E taken \in 1 .. Len(raw) : \E leases \in [1 .. taken -> 0 .. Cardinality(ptLeases) + taken] :
               /\ Placed(raw, leases)
               /\ ptSent' = SubSeq(ptSent, sent + 1, Len(ptSent)) /\ ptRaw' = SubSeq(raw, taken + 1, Len(raw))
               /\ ptLeases' = ptLeases \cup ({leases[i] : i \in 1 .. taken} \ {0})
               /\ ptDrains' = Append(ptDrains, [events |-> Converted(raw, leases), taken |-> {}])
    /\ ptLoop' = FALSE
    /\ UNCHANGED <<ptLink, ptEngine, ptTransfers, ptRetained, ptReleased, ptUi, ptBuilds, ptCount>>

Leased(lease) == {lease} \ {0}

\* A lease of a drain that has not finished is given back by that drain, any other one at once.
GiveBack(leases, transfers) ==
    /\ ptReleased' = ptReleased \cup (leases \cap transfers)
    /\ ptLeases' = ptLeases \ (leases \ transfers)

\* As it would be if the drain did not look at what was released in the meantime.
RetainedAnyway(taken) == taken \cap ptRetained

\* What stays in the table when the events of a drain are gone.
Retained(taken) == (taken \cap ptRetained) \ ptReleased

PtDrained ==
    /\ ~ptLoop /\ ptDrains # <<>> /\ Last(ptDrains).events = <<>>
    /\ LET taken == Last(ptDrains).taken IN
       /\ ptLeases' = ptLeases \ (taken \ Retained(taken))
       /\ ptTransfers' = ptTransfers \ taken
       /\ ptRetained' = ptRetained \ taken /\ ptReleased' = ptReleased \ taken
    /\ ptDrains' = Front(ptDrains) /\ ptLoop' = TRUE
    /\ UNCHANGED <<ptLink, ptEngine, ptSent, ptRaw, ptUi, ptBuilds, ptCount>>

\* A handler runs an event loop of its own, in a dialog; the dialog is closed.
PtEnter == ~ptLoop /\ ptDrains # <<>> /\ Len(ptDrains) <= PtNested /\ ptLoop' = TRUE
PtLeave == ptLoop /\ ptDrains # <<>> /\ ptLoop' = FALSE
PtNest == (PtEnter \/ PtLeave) /\ UNCHANGED <<ptLink, ptEngine, ptSent, ptRaw, ptTable, ptDrains, ptUi, ptBuilds, ptCount>>

-----------------------------------------------------------------------------
(* The workspace. *)

InFlight == ptUi.busy \/ ptUi.fetching \/ ptUi.cancelling
Holding == Leased(ptUi.visible) \cup Leased(ptUi.schema) \cup Leased(ptUi.building)
Cleared == [ptUi EXCEPT !.shown = Nothing, !.visible = 0, !.schema = 0, !.building = 0]
\* dropPageBuild: a build that goes on is not listened to any more.
NotListening == {[build EXCEPT !.live = FALSE] : build \in ptBuilds}
CommandFailed(ui) == IF ui.fetching THEN [ui EXCEPT !.busy = FALSE, !.fetching = FALSE] ELSE ui

Room(asked) == ptEngine.alive /\ Len(asked) < PtQueue
Fetch(page) == [op |-> "fetch", query |-> ptUi.query, page |-> page]
\* A page is asked for; a command that is refused fails at once.
AskFor(page, ui) ==
    IF Room(ptAsked) THEN ptAsked' = Append(ptAsked, Fetch(page)) /\ ptUi' = ui
    ELSE UNCHANGED ptAsked /\ ptUi' = CommandFailed(ui)

OnSchema(event, transfers) ==
    /\ event.kind = "schema" /\ event.query = ptUi.query /\ ~ptUi.cancelling
    /\ GiveBack(Holding, transfers) /\ ptBuilds' = NotListening
    \* The reservation may be too small.
    /\ \/ /\ ptRetained' = ptRetained \cup {event.lease}
          /\ AskFor(1, [Cleared EXCEPT !.schema = event.lease, !.fetching = TRUE])
       \/ /\ ptUi' = [Cleared EXCEPT !.busy = FALSE, !.fetching = FALSE]
          /\ UNCHANGED <<ptAsked, ptRetained>>
    /\ UNCHANGED ptCancelled

OnPage(event, transfers) ==
    /\ event.kind = "stored_page" /\ event.query = ptUi.query /\ ~ptUi.cancelling
    /\ ptRetained' = ptRetained \cup {event.lease}
    /\ GiveBack(Leased(ptUi.building), transfers)
    /\ ptUi' = [ptUi EXCEPT !.building = event.lease]
    /\ ptBuilds' = NotListening \cup {[event |-> event, live |-> TRUE]}
    /\ UNCHANGED ptLink

Ended == [ptUi EXCEPT !.busy = FALSE, !.fetching = FALSE, !.cancelling = FALSE]
OnEnd(event) ==
    /\ \/ event.kind = "finished" /\ event.query = ptUi.query /\ ptUi' = Ended
       \/ event.kind = "failed" /\ event.query = ptUi.query /\ ptUi' = [Ended EXCEPT !.more = FALSE]
       \* What is shown stays, and a page that is being built.
       \/ /\ event.kind = "disconnected"
          /\ ptUi' = [Ended EXCEPT !.connected = FALSE, !.query = 0, !.page = 0, !.more = FALSE]
    /\ UNCHANGED <<ptLink, ptLeases, ptRetained, ptReleased, ptBuilds>>

\* What belongs to another query, and whatever comes of a cancelled one before it ends.
OnOther(event) ==
    /\ event.kind # "disconnected"
    /\ event.query # ptUi.query \/ (ptUi.cancelling /\ Reserved(event))
    /\ UNCHANGED <<ptLink, ptLeases, ptRetained, ptReleased, ptUi, ptBuilds>>

PtDispatch ==
    /\ ~ptLoop /\ ptDrains # <<>> /\ Last(ptDrains).events # <<>>
    /\ LET drain == Last(ptDrains)
           event == Head(drain.events)
           transfers == ptTransfers \cup Leased(event.lease)
       IN  /\ ptTransfers' = transfers
           /\ ptDrains' = Append(Front(ptDrains),
                                 [events |-> Tail(drain.events), taken |-> drain.taken \cup Leased(event.lease)])
           /\ OnSchema(event, transfers) \/ OnPage(event, transfers) \/ OnEnd(event) \/ OnOther(event)
    /\ UNCHANGED <<ptEngine, ptSent, ptRaw, ptLoop, ptCount>>

\* The page of a build is over the budget of the grid, or is shown but does not fit its lease, or is shown.
Over(ui) == [ui EXCEPT !.more = FALSE]
NotFitting(ui) == [ui EXCEPT !.more = FALSE, !.page = 0, !.shown = Nothing, !.visible = 0]
Showing(ui, event) ==
    [ui EXCEPT !.more = event.more, !.page = event.page, !.visible = event.lease,
               !.shown = [query |-> event.query, page |-> event.page]]
ShowPage(event) ==
    LET ui == [ptUi EXCEPT !.building = 0, !.fetching = FALSE, !.busy = FALSE] IN
    \/ ptUi' = Over(ui) /\ GiveBack({event.lease}, ptTransfers)
    \/ ptUi' = NotFitting(ui) /\ GiveBack({event.lease} \cup Leased(ui.visible), ptTransfers)
    \/ ptUi' = Showing(ui, event) /\ GiveBack(Leased(ui.visible), ptTransfers)

PtBuilt ==
    /\ ptLoop
    /\ \E build \in ptBuilds :
           /\ ptBuilds' = ptBuilds \ {build}
           /\ IF build.live THEN ShowPage(build.event) ELSE UNCHANGED <<ptUi, ptLeases, ptReleased>>
    /\ UNCHANGED <<ptLink, ptEngine, ptSent, ptRaw, ptTransfers, ptRetained, ptDrains, ptLoop, ptCount>>

-----------------------------------------------------------------------------
(* The user. *)

\* The former query is released and a new one submitted; both may be refused.
PtExecute ==
    /\ ptLoop /\ ptUi.connected /\ ~InFlight /\ ptCount.queries < PtQueries
    /\ LET asked == IF ptUi.query # 0 /\ Room(ptAsked)
                    THEN Append(ptAsked, [op |-> "release", query |-> ptUi.query, page |-> 0]) ELSE ptAsked
           query == IF Room(asked) THEN ptCount.queries + 1 ELSE 0
       IN  /\ ptAsked' = IF query # 0 THEN Append(asked, [op |-> "execute", query |-> query, page |-> 0]) ELSE asked
           /\ ptUi' = [Cleared EXCEPT !.query = query, !.page = 0, !.more = FALSE, !.busy = query # 0]
           /\ ptCount' = [ptCount EXCEPT !.queries = IF query # 0 THEN query ELSE @]
    /\ ptCancelled' = ptCancelled \cup Leased(ptUi.query)
    /\ GiveBack(Holding, ptTransfers) /\ ptBuilds' = NotListening
    /\ UNCHANGED <<ptEngine, ptSent, ptRaw, ptTransfers, ptRetained, ptDrains, ptLoop>>

\* A page is asked for, the next one while the query counts as running.
PtTurn ==
    /\ ptLoop /\ ptUi.connected /\ ptUi.query # 0 /\ ~InFlight /\ ptCount.asks < PtAsks
    /\ \/ ptUi.more /\ AskFor(ptUi.page + 1, [ptUi EXCEPT !.fetching = TRUE, !.busy = TRUE])
       \/ ptUi.page > 1 /\ AskFor(ptUi.page - 1, [ptUi EXCEPT !.fetching = TRUE])
    /\ ptCount' = [ptCount EXCEPT !.asks = @ + 1]
    /\ UNCHANGED <<ptCancelled, ptEngine, ptSent, ptRaw, ptTable, ptDrains, ptLoop, ptBuilds>>

\* The engine knows the query until the frontend takes the end of its connection.
Known == ptEngine.alive \/ \E i \in DOMAIN ptSent : ptSent[i].kind = "disconnected"
PtCancel ==
    /\ ptLoop /\ ptUi.connected /\ ptUi.query # 0 /\ ptUi.busy /\ ~ptUi.cancelling
    /\ \/ /\ Known /\ ptCancelled' = ptCancelled \cup {ptUi.query}
          /\ ptUi' = [ptUi EXCEPT !.cancelling = TRUE, !.building = 0]
          /\ GiveBack(Leased(ptUi.building), ptTransfers) /\ ptBuilds' = NotListening
       \/ /\ ~Known /\ ptUi' = CommandFailed(ptUi)
          /\ UNCHANGED <<ptCancelled, ptLeases, ptReleased, ptBuilds>>
    /\ UNCHANGED <<ptAsked, ptEngine, ptSent, ptRaw, ptTransfers, ptRetained, ptDrains, ptLoop, ptCount>>

\* A command of another part of the frontend is refused, which every workspace hears.
PtOther ==
    /\ ptLoop /\ ptCount.others < PtOthers /\ ptCount' = [ptCount EXCEPT !.others = @ + 1]
    /\ ptUi' = CommandFailed(ptUi)
    /\ UNCHANGED <<ptLink, ptEngine, ptSent, ptRaw, ptTable, ptDrains, ptLoop, ptBuilds>>

PtNext ==
    \/ PtServe \/ PtCancelIdle \/ PtTimeOut \/ PtLose
    \/ PtTick \/ PtDispatch \/ PtDrained \/ PtNest \/ PtBuilt
    \/ PtExecute \/ PtTurn \/ PtCancel \/ PtOther
PtSpec == PtInit /\ [][PtNext]_ptVars

\* The actor serves what it is asked, the timer fires, handlers return and pages get built.
PtFairness ==
    /\ WF_ptVars(PtServe) /\ WF_ptVars(PtCancelIdle)
    /\ WF_ptVars(PtTick) /\ WF_ptVars(PtDispatch) /\ WF_ptVars(PtDrained) /\ WF_ptVars(PtBuilt)
PtFairSpec == PtSpec /\ PtFairness

-----------------------------------------------------------------------------
\* The reserved memory of every event has one owner: the workspace, for the schema, the page it shows
\* or the page being built; the drain that has still to dispatch the event; or the drain that has
\* dispatched it and will give it back.  What is shown is reserved, and is the page that the
\* workspace takes it for (retainTransfer, releasePageLease, the drain; clearResult, showPage).
Waiting(lease) ==
    \E i \in DOMAIN ptDrains : \E j \in DOMAIN ptDrains[i].events : ptDrains[i].events[j].lease = lease
PtEveryLeaseHasOneOwner ==
    /\ Cardinality(Holding) = Cardinality({part \in {"visible", "schema", "building"} : ptUi[part] # 0})
    /\ Holding \subseteq ptLeases /\ Holding \cap ptTransfers \subseteq ptRetained \ ptReleased
    /\ \A lease \in ptLeases : lease \notin Holding =>
           \/ Waiting(lease) /\ lease \notin ptTransfers
           \/ lease \in ptTransfers \ (ptRetained \ ptReleased)
    /\ \A lease \in Holding : ~Waiting(lease)
    /\ (ptUi.visible # 0) = (ptUi.shown # Nothing)
    /\ {build.event.lease : build \in {b \in ptBuilds : b.live}} = Leased(ptUi.building)
    /\ ptUi.query # 0 /\ ptUi.page # 0 => ptUi.shown = [query |-> ptUi.query, page |-> ptUi.page]

\* A cancellation that was accepted is acknowledged, and the workspace can run again
\* (query_workspace_events.cpp: "Keep the pending cancellation visible until that acknowledgement
\* arrives").
PtCancelAcknowledged == ptUi.cancelling ~> ~ptUi.cancelling

PtTypeOK ==
    /\ ptEngine.cursor \in 0 .. PtQueries /\ ptCancelled \subseteq 1 .. PtQueries
    /\ Len(ptAsked) <= PtQueue /\ Len(ptSent) <= PtQueue + 1 /\ Len(ptRaw) <= PtBudget
    /\ ptTransfers \cup ptRetained \cup ptReleased \subseteq ptLeases
    /\ ptUi.query \in 0 .. PtQueries /\ ptUi.page \in 0 .. PtPages
    /\ Len(ptDrains) <= PtNested + 1 /\ {ptUi.visible, ptUi.schema, ptUi.building} \subseteq Nat
=============================================================================
