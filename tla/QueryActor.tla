----------------------------- MODULE QueryActor -----------------------------
(***************************************************************************)
(* One connection of the engine: the handles the caller's thread holds     *)
(* (core/src/lib.rs), the bounded command and event channels, and the      *)
(* actor task that owns the database session (core/src/actor.rs) with the  *)
(* cancellation and settlement rules of core/src/operation.rs and the      *)
(* history tickets of core/src/query_history.rs.                           *)
(*                                                                         *)
(* The actor is sequential.  Whatever it has decided to send or record is  *)
(* in `out', in order, and it goes on only once `out' is empty: every      *)
(* element is one await of the code, at which the caller may act.  Rows,   *)
(* columns, SQL text and error texts are abstracted away.                  *)
(***************************************************************************)
EXTENDS Naturals, Sequences, FiniteSets

CONSTANTS
    Queries,        \* query handles, each issued once (see HandleArena)
    NoQuery,        \* no handle
    Objects,        \* the queries that read an object instead of running SQL
    Timed,          \* the queries that run with a timeout
    Ops,            \* what the caller may call besides execute, cancel and read
    CommandCap,     \* EngineConfig::command_capacity
    EventCap,       \* EngineConfig::event_capacity
    MaxQueries,     \* EngineConfig::max_queries
    MaxPages,       \* bound: pages a cursor has
    MaxCommands     \* bound: requests the caller makes besides execute

QueryOps == {"Execute", "Fetch", "NextResult", "View", "ClearView", "Release",
             "LoadValue", "LoadChunk"}
SessionOps == {"SqlMode", "Inspect"}
Stops == {"Disconnect", "Shutdown"}

ASSUME QueryAssumption == NoQuery \notin Queries
ASSUME KindAssumption == Objects \subseteq Queries /\ Timed \subseteq Queries
ASSUME OpsAssumption == Ops \subseteq QueryOps \cup SessionOps \cup Stops
ASSUME BoundAssumption ==
    /\ CommandCap \in Nat \ {0} /\ EventCap \in Nat \ {0}
    /\ MaxQueries \in Nat \ {0} /\ MaxPages \in Nat \ {0} /\ MaxCommands \in Nat

-----------------------------------------------------------------------------
(* The caller's thread.                                                    *)
VARIABLES
    open,           \* the engine still has the connection's handle
    halted,         \* Engine::initiate_shutdown was called
    registered,     \* queries in Engine::queries
    issued,         \* query handles issued so far
    permit,         \* query whose command slot execute has reserved
    shown,          \* the last outcome of each query the caller has read
    sent            \* requests made besides execute
(* The out-of-band watch channels.                                         *)
VARIABLES stop, cancelled, released, viewCancelled
(* The bounded channels; `accepting' is false once the actor closed its end.*)
VARIABLES commands, accepting, events
(* The actor task.                                                         *)
VARIABLES
    stage,          \* where the task is between two awaits
    job,            \* the command it works on
    out,            \* events and history writes it still has to await
    active,         \* its two cursors: of SQL and of object reads
    stored,         \* which queries have a result store, with or without pages
    views           \* queries that show a filtered or sorted result view
(* What became of the history tickets, and two facts the code keeps nowhere.*)
VARIABLES
    history,        \* the status recorded for each query
    dropped,        \* tickets recorded only because they were dropped
    abandoned       \* a driver call was given up before it settled

caller  == <<open, halted, registered, issued, permit, shown, sent>>
signals == <<stop, cancelled, released, viewCancelled>>
actor   == <<stage, job, out, active, stored, views>>
ledger  == <<history, dropped, abandoned>>
vars == <<caller, signals, commands, accepting, events, actor, ledger>>

-----------------------------------------------------------------------------
Slots == {"sql", "object"}
Handles == Queries \cup {NoQuery}
Reasons == {"Cancelled", "Timeout", "Disconnected", "Failed"}
Statuses == {"Completed", "Cancelled", "Failed", "Disconnected"}

EventTypes ==
    {"QueryState", "QueryFinished", "QueryFailed", "Schema", "Page",
     "ViewProgress", "ViewApplied", "ViewFailed", "SqlMode", "Reply",
     "OperationFailed", "HistoryWriteFailed", "TransactionState",
     "Connected", "ConnectionFailed", "Disconnected"}
QueryStates == {"Queued", "Running", "Cancelling", "Completed", "Failed",
                "Disconnected"}
Details == Reasons \cup QueryStates \cup {"none"}

Event == [type : EventTypes, query : Handles, detail : Details]
\* What the actor awaits: to send an event, to record a status, to free a ticket, to be told
\* by the driver whether a transaction is open.
Step ==
    Event \cup [type : {"record"}, query : Handles, detail : Statuses]
          \cup [type : {"drop"}, query : Queries, detail : {"none"}]
          \cup [type : {"inquire"}, query : {NoQuery}, detail : {"none"}]

Ev(t, q) == [type |-> t, query |-> q, detail |-> "none"]
State(q, s) == [type |-> "QueryState", query |-> q, detail |-> s]
\* Ticket::finish, and the Drop of a ticket nobody finished.
Record(q, status) == [type |-> "record", query |-> q, detail |-> status]
Drop(q) == [type |-> "drop", query |-> q, detail |-> "none"]
Inquire == [type |-> "inquire", query |-> NoQuery, detail |-> "none"]
QueryFailed(q, why) == [type |-> "QueryFailed", query |-> q, detail |-> why]

\* failure(): the state first, then the error.
Failure(q, why) ==
    <<State(q, IF why = "Disconnected" THEN "Disconnected" ELSE "Failed"),
      QueryFailed(q, why)>>

\* Ticket::fail maps the kind of an error to the status it records.
Fail(q, why) ==
    Record(q, IF why \in {"Cancelled", "Disconnected"} THEN why ELSE "Failed")

Finished(q) == <<State(q, "Completed"), Ev("QueryFinished", q)>>

Cursor == [query : Handles, completed : BOOLEAN, left : 0..MaxPages, timed : BOOLEAN]
NoCursor == [query |-> NoQuery, completed |-> TRUE, left |-> 0, timed |-> FALSE]
SlotOf(q) == IF active["object"].query = q THEN "object" ELSE "sql"
Live(s) == ~active[s].completed
OwnsLiveCursor(q, s) == active[s].query = q /\ Live(s)
OwnsCursor(q, s) == active[s].query = q

\* close_active: a cursor closed early is reported complete; a close may fail.
CloseSteps(c) ==
    IF c.query = NoQuery THEN {<<>>}
    ELSE {IF c.completed THEN <<>> ELSE <<Record(c.query, "Completed")>> \o Finished(c.query),
          <<Fail(c.query, "Failed")>> \o Failure(c.query, "Failed")}

InterruptionsUnlessStopped(cancel, timed) ==
    IF stop THEN {} ELSE IF cancel THEN {"Cancelled"} ELSE IF timed THEN {"Timeout"} ELSE {}
\* The biased order in which perform, wait_capacity and the actor's select poll.
Interruptions(cancel, timed) ==
    IF stop THEN {"Disconnected"}
    ELSE IF cancel THEN {"Cancelled"}
    ELSE IF timed THEN {"Timeout"} ELSE {}
MayProceedCancelled(cancel) == ~stop
MayProceed(cancel) == ~stop /\ ~cancel

NoJob == [op |-> "none", query |-> NoQuery, slot |-> "sql", why |-> "Failed"]
Job(op, q, s) == [op |-> op, query |-> q, slot |-> s, why |-> "Failed"]
Jobs == [op : QueryOps, query : Queries, slot : Slots, why : Reasons]
        \cup [op : SessionOps \cup {"none"}, query : Handles, slot : Slots, why : Reasons]
Command == [op : QueryOps, query : Queries] \cup [op : SessionOps, query : {NoQuery}]
Cmd(op, q) == [op |-> op, query |-> q]

Stages == {"connecting", "select", "execute", "reserve", "start", "work", "settle",
           "schema", "scan", "build", "inspect", "probe", "exit", "refuse", "drain",
           "final", "stopped"}

TypeOK ==
    /\ open \in BOOLEAN /\ halted \in BOOLEAN /\ stop \in BOOLEAN
    /\ registered \subseteq Queries /\ issued \subseteq Queries
    /\ permit \in Handles /\ sent \in Nat
    /\ shown \in [Queries -> {"idle", "finished", "failed"}]
    /\ cancelled \subseteq Queries /\ released \subseteq Queries
    /\ viewCancelled \subseteq Queries
    /\ commands \in Seq(Command) /\ accepting \in BOOLEAN /\ events \in Seq(Event)
    /\ stage \in Stages /\ job \in Jobs /\ out \in Seq(Step)
    /\ active \in [Slots -> Cursor]
    /\ stored \in [Queries -> {"none", "empty", "pages"}] /\ views \subseteq Queries
    /\ history \in [Queries -> Statuses \cup {"none", "pending", "rejected"}]
    /\ dropped \subseteq Queries /\ abandoned \in BOOLEAN
    /\ stage \in {"scan", "build"} => job.op = "View"

\* Engine::connect has inserted the handle and spawned the actor.
Init ==
    /\ open = TRUE /\ halted = FALSE /\ stop = FALSE
    /\ registered = {} /\ issued = {} /\ permit = NoQuery /\ sent = 0
    /\ shown = [q \in Queries |-> "idle"]
    /\ cancelled = {} /\ released = {} /\ viewCancelled = {}
    /\ commands = <<>> /\ accepting = TRUE /\ events = <<>>
    /\ stage = "connecting" /\ job = NoJob /\ out = <<>>
    /\ active = [s \in Slots |-> NoCursor]
    /\ stored = [q \in Queries |-> "none"] /\ views = {}
    /\ history = [q \in Queries |-> "none"] /\ dropped = {} /\ abandoned = FALSE

-----------------------------------------------------------------------------
(* The caller's thread.  While execute holds a reserved command slot the   *)
(* thread is inside that call and does nothing else.                       *)

CallerFree == permit = NoQuery
HasRoom == Len(commands) < CommandCap
CanSubmit == ~halted /\ open /\ accepting /\ HasRoom

\* execute_source up to the moment it sends the command: both channels are
\* reserved before anything is registered, and the ticket exists from here on.
Reserve(q) ==
    /\ CallerFree /\ q \notin issued
    /\ CanSubmit /\ Cardinality(registered) < MaxQueries /\ Len(events) < EventCap
    /\ permit' = q /\ issued' = issued \cup {q} /\ registered' = registered \cup {q}
    /\ events' = Append(events, State(q, "Queued"))
    /\ history' = IF q \in Objects THEN history ELSE [history EXCEPT ![q] = "pending"]
    /\ UNCHANGED <<open, halted, shown, sent, signals, commands, accepting, actor,
                   dropped, abandoned>>

\* The reserved slot outlives the close of the receiver (see Discard).
Execute ==
    /\ permit # NoQuery
    /\ permit' = NoQuery /\ commands' = Append(commands, Cmd("Execute", permit))
    /\ UNCHANGED <<open, halted, registered, issued, shown, sent, signals, accepting,
                   events, actor, ledger>>

\* fetch_page(_at), clear_result_view, load_value(_chunk).
Request(op, q) ==
    /\ CallerFree /\ op \in Ops \cap {"Fetch", "ClearView", "LoadValue", "LoadChunk"}
    /\ q \in registered /\ CanSubmit /\ sent < MaxCommands
    /\ sent' = sent + 1 /\ commands' = Append(commands, Cmd(op, q))
    /\ UNCHANGED <<open, halted, registered, issued, permit, shown, signals, accepting,
                   events, actor, ledger>>

\* next_result_set: the workspace asks for it only on a result it saw finish
\* (desktop/app/query_workspace.cpp), and then waits for the next outcome.
NextResult(q) ==
    /\ CallerFree /\ "NextResult" \in Ops
    /\ q \in registered /\ shown[q] = "finished" /\ CanSubmit /\ sent < MaxCommands
    /\ sent' = sent + 1 /\ commands' = Append(commands, Cmd("NextResult", q))
    /\ shown' = [shown EXCEPT ![q] = "idle"]
    /\ UNCHANGED <<open, halted, registered, issued, permit, signals, accepting, events,
                   actor, ledger>>

\* apply_result_view clears the query's view signal before it submits, also
\* when the submission then fails.
ApplyView(q) ==
    /\ CallerFree /\ "View" \in Ops /\ q \in registered /\ sent < MaxCommands
    /\ viewCancelled' = viewCancelled \ {q}
    /\ sent' = sent + 1
    /\ commands' = IF CanSubmit THEN Append(commands, Cmd("View", q)) ELSE commands
    /\ UNCHANGED <<open, halted, registered, issued, permit, shown, stop, cancelled,
                   released, accepting, events, actor, ledger>>

CancelView(q) ==
    /\ CallerFree /\ "View" \in Ops /\ q \in registered \ viewCancelled
    /\ viewCancelled' = viewCancelled \cup {q}
    /\ UNCHANGED <<caller, stop, cancelled, released, commands, accepting, events, actor,
                   ledger>>

\* refresh_sql_mode; and every request answered from the session without a
\* cursor: edits, DDL, object graphs, catalog reads, edit targets.
Ask(op) ==
    /\ CallerFree /\ op \in Ops \cap {"SqlMode", "Inspect"}
    /\ CanSubmit /\ sent < MaxCommands
    /\ sent' = sent + 1 /\ commands' = Append(commands, Cmd(op, NoQuery))
    /\ UNCHANGED <<open, halted, registered, issued, permit, shown, signals, accepting,
                   events, actor, ledger>>

Cancel(q) ==
    /\ CallerFree /\ ~halted /\ q \in registered \ cancelled
    /\ cancelled' = cancelled \cup {q}
    /\ UNCHANGED <<caller, stop, released, viewCancelled, commands, accepting, events,
                   actor, ledger>>

\* release_query signals first; a full queue leaves the handle registered.
Release(q) ==
    /\ CallerFree /\ "Release" \in Ops /\ q \in registered
    /\ cancelled' = cancelled \cup {q} /\ released' = released \cup {q}
    /\ viewCancelled' = viewCancelled \cup {q}
    /\ IF CanSubmit
       THEN /\ commands' = Append(commands, Cmd("Release", q))
            /\ registered' = registered \ {q}
       ELSE UNCHANGED <<commands, registered>>
    /\ UNCHANGED <<open, halted, issued, permit, shown, sent, stop, accepting, events,
                   actor, ledger>>

Disconnect ==
    /\ CallerFree /\ "Disconnect" \in Ops /\ ~halted /\ open
    /\ stop' = TRUE /\ open' = FALSE
    /\ UNCHANGED <<halted, registered, issued, permit, shown, sent, cancelled, released,
                   viewCancelled, commands, accepting, events, actor, ledger>>

\* initiate_shutdown, and the task that hands it to the connection.
Shutdown ==
    /\ CallerFree /\ "Shutdown" \in Ops /\ ~halted /\ halted' = TRUE
    /\ UNCHANGED <<open, registered, issued, permit, shown, sent, signals, commands,
                   accepting, events, actor, ledger>>

ForwardShutdown ==
    /\ halted /\ ~stop /\ stop' = TRUE
    /\ UNCHANGED <<caller, cancelled, released, viewCancelled, commands, accepting, events,
                   actor, ledger>>

\* try_event: the connection's last event frees its handle and all its queries.
ReadEvent ==
    /\ CallerFree /\ events # <<>>
    /\ events' = Tail(events)
    /\ LET e == Head(events)
           last == e.type \in {"Disconnected", "ConnectionFailed"}
       IN /\ open' = (open /\ ~last)
          /\ registered' = IF last THEN {} ELSE registered
          /\ shown' = IF e.type \in {"QueryFinished", "QueryFailed"}
                      THEN [shown EXCEPT ![e.query] =
                              IF e.type = "QueryFinished" THEN "finished" ELSE "failed"]
                      ELSE shown
    /\ UNCHANGED <<halted, issued, permit, sent, signals, commands, accepting, actor, ledger>>

CallerStep ==
    \/ Execute \/ Disconnect \/ Shutdown \/ ReadEvent
    \/ \E q \in Queries :
         \/ Reserve(q) \/ NextResult(q) \/ ApplyView(q) \/ CancelView(q)
         \/ Cancel(q) \/ Release(q)
         \/ \E op \in {"Fetch", "ClearView", "LoadValue", "LoadChunk"} : Request(op, q)
    \/ \E op \in {"SqlMode", "Inspect"} : Ask(op)

-----------------------------------------------------------------------------
(* The actor's awaits of `out'.                                            *)

\* send(): blocks while the channel is full, unless the connection is being
\* stopped: then an event that finds no room is lost.
SendEvent ==
    /\ out # <<>> /\ Head(out).type \in EventTypes
    /\ \/ Len(events) < EventCap /\ events' = Append(events, Head(out))
       \/ Len(events) >= EventCap /\ stop /\ UNCHANGED events
    /\ out' = Tail(out)
    /\ UNCHANGED <<caller, signals, commands, accepting, stage, job, active, stored, views,
                   ledger>>

\* Ticket::finish writes once; a busy history worker is reported first of all.
RecordHistory(saved) ==
    /\ out # <<>> /\ Head(out).type = "record"
    /\ LET q == Head(out).query
       IN IF q \in Queries /\ history[q] = "pending"
          THEN /\ history' = [history EXCEPT ![q] = IF saved THEN Head(out).detail ELSE "rejected"]
               /\ out' = (IF saved THEN <<>> ELSE <<Ev("HistoryWriteFailed", q)>>) \o Tail(out)
          ELSE saved /\ out' = Tail(out) /\ UNCHANGED history
    /\ UNCHANGED <<caller, signals, commands, accepting, events, stage, job, active, stored,
                   views, dropped, abandoned>>

\* Drop for Ticket: a ticket nobody finished records a disconnect.
DropTicket(q, saved) ==
    IF history[q] = "pending"
    THEN /\ history' = [history EXCEPT ![q] = IF saved THEN "Disconnected" ELSE "rejected"]
         /\ dropped' = dropped \cup {q}
         /\ events' = IF ~saved /\ Len(events) < EventCap
                      THEN Append(events, Ev("HistoryWriteFailed", q)) ELSE events
    ELSE saved /\ UNCHANGED <<history, dropped, events>>

FreeTicket(saved) ==
    /\ out # <<>> /\ Head(out).type = "drop"
    /\ DropTicket(Head(out).query, saved)
    /\ out' = Tail(out)
    /\ UNCHANGED <<caller, signals, commands, accepting, stage, job, active, stored, views,
                   abandoned>>

\* transaction_state() under metadata_operation: an answer, or an error that is ignored; it
\* watches the stop, and no query's signal.
Inquired(known) ==
    /\ out # <<>> /\ Head(out).type = "inquire" /\ ~stop
    /\ out' = (IF known THEN <<Ev("TransactionState", NoQuery)>> ELSE <<>>) \o Tail(out)
    /\ UNCHANGED <<caller, signals, commands, accepting, events, stage, job, active, stored, views,
                   ledger>>

DropInquiry ==
    /\ out # <<>> /\ Head(out).type = "inquire" /\ stop
    /\ out' = Tail(out)
    /\ UNCHANGED <<caller, signals, commands, accepting, events, stage, job, active, stored, views,
                   ledger>>

-----------------------------------------------------------------------------
(* Connecting and the select loop.                                         *)

Ready(s) == out = <<>> /\ stage = s
\* The command is done with once the loop turns or ends.
Become(s, steps) ==
    /\ stage' = s /\ out' = steps
    /\ job' = IF s \in {"select", "exit"} THEN NoJob ELSE job
Begin(j, s, steps) == stage' = s /\ out' = steps /\ job' = j
Outside == UNCHANGED <<caller, signals, events, history, dropped>>

ConnectOk ==
    /\ Ready("connecting") /\ ~stop
    /\ \E mode \in {<<>>, <<Ev("SqlMode", NoQuery)>>} :
          Become("select", <<Ev("Connected", NoQuery)>> \o mode)
    /\ Outside /\ UNCHANGED <<commands, accepting, active, stored, views, abandoned>>

\* Refused, timed out, or its initial session state could not be read; or
\* stopped meanwhile.  The commands already queued only record their history.
ConnectEnds ==
    /\ Ready("connecting")
    /\ Begin([NoJob EXCEPT !.why = IF stop THEN "Disconnected" ELSE "Failed"], "refuse", <<>>)
    /\ accepting' = FALSE
    /\ Outside /\ UNCHANGED <<commands, active, stored, views, abandoned>>

ObserveStop ==
    /\ Ready("select") /\ stop
    /\ Become("exit", <<>>)
    /\ Outside /\ UNCHANGED <<commands, accepting, active, stored, views, abandoned>>

CursorCancelled(s) == Live(s) /\ active[s].query \in cancelled

\* idle_cancel and idle_timeout: the cursor is stopped natively within the
\* grace period; a driver that does not confirm costs the connection.
IdleStop(why, settled) ==
    /\ Ready("select") /\ ~stop /\ Live("sql")
    /\ \/ why = "Cancelled" /\ CursorCancelled("sql")
       \/ why = "Timeout" /\ ~CursorCancelled("sql") /\ active["sql"].timed
    /\ LET q == active["sql"].query
       IN Become(IF settled THEN "select" ELSE "exit",
                 <<State(q, "Cancelling"), Fail(q, why)>> \o Failure(q, why))
    /\ active' = [active EXCEPT !["sql"] = NoCursor]
    /\ Outside /\ UNCHANGED <<commands, accepting, stored, views, abandoned>>

\* object_cancelled and object_timed_out: the reader has its own cancel handle,
\* so its failure to confirm does not concern the session.
ObjectStop(why) ==
    /\ Ready("select") /\ ~stop /\ ~CursorCancelled("sql") /\ Live("object")
    /\ \/ why = "Cancelled" /\ CursorCancelled("object")
       \/ why = "Timeout" /\ ~CursorCancelled("object") /\ active["object"].timed
    /\ LET q == active["object"].query
       IN Become("select", (IF why = "Cancelled" THEN <<State(q, "Cancelling")>> ELSE <<>>)
                           \o Failure(q, why))
    /\ active' = [active EXCEPT !["object"] = NoCursor]
    /\ Outside /\ UNCHANGED <<commands, accepting, stored, views, abandoned>>

Receive(op) ==
    /\ Ready("select") /\ ~stop /\ \A s \in Slots : ~CursorCancelled(s)
    /\ commands # <<>> /\ Head(commands).op = op
    /\ commands' = Tail(commands)
    /\ Outside /\ UNCHANGED <<accepting, abandoned>>
Received == Head(commands).query

-----------------------------------------------------------------------------
(* Operations under perform: each reads the cursor or runs the statement   *)
(* of `job'.                                                               *)

ObjectRead == job.op = "Execute" /\ job.slot = "object"
JobCursor == active[job.slot]
JobReleased == job.query \in released /\ ~ObjectRead
\* metadata_operation opens an object: neither cancel nor timeout reaches it.
JobCancelled == job.query \in cancelled /\ ~ObjectRead
JobTimed ==
    CASE job.op = "Execute" -> job.query \in Timed /\ ~ObjectRead
      [] job.op = "SqlMode" -> FALSE
      [] OTHER -> JobCursor.timed

\* What each command does with an operation that failed, was interrupted or
\* never began.  `bad': the driver call did not settle within the grace period.
Abort(why, bad) ==
    LET q == job.query
        next == IF bad THEN "exit" ELSE "probe"
        reports == Failure(q, why)
    IN CASE job.op = "Execute" ->
                /\ Become(next, <<Fail(q, why)>>
                                \o (IF bad \/ why = "Disconnected" THEN <<>> ELSE <<Inquire>>)
                                \o reports)
                /\ UNCHANGED active
         [] job.op = "Fetch" ->
                /\ Become(next, <<Fail(q, why)>> \o reports)
                /\ active' = [active EXCEPT ![job.slot] = NoCursor]
         [] job.op = "SqlMode" ->
                /\ Become(IF bad THEN "exit" ELSE "select",
                          <<Fail(q, why)>> \o reports \o <<Ev("OperationFailed", NoQuery)>>)
                /\ active' = [active EXCEPT ![job.slot] = NoCursor]
         [] job.op = "View" -> Become("select", <<Ev("ViewFailed", q)>>) /\ UNCHANGED active
         [] OTHER -> Become(next, reports) /\ UNCHANGED active

\* perform polls nothing of an operation stopped before it began.
Start ==
    /\ Ready("start") /\ MayProceed(JobCancelled)
    /\ Become("work", <<>>)
    /\ Outside /\ UNCHANGED <<commands, accepting, active, stored, views, abandoned>>

Preflight(why) ==
    /\ Ready("start") /\ why \in Interruptions(JobCancelled, JobTimed)
    /\ Abort(why, FALSE)
    /\ Outside /\ UNCHANGED <<commands, accepting, stored, views, abandoned>>

\* The driver answers with an error of its own.
WorkFails(why) ==
    /\ Ready("work") /\ MayProceed(JobCancelled)
    /\ Abort(why, FALSE)
    /\ Outside /\ UNCHANGED <<commands, accepting, stored, views, abandoned>>

\* Cancellation, deadline or stop wins: the native cancel and the call itself
\* are awaited together while Cancelling is announced.
Interrupt(why) ==
    /\ Ready("work") /\ ~ObjectRead /\ why \in Interruptions(JobCancelled, JobTimed)
    /\ Begin([job EXCEPT !.why = why], "settle", <<State(job.query, "Cancelling")>>)
    /\ Outside /\ UNCHANGED <<commands, accepting, active, stored, views, abandoned>>

DropObjectRead ==
    /\ Ready("work") /\ ObjectRead /\ stop
    /\ Abort("Disconnected", FALSE)
    /\ Outside /\ UNCHANGED <<commands, accepting, stored, views, abandoned>>

SettleUnpoisoned(settled) ==
    /\ Ready("settle")
    /\ Abort(job.why, FALSE)
    /\ abandoned' = (abandoned \/ ~settled)
    /\ Outside /\ UNCHANGED <<commands, accepting, stored, views>>

Settle(settled) ==
    /\ Ready("settle")
    /\ Abort(job.why, ~settled)
    /\ abandoned' = (abandoned \/ ~settled)
    /\ Outside /\ UNCHANGED <<commands, accepting, stored, views>>

-----------------------------------------------------------------------------
(* Execute.                                                                *)

BeginExecute ==
    /\ Receive("Execute")
    /\ LET q == Received
           s == IF q \in Objects THEN "object" ELSE "sql"
       IN /\ \E steps \in CloseSteps(active[s]) : Begin(Job("Execute", q, s), "execute", steps)
          /\ active' = [active EXCEPT ![s] = NoCursor]
    /\ UNCHANGED <<stored, views>>

UnstartedUnrecorded(why) == Become("select", Failure(job.query, why))
Unstarted(why) == Become("select", <<Fail(job.query, why)>> \o Failure(job.query, why))

CheckExecute ==
    /\ Ready("execute")
    /\ IF job.query \in cancelled THEN Unstarted("Cancelled") ELSE Become("reserve", <<>>)
    /\ Outside /\ UNCHANGED <<commands, accepting, active, stored, views, abandoned>>

GrantExecute ==
    /\ Ready("reserve") /\ job.op = "Execute" /\ MayProceed(job.query \in cancelled)
    /\ Become("start", <<State(job.query, "Running")>>)
    /\ Outside /\ UNCHANGED <<commands, accepting, active, stored, views, abandoned>>

\* Memory for the source, later for its schema, waits for the same signals.
RefuseExecute(why) ==
    /\ \E s \in {"reserve", "schema"} : Ready(s)
    /\ job.op = "Execute"
    /\ why \in Interruptions(job.query \in cancelled, job.query \in Timed)
    /\ Unstarted(why)
    /\ Outside /\ UNCHANGED <<commands, accepting, active, stored, views, abandoned>>

\* The statement ran; its result store opens, or cannot.
Executed(stores) ==
    /\ Ready("work") /\ job.op = "Execute" /\ MayProceed(JobCancelled)
    /\ IF stores THEN /\ Become("schema", <<>>)
                      /\ stored' = [stored EXCEPT ![job.query] = "empty"]
       ELSE Unstarted("Failed") /\ UNCHANGED stored
    /\ Outside /\ UNCHANGED <<commands, accepting, active, views, abandoned>>

OpenCursor(pages) ==
    /\ Ready("schema") /\ job.op = "Execute" /\ MayProceed(job.query \in cancelled)
    /\ active' = [active EXCEPT ![job.slot] =
            [query |-> job.query, completed |-> FALSE, left |-> pages,
             timed |-> job.query \in Timed]]
    /\ Become("probe", <<Ev("Schema", job.query)>>)
    /\ Outside /\ UNCHANGED <<commands, accepting, stored, views, abandoned>>

\* The end of the loop body: after a statement whose result is complete the driver is asked for
\* the session state under metadata_operation, and a failure of that is reported.
Inquires ==
    job.op \in {"NextResult", "Fetch", "Release", "Execute"} /\ ~ObjectRead /\ ~Live("sql")

Probe(fails) ==
    /\ Ready("probe") /\ Inquires /\ ~stop
    /\ Become("select", IF fails THEN <<Ev("OperationFailed", NoQuery)>> ELSE <<>>)
    /\ Outside /\ UNCHANGED <<commands, accepting, active, stored, views, abandoned>>

\* Nothing is asked, or the stop comes first.
SkipProbe ==
    /\ Ready("probe") /\ (Inquires => stop)
    /\ Become("select", <<>>)
    /\ Outside /\ UNCHANGED <<commands, accepting, active, stored, views, abandoned>>

-----------------------------------------------------------------------------
(* Fetch.                                                                  *)

JobLive == OwnsCursor(job.query, job.slot) /\ Live(job.slot)
\* An archived page outlives the cancellation of its query, not its release.
FetchCancelled == job.query \in (IF JobLive THEN cancelled ELSE released)
JobFailure == <<QueryFailed(job.query, "Failed")>>

BeginFetch(counted) ==
    /\ Receive("Fetch")
    /\ LET q == Received
       IN IF stored[q] = "none"
          THEN counted /\ Become("select", Failure(q, "Failed"))
          ELSE IF counted THEN Begin(Job("Fetch", q, SlotOf(q)), "reserve", <<>>)
               ELSE Become("select", <<QueryFailed(q, "Failed")>>)
    /\ UNCHANGED <<active, stored, views>>

\* A page index below the count of stored pages reads the store or the view, one
\* above it is refused; the caller may ask for any index.
GrantSavedPage(found) ==
    /\ Ready("reserve") /\ job.op = "Fetch" /\ MayProceed(FetchCancelled)
    /\ found => stored[job.query] = "pages" \/ job.query \in views
    /\ Become("select", IF found THEN <<Ev("Page", job.query)>> ELSE JobFailure)
    /\ Outside /\ UNCHANGED <<commands, accepting, active, stored, views, abandoned>>

\* The next page, or the index that equals the count, continues the cursor.
GrantNextPage ==
    /\ Ready("reserve") /\ job.op = "Fetch" /\ MayProceed(FetchCancelled)
    /\ CASE JobLive -> Become("start", <<>>)
         [] ~OwnsCursor(job.query, job.slot) -> Become("select", Failure(job.query, "Failed"))
         [] OTHER -> Become("select", JobFailure)
    /\ Outside /\ UNCHANGED <<commands, accepting, active, stored, views, abandoned>>

\* An interrupted wait for page memory closes the live cursor, whose ticket is
\* then freed with it.
RefuseFetch(why, settled) ==
    /\ Ready("reserve") /\ job.op = "Fetch"
    /\ why \in Interruptions(FetchCancelled, JobLive /\ JobCursor.timed)
    /\ IF JobLive
       THEN /\ Become(IF settled THEN "select" ELSE "exit",
                      Failure(job.query, why) \o <<Drop(job.query)>>)
            /\ active' = [active EXCEPT ![job.slot] = NoCursor]
       ELSE /\ settled /\ UNCHANGED active
            /\ Become("select", <<QueryFailed(job.query, why)>>)
    /\ Outside /\ UNCHANGED <<commands, accepting, stored, views, abandoned>>

\* One page read from the cursor and stored: the common part of Fetch and View.
PageStored ==
    /\ Ready("work") /\ MayProceed(JobCancelled)
    /\ stored' = [stored EXCEPT ![job.query] = "pages"]
PagesLeft == IF JobCursor.left = 0 THEN 0 ELSE JobCursor.left - 1

CompleteUnrecorded(q) == Finished(q) \o <<Record(q, "Completed")>>
\* complete_result, after the last page.
Complete(q) == <<Record(q, "Completed")>> \o Finished(q)

Fetched ==
    /\ job.op = "Fetch" /\ PageStored
    /\ active' = [active EXCEPT ![job.slot].left = PagesLeft,
                                ![job.slot].completed = PagesLeft = 0]
    /\ Become("probe", <<Ev("Page", job.query)>>
                       \o (IF PagesLeft = 0 THEN Complete(job.query) ELSE <<>>))
    /\ Outside /\ UNCHANGED <<commands, accepting, views, abandoned>>

-----------------------------------------------------------------------------
(* NextResult.                                                             *)

BeginNextResult ==
    /\ Receive("NextResult")
    /\ LET q == Received
       IN IF OwnsCursor(q, "sql")
          THEN /\ Begin(Job("NextResult", q, "sql"), "start", <<>>)
               /\ active' = [active EXCEPT !["sql"].timed = @ /\ Live("sql")]
          ELSE Become("select", Failure(q, "Failed")) /\ UNCHANGED active
    /\ UNCHANGED <<stored, views>>

NextResultFound(more) ==
    /\ Ready("work") /\ job.op = "NextResult" /\ MayProceed(JobCancelled)
    /\ IF more THEN Become("schema", <<>>)
       ELSE Become("probe", <<Ev("QueryFinished", job.query)>>)
    /\ Outside /\ UNCHANGED <<commands, accepting, active, stored, views, abandoned>>

OpenNextResultUnderView(pages) ==
    /\ Ready("schema") /\ job.op = "NextResult" /\ MayProceed(JobCancelled)
    /\ stored' = [stored EXCEPT ![job.query] = "empty"] /\ UNCHANGED views
    /\ active' = [active EXCEPT !["sql"].completed = FALSE, !["sql"].left = pages]
    /\ Become("probe", <<State(job.query, "Running"), Ev("Schema", job.query)>>)
    /\ Outside /\ UNCHANGED <<commands, accepting, abandoned>>

\* The new result replaces the store and the view; the cursor is live again,
\* but its ticket was recorded with the first result.
OpenNextResult(pages) ==
    /\ Ready("schema") /\ job.op = "NextResult" /\ MayProceed(JobCancelled)
    /\ stored' = [stored EXCEPT ![job.query] = "empty"] /\ views' = views \ {job.query}
    /\ active' = [active EXCEPT !["sql"].completed = FALSE, !["sql"].left = pages]
    /\ Become("probe", <<State(job.query, "Running"), Ev("Schema", job.query)>>)
    /\ Outside /\ UNCHANGED <<commands, accepting, abandoned>>

\* Its memory wait was interrupted, or its schema or store failed: the error is
\* reported and the cursor stays.
RefuseNextResult(why) ==
    /\ Ready("schema") /\ job.op = "NextResult"
    /\ IF why = "Failed" THEN MayProceed(JobCancelled)
       ELSE why \in Interruptions(JobCancelled, JobTimed)
    /\ Become("probe", Failure(job.query, why))
    /\ Outside /\ UNCHANGED <<commands, accepting, active, stored, views, abandoned>>

-----------------------------------------------------------------------------
(* Result views.                                                           *)

ViewFails(q) == Become("select", <<Ev("ViewFailed", q)>>)

\* A live cursor is drained into the store before the view is built.
BeginView ==
    /\ Receive("View")
    /\ LET q == Received
           s == SlotOf(q)
           drain == OwnsCursor(q, s) /\ Live(s)
       IN IF stored[q] = "none" \/ (drain /\ q \in viewCancelled) THEN ViewFails(q)
          ELSE Begin(Job("View", q, s), IF drain THEN "start" ELSE "build", <<>>)
    /\ UNCHANGED <<active, stored, views>>

ViewPage ==
    /\ job.op = "View" /\ PageStored
    /\ active' = [active EXCEPT ![job.slot].left = PagesLeft]
    /\ Become("scan", <<Ev("ViewProgress", job.query)>>)
    /\ Outside /\ UNCHANGED <<commands, accepting, views, abandoned>>

Scan ==
    /\ Ready("scan")
    /\ IF job.query \in viewCancelled THEN ViewFails(job.query) /\ UNCHANGED active
       ELSE IF JobCursor.left = 0
       THEN /\ active' = [active EXCEPT ![job.slot].completed = TRUE]
            /\ Become("build", Complete(job.query))
       ELSE Become("start", <<>>) /\ UNCHANGED active
    /\ Outside /\ UNCHANGED <<commands, accepting, stored, views, abandoned>>

\* The pass over the stored pages; one page stands for all of them.
Build(built) ==
    /\ Ready("build")
    /\ built => job.query \notin viewCancelled
    /\ IF built THEN /\ views' = views \cup {job.query}
                     /\ Become("select", <<Ev("ViewProgress", job.query),
                                           Ev("ViewApplied", job.query)>>)
       ELSE ViewFails(job.query) /\ UNCHANGED views
    /\ Outside /\ UNCHANGED <<commands, accepting, active, stored, abandoned>>

ClearView ==
    /\ Receive("ClearView")
    /\ views' = views \ {Received}
    /\ Become("select", <<Ev(IF stored[Received] = "none" THEN "ViewFailed" ELSE "ViewApplied",
                             Received)>>)
    /\ UNCHANGED <<active, stored>>

-----------------------------------------------------------------------------
(* The remaining commands.                                                 *)

ReleaseQuery ==
    /\ Receive("Release")
    /\ LET q == Received
           s == SlotOf(q)
       IN /\ stored' = [stored EXCEPT ![q] = "none"] /\ views' = views \ {q}
          /\ IF OwnsCursor(q, s)
             THEN /\ \E steps \in CloseSteps(active[s]) :
                        Begin(Job("Release", q, s), "probe", steps)
                  /\ active' = [active EXCEPT ![s] = NoCursor]
             ELSE Begin(Job("Release", q, s), "probe", <<>>) /\ UNCHANGED active

\* With a cursor in the session the mode is read under that query's signals.
BeginSqlMode ==
    /\ Receive("SqlMode")
    /\ LET q == active["sql"].query
       IN Begin(Job("SqlMode", q, "sql"), IF q = NoQuery THEN "inspect" ELSE "start", <<>>)
    /\ UNCHANGED <<active, stored, views>>

SqlModeRead ==
    /\ Ready("work") /\ job.op = "SqlMode" /\ MayProceed(JobCancelled)
    /\ Become("select", <<Ev("SqlMode", NoQuery)>>)
    /\ Outside /\ UNCHANGED <<commands, accepting, active, stored, views, abandoned>>

BeginInspect ==
    /\ Receive("Inspect")
    /\ Begin(Job("Inspect", NoQuery, "sql"), "inspect", <<>>)
    /\ UNCHANGED <<active, stored, views>>

\* metadata_operation: the driver's answer or its error, unless the stop comes first.
Inspected(answer) ==
    /\ Ready("inspect") /\ ~stop
    /\ Become("select", <<Ev(CASE job.op = "Inspect" -> "Reply"
                              [] answer -> "SqlMode"
                              [] OTHER -> "OperationFailed", NoQuery)>>)
    /\ Outside /\ UNCHANGED <<commands, accepting, active, stored, views, abandoned>>

DropInspect ==
    /\ Ready("inspect") /\ stop
    /\ Become("select", <<Ev(IF job.op = "Inspect" THEN "Reply" ELSE "OperationFailed",
                             NoQuery)>>)
    /\ Outside /\ UNCHANGED <<commands, accepting, active, stored, views, abandoned>>

LoadValue(loaded) ==
    /\ Receive("LoadValue")
    /\ loaded => \E s \in Slots : OwnsCursor(Received, s)
    /\ Become("select", IF loaded THEN <<Ev("Reply", Received)>>
                        ELSE <<QueryFailed(Received, "Failed")>>)
    /\ UNCHANGED <<active, stored, views>>

\* A chunk is read without the cursor, once it has memory; no reader or a bad
\* size is answered at once.
BeginLoadChunk(waits) ==
    /\ Receive("LoadChunk")
    /\ IF waits THEN Begin(Job("LoadChunk", Received, "sql"), "reserve", <<>>)
       ELSE Become("select", <<Ev("Reply", Received)>>)
    /\ UNCHANGED <<active, stored, views>>

LoadChunk ==
    /\ Ready("reserve") /\ job.op = "LoadChunk" /\ MayProceed(job.query \in released)
    /\ Become("select", <<Ev("Reply", job.query)>>)
    /\ Outside /\ UNCHANGED <<commands, accepting, active, stored, views, abandoned>>

RefuseChunk ==
    /\ Ready("reserve") /\ job.op = "LoadChunk" /\ Interruptions(job.query \in released, FALSE) # {}
    /\ Become("select", <<Ev("Reply", job.query)>>)
    /\ Outside /\ UNCHANGED <<commands, accepting, active, stored, views, abandoned>>

-----------------------------------------------------------------------------
(* The end of the actor.                                                   *)

\* The session is closed before any cursor could be finalised; what was open is
\* reported disconnected, complete or not.
Exit ==
    /\ Ready("exit")
    /\ accepting' = FALSE
    /\ active' = [s \in Slots |-> NoCursor]
    /\ LET sql == active["sql"].query
           object == active["object"].query
       IN Begin([NoJob EXCEPT !.why = "Disconnected"], "drain",
                 (IF sql = NoQuery THEN <<>>
                  ELSE <<Fail(sql, "Disconnected")>> \o Failure(sql, "Disconnected"))
                 \o (IF object = NoQuery THEN <<>> ELSE Failure(object, "Disconnected")))
    /\ Outside /\ UNCHANGED <<commands, stored, views, abandoned>>

\* Queued statements are recorded, and reported if the session was ever open.
DrainCommand ==
    /\ out = <<>> /\ stage \in {"refuse", "drain"} /\ commands # <<>>
    /\ commands' = Tail(commands)
    /\ LET q == Received
       IN Become(stage, IF Head(commands).op # "Execute" THEN <<>>
                        ELSE <<Fail(q, "Disconnected")>>
                             \o (IF stage = "refuse" THEN <<>> ELSE Failure(q, "Disconnected")))
    /\ Outside /\ UNCHANGED <<accepting, active, stored, views, abandoned>>

Drained ==
    /\ out = <<>> /\ stage \in {"refuse", "drain"} /\ commands = <<>>
    /\ Become("final", <<Ev(IF job.why = "Disconnected" THEN "Disconnected"
                            ELSE "ConnectionFailed", NoQuery)>>)
    /\ Outside /\ UNCHANGED <<commands, accepting, active, stored, views, abandoned>>

Return ==
    /\ Ready("final")
    /\ Become("stopped", <<>>)
    /\ Outside /\ UNCHANGED <<commands, accepting, active, stored, views, abandoned>>

\* A command sent through a slot reserved before the close is freed unread.
Discard(saved) ==
    /\ stage = "stopped" /\ commands # <<>>
    /\ commands' = Tail(commands)
    /\ IF Head(commands).op = "Execute" THEN DropTicket(Received, saved)
       ELSE saved /\ UNCHANGED <<history, dropped, events>>
    /\ UNCHANGED <<caller, signals, accepting, actor, abandoned>>

-----------------------------------------------------------------------------
(* What the runtime drives without anybody's help, and what it waits for.  *)

ReceiveCommand ==
    \/ BeginExecute \/ BeginNextResult \/ BeginView \/ ClearView \/ ReleaseQuery
    \/ BeginSqlMode \/ BeginInspect
    \/ \E yes \in BOOLEAN : BeginFetch(yes) \/ LoadValue(yes) \/ BeginLoadChunk(yes)

Driven ==
    \/ SendEvent \/ ConnectOk \/ ConnectEnds \/ ObserveStop \/ ReceiveCommand
    \/ Start \/ DropObjectRead \/ DropInspect \/ DropInquiry \/ SkipProbe \/ RefuseChunk \/ CheckExecute
    \/ Scan \/ Exit \/ DrainCommand \/ Drained \/ Return
    \/ \E yes \in BOOLEAN :
         RecordHistory(yes) \/ FreeTicket(yes) \/ Settle(yes) \/ Build(yes) \/ Discard(yes)
    \/ \E why \in Reasons :
         \/ ObjectStop(why) \/ Preflight(why) \/ Interrupt(why) \/ RefuseExecute(why)
         \/ why # "Failed" /\ RefuseNextResult(why)
         \/ \E yes \in BOOLEAN : IdleStop(why, yes) \/ RefuseFetch(why, yes)

\* Page memory, the driver and the server answer when they can, or never.
Awaited ==
    \/ GrantExecute \/ GrantNextPage \/ Fetched \/ ViewPage \/ SqlModeRead \/ LoadChunk
    \/ \E yes \in BOOLEAN :
         \/ Executed(yes) \/ GrantSavedPage(yes) \/ NextResultFound(yes) \/ Inspected(yes)
         \/ Inquired(yes) \/ Probe(yes)
    \/ \E why \in {"Failed", "Disconnected"} : WorkFails(why)
    \/ RefuseNextResult("Failed")
    \/ \E pages \in 1..MaxPages : OpenCursor(pages) \/ OpenNextResult(pages)

Next == CallerStep \/ ForwardShutdown \/ Driven \/ Awaited

Spec == Init /\ [][Next]_vars

\* The runtime keeps polling the actor, and execute returns; the caller need
\* never read an event.
FairSpec == Spec /\ WF_vars(Driven) /\ WF_vars(ForwardShutdown) /\ WF_vars(Execute)
\* The caller also keeps draining events, as the desktop does on every tick.
ReadingSpec == FairSpec /\ WF_vars(ReadEvent)

-----------------------------------------------------------------------------
(* What the actor promises.                                                *)

InDatabase(q) == job.op = "Execute" /\ job.query = q /\ stage \in {"work", "settle"}
WaitingToRun(q) ==
    \/ permit = q \/ \E i \in 1..Len(commands) : commands[i] = Cmd("Execute", q)
    \/ job.op = "Execute" /\ job.query = q /\ stage \in {"execute", "reserve", "start"}
Streaming(q) == \E s \in Slots : OwnsCursor(q, s) /\ Live(s)

\* The ticket of a statement is never lost: until its outcome is recorded it is
\* held by the submission, the queue, the command being run, the SQL cursor, or
\* a record still to be written -- on every early return and exit of the loop.
TicketOwned ==
    \A q \in Queries : history[q] = "pending" =>
        \/ WaitingToRun(q) \/ InDatabase(q)
        \/ job.op = "Execute" /\ job.query = q /\ stage = "schema"
        \/ active["sql"].query = q
        \/ \E i \in 1..Len(out) : out[i].query = q /\ out[i].type \in {"record", "drop"}

\* When the caller can read that a statement finished, its history entry already
\* says Completed, or the failed write was already reported.
FinishedIsRecorded ==
    \A i \in 1..Len(events) : events[i].type = "QueryFinished" =>
        history[events[i].query] \in {"none", "Completed", "rejected"}

\* operation.rs: no later command starts before a stopped driver call and its
\* cancellation have both settled; a stuck adapter ends the connection.
SettledBeforeNextCall == stage = "work" => ~abandoned

\* A filtered or sorted view is shown only over a result that is no longer being
\* read from its cursor.
ViewOverSettledResult == \A q \in views : ~Streaming(q)

\* Once the release of a query has been handled nothing of it is left behind:
\* no store, no view, no cursor, whatever was in flight for it.
ReleasedIsFreed ==
    \A q \in issued \ registered :
        (open /\ stage = "select" /\ \A i \in 1..Len(commands) : commands[i].query # q) =>
            /\ stored[q] = "none" /\ q \notin views
            /\ \A s \in Slots : active[s].query # q

\* A statement cancelled before it reached the database never reaches it later (a
\* cancellation is never taken back), nor does one after the stop, although the
\* actor may be held up between any two of its checks.
CancelledNeverRuns ==
    [][\A q \in Queries \ Objects :
        ~InDatabase(q) /\ InDatabase(q)' => q \notin cancelled /\ ~stop]_vars

\* Ticket's Drop is a fallback for an aborted task; a running actor finishes its
\* tickets itself.
DropOnlyAfterReturn == dropped # {} => stage = "stopped"

\* A disconnect or a shutdown ends the actor even if nobody reads its events any
\* more: no send, wait or settlement may hold the session.
StopEnds == stop ~> stage = "stopped"

\* Cancelling a statement that runs or streams settles it for a caller that reads
\* its events, however full the command queue is and whatever the server does,
\* unless the actor is stuck for good on a request that does not watch this signal.
Unwatched ==
    \/ stage = "inspect" \/ (stage = "reserve" /\ job.op = "LoadChunk")
    \/ out # <<>> /\ Head(out).type = "inquire"
CancelSettles ==
    WF_vars(ReadEvent) =>
        \A q \in Queries \ Objects :
            (q \in cancelled /\ (InDatabase(q) \/ Streaming(q)))
                ~> (shown[q] # "idle" \/ q \notin registered \/ stop \/ []Unwatched)

\* Disconnecting gives every query of the connection back to the engine's budget.
DisconnectFreesQueries == ~open ~> registered = {}
=============================================================================
