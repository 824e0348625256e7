-------------------------- MODULE QueryActor_proofs --------------------------
(***************************************************************************)
(* Facts about the actor for every number of queries, pages, requests and  *)
(* channel capacities.                                                     *)
(***************************************************************************)
EXTENDS QueryActor, TLAPS

USE QueryAssumption, KindAssumption, OpsAssumption, BoundAssumption

-----------------------------------------------------------------------------
(* What the actor awaits is a step, whatever it reports and about whom.    *)

LEMMA EvStep == \A q \in Handles : \A t \in EventTypes : Ev(t, q) \in Event /\ Ev(t, q) \in Step
  BY DEF Ev, Event, Step, Details

LEMMA StateStep == \A q \in Handles : \A s \in QueryStates : State(q, s) \in Event /\ State(q, s) \in Step
  BY DEF State, Event, Step, Details, EventTypes

LEMMA FailedStep == \A q \in Handles : \A why \in Reasons : QueryFailed(q, why) \in Step
  BY DEF QueryFailed, Event, Step, Details, EventTypes

LEMMA RecordStep == \A q \in Handles : \A s \in Statuses : Record(q, s) \in Step
  BY DEF Record, Step

LEMMA FailStep == \A q \in Handles : \A why \in Reasons : Fail(q, why) \in Step
  BY RecordStep DEF Fail, Statuses, Reasons

LEMMA InquireStep == Inquire \in Step
  BY DEF Inquire, Step
LEMMA DropStep == \A q \in Queries : Drop(q) \in Step
  BY DEF Drop, Step

\* failure() and complete_result await sequences of steps.
LEMMA FailureSteps == \A q \in Handles : \A why \in Reasons : Failure(q, why) \in Seq(Step)
  <1> SUFFICES ASSUME NEW q \in Handles, NEW why \in Reasons PROVE Failure(q, why) \in Seq(Step)
    OBVIOUS
  <1>1. State(q, IF why = "Disconnected" THEN "Disconnected" ELSE "Failed") \in Step
    BY StateStep DEF QueryStates
  <1>2. QueryFailed(q, why) \in Step
    BY FailedStep
  <1> QED BY <1>1, <1>2 DEF Failure

LEMMA FinishedSteps == \A q \in Handles : Finished(q) \in Seq(Step)
  <1> SUFFICES ASSUME NEW q \in Handles PROVE Finished(q) \in Seq(Step)
    OBVIOUS
  <1>1. State(q, "Completed") \in Step /\ Ev("QueryFinished", q) \in Step
    BY StateStep, EvStep DEF QueryStates, EventTypes
  <1> QED BY <1>1 DEF Finished

LEMMA CompleteSteps == \A q \in Handles : Complete(q) \in Seq(Step)
  <1> SUFFICES ASSUME NEW q \in Handles PROVE Complete(q) \in Seq(Step)
    OBVIOUS
  <1>1. Record(q, "Completed") \in Step
    BY RecordStep DEF Statuses
  <1> QED BY <1>1, FinishedSteps DEF Complete

LEMMA CloseStepsType == \A c \in Cursor : \A s \in CloseSteps(c) : s \in Seq(Step)
  <1> SUFFICES ASSUME NEW c \in Cursor, NEW s \in CloseSteps(c) PROVE s \in Seq(Step)
    OBVIOUS
  <1> DEFINE q == c.query
  <1>1. q \in Handles
    BY DEF Cursor
  <1>2. /\ <<Record(q, "Completed")>> \o Finished(q) \in Seq(Step)
        /\ <<Fail(q, "Failed")>> \o Failure(q, "Failed") \in Seq(Step)
        /\ <<>> \in Seq(Step)
    <2>1. Record(q, "Completed") \in Step /\ Fail(q, "Failed") \in Step
      BY <1>1, RecordStep, FailStep DEF Statuses, Reasons
    <2>2. Failure(q, "Failed") \in Seq(Step) /\ Finished(q) \in Seq(Step)
      BY <1>1, FailureSteps, FinishedSteps DEF Reasons
    <2> QED BY <2>1, <2>2
  <1>3. \/ s = <<>>
        \/ s = <<Record(q, "Completed")>> \o Finished(q)
        \/ s = <<Fail(q, "Failed")>> \o Failure(q, "Failed")
    BY DEF CloseSteps
  <1> QED BY <1>2, <1>3

-----------------------------------------------------------------------------
(* The two ways the actor moves on keep its own state well typed.          *)

ActorOK ==
    /\ stage \in Stages /\ job \in Jobs /\ out \in Seq(Step)
    /\ stage \in {"scan", "build"} => job.op = "View"
DataOK ==
    /\ active \in [Slots -> Cursor]
    /\ stored \in [Queries -> {"none", "empty", "pages"}] /\ views \subseteq Queries
ChannelsOK ==
    /\ commands \in Seq(Command) /\ accepting \in BOOLEAN /\ events \in Seq(Event)
LedgerOK ==
    /\ history \in [Queries -> Statuses \cup {"none", "pending", "rejected"}]
    /\ dropped \subseteq Queries /\ abandoned \in BOOLEAN
CallerOK ==
    /\ open \in BOOLEAN /\ halted \in BOOLEAN /\ stop \in BOOLEAN
    /\ registered \subseteq Queries /\ issued \subseteq Queries
    /\ permit \in Handles /\ sent \in Nat
    /\ shown \in [Queries -> {"idle", "finished", "failed"}]
    /\ cancelled \subseteq Queries /\ released \subseteq Queries
    /\ viewCancelled \subseteq Queries

LEMMA TypeParts == TypeOK <=> CallerOK /\ ChannelsOK /\ ActorOK /\ DataOK /\ LedgerOK
  BY DEF TypeOK, CallerOK, ChannelsOK, ActorOK, DataOK, LedgerOK
LEMMA TypePartsNext ==
    ASSUME CallerOK', ChannelsOK', ActorOK', DataOK', LedgerOK' PROVE TypeOK'
  BY DEF TypeOK, CallerOK, ChannelsOK, ActorOK, DataOK, LedgerOK

LEMMA JobFields ==
    \A j \in Jobs : /\ j.query \in Handles /\ j.slot \in Slots /\ j.why \in Reasons
                    /\ j.op \in QueryOps => j.query \in Queries
  BY DEF Jobs, Handles, QueryOps, SessionOps

LEMMA NoJobType == NoJob \in Jobs /\ NoJob.op = "none"
  BY DEF NoJob, Jobs, Handles, Slots, Reasons

LEMMA BecomeType ==
    ASSUME job \in Jobs, NEW s \in Stages, NEW steps \in Seq(Step), Become(s, steps),
           s \in {"scan", "build"} => job.op = "View"
    PROVE  ActorOK'
  BY NoJobType DEF Become, ActorOK, Stages

LEMMA BeginType ==
    ASSUME NEW j \in Jobs, NEW s \in Stages, NEW steps \in Seq(Step), Begin(j, s, steps),
           s \in {"scan", "build"} => j.op = "View"
    PROVE  ActorOK'
  BY DEF Begin, ActorOK

\* What is received for a query names one; the session's commands name none.
LEMMA ReceivedType ==
    ASSUME commands \in Seq(Command), commands # <<>>
    PROVE  /\ Tail(commands) \in Seq(Command) /\ Head(commands) \in Command
           /\ Received \in Handles
           /\ Head(commands).op \in QueryOps => Received \in Queries
  <1>1. Tail(commands) \in Seq(Command) /\ Head(commands) \in Command
    OBVIOUS
  <1> QED BY <1>1 DEF Command, Received, Handles, QueryOps, SessionOps

LEMMA CursorType ==
    ASSUME active \in [Slots -> Cursor]
    PROVE  /\ \A s \in Slots : active[s] \in Cursor /\ active[s].query \in Handles
           /\ \A s \in Slots : [active EXCEPT ![s] = NoCursor] \in [Slots -> Cursor]
           /\ \A q : SlotOf(q) \in Slots
           /\ "sql" \in Slots /\ "object" \in Slots
  BY DEF Cursor, NoCursor, Handles, SlotOf, Slots

-----------------------------------------------------------------------------
(* The caller.                                                             *)

LEMMA InitType == Init => TypeOK
  <1> SUFFICES ASSUME Init PROVE TypeOK
    OBVIOUS
  <1>1. CallerOK
    BY DEF Init, CallerOK, Handles
  <1>2. ChannelsOK
    BY DEF Init, ChannelsOK
  <1>3. ActorOK
    BY NoJobType DEF Init, ActorOK, Stages
  <1>4. DataOK
    <2>1. NoCursor \in Cursor
      BY DEF NoCursor, Cursor, Handles
    <2> QED BY <2>1 DEF Init, DataOK
  <1>5. LedgerOK
    BY DEF Init, LedgerOK
  <1> QED BY <1>1, <1>2, <1>3, <1>4, <1>5, TypeParts

\* Any number of requests and signals: the actor's own state is not the caller's.
LEMMA CallerType == TypeOK /\ CallerStep => TypeOK'
  <1> SUFFICES ASSUME TypeOK, CallerStep PROVE TypeOK'
    OBVIOUS
  <1>a. CallerOK /\ ChannelsOK /\ ActorOK /\ DataOK /\ LedgerOK
    BY TypeParts
  <1>b. \A op \in QueryOps : \A q \in Queries : Cmd(op, q) \in Command
    BY DEF Cmd, Command
  <1>c. \A op \in SessionOps : Cmd(op, NoQuery) \in Command
    BY DEF Cmd, Command
  <1> USE <1>a DEF CallerOK, ChannelsOK, ActorOK, DataOK, LedgerOK, caller, signals, actor, ledger
  <1>1. ASSUME NEW q \in Queries, Reserve(q) PROVE TypeOK'
    <2>1. State(q, "Queued") \in Event
      BY StateStep DEF QueryStates, Handles
    <2>2. CallerOK' /\ ChannelsOK' /\ ActorOK' /\ DataOK'
      BY <1>1, <2>1 DEF Reserve, Handles
    <2>3. LedgerOK'
      BY <1>1 DEF Reserve
    <2> QED BY <2>2, <2>3, TypePartsNext
  <1>2. ASSUME Execute PROVE TypeOK'
    <2>1. Cmd("Execute", permit) \in Command
      BY <1>b, <1>2 DEF Execute, Handles, QueryOps
    <2> QED BY <1>2, <2>1, TypePartsNext DEF Execute, Handles
  <1>3. ASSUME NEW op \in {"Fetch", "ClearView", "LoadValue", "LoadChunk"}, NEW q \in Queries,
               Request(op, q)
        PROVE  TypeOK'
    BY <1>3, <1>b, TypePartsNext DEF Request, QueryOps
  <1>4. ASSUME NEW q \in Queries, NextResult(q) PROVE TypeOK'
    BY <1>4, <1>b, TypePartsNext DEF NextResult, QueryOps
  <1>5. ASSUME NEW q \in Queries, ApplyView(q) PROVE TypeOK'
    BY <1>5, <1>b, TypePartsNext DEF ApplyView, QueryOps
  <1>6. ASSUME NEW q \in Queries, CancelView(q) PROVE TypeOK'
    BY <1>6, TypePartsNext DEF CancelView
  <1>7. ASSUME NEW op \in {"SqlMode", "Inspect"}, Ask(op) PROVE TypeOK'
    BY <1>7, <1>c, TypePartsNext DEF Ask, SessionOps
  <1>8. ASSUME NEW q \in Queries, Cancel(q) PROVE TypeOK'
    BY <1>8, TypePartsNext DEF Cancel
  <1>9. ASSUME NEW q \in Queries, Release(q) PROVE TypeOK'
    <2>1. Cmd("Release", q) \in Command
      BY <1>b DEF QueryOps
    <2>2. ChannelsOK'
      <3>1. commands' = commands \/ commands' = Append(commands, Cmd("Release", q))
        BY <1>9 DEF Release
      <3>2. accepting' = accepting /\ events' = events
        BY <1>9 DEF Release
      <3>3. Append(commands, Cmd("Release", q)) \in Seq(Command)
        BY <2>1
      <3>4. commands' \in Seq(Command)
        BY <3>1, <3>3
      <3> QED BY <3>2, <3>4
    <2>3. CallerOK'
      BY <1>9 DEF Release
    <2> QED BY <1>9, <2>2, <2>3, TypePartsNext DEF Release
  <1>10. ASSUME Disconnect \/ Shutdown PROVE TypeOK'
    BY <1>10, TypePartsNext DEF Disconnect, Shutdown
  <1>11. ASSUME ReadEvent PROVE TypeOK'
    <2>1. Tail(events) \in Seq(Event)
      BY <1>11 DEF ReadEvent
    <2>2. ChannelsOK'
      BY <1>11, <2>1 DEF ReadEvent
    <2>3. CallerOK'
      BY <1>11 DEF ReadEvent
    <2> QED BY <1>11, <2>2, <2>3, TypePartsNext DEF ReadEvent
  <1> QED
    BY <1>1, <1>2, <1>3, <1>4, <1>5, <1>6, <1>7, <1>8, <1>9, <1>10, <1>11 DEF CallerStep

-----------------------------------------------------------------------------
(* The actor's awaits.                                                     *)

LEMMA SendType == TypeOK /\ SendEvent => TypeOK'
  <1> SUFFICES ASSUME TypeOK, SendEvent PROVE TypeOK'
    OBVIOUS
  <1>1. out \in Seq(Step) /\ out # <<>> /\ Head(out).type \in EventTypes /\ events \in Seq(Event)
    BY DEF TypeOK, SendEvent
  <1>2. Head(out) \in Event
    <2>1. Head(out) \in Step
      BY <1>1
    <2> QED BY <1>1, <2>1 DEF Step, EventTypes
  <1>3. Tail(out) \in Seq(Step) /\ Append(events, Head(out)) \in Seq(Event)
    BY <1>1, <1>2
  <1>4. out' \in Seq(Step) /\ events' \in Seq(Event)
    BY <1>1, <1>3 DEF SendEvent
  <1> QED BY <1>4 DEF SendEvent, TypeOK, caller, signals, ledger

LEMMA RecordType == \A saved \in BOOLEAN : TypeOK /\ RecordHistory(saved) => TypeOK'
  <1> SUFFICES ASSUME NEW saved \in BOOLEAN, TypeOK, RecordHistory(saved) PROVE TypeOK'
    OBVIOUS
  <1> DEFINE q == Head(out).query
  <1>1. Head(out) \in Step /\ Tail(out) \in Seq(Step)
    BY DEF TypeOK, RecordHistory
  <1>2. Head(out).detail \in Statuses
    BY <1>1 DEF RecordHistory, Step, Event, EventTypes
  <1>3. q \in Queries => <<Ev("HistoryWriteFailed", q)>> \in Seq(Step)
    BY EvStep DEF EventTypes, Handles
  <1>4. out' \in Seq(Step)
    <2>1. q \in Queries => <<Ev("HistoryWriteFailed", q)>> \o Tail(out) \in Seq(Step)
      BY <1>1, <1>3
    <2>2. <<>> \o Tail(out) = Tail(out)
      BY <1>1
    <2> QED BY <1>1, <2>1, <2>2 DEF RecordHistory
  <1>5. history' \in [Queries -> Statuses \cup {"none", "pending", "rejected"}]
    <2>1. history \in [Queries -> Statuses \cup {"none", "pending", "rejected"}]
      BY DEF TypeOK
    <2>2. \/ history' = history
          \/ history' = [history EXCEPT ![q] = Head(out).detail]
          \/ history' = [history EXCEPT ![q] = "rejected"]
      BY DEF RecordHistory
    <2> QED BY <1>2, <2>1, <2>2
  <1>6. UNCHANGED <<caller, signals, commands, accepting, events, stage, job, active, stored,
                    views, dropped, abandoned>>
    BY DEF RecordHistory
  <1> QED BY <1>4, <1>5, <1>6 DEF TypeOK, caller, signals

\* The driver's answer about the transaction, or the stop that comes first.
LEMMA InquiryType == TypeOK /\ (DropInquiry \/ \E known \in BOOLEAN : Inquired(known)) => TypeOK'
  <1> SUFFICES ASSUME TypeOK, DropInquiry \/ \E known \in BOOLEAN : Inquired(known) PROVE TypeOK'
    OBVIOUS
  <1>1. Tail(out) \in Seq(Step)
    <2>1. out # <<>>
      BY DEF DropInquiry, Inquired
    <2>2. out \in Seq(Step)
      BY DEF TypeOK
    <2> QED BY <2>1, <2>2
  <1>2. <<>> \o Tail(out) \in Seq(Step) /\ <<Ev("TransactionState", NoQuery)>> \o Tail(out) \in Seq(Step)
    <2>1. Ev("TransactionState", NoQuery) \in Step
      BY EvStep DEF EventTypes, Handles
    <2> QED BY <1>1, <2>1
  <1>3. out' \in Seq(Step)
    BY <1>1, <1>2 DEF DropInquiry, Inquired
  <1>4. UNCHANGED <<caller, signals, commands, accepting, events, stage, job, active, stored,
                    views, ledger>>
    BY DEF DropInquiry, Inquired
  <1> QED BY <1>3, <1>4 DEF TypeOK, caller, signals, ledger

LEMMA DropTicketType ==
    ASSUME TypeOK, NEW q \in Queries, NEW saved \in BOOLEAN, DropTicket(q, saved)
    PROVE  /\ history' \in [Queries -> Statuses \cup {"none", "pending", "rejected"}]
           /\ dropped' \subseteq Queries /\ events' \in Seq(Event)
  <1>1. Ev("HistoryWriteFailed", q) \in Event
    BY EvStep DEF EventTypes, Handles
  <1>2. events \in Seq(Event) /\ Append(events, Ev("HistoryWriteFailed", q)) \in Seq(Event)
    BY <1>1 DEF TypeOK
  <1>3. events' \in Seq(Event)
    BY <1>2 DEF DropTicket
  <1>4. /\ history' \in [Queries -> Statuses \cup {"none", "pending", "rejected"}]
        /\ dropped' \subseteq Queries
    BY DEF DropTicket, TypeOK, Statuses
  <1> QED BY <1>3, <1>4

LEMMA FreeTicketType == \A saved \in BOOLEAN : TypeOK /\ FreeTicket(saved) => TypeOK'
  <1> SUFFICES ASSUME NEW saved \in BOOLEAN, TypeOK, FreeTicket(saved) PROVE TypeOK'
    OBVIOUS
  <1>1. Head(out) \in Step /\ Tail(out) \in Seq(Step)
    BY DEF TypeOK, FreeTicket
  <1>2. Head(out).query \in Queries
    <2>1. Head(out).type = "drop"
      BY DEF FreeTicket
    <2> QED BY <1>1, <2>1 DEF Step, Event, EventTypes
  <1>3. /\ history' \in [Queries -> Statuses \cup {"none", "pending", "rejected"}]
        /\ dropped' \subseteq Queries /\ events' \in Seq(Event)
    BY <1>2, DropTicketType DEF FreeTicket
  <1>4. out' \in Seq(Step)
    BY <1>1 DEF FreeTicket
  <1> QED BY <1>3, <1>4 DEF FreeTicket, TypeOK, caller, signals

LEMMA DiscardType == \A saved \in BOOLEAN : TypeOK /\ Discard(saved) => TypeOK'
  <1> SUFFICES ASSUME NEW saved \in BOOLEAN, TypeOK, Discard(saved) PROVE TypeOK'
    OBVIOUS
  <1>1. commands \in Seq(Command) /\ commands # <<>>
    BY DEF TypeOK, Discard
  <1>2. Tail(commands) \in Seq(Command)
    BY <1>1, ReceivedType
  <1>3. CASE Head(commands).op = "Execute"
    <2>1. Received \in Queries
      BY <1>1, <1>3, ReceivedType DEF QueryOps
    <2>2. DropTicket(Received, saved)
      BY <1>3 DEF Discard
    <2> QED BY <1>2, <2>1, <2>2, DropTicketType DEF Discard, TypeOK, caller, signals, actor
  <1>4. CASE Head(commands).op # "Execute"
    BY <1>2, <1>4 DEF Discard, TypeOK, caller, signals, actor
  <1> QED BY <1>3, <1>4

-----------------------------------------------------------------------------
(* All other steps leave the caller's side alone.                          *)

LEMMA OutsideType ==
    ASSUME TypeOK, Outside, commands' \in Seq(Command), accepting' \in BOOLEAN,
           abandoned' \in BOOLEAN, ActorOK', DataOK'
    PROVE  TypeOK'
  <1>1. CallerOK /\ ChannelsOK /\ LedgerOK
    BY TypeParts
  <1> QED BY <1>1, TypePartsNext
      DEF Outside, CallerOK, ChannelsOK, LedgerOK, caller, signals

LEMMA QuietType ==
    ASSUME TypeOK, Outside, UNCHANGED <<commands, accepting, abandoned>>, ActorOK', DataOK'
    PROVE  TypeOK'
  BY OutsideType DEF TypeOK

LEMMA ReceiveType ==
    ASSUME TypeOK, NEW op \in QueryOps \cup SessionOps, Receive(op)
    PROVE  /\ Received \in Handles
           /\ op \in QueryOps => Received \in Queries
           /\ ActorOK' /\ DataOK' => TypeOK'
  <1>1. commands \in Seq(Command) /\ commands # <<>> /\ Head(commands).op = op
    BY DEF TypeOK, Receive
  <1>2. /\ Received \in Handles
        /\ op \in QueryOps => Received \in Queries
        /\ Tail(commands) \in Seq(Command)
    BY <1>1, ReceivedType
  <1>3. ASSUME ActorOK', DataOK' PROVE TypeOK'
    BY <1>2, <1>3, OutsideType DEF Receive, TypeOK
  <1> QED BY <1>2, <1>3

LEMMA TypeFacts ==
    ASSUME TypeOK
    PROVE  /\ ActorOK /\ DataOK /\ job \in Jobs /\ active \in [Slots -> Cursor]
           /\ job.query \in Handles /\ job.slot \in Slots /\ job.why \in Reasons
           /\ job.op \in QueryOps => job.query \in Queries
           /\ stage \in Stages /\ <<>> \in Seq(Step)
  <1>1. ActorOK /\ DataOK
    BY TypeParts
  <1>2. job \in Jobs /\ active \in [Slots -> Cursor] /\ stage \in Stages
    BY <1>1 DEF ActorOK, DataOK
  <1> QED BY <1>1, <1>2, JobFields

\* A step that leaves cursors, stores and views alone.
LEMMA MoveType ==
    ASSUME TypeOK, Outside, UNCHANGED <<commands, accepting, abandoned, active, stored, views>>,
           NEW s \in Stages, NEW steps \in Seq(Step), Become(s, steps),
           s \in {"scan", "build"} => job.op = "View"
    PROVE  TypeOK'
  <1>1. ActorOK'
    BY BecomeType, TypeFacts
  <1>2. DataOK'
    BY TypeFacts DEF DataOK
  <1> QED BY <1>1, <1>2, QuietType

\* A cursor that is closed, by whatever step.
LEMMA ClosedType ==
    ASSUME TypeOK, Outside, UNCHANGED <<commands, accepting, abandoned, stored, views>>,
           NEW slot \in Slots, active' = [active EXCEPT ![slot] = NoCursor],
           NEW s \in Stages \ {"scan", "build"}, NEW steps \in Seq(Step), Become(s, steps)
    PROVE  TypeOK'
  <1>1. ActorOK'
    BY BecomeType, TypeFacts
  <1>2. DataOK'
    BY TypeFacts, CursorType DEF DataOK
  <1> QED BY <1>1, <1>2, QuietType

-----------------------------------------------------------------------------
(* Connecting and the select loop.                                         *)

LEMMA ConnectOkType == TypeOK /\ ConnectOk => TypeOK'
  <1> SUFFICES ASSUME TypeOK, ConnectOk PROVE TypeOK'
    OBVIOUS
  <1>1. Ev("Connected", NoQuery) \in Step /\ Ev("SqlMode", NoQuery) \in Step
    BY EvStep DEF EventTypes, Handles
  <1>2. PICK mode \in {<<>>, <<Ev("SqlMode", NoQuery)>>} :
          Become("select", <<Ev("Connected", NoQuery)>> \o mode)
    BY DEF ConnectOk
  <1>3. <<Ev("Connected", NoQuery)>> \in Seq(Step) /\ <<Ev("SqlMode", NoQuery)>> \in Seq(Step)
    BY <1>1
  <1>4. mode \in Seq(Step)
    BY <1>2, <1>3, TypeFacts
  <1>5. <<Ev("Connected", NoQuery)>> \o mode \in Seq(Step)
    BY <1>3, <1>4
  <1> QED BY <1>2, <1>5, MoveType DEF ConnectOk, Stages

LEMMA ConnectEndsType == TypeOK /\ ConnectEnds => TypeOK'
  <1> SUFFICES ASSUME TypeOK, ConnectEnds PROVE TypeOK'
    OBVIOUS
  <1> DEFINE j == [NoJob EXCEPT !.why = IF stop THEN "Disconnected" ELSE "Failed"]
  <1>1. j \in Jobs
    BY DEF NoJob, Jobs, Handles, Slots, Reasons
  <1>2. ActorOK'
    BY <1>1, BeginType, TypeFacts DEF ConnectEnds, Stages
  <1>3. DataOK'
    BY TypeFacts DEF ConnectEnds, DataOK
  <1> QED BY <1>2, <1>3, OutsideType DEF ConnectEnds, TypeOK

LEMMA ObserveStopType == TypeOK /\ ObserveStop => TypeOK'
  BY MoveType, TypeFacts DEF ObserveStop, Stages

LEMMA IdleStopType ==
    \A why \in Reasons : \A settled \in BOOLEAN : TypeOK /\ IdleStop(why, settled) => TypeOK'
  <1> SUFFICES ASSUME NEW why \in Reasons, NEW settled \in BOOLEAN, TypeOK, IdleStop(why, settled)
               PROVE  TypeOK'
    OBVIOUS
  <1> DEFINE q == active["sql"].query
             steps == <<State(q, "Cancelling"), Fail(q, why)>> \o Failure(q, why)
             s == IF settled THEN "select" ELSE "exit"
  <1>1. q \in Handles /\ "sql" \in Slots
    BY CursorType, TypeFacts
  <1>2. State(q, "Cancelling") \in Step /\ Fail(q, why) \in Step /\ Failure(q, why) \in Seq(Step)
    BY <1>1, StateStep, FailStep, FailureSteps DEF QueryStates
  <1>3. steps \in Seq(Step) /\ s \in Stages \ {"scan", "build"}
    BY <1>2 DEF Stages
  <1>4. Become(s, steps)
    BY DEF IdleStop
  <1> HIDE DEF s, steps, q
  <1> QED BY <1>1, <1>3, <1>4, ClosedType DEF IdleStop

LEMMA ObjectStopType == \A why \in Reasons : TypeOK /\ ObjectStop(why) => TypeOK'
  <1> SUFFICES ASSUME NEW why \in Reasons, TypeOK, ObjectStop(why) PROVE TypeOK'
    OBVIOUS
  <1> DEFINE q == active["object"].query
             steps == (IF why = "Cancelled" THEN <<State(q, "Cancelling")>> ELSE <<>>)
                      \o Failure(q, why)
  <1>1. q \in Handles /\ "object" \in Slots
    BY CursorType, TypeFacts
  <1>2. State(q, "Cancelling") \in Step /\ Failure(q, why) \in Seq(Step)
    BY <1>1, StateStep, FailureSteps DEF QueryStates
  <1>3. steps \in Seq(Step)
    BY <1>2
  <1>4. Become("select", steps)
    BY DEF ObjectStop
  <1> HIDE DEF steps, q
  <1> QED BY <1>1, <1>3, <1>4, ClosedType DEF ObjectStop, Stages

-----------------------------------------------------------------------------
(* Operations under perform.                                               *)

LEMMA AbortType ==
    ASSUME TypeOK, NEW why \in Reasons, NEW bad \in BOOLEAN, Abort(why, bad)
    PROVE  ActorOK' /\ active' \in [Slots -> Cursor]
  <1> DEFINE q == job.query
             next == IF bad THEN "exit" ELSE "probe"
             reports == Failure(q, why)
  <1>1. /\ q \in Handles /\ job.slot \in Slots /\ job \in Jobs /\ active \in [Slots -> Cursor]
        /\ reports \in Seq(Step) /\ Fail(q, why) \in Step
    BY TypeFacts, FailureSteps, FailStep
  <1>2. \A s \in Slots : [active EXCEPT ![s] = NoCursor] \in [Slots -> Cursor]
    BY <1>1, CursorType
  <1>3. \A t \in EventTypes : Ev(t, q) \in Step /\ Ev(t, NoQuery) \in Step
    BY <1>1, EvStep DEF Handles
  <1>4. {"probe", "exit", "select", next} \subseteq Stages \ {"scan", "build"}
    BY DEF Stages
  <1>5. CASE job.op = "Execute"
    <2> DEFINE state == IF bad \/ why = "Disconnected" THEN <<>> ELSE <<Inquire>>
    <2>1. Become(next, <<Fail(q, why)>> \o state \o reports)
      BY <1>5 DEF Abort
    <2>2. state \in Seq(Step)
      BY InquireStep
    <2> HIDE DEF state
    <2>3. <<Fail(q, why)>> \o state \o reports \in Seq(Step)
      BY <1>1, <2>2
    <2>4. active' = active
      BY <1>5 DEF Abort
    <2> QED BY <1>1, <1>4, <2>1, <2>3, <2>4, BecomeType
  <1>6. CASE job.op = "Fetch"
    <2>1. <<Fail(q, why)>> \o reports \in Seq(Step)
      BY <1>1
    <2>2. /\ Become(next, <<Fail(q, why)>> \o reports)
          /\ active' = [active EXCEPT ![job.slot] = NoCursor]
      BY <1>6 DEF Abort
    <2> QED BY <1>1, <1>2, <1>4, <2>1, <2>2, BecomeType
  <1>7. CASE job.op = "SqlMode"
    <2>1. <<Fail(q, why)>> \o reports \o <<Ev("OperationFailed", NoQuery)>> \in Seq(Step)
      <3>1. Ev("OperationFailed", NoQuery) \in Step
        BY <1>3 DEF EventTypes
      <3> QED BY <1>1, <3>1
    <2>2. /\ Become(IF bad THEN "exit" ELSE "select",
                    <<Fail(q, why)>> \o reports \o <<Ev("OperationFailed", NoQuery)>>)
          /\ active' = [active EXCEPT ![job.slot] = NoCursor]
      BY <1>7 DEF Abort
    <2> QED BY <1>1, <1>2, <1>4, <2>1, <2>2, BecomeType
  <1>8. CASE job.op = "View"
    <2>1. <<Ev("ViewFailed", q)>> \in Seq(Step)
      BY <1>3 DEF EventTypes
    <2>2. Become("select", <<Ev("ViewFailed", q)>>) /\ active' = active
      BY <1>8 DEF Abort
    <2> QED BY <1>1, <1>4, <2>1, <2>2, BecomeType
  <1>9. CASE job.op \notin {"Execute", "Fetch", "SqlMode", "View"}
    <2>1. Become(next, reports) /\ active' = active
      BY <1>9 DEF Abort
    <2> QED BY <1>1, <1>4, <2>1, BecomeType
  <1> QED BY <1>5, <1>6, <1>7, <1>8, <1>9

LEMMA AbortedType ==
    ASSUME TypeOK, NEW why \in Reasons, NEW bad \in BOOLEAN, Abort(why, bad),
           Outside, UNCHANGED <<commands, accepting, stored, views>>, abandoned' \in BOOLEAN
    PROVE  TypeOK'
  <1>1. ActorOK' /\ active' \in [Slots -> Cursor]
    BY AbortType
  <1>2. DataOK'
    BY <1>1, TypeFacts DEF DataOK
  <1> QED BY <1>1, <1>2, OutsideType DEF TypeOK

LEMMA InterruptionReasons ==
    \A cancel, timed \in BOOLEAN : Interruptions(cancel, timed) \subseteq Reasons
  BY DEF Interruptions, Reasons

LEMMA StartType == TypeOK /\ Start => TypeOK'
  BY MoveType, TypeFacts DEF Start, Stages

LEMMA PerformType ==
    /\ \A why \in Reasons : TypeOK /\ Preflight(why) => TypeOK'
    /\ \A why \in Reasons : TypeOK /\ WorkFails(why) => TypeOK'
    /\ TypeOK /\ DropObjectRead => TypeOK'
    /\ \A settled \in BOOLEAN : TypeOK /\ Settle(settled) => TypeOK'
  <1>1. ASSUME NEW why \in Reasons, TypeOK, Preflight(why) \/ WorkFails(why) PROVE TypeOK'
    BY <1>1, AbortedType DEF Preflight, WorkFails, TypeOK
  <1>2. ASSUME TypeOK, DropObjectRead PROVE TypeOK'
    BY <1>2, AbortedType DEF DropObjectRead, Reasons, TypeOK
  <1>3. ASSUME NEW settled \in BOOLEAN, TypeOK, Settle(settled) PROVE TypeOK'
    <2>1. job.why \in Reasons /\ abandoned \in BOOLEAN
      BY <1>3, TypeFacts DEF TypeOK
    <2>2. (~settled) \in BOOLEAN /\ abandoned' \in BOOLEAN
      BY <1>3, <2>1 DEF Settle
    <2>3. Abort(job.why, ~settled) /\ Outside /\ UNCHANGED <<commands, accepting, stored, views>>
      BY <1>3 DEF Settle
    <2> QED BY <1>3, <2>1, <2>2, <2>3, AbortedType
  <1> QED BY <1>1, <1>2, <1>3

LEMMA InterruptType == \A why \in Reasons : TypeOK /\ Interrupt(why) => TypeOK'
  <1> SUFFICES ASSUME NEW why \in Reasons, TypeOK, Interrupt(why) PROVE TypeOK'
    OBVIOUS
  <1> DEFINE j == [job EXCEPT !.why = why]
  <1>1. j \in Jobs
    BY TypeFacts DEF Jobs
  <1>2. <<State(job.query, "Cancelling")>> \in Seq(Step)
    <2>1. State(job.query, "Cancelling") \in Step
      BY TypeFacts, StateStep DEF QueryStates
    <2> QED BY <2>1
  <1>3. ActorOK'
    BY <1>1, <1>2, BeginType DEF Interrupt, Stages
  <1>4. DataOK'
    BY TypeFacts DEF Interrupt, DataOK
  <1> QED BY <1>3, <1>4, QuietType DEF Interrupt

-----------------------------------------------------------------------------
(* Execute.                                                                *)

\* Every command starts a job of its own kind for the query it names.
LEMMA JobType ==
    /\ \A op \in QueryOps : \A q \in Queries : \A s \in Slots : Job(op, q, s) \in Jobs
    /\ \A op \in SessionOps : \A q \in Handles : \A s \in Slots : Job(op, q, s) \in Jobs
    /\ \A op, q, s : Job(op, q, s).op = op /\ Job(op, q, s).slot = s
  BY DEF Job, Jobs, Reasons

LEMMA BeginExecuteType == TypeOK /\ BeginExecute => TypeOK'
  <1> SUFFICES ASSUME TypeOK, BeginExecute PROVE TypeOK'
    OBVIOUS
  <1> DEFINE q == Received
             s == IF q \in Objects THEN "object" ELSE "sql"
  <1>1. Receive("Execute") /\ "Execute" \in QueryOps
    BY DEF BeginExecute, QueryOps
  <1>2. q \in Queries /\ s \in Slots
    <2>1. q \in Queries
      BY <1>1, ReceiveType
    <2> QED BY <2>1 DEF Slots
  <1>3. PICK steps \in CloseSteps(active[s]) : Begin(Job("Execute", q, s), "execute", steps)
    BY DEF BeginExecute
  <1>4. active[s] \in Cursor /\ [active EXCEPT ![s] = NoCursor] \in [Slots -> Cursor]
    BY <1>2, TypeFacts, CursorType
  <1>5. steps \in Seq(Step) /\ Job("Execute", q, s) \in Jobs
    BY <1>1, <1>2, <1>4, CloseStepsType, JobType
  <1>6. ActorOK'
    BY <1>3, <1>5, BeginType DEF Stages
  <1>7. DataOK'
    BY <1>4, TypeFacts DEF BeginExecute, DataOK
  <1> QED BY <1>1, <1>6, <1>7, ReceiveType

LEMMA UnstartedType ==
    ASSUME TypeOK, NEW why \in Reasons, Unstarted(why)
    PROVE  ActorOK'
  <1>1. Fail(job.query, why) \in Step /\ Failure(job.query, why) \in Seq(Step)
    BY TypeFacts, FailStep, FailureSteps
  <1>2. <<Fail(job.query, why)>> \o Failure(job.query, why) \in Seq(Step)
    BY <1>1
  <1> QED BY <1>2, TypeFacts, BecomeType DEF Unstarted, Stages

LEMMA CheckExecuteType == TypeOK /\ CheckExecute => TypeOK'
  <1> SUFFICES ASSUME TypeOK, CheckExecute PROVE TypeOK'
    OBVIOUS
  <1>1. ActorOK'
    <2>1. CASE Unstarted("Cancelled")
      BY <2>1, UnstartedType DEF Reasons
    <2>2. CASE Become("reserve", <<>>)
      BY <2>2, TypeFacts, BecomeType DEF Stages
    <2> QED BY <2>1, <2>2 DEF CheckExecute
  <1>2. DataOK'
    BY TypeFacts DEF CheckExecute, DataOK
  <1> QED BY <1>1, <1>2, QuietType DEF CheckExecute

LEMMA GrantExecuteType == TypeOK /\ GrantExecute => TypeOK'
  <1> SUFFICES ASSUME TypeOK, GrantExecute PROVE TypeOK'
    OBVIOUS
  <1>1. State(job.query, "Running") \in Step
    BY TypeFacts, StateStep DEF QueryStates
  <1>2. <<State(job.query, "Running")>> \in Seq(Step)
    BY <1>1
  <1> QED BY <1>2, MoveType DEF GrantExecute, Stages

LEMMA RefuseExecuteType == \A why \in Reasons : TypeOK /\ RefuseExecute(why) => TypeOK'
  <1> SUFFICES ASSUME NEW why \in Reasons, TypeOK, RefuseExecute(why) PROVE TypeOK'
    OBVIOUS
  <1>1. ActorOK'
    BY UnstartedType DEF RefuseExecute
  <1>2. DataOK'
    BY TypeFacts DEF RefuseExecute, DataOK
  <1> QED BY <1>1, <1>2, QuietType DEF RefuseExecute

LEMMA ExecutedType == \A stores \in BOOLEAN : TypeOK /\ Executed(stores) => TypeOK'
  <1> SUFFICES ASSUME NEW stores \in BOOLEAN, TypeOK, Executed(stores) PROVE TypeOK'
    OBVIOUS
  <1>1. ActorOK'
    <2>1. CASE Unstarted("Failed")
      BY <2>1, UnstartedType DEF Reasons
    <2>2. CASE Become("schema", <<>>)
      BY <2>2, TypeFacts, BecomeType DEF Stages
    <2> QED BY <2>1, <2>2 DEF Executed
  <1>2. DataOK'
    <2>1. stored' = stored \/ stored' = [stored EXCEPT ![job.query] = "empty"]
      BY DEF Executed
    <2>2. stored' \in [Queries -> {"none", "empty", "pages"}]
      BY <2>1, TypeFacts DEF DataOK
    <2> QED BY <2>2, TypeFacts DEF Executed, DataOK
  <1> QED BY <1>1, <1>2, QuietType DEF Executed

LEMMA OpenCursorType == \A pages \in 1..MaxPages : TypeOK /\ OpenCursor(pages) => TypeOK'
  <1> SUFFICES ASSUME NEW pages \in 1..MaxPages, TypeOK, OpenCursor(pages) PROVE TypeOK'
    OBVIOUS
  <1>1. <<Ev("Schema", job.query)>> \in Seq(Step)
    <2>1. Ev("Schema", job.query) \in Step
      BY TypeFacts, EvStep DEF EventTypes
    <2> QED BY <2>1
  <1>2. ActorOK'
    BY <1>1, TypeFacts, BecomeType DEF OpenCursor, Stages
  <1>3. [query |-> job.query, completed |-> FALSE, left |-> pages,
         timed |-> job.query \in Timed] \in Cursor
    BY TypeFacts DEF Cursor
  <1>4. DataOK'
    BY <1>3, TypeFacts DEF OpenCursor, DataOK
  <1> QED BY <1>2, <1>4, QuietType DEF OpenCursor

LEMMA SkipProbeType == TypeOK /\ SkipProbe => TypeOK'
  BY MoveType, TypeFacts DEF SkipProbe, Stages

LEMMA ProbeType == \A fails \in BOOLEAN : TypeOK /\ Probe(fails) => TypeOK'
  <1> SUFFICES ASSUME NEW fails \in BOOLEAN, TypeOK, Probe(fails) PROVE TypeOK'
    OBVIOUS
  <1> DEFINE steps == IF fails THEN <<Ev("OperationFailed", NoQuery)>> ELSE <<>>
  <1>1. steps \in Seq(Step)
    <2>1. Ev("OperationFailed", NoQuery) \in Step
      BY EvStep DEF EventTypes, Handles
    <2> QED BY <2>1
  <1>2. Become("select", steps)
    BY DEF Probe
  <1> HIDE DEF steps
  <1> QED BY <1>1, <1>2, MoveType DEF Probe, Stages

-----------------------------------------------------------------------------
(* Fetch.                                                                  *)

\* The events with which a command on a query answers, alone or as a failure.
LEMMA Answers ==
    \A q \in Handles :
        /\ \A t \in EventTypes : <<Ev(t, q)>> \in Seq(Step)
        /\ \A why \in Reasons : <<QueryFailed(q, why)>> \in Seq(Step)
        /\ \A why \in Reasons : Failure(q, why) \in Seq(Step)
        /\ Complete(q) \in Seq(Step)
  <1> SUFFICES ASSUME NEW q \in Handles
               PROVE  /\ \A t \in EventTypes : <<Ev(t, q)>> \in Seq(Step)
                      /\ \A why \in Reasons : <<QueryFailed(q, why)>> \in Seq(Step)
    BY FailureSteps, CompleteSteps
  <1>1. ASSUME NEW t \in EventTypes PROVE <<Ev(t, q)>> \in Seq(Step)
    <2>1. Ev(t, q) \in Step
      BY EvStep
    <2> QED BY <2>1
  <1>2. ASSUME NEW why \in Reasons PROVE <<QueryFailed(q, why)>> \in Seq(Step)
    <2>1. QueryFailed(q, why) \in Step
      BY FailedStep
    <2> QED BY <2>1
  <1> QED BY <1>1, <1>2

LEMMA BeginFetchType == \A counted \in BOOLEAN : TypeOK /\ BeginFetch(counted) => TypeOK'
  <1> SUFFICES ASSUME NEW counted \in BOOLEAN, TypeOK, BeginFetch(counted) PROVE TypeOK'
    OBVIOUS
  <1> DEFINE q == Received
  <1>1. Receive("Fetch") /\ "Fetch" \in QueryOps
    BY DEF BeginFetch, QueryOps
  <1>2. q \in Queries /\ q \in Handles
    BY <1>1, ReceiveType
  <1>3. Failure(q, "Failed") \in Seq(Step) /\ <<QueryFailed(q, "Failed")>> \in Seq(Step)
    BY <1>2, Answers DEF Reasons
  <1>4. Job("Fetch", q, SlotOf(q)) \in Jobs
    BY <1>1, <1>2, JobType, CursorType, TypeFacts
  <1>5. ActorOK'
    <2>1. \/ Become("select", Failure(q, "Failed"))
          \/ Become("select", <<QueryFailed(q, "Failed")>>)
          \/ Begin(Job("Fetch", q, SlotOf(q)), "reserve", <<>>)
      BY DEF BeginFetch
    <2> QED BY <1>3, <1>4, <2>1, BecomeType, BeginType, TypeFacts DEF Stages
  <1>6. DataOK'
    BY TypeFacts DEF BeginFetch, DataOK
  <1> QED BY <1>1, <1>5, <1>6, ReceiveType

LEMMA GrantPageType ==
    /\ \A found \in BOOLEAN : TypeOK /\ GrantSavedPage(found) => TypeOK'
    /\ TypeOK /\ GrantNextPage => TypeOK'
  <1> SUFFICES ASSUME TypeOK, GrantNextPage \/ \E found \in BOOLEAN : GrantSavedPage(found)
               PROVE  TypeOK'
    OBVIOUS
  <1>1. /\ <<Ev("Page", job.query)>> \in Seq(Step) /\ JobFailure \in Seq(Step)
        /\ Failure(job.query, "Failed") \in Seq(Step) /\ <<>> \in Seq(Step)
    BY TypeFacts, Answers DEF EventTypes, Reasons, JobFailure
  <1>2. \E s \in {"select", "start"} : \E steps \in Seq(Step) : Become(s, steps)
    BY <1>1 DEF GrantNextPage, GrantSavedPage
  <1>3. Outside /\ UNCHANGED <<commands, accepting, abandoned, active, stored, views>>
    BY DEF GrantNextPage, GrantSavedPage
  <1> QED BY <1>2, <1>3, MoveType DEF Stages

LEMMA RefuseFetchType ==
    \A why \in Reasons : \A settled \in BOOLEAN : TypeOK /\ RefuseFetch(why, settled) => TypeOK'
  <1> SUFFICES ASSUME NEW why \in Reasons, NEW settled \in BOOLEAN, TypeOK, RefuseFetch(why, settled)
               PROVE  TypeOK'
    OBVIOUS
  <1>1. job.query \in Queries
    BY TypeFacts DEF RefuseFetch, QueryOps
  <1>2. <<QueryFailed(job.query, why)>> \in Seq(Step) /\ Failure(job.query, why) \in Seq(Step)
    BY TypeFacts, Answers
  <1>3. Failure(job.query, why) \o <<Drop(job.query)>> \in Seq(Step)
    BY <1>1, <1>2, DropStep
  <1>4. CASE JobLive
    <2>1. /\ Become(IF settled THEN "select" ELSE "exit",
                    Failure(job.query, why) \o <<Drop(job.query)>>)
          /\ active' = [active EXCEPT ![job.slot] = NoCursor]
      BY <1>4 DEF RefuseFetch
    <2> QED BY <1>3, <2>1, ClosedType, TypeFacts DEF RefuseFetch, Stages
  <1>5. CASE ~JobLive
    BY <1>2, <1>5, MoveType DEF RefuseFetch, Stages
  <1> QED BY <1>4, <1>5

\* A cursor whose pages or deadline change stays a cursor.
LEMMA CursorEdits ==
    \A c \in Cursor : \A n \in 0..MaxPages : \A b \in BOOLEAN :
        /\ [c EXCEPT !.left = n] \in Cursor
        /\ [c EXCEPT !.timed = b] \in Cursor
        /\ [c EXCEPT !.completed = b] \in Cursor
        /\ [c EXCEPT !.completed = b, !.left = n] \in Cursor
        /\ [c EXCEPT !.left = n, !.completed = b] \in Cursor
  BY DEF Cursor

LEMMA PagesLeftType == TypeOK => PagesLeft \in 0..MaxPages
  <1> SUFFICES ASSUME TypeOK PROVE PagesLeft \in 0..MaxPages
    OBVIOUS
  <1>1. JobCursor.left \in 0..MaxPages
    BY TypeFacts DEF JobCursor, Cursor
  <1> QED BY <1>1 DEF PagesLeft

LEMMA FetchedType == TypeOK /\ Fetched => TypeOK'
  <1> SUFFICES ASSUME TypeOK, Fetched PROVE TypeOK'
    OBVIOUS
  <1> DEFINE steps == <<Ev("Page", job.query)>>
                      \o (IF PagesLeft = 0 THEN Complete(job.query) ELSE <<>>)
  <1>1. steps \in Seq(Step)
    <2>1. <<Ev("Page", job.query)>> \in Seq(Step) /\ Complete(job.query) \in Seq(Step)
      BY TypeFacts, Answers DEF EventTypes
    <2> QED BY <2>1
  <1>2. Become("probe", steps)
    BY DEF Fetched
  <1>3. ActorOK'
    <2> HIDE DEF steps
    <2> QED BY <1>1, <1>2, BecomeType, TypeFacts DEF Stages
  <1>4. active' \in [Slots -> Cursor]
    <2>1. active' = [active EXCEPT ![job.slot] =
                       [active[job.slot] EXCEPT !.left = PagesLeft, !.completed = PagesLeft = 0]]
      BY TypeFacts DEF Fetched, Cursor
    <2> QED BY <2>1, CursorEdits, PagesLeftType, TypeFacts
  <1>5. DataOK'
    BY <1>4, TypeFacts DEF Fetched, PageStored, DataOK
  <1> QED BY <1>3, <1>5, QuietType DEF Fetched, PageStored

-----------------------------------------------------------------------------
(* NextResult.                                                             *)

LEMMA BeginNextResultType == TypeOK /\ BeginNextResult => TypeOK'
  <1> SUFFICES ASSUME TypeOK, BeginNextResult PROVE TypeOK'
    OBVIOUS
  <1> DEFINE q == Received
  <1>1. Receive("NextResult") /\ "NextResult" \in QueryOps
    BY DEF BeginNextResult, QueryOps
  <1>2. q \in Queries /\ q \in Handles
    BY <1>1, ReceiveType
  <1>3. ActorOK'
    <2>1. Failure(q, "Failed") \in Seq(Step)
      BY <1>2, Answers DEF Reasons
    <2>2. Job("NextResult", q, "sql") \in Jobs
      BY <1>1, <1>2, JobType DEF Slots
    <2>3. \/ Become("select", Failure(q, "Failed"))
          \/ Begin(Job("NextResult", q, "sql"), "start", <<>>)
      BY DEF BeginNextResult
    <2> QED BY <2>1, <2>2, <2>3, BecomeType, BeginType, TypeFacts DEF Stages
  <1>4. active' \in [Slots -> Cursor]
    <2>1. active' = active \/ active' = [active EXCEPT !["sql"].timed = @ /\ Live("sql")]
      BY DEF BeginNextResult
    <2>2. active["sql"] \in Cursor /\ (active["sql"].timed /\ Live("sql")) \in BOOLEAN
      BY TypeFacts, CursorType
    <2>3. [active["sql"] EXCEPT !.timed = @ /\ Live("sql")] \in Cursor
      BY <2>2 DEF Cursor
    <2> QED BY <2>1, <2>3, TypeFacts
  <1>5. DataOK'
    BY <1>4, TypeFacts DEF BeginNextResult, DataOK
  <1> QED BY <1>1, <1>3, <1>5, ReceiveType

LEMMA NextResultFoundType == \A more \in BOOLEAN : TypeOK /\ NextResultFound(more) => TypeOK'
  <1> SUFFICES ASSUME NEW more \in BOOLEAN, TypeOK, NextResultFound(more) PROVE TypeOK'
    OBVIOUS
  <1>1. <<Ev("QueryFinished", job.query)>> \in Seq(Step) /\ <<>> \in Seq(Step)
    BY TypeFacts, Answers DEF EventTypes
  <1>2. \E s \in {"schema", "probe"} : \E steps \in Seq(Step) : Become(s, steps)
    BY <1>1 DEF NextResultFound
  <1> QED BY <1>2, MoveType DEF NextResultFound, Stages

LEMMA OpenNextResultType == \A pages \in 1..MaxPages : TypeOK /\ OpenNextResult(pages) => TypeOK'
  <1> SUFFICES ASSUME NEW pages \in 1..MaxPages, TypeOK, OpenNextResult(pages) PROVE TypeOK'
    OBVIOUS
  <1>1. <<State(job.query, "Running"), Ev("Schema", job.query)>> \in Seq(Step)
    <2>1. State(job.query, "Running") \in Step /\ Ev("Schema", job.query) \in Step
      BY TypeFacts, StateStep, EvStep DEF QueryStates, EventTypes
    <2> QED BY <2>1
  <1>2. ActorOK'
    BY <1>1, BecomeType, TypeFacts DEF OpenNextResult, Stages
  <1>3. active' \in [Slots -> Cursor]
    <2>1. active["sql"] \in Cursor /\ pages \in 0..MaxPages
      BY TypeFacts, CursorType
    <2>2. active' = [active EXCEPT !["sql"] = [active["sql"] EXCEPT !.completed = FALSE, !.left = pages]]
      BY <2>1, TypeFacts DEF OpenNextResult, Cursor
    <2>3. [active["sql"] EXCEPT !.completed = FALSE, !.left = pages] \in Cursor
      BY <2>1, CursorEdits
    <2> QED BY <2>2, <2>3, TypeFacts
  <1>4. DataOK'
    BY <1>3, TypeFacts DEF OpenNextResult, DataOK
  <1> QED BY <1>2, <1>4, QuietType DEF OpenNextResult

LEMMA RefuseNextResultType == \A why \in Reasons : TypeOK /\ RefuseNextResult(why) => TypeOK'
  BY MoveType, TypeFacts, Answers DEF RefuseNextResult, Stages

-----------------------------------------------------------------------------
(* Result views.                                                           *)

LEMMA ViewFailsType ==
    ASSUME TypeOK, NEW q \in Handles, ViewFails(q) PROVE ActorOK'
  <1>1. <<Ev("ViewFailed", q)>> \in Seq(Step)
    BY Answers DEF EventTypes
  <1> QED BY <1>1, BecomeType, TypeFacts DEF ViewFails, Stages

LEMMA BeginViewType == TypeOK /\ BeginView => TypeOK'
  <1> SUFFICES ASSUME TypeOK, BeginView PROVE TypeOK'
    OBVIOUS
  <1> DEFINE q == Received
  <1>1. Receive("View") /\ "View" \in QueryOps
    BY DEF BeginView, QueryOps
  <1>2. q \in Queries /\ q \in Handles
    BY <1>1, ReceiveType
  <1>3. Job("View", q, SlotOf(q)) \in Jobs /\ Job("View", q, SlotOf(q)).op = "View"
    BY <1>1, <1>2, JobType, CursorType, TypeFacts
  <1>4. ActorOK'
    <2>1. \/ ViewFails(q)
          \/ \E s \in {"start", "build"} : Begin(Job("View", q, SlotOf(q)), s, <<>>)
      BY DEF BeginView
    <2> QED BY <1>2, <1>3, <2>1, ViewFailsType, BeginType, TypeFacts DEF Stages
  <1>5. DataOK'
    BY TypeFacts DEF BeginView, DataOK
  <1> QED BY <1>1, <1>4, <1>5, ReceiveType

LEMMA ViewPageType == TypeOK /\ ViewPage => TypeOK'
  <1> SUFFICES ASSUME TypeOK, ViewPage PROVE TypeOK'
    OBVIOUS
  <1>1. <<Ev("ViewProgress", job.query)>> \in Seq(Step)
    BY TypeFacts, Answers DEF EventTypes
  <1>2. ActorOK'
    BY <1>1, BecomeType, TypeFacts DEF ViewPage, Stages
  <1>3. active' \in [Slots -> Cursor]
    <2>1. active' = [active EXCEPT ![job.slot] = [active[job.slot] EXCEPT !.left = PagesLeft]]
      BY TypeFacts DEF ViewPage, Cursor
    <2> QED BY <2>1, CursorEdits, PagesLeftType, TypeFacts
  <1>4. DataOK'
    BY <1>3, TypeFacts DEF ViewPage, PageStored, DataOK
  <1> QED BY <1>2, <1>4, QuietType DEF ViewPage, PageStored

LEMMA ScanType == TypeOK /\ Scan => TypeOK'
  <1> SUFFICES ASSUME TypeOK, Scan PROVE TypeOK'
    OBVIOUS
  <1>1. job.op = "View"
    BY DEF TypeOK, Scan, Ready
  <1>2. ActorOK'
    <2>1. \/ ViewFails(job.query)
          \/ Become("build", Complete(job.query))
          \/ Become("start", <<>>)
      BY DEF Scan
    <2>2. Complete(job.query) \in Seq(Step)
      BY TypeFacts, Answers
    <2> QED BY <1>1, <2>1, <2>2, ViewFailsType, BecomeType, TypeFacts DEF Stages
  <1>3. active' \in [Slots -> Cursor]
    <2>1. active' = active \/ active' = [active EXCEPT ![job.slot].completed = TRUE]
      BY DEF Scan
    <2>2. [active[job.slot] EXCEPT !.completed = TRUE] \in Cursor
      BY TypeFacts DEF Cursor
    <2> QED BY <2>1, <2>2, TypeFacts
  <1>4. DataOK'
    BY <1>3, TypeFacts DEF Scan, DataOK
  <1> QED BY <1>2, <1>4, QuietType DEF Scan

LEMMA BuildType == \A built \in BOOLEAN : TypeOK /\ Build(built) => TypeOK'
  <1> SUFFICES ASSUME NEW built \in BOOLEAN, TypeOK, Build(built) PROVE TypeOK'
    OBVIOUS
  <1>1. job.query \in Queries
    BY TypeFacts DEF TypeOK, Build, Ready, QueryOps
  <1>2. <<Ev("ViewProgress", job.query), Ev("ViewApplied", job.query)>> \in Seq(Step)
    <2>1. Ev("ViewProgress", job.query) \in Step /\ Ev("ViewApplied", job.query) \in Step
      BY TypeFacts, EvStep DEF EventTypes
    <2> QED BY <2>1
  <1>3. ActorOK'
    <2>1. \/ ViewFails(job.query)
          \/ Become("select", <<Ev("ViewProgress", job.query), Ev("ViewApplied", job.query)>>)
      BY DEF Build
    <2> QED BY <1>2, <2>1, ViewFailsType, BecomeType, TypeFacts DEF Stages
  <1>4. DataOK'
    BY <1>1, TypeFacts DEF Build, DataOK
  <1> QED BY <1>3, <1>4, QuietType DEF Build

LEMMA ClearViewType == TypeOK /\ ClearView => TypeOK'
  <1> SUFFICES ASSUME TypeOK, ClearView PROVE TypeOK'
    OBVIOUS
  <1>1. Receive("ClearView") /\ "ClearView" \in QueryOps
    BY DEF ClearView, QueryOps
  <1>2. Received \in Handles
    BY <1>1, ReceiveType
  <1>3. \E t \in {"ViewFailed", "ViewApplied"} : Become("select", <<Ev(t, Received)>>)
    BY DEF ClearView
  <1>4. ActorOK'
    BY <1>2, <1>3, Answers, BecomeType, TypeFacts DEF EventTypes, Stages
  <1>5. DataOK'
    BY TypeFacts DEF ClearView, DataOK
  <1> QED BY <1>1, <1>4, <1>5, ReceiveType

-----------------------------------------------------------------------------
(* The remaining commands.                                                 *)

LEMMA ReleaseQueryType == TypeOK /\ ReleaseQuery => TypeOK'
  <1> SUFFICES ASSUME TypeOK, ReleaseQuery PROVE TypeOK'
    OBVIOUS
  <1> DEFINE q == Received
             s == SlotOf(q)
             j == Job("Release", q, s)
  <1>1. Receive("Release") /\ "Release" \in QueryOps
    BY DEF ReleaseQuery, QueryOps
  <1>2. q \in Queries /\ s \in Slots
    BY <1>1, ReceiveType, CursorType, TypeFacts
  <1>3. j \in Jobs /\ active[s] \in Cursor
    BY <1>1, <1>2, JobType, TypeFacts
  <1>4. ActorOK'
    <2>1. \E steps \in {<<>>} \cup CloseSteps(active[s]) : Begin(j, "probe", steps)
      BY DEF ReleaseQuery
    <2>2. \A steps \in {<<>>} \cup CloseSteps(active[s]) : steps \in Seq(Step)
      BY <1>3, CloseStepsType, TypeFacts
    <2> QED BY <1>3, <2>1, <2>2, BeginType DEF Stages
  <1>5. active' \in [Slots -> Cursor]
    <2>1. active' = active \/ active' = [active EXCEPT ![s] = NoCursor]
      BY DEF ReleaseQuery
    <2> QED BY <1>2, <2>1, CursorType, TypeFacts
  <1>6. DataOK'
    BY <1>5, TypeFacts DEF ReleaseQuery, DataOK
  <1> QED BY <1>1, <1>4, <1>6, ReceiveType

LEMMA SqlModeType == TypeOK /\ (BeginSqlMode \/ SqlModeRead) => TypeOK'
  <1>1. ASSUME TypeOK, BeginSqlMode PROVE TypeOK'
    <2> DEFINE q == active["sql"].query
    <2>1. Receive("SqlMode") /\ "SqlMode" \in SessionOps
      BY <1>1 DEF BeginSqlMode, SessionOps
    <2>2. Job("SqlMode", q, "sql") \in Jobs
      BY <1>1, <2>1, JobType, CursorType, TypeFacts
    <2>3. \E s \in {"inspect", "start"} : Begin(Job("SqlMode", q, "sql"), s, <<>>)
      BY <1>1 DEF BeginSqlMode
    <2>4. ActorOK'
      BY <1>1, <2>2, <2>3, BeginType, TypeFacts DEF Stages
    <2>5. DataOK'
      BY <1>1, TypeFacts DEF BeginSqlMode, DataOK
    <2> QED BY <1>1, <2>1, <2>4, <2>5, ReceiveType
  <1>2. ASSUME TypeOK, SqlModeRead PROVE TypeOK'
    <2>1. <<Ev("SqlMode", NoQuery)>> \in Seq(Step)
      BY Answers DEF EventTypes, Handles
    <2> QED BY <1>2, <2>1, MoveType DEF SqlModeRead, Stages
  <1> QED BY <1>1, <1>2

LEMMA InspectType ==
    /\ TypeOK /\ (BeginInspect \/ DropInspect) => TypeOK'
    /\ \A answer \in BOOLEAN : TypeOK /\ Inspected(answer) => TypeOK'
  <1>1. ASSUME TypeOK, BeginInspect PROVE TypeOK'
    <2>1. Receive("Inspect") /\ "Inspect" \in SessionOps
      BY <1>1 DEF BeginInspect, SessionOps
    <2>2. Job("Inspect", NoQuery, "sql") \in Jobs
      BY <2>1, JobType DEF Handles, Slots
    <2>3. ActorOK'
      BY <1>1, <2>2, BeginType, TypeFacts DEF BeginInspect, Stages
    <2>4. DataOK'
      BY <1>1, TypeFacts DEF BeginInspect, DataOK
    <2> QED BY <1>1, <2>1, <2>3, <2>4, ReceiveType
  <1>2. ASSUME TypeOK, DropInspect \/ \E answer \in BOOLEAN : Inspected(answer) PROVE TypeOK'
    <2>1. \A t \in {"Reply", "SqlMode", "OperationFailed"} : <<Ev(t, NoQuery)>> \in Seq(Step)
      BY Answers DEF EventTypes, Handles
    <2>2. \E t \in {"Reply", "SqlMode", "OperationFailed"} : Become("select", <<Ev(t, NoQuery)>>)
      BY <1>2 DEF DropInspect, Inspected
    <2>3. Outside /\ UNCHANGED <<commands, accepting, abandoned, active, stored, views>>
      BY <1>2 DEF DropInspect, Inspected
    <2> QED BY <1>2, <2>1, <2>2, <2>3, MoveType DEF Stages
  <1> QED BY <1>1, <1>2

LEMMA LoadType ==
    /\ \A loaded \in BOOLEAN : TypeOK /\ LoadValue(loaded) => TypeOK'
    /\ \A waits \in BOOLEAN : TypeOK /\ BeginLoadChunk(waits) => TypeOK'
    /\ TypeOK /\ (LoadChunk \/ RefuseChunk) => TypeOK'
  <1>1. ASSUME NEW loaded \in BOOLEAN, TypeOK, LoadValue(loaded) PROVE TypeOK'
    <2>1. Receive("LoadValue") /\ "LoadValue" \in QueryOps
      BY <1>1 DEF LoadValue, QueryOps
    <2>2. Received \in Handles
      BY <1>1, <2>1, ReceiveType
    <2>3. \E steps \in Seq(Step) : Become("select", steps)
      <3>1. /\ <<Ev("Reply", Received)>> \in Seq(Step)
            /\ <<QueryFailed(Received, "Failed")>> \in Seq(Step)
        BY <2>2, Answers DEF EventTypes, Reasons
      <3> QED BY <1>1, <3>1 DEF LoadValue
    <2>4. ActorOK'
      BY <1>1, <2>3, BecomeType, TypeFacts DEF Stages
    <2>5. DataOK'
      BY <1>1, TypeFacts DEF LoadValue, DataOK
    <2> QED BY <1>1, <2>1, <2>4, <2>5, ReceiveType
  <1>2. ASSUME NEW waits \in BOOLEAN, TypeOK, BeginLoadChunk(waits) PROVE TypeOK'
    <2>1. Receive("LoadChunk") /\ "LoadChunk" \in QueryOps
      BY <1>2 DEF BeginLoadChunk, QueryOps
    <2>2. Received \in Handles /\ Received \in Queries
      BY <1>2, <2>1, ReceiveType
    <2>3. /\ <<Ev("Reply", Received)>> \in Seq(Step)
          /\ Job("LoadChunk", Received, "sql") \in Jobs
      BY <2>1, <2>2, Answers, JobType DEF EventTypes, Slots
    <2>4. \/ Begin(Job("LoadChunk", Received, "sql"), "reserve", <<>>)
          \/ Become("select", <<Ev("Reply", Received)>>)
      BY <1>2 DEF BeginLoadChunk
    <2>5. ActorOK'
      BY <1>2, <2>3, <2>4, BecomeType, BeginType, TypeFacts DEF Stages
    <2>6. DataOK'
      BY <1>2, TypeFacts DEF BeginLoadChunk, DataOK
    <2> QED BY <1>2, <2>1, <2>5, <2>6, ReceiveType
  <1>3. ASSUME TypeOK, LoadChunk \/ RefuseChunk PROVE TypeOK'
    <2>1. <<Ev("Reply", job.query)>> \in Seq(Step)
      BY <1>3, TypeFacts, Answers DEF EventTypes
    <2> QED BY <1>3, <2>1, MoveType DEF LoadChunk, RefuseChunk, Stages
  <1> QED BY <1>1, <1>2, <1>3

-----------------------------------------------------------------------------
(* The end of the actor.                                                   *)

LEMMA ExitType == TypeOK /\ Exit => TypeOK'
  <1> SUFFICES ASSUME TypeOK, Exit PROVE TypeOK'
    OBVIOUS
  <1> DEFINE sql == active["sql"].query
             object == active["object"].query
             first == IF sql = NoQuery THEN <<>>
                      ELSE <<Fail(sql, "Disconnected")>> \o Failure(sql, "Disconnected")
             second == IF object = NoQuery THEN <<>> ELSE Failure(object, "Disconnected")
             j == [NoJob EXCEPT !.why = "Disconnected"]
  <1>1. sql \in Handles /\ object \in Handles
    BY TypeFacts, CursorType
  <1>2. first \in Seq(Step) /\ second \in Seq(Step)
    <2>1. Fail(sql, "Disconnected") \in Step
      BY <1>1, FailStep DEF Reasons
    <2>2. Failure(sql, "Disconnected") \in Seq(Step) /\ Failure(object, "Disconnected") \in Seq(Step)
      BY <1>1, FailureSteps DEF Reasons
    <2> QED BY <2>1, <2>2
  <1>3. first \o second \in Seq(Step)
    BY <1>2
  <1>4. j \in Jobs
    BY DEF NoJob, Jobs, Handles, Slots, Reasons
  <1>5. Begin(j, "drain", first \o second)
    BY DEF Exit
  <1>6. ActorOK'
    <2> HIDE DEF first, second, j
    <2> QED BY <1>3, <1>4, <1>5, BeginType DEF Stages
  <1>7. DataOK'
    <2>1. NoCursor \in Cursor
      BY DEF NoCursor, Cursor, Handles
    <2> QED BY <2>1, TypeFacts DEF Exit, DataOK
  <1> QED BY <1>6, <1>7, OutsideType DEF Exit, TypeOK

LEMMA DrainCommandType == TypeOK /\ DrainCommand => TypeOK'
  <1> SUFFICES ASSUME TypeOK, DrainCommand PROVE TypeOK'
    OBVIOUS
  <1> DEFINE q == Received
             steps == IF Head(commands).op # "Execute" THEN <<>>
                      ELSE <<Fail(q, "Disconnected")>>
                           \o (IF stage = "refuse" THEN <<>> ELSE Failure(q, "Disconnected"))
  <1>1. commands \in Seq(Command) /\ commands # <<>>
    BY DEF TypeOK, DrainCommand
  <1>2. Tail(commands) \in Seq(Command) /\ q \in Handles
    BY <1>1, ReceivedType
  <1>3. Fail(q, "Disconnected") \in Step /\ Failure(q, "Disconnected") \in Seq(Step)
    BY <1>2, FailStep, FailureSteps DEF Reasons
  <1>4. steps \in Seq(Step)
    BY <1>3
  <1>5. Become(stage, steps) /\ stage \in {"refuse", "drain"}
    BY DEF DrainCommand
  <1>6. ActorOK'
    <2> HIDE DEF steps
    <2> QED BY <1>4, <1>5, BecomeType, TypeFacts DEF Stages
  <1>7. DataOK'
    BY TypeFacts DEF DrainCommand, DataOK
  <1> QED BY <1>2, <1>6, <1>7, OutsideType DEF DrainCommand, TypeOK

LEMMA EndType == TypeOK /\ (Drained \/ Return) => TypeOK'
  <1> SUFFICES ASSUME TypeOK, Drained \/ Return PROVE TypeOK'
    OBVIOUS
  <1>1. \A t \in {"Disconnected", "ConnectionFailed"} : <<Ev(t, NoQuery)>> \in Seq(Step)
    BY Answers DEF EventTypes, Handles
  <1>2. \E s \in {"final", "stopped"} : \E steps \in Seq(Step) : Become(s, steps)
    <2>1. CASE Drained
      <3>1. \E t \in {"Disconnected", "ConnectionFailed"} : Become("final", <<Ev(t, NoQuery)>>)
        BY <2>1 DEF Drained
      <3> QED BY <1>1, <3>1
    <2>2. CASE Return
      BY <2>2, TypeFacts DEF Return
    <2> QED BY <2>1, <2>2
  <1>3. Outside /\ UNCHANGED <<commands, accepting, abandoned, active, stored, views>>
    BY DEF Drained, Return
  <1> QED BY <1>2, <1>3, MoveType DEF Stages

-----------------------------------------------------------------------------
(* All steps together.                                                     *)

LEMMA ReceiveCommandType == TypeOK /\ ReceiveCommand => TypeOK'
  BY BeginExecuteType, BeginNextResultType, BeginViewType, ClearViewType, ReleaseQueryType,
     SqlModeType, InspectType, BeginFetchType, LoadType
     DEF ReceiveCommand

LEMMA DrivenType == TypeOK /\ Driven => TypeOK'
  <1> SUFFICES ASSUME TypeOK, Driven PROVE TypeOK'
    OBVIOUS
  <1>1. ASSUME NEW yes \in BOOLEAN,
               \/ RecordHistory(yes) \/ FreeTicket(yes) \/ Settle(yes) \/ Build(yes)
               \/ Discard(yes)
        PROVE  TypeOK'
    BY <1>1, RecordType, FreeTicketType, PerformType, BuildType, DiscardType
  <1>2. ASSUME NEW why \in Reasons,
               \/ ObjectStop(why) \/ Preflight(why) \/ Interrupt(why) \/ RefuseExecute(why)
               \/ RefuseNextResult(why)
               \/ \E yes \in BOOLEAN : IdleStop(why, yes) \/ RefuseFetch(why, yes)
        PROVE  TypeOK'
    BY <1>2, ObjectStopType, PerformType, InterruptType, RefuseExecuteType, RefuseNextResultType,
       IdleStopType, RefuseFetchType
  <1>3. ASSUME SendEvent \/ ConnectOk \/ ConnectEnds \/ ObserveStop \/ ReceiveCommand
               \/ Start \/ DropObjectRead \/ DropInspect \/ DropInquiry \/ SkipProbe \/ RefuseChunk
        PROVE  TypeOK'
    BY <1>3, SendType, ConnectOkType, ConnectEndsType, ObserveStopType, ReceiveCommandType,
       StartType, PerformType, InspectType, InquiryType, SkipProbeType, LoadType
  <1>4. ASSUME CheckExecute \/ Scan \/ Exit \/ DrainCommand \/ Drained \/ Return
        PROVE  TypeOK'
    BY <1>4, CheckExecuteType, ScanType, ExitType, DrainCommandType, EndType
  <1> QED BY <1>1, <1>2, <1>3, <1>4 DEF Driven

LEMMA AwaitedType == TypeOK /\ Awaited => TypeOK'
  <1> SUFFICES ASSUME TypeOK, Awaited PROVE TypeOK'
    OBVIOUS
  <1>1. {"Failed", "Disconnected"} \subseteq Reasons
    BY DEF Reasons
  <1>2. ASSUME GrantExecute \/ GrantNextPage \/ Fetched \/ ViewPage \/ SqlModeRead \/ LoadChunk
        PROVE  TypeOK'
    BY <1>2, GrantExecuteType, GrantPageType, FetchedType, ViewPageType, SqlModeType, LoadType
  <1>3. ASSUME \E yes \in BOOLEAN : \/ Executed(yes) \/ GrantSavedPage(yes)
                                   \/ NextResultFound(yes) \/ Inspected(yes)
                                   \/ Inquired(yes) \/ Probe(yes)
        PROVE  TypeOK'
    BY <1>3, ExecutedType, GrantPageType, NextResultFoundType, InspectType, InquiryType, ProbeType
  <1>4. ASSUME \/ \E why \in {"Failed", "Disconnected"} : WorkFails(why)
               \/ RefuseNextResult("Failed")
        PROVE  TypeOK'
    BY <1>1, <1>4, PerformType, RefuseNextResultType
  <1>5. ASSUME \E pages \in 1..MaxPages : OpenCursor(pages) \/ OpenNextResult(pages)
        PROVE  TypeOK'
    BY <1>5, OpenCursorType, OpenNextResultType
  <1> QED BY <1>2, <1>3, <1>4, <1>5 DEF Awaited

LEMMA NextType == TypeOK /\ [Next]_vars => TypeOK'
  <1> SUFFICES ASSUME TypeOK, [Next]_vars PROVE TypeOK'
    OBVIOUS
  <1>1. CASE ForwardShutdown
    BY <1>1 DEF ForwardShutdown, TypeOK, caller, actor, ledger
  <1>2. CASE UNCHANGED vars
    BY <1>2 DEF vars, TypeOK, caller, signals, actor, ledger
  <1> QED BY <1>1, <1>2, CallerType, DrivenType, AwaitedType DEF Next

\* Whatever the caller does and however its requests, signals and events interleave
\* with the actor (core/src/lib.rs, actor.rs): a job always names the query its
\* command was for, a cursor its pages, and the channels carry nothing else.
THEOREM TypeCorrect == Spec => []TypeOK
  BY InitType, NextType, PTL DEF Spec

-----------------------------------------------------------------------------
(* A cancelled statement never runs.  Only Start lets a job into the       *)
(* database, and it looks at the signals in the same step; what is needed  *)
(* besides is that the read of an object, which watches neither signal, is *)
(* never the job of a statement.                                           *)

SlotOK == job.op = "Execute" /\ job.slot = "object" => job.query \in Objects

\* A step after which the job is not in the database, and still of its kind.
Elsewhere ==
    /\ stage' \notin {"work", "settle"}
    /\ SlotOK => SlotOK'

LEMMA BecomeElsewhere ==
    ASSUME NEW s, s \notin {"work", "settle"}, NEW steps, Become(s, steps) PROVE Elsewhere
  BY NoJobType DEF Become, Elsewhere, SlotOK

LEMMA BeginElsewhere ==
    ASSUME NEW j, j.op # "Execute", NEW s, s \notin {"work", "settle"}, NEW steps, Begin(j, s, steps)
    PROVE  Elsewhere
  BY DEF Begin, Elsewhere, SlotOK

LEMMA AbortElsewhere == \A why, bad : Abort(why, bad) => Elsewhere
  BY BecomeElsewhere DEF Abort

LEMMA ReceiveElsewhere == ReceiveCommand => Elsewhere
  <1>1. ASSUME BeginExecute PROVE Elsewhere
    <2> DEFINE q == Received
               s == IF q \in Objects THEN "object" ELSE "sql"
    <2>1. PICK steps : Begin(Job("Execute", q, s), "execute", steps)
      BY <1>1 DEF BeginExecute
    <2>2. s = "object" => q \in Objects
      OBVIOUS
    <2> HIDE DEF s, q
    <2> QED BY <2>1, <2>2 DEF Begin, Job, Elsewhere, SlotOK
  <1>2. ASSUME NEW yes \in BOOLEAN, BeginFetch(yes) \/ LoadValue(yes) \/ BeginLoadChunk(yes)
        PROVE  Elsewhere
    BY <1>2, BecomeElsewhere, BeginElsewhere, JobType DEF BeginFetch, LoadValue, BeginLoadChunk
  <1>3. ASSUME BeginNextResult \/ BeginView \/ ClearView PROVE Elsewhere
    BY <1>3, BecomeElsewhere, BeginElsewhere, JobType
       DEF BeginNextResult, BeginView, ClearView, ViewFails
  <1>4. ASSUME ReleaseQuery \/ BeginSqlMode \/ BeginInspect PROVE Elsewhere
    BY <1>4, BeginElsewhere, JobType DEF ReleaseQuery, BeginSqlMode, BeginInspect
  <1> QED BY <1>1, <1>2, <1>3, <1>4 DEF ReceiveCommand

LEMMA DrivenMoves ==
    Driven => Elsewhere \/ UNCHANGED <<stage, job>> \/ Start \/ \E why \in Reasons : Interrupt(why)
  <1> SUFFICES ASSUME Driven, ~Start, \A why \in Reasons : ~Interrupt(why)
               PROVE  Elsewhere \/ UNCHANGED <<stage, job>>
    OBVIOUS
  <1>1. ASSUME NEW yes \in BOOLEAN, RecordHistory(yes) \/ FreeTicket(yes) \/ Discard(yes)
        PROVE  UNCHANGED <<stage, job>>
    BY <1>1 DEF RecordHistory, FreeTicket, Discard, actor
  <1>2. ASSUME NEW yes \in BOOLEAN, Settle(yes) \/ Build(yes) PROVE Elsewhere
    BY <1>2, AbortElsewhere, BecomeElsewhere DEF Settle, Build, ViewFails
  <1>3. ASSUME NEW why \in Reasons,
               \/ ObjectStop(why) \/ Preflight(why) \/ RefuseExecute(why) \/ RefuseNextResult(why)
        PROVE  Elsewhere
    BY <1>3, AbortElsewhere, BecomeElsewhere
       DEF ObjectStop, Preflight, RefuseExecute, RefuseNextResult, Unstarted
  <1>4. ASSUME NEW why \in Reasons, NEW yes \in BOOLEAN, IdleStop(why, yes) \/ RefuseFetch(why, yes)
        PROVE  Elsewhere
    BY <1>4, BecomeElsewhere DEF IdleStop, RefuseFetch
  <1>5. ASSUME SendEvent \/ DropInquiry PROVE UNCHANGED <<stage, job>>
    BY <1>5 DEF SendEvent, DropInquiry
  <1>6. ASSUME ConnectEnds \/ Exit PROVE Elsewhere
    <2>1. \A why : [NoJob EXCEPT !.why = why].op # "Execute"
      BY DEF NoJob
    <2> QED BY <1>6, <2>1, BeginElsewhere DEF ConnectEnds, Exit
  <1>7. ASSUME \/ ConnectOk \/ ObserveStop \/ DropObjectRead \/ DropInspect \/ SkipProbe
               \/ RefuseChunk
        PROVE  Elsewhere
    BY <1>7, AbortElsewhere, BecomeElsewhere
       DEF ConnectOk, ObserveStop, DropObjectRead, DropInspect, SkipProbe, RefuseChunk
  <1>8. ASSUME CheckExecute \/ Scan \/ DrainCommand \/ Drained \/ Return PROVE Elsewhere
    BY <1>8, BecomeElsewhere DEF CheckExecute, Unstarted, Scan, ViewFails, DrainCommand, Drained, Return
  <1> QED BY <1>1, <1>2, <1>3, <1>4, <1>5, <1>6, <1>7, <1>8, ReceiveElsewhere DEF Driven

LEMMA AwaitedMoves == Awaited => Elsewhere \/ UNCHANGED <<stage, job>>
  <1> SUFFICES ASSUME Awaited, \A known \in BOOLEAN : ~Inquired(known) PROVE Elsewhere
    BY DEF Inquired
  <1>1. ASSUME GrantExecute \/ GrantNextPage \/ Fetched \/ ViewPage \/ SqlModeRead \/ LoadChunk
        PROVE  Elsewhere
    BY <1>1, BecomeElsewhere DEF GrantExecute, GrantNextPage, Fetched, ViewPage, SqlModeRead, LoadChunk
  <1>2. ASSUME NEW yes \in BOOLEAN,
               \/ Executed(yes) \/ GrantSavedPage(yes) \/ NextResultFound(yes)
               \/ Inspected(yes) \/ Probe(yes)
        PROVE  Elsewhere
    BY <1>2, BecomeElsewhere
       DEF Executed, Unstarted, GrantSavedPage, NextResultFound, Inspected, Probe
  <1>3. ASSUME NEW why, WorkFails(why) \/ RefuseNextResult(why) PROVE Elsewhere
    BY <1>3, AbortElsewhere, BecomeElsewhere DEF WorkFails, RefuseNextResult
  <1>4. ASSUME NEW pages, OpenCursor(pages) \/ OpenNextResult(pages) PROVE Elsewhere
    BY <1>4, BecomeElsewhere DEF OpenCursor, OpenNextResult
  <1> QED BY <1>1, <1>2, <1>3, <1>4 DEF Awaited

LEMMA CallerMoves == CallerStep \/ ForwardShutdown => UNCHANGED <<stage, job>>
  BY DEF CallerStep, ForwardShutdown, Execute, Disconnect, Shutdown, ReadEvent, Reserve, NextResult,
         ApplyView, CancelView, Cancel, Release, Request, Ask, actor

LEMMA InterruptMoves ==
    ASSUME job \in Jobs, NEW why, Interrupt(why)
    PROVE  stage = "work" /\ job'.op = job.op /\ job'.query = job.query /\ job'.slot = job.slot
  BY DEF Interrupt, Begin, Ready, Jobs

LEMMA StartMoves == Start => job' = job /\ ~stop /\ ~JobCancelled
  BY DEF Start, Become, MayProceed

LEMMA NextMoves ==
    TypeOK /\ [Next]_vars =>
        \/ Elsewhere \/ UNCHANGED <<stage, job>> \/ Start
        \/ /\ stage = "work" /\ job'.op = job.op
           /\ job'.query = job.query /\ job'.slot = job.slot
  <1> SUFFICES ASSUME TypeOK, [Next]_vars,
                      ~Elsewhere, ~(UNCHANGED <<stage, job>>), ~Start
               PROVE  /\ stage = "work" /\ job'.op = job.op
                      /\ job'.query = job.query /\ job'.slot = job.slot
    OBVIOUS
  <1>1. ~(UNCHANGED vars)
    BY DEF vars, actor
  <1>2. PICK why \in Reasons : Interrupt(why)
    BY <1>1, DrivenMoves, AwaitedMoves, CallerMoves DEF Next
  <1> QED BY <1>2, InterruptMoves, TypeFacts

LEMMA SlotStep == TypeOK /\ SlotOK /\ [Next]_vars => SlotOK'
  BY NextMoves, StartMoves DEF SlotOK, Elsewhere

LEMMA CancelStep ==
    TypeOK /\ SlotOK /\ [Next]_vars =>
        [\A q \in Queries \ Objects :
            ~InDatabase(q) /\ InDatabase(q)' => q \notin cancelled /\ ~stop]_vars
  <1> SUFFICES ASSUME TypeOK, SlotOK, [Next]_vars, NEW q \in Queries \ Objects,
                      ~InDatabase(q), InDatabase(q)'
               PROVE  q \notin cancelled /\ ~stop
    OBVIOUS
  <1>1. ~Elsewhere /\ ~(UNCHANGED <<stage, job>>)
    BY DEF InDatabase, Elsewhere
  <1>2. Start
    BY <1>1, NextMoves DEF InDatabase
  <1>3. job.op = "Execute" /\ job.query = q /\ ~stop /\ ~JobCancelled
    BY <1>2, StartMoves DEF InDatabase
  <1>4. ~ObjectRead
    BY <1>3 DEF SlotOK, ObjectRead
  <1> QED BY <1>3, <1>4 DEF JobCancelled

\* A statement that was cancelled before it reached the database never reaches it,
\* nor does one after the stop (actor.rs, execute; operation.rs, perform), for any
\* number of statements, channel capacities and requests in between.
THEOREM CancelledStatementsNeverRun == Spec => CancelledNeverRuns
  <1>1. Init => SlotOK
    BY NoJobType DEF Init, SlotOK
  <1>2. TypeOK /\ SlotOK /\ [Next]_vars =>
            [\A q \in Queries \ Objects :
                ~InDatabase(q) /\ InDatabase(q)' => q \notin cancelled /\ ~stop]_vars
    BY CancelStep
  <1> QED BY <1>1, <1>2, SlotStep, TypeCorrect, PTL DEF Spec, CancelledNeverRuns
=============================================================================
