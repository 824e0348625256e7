------------------------- MODULE QueryResults_proofs -------------------------
(***************************************************************************)
(* What a caller may conclude from what it sees of a query: that no later  *)
(* command runs beside an unsettled one, that a finished statement is      *)
(* recorded, that a view is over a settled result and that a released      *)
(* query is freed (core/src/actor.rs, operation.rs, query_history.rs).     *)
(***************************************************************************)
EXTENDS QueryTickets_proofs

USE QueryAssumption, KindAssumption, OpsAssumption, BoundAssumption

-----------------------------------------------------------------------------
(* No command after an unsettled call.                                     *)

\* The stages from which the actor does not come back to the select loop.
Ending == {"exit", "refuse", "drain", "final", "stopped"}
Ended == abandoned => stage \in Ending
\* Nobody asks for a view: its drain goes on after a call that did not settle.
Viewless ==
    /\ job.op # "View"
    /\ \A i \in 1..Len(commands) : commands[i].op # "View"
SettleInv == Ended /\ Viewless

LEMMA TailViewless ==
    ASSUME TypeOK, Viewless, commands # <<>>
    PROVE  /\ Head(commands).op # "View"
           /\ \A i \in 1..Len(Tail(commands)) : Tail(commands)[i].op # "View"
  <1>1. commands \in Seq(Command)
    BY DEF TypeOK
  <1>2. Head(commands) = commands[1] /\ 1 \in 1..Len(commands)
    BY <1>1
  <1>3. \A i \in 1..Len(Tail(commands)) : i + 1 \in 1..Len(commands) /\ Tail(commands)[i] = commands[i + 1]
    BY <1>1
  <1> QED BY <1>2, <1>3 DEF Viewless

\* What is settled, or goes on with the job it has.
LEMMA BecomeSettled ==
    ASSUME SettleInv, UNCHANGED commands, NEW s, NEW steps, Become(s, steps),
           abandoned' => s \in Ending
    PROVE  SettleInv'
  <1>1. NoJob.op # "View"
    BY DEF NoJob
  <1>2. Viewless'
    BY <1>1 DEF SettleInv, Viewless, Become
  <1> QED BY <1>2 DEF SettleInv, Ended, Become

LEMMA AbortSettled ==
    ASSUME SettleInv, UNCHANGED commands, NEW why, NEW bad \in BOOLEAN, Abort(why, bad),
           abandoned' => bad
    PROVE  SettleInv'
  <1>1. job.op # "View" /\ "exit" \in Ending
    BY DEF SettleInv, Viewless, Ending
  <1>2. \E s, steps : Become(s, steps) /\ (bad => s = "exit")
    BY <1>1 DEF Abort
  <1> QED BY <1>1, <1>2, BecomeSettled

LEMMA ReceiveSettled == TypeOK /\ SettleInv /\ ReceiveCommand => SettleInv'
  <1> SUFFICES ASSUME TypeOK, SettleInv, ReceiveCommand PROVE SettleInv'
    OBVIOUS
  <1>1. /\ commands # <<>> /\ commands' = Tail(commands) /\ stage = "select"
        /\ abandoned' = abandoned
    BY DEF ReceiveCommand, BeginExecute, BeginNextResult, BeginView, ClearView, ReleaseQuery,
           BeginSqlMode, BeginInspect, BeginFetch, LoadValue, BeginLoadChunk, Receive, Ready
  <1>2. ~abandoned'
    BY <1>1 DEF SettleInv, Ended, Ending
  <1>3. ~BeginView /\ \A i \in 1..Len(commands') : commands'[i].op # "View"
    BY <1>1, TailViewless DEF SettleInv, BeginView, Receive
  <1>4. /\ NoJob.op # "View"
        /\ \A op, q, s : Job(op, q, s).op = op
    BY DEF NoJob, Job
  <1>5. job'.op # "View"
    <2>1. ASSUME NEW s, NEW steps, Become(s, steps) PROVE job'.op # "View"
      BY <1>4, <2>1 DEF Become, SettleInv, Viewless
    <2>2. ASSUME NEW op, op # "View", NEW q, NEW slot, NEW s, NEW steps,
                 Begin(Job(op, q, slot), s, steps)
          PROVE  job'.op # "View"
      BY <1>4, <2>2 DEF Begin
    <2>3. ASSUME NEW yes \in BOOLEAN, BeginFetch(yes) \/ LoadValue(yes) \/ BeginLoadChunk(yes)
          PROVE  job'.op # "View"
      BY <2>1, <2>2, <2>3 DEF BeginFetch, LoadValue, BeginLoadChunk
    <2>4. ASSUME BeginExecute \/ BeginNextResult \/ ClearView PROVE job'.op # "View"
      BY <2>1, <2>2, <2>4 DEF BeginExecute, BeginNextResult, ClearView
    <2>5. ASSUME ReleaseQuery \/ BeginSqlMode \/ BeginInspect PROVE job'.op # "View"
      BY <2>2, <2>5 DEF ReleaseQuery, BeginSqlMode, BeginInspect
    <2> QED BY <1>3, <2>3, <2>4, <2>5 DEF ReceiveCommand
  <1> QED BY <1>2, <1>3, <1>5 DEF SettleInv, Ended, Viewless

\* The loop body: nothing is abandoned there but by the settlement itself.
LEMMA BodySettled ==
    ASSUME SettleInv, UNCHANGED <<commands, abandoned>>, stage \notin Ending,
           NEW s, NEW steps, Become(s, steps)
    PROVE  SettleInv'
  BY BecomeSettled DEF SettleInv, Ended

LEMMA DrivenSettled == TypeOK /\ SettleInv /\ Driven => SettleInv'
  <1> SUFFICES ASSUME TypeOK, SettleInv, Driven PROVE SettleInv'
    OBVIOUS
  <1> USE DEF Ready
  <1>a. \A s \in {"connecting", "select", "execute", "reserve", "start", "work", "settle",
                  "schema", "scan", "build", "inspect", "probe"} : s \notin Ending
    BY DEF Ending
  <1>1. ASSUME NEW yes \in BOOLEAN,
               SendEvent \/ DropInquiry \/ RecordHistory(yes) \/ FreeTicket(yes)
        PROVE  SettleInv'
    <2>1. UNCHANGED <<stage, job, commands, abandoned>>
      BY <1>1 DEF SendEvent, DropInquiry, RecordHistory, FreeTicket, ledger
    <2> QED BY <2>1 DEF SettleInv, Ended, Viewless
  <1>2. ASSUME NEW yes \in BOOLEAN, Discard(yes) PROVE SettleInv'
    BY <1>2, TailViewless DEF Discard, actor, SettleInv, Ended, Viewless
  <1>3. ASSUME NEW yes \in BOOLEAN, Settle(yes) PROVE SettleInv'
    <2>1. ~abandoned /\ (~yes) \in BOOLEAN
      BY <1>3, <1>a DEF Settle, SettleInv, Ended
    <2> QED BY <1>3, <2>1, AbortSettled DEF Settle
  <1>4. ASSUME NEW yes \in BOOLEAN, Build(yes) PROVE SettleInv'
    BY <1>4, <1>a, BodySettled DEF Build, ViewFails
  <1>5. ASSUME NEW why \in Reasons, ObjectStop(why) \/ RefuseExecute(why) \/ RefuseNextResult(why)
        PROVE  SettleInv'
    BY <1>5, <1>a, BodySettled DEF ObjectStop, RefuseExecute, Unstarted, RefuseNextResult
  <1>6. ASSUME DropObjectRead \/ \E why \in Reasons : Preflight(why) PROVE SettleInv'
    <2>1. ~abandoned'
      BY <1>6, <1>a DEF Preflight, DropObjectRead, SettleInv, Ended
    <2> QED BY <1>6, <2>1, AbortSettled DEF Preflight, DropObjectRead
  <1>7. ASSUME NEW why \in Reasons, Interrupt(why) PROVE SettleInv'
    <2>1. job'.op = job.op
      BY <1>7, InterruptMoves, TypeFacts
    <2>2. ~abandoned' /\ commands' = commands
      BY <1>7, <1>a DEF Interrupt, SettleInv, Ended
    <2> QED BY <2>1, <2>2 DEF SettleInv, Ended, Viewless
  <1>8. ASSUME NEW why \in Reasons, NEW yes \in BOOLEAN, IdleStop(why, yes) \/ RefuseFetch(why, yes)
        PROVE  SettleInv'
    BY <1>8, <1>a, BodySettled DEF IdleStop, RefuseFetch
  <1>9. ASSUME ConnectOk \/ ObserveStop \/ Start \/ DropInspect \/ SkipProbe \/ RefuseChunk
        PROVE  SettleInv'
    BY <1>9, <1>a, BodySettled DEF ConnectOk, ObserveStop, Start, DropInspect, SkipProbe, RefuseChunk
  <1>10. ASSUME CheckExecute \/ Scan PROVE SettleInv'
    BY <1>10, <1>a, BodySettled DEF CheckExecute, Unstarted, Scan, ViewFails
  <1>11. ASSUME ConnectEnds \/ Exit PROVE SettleInv'
    <2>1. \A why : [NoJob EXCEPT !.why = why].op # "View"
      BY DEF NoJob
    <2>2. stage' \in Ending /\ job'.op # "View" /\ commands' = commands
      BY <1>11, <2>1 DEF ConnectEnds, Exit, Begin, Ending
    <2> QED BY <2>2 DEF SettleInv, Ended, Viewless
  <1>12. ASSUME DrainCommand PROVE SettleInv'
    <2>1. stage' \in Ending /\ job'.op = job.op /\ commands' = Tail(commands) /\ commands # <<>>
      BY <1>12 DEF DrainCommand, Become, Ending
    <2> QED BY <2>1, TailViewless DEF SettleInv, Ended, Viewless
  <1>13. ASSUME Drained \/ Return PROVE SettleInv'
    BY <1>13, BecomeSettled DEF Drained, Return, Ending
  <1> QED
    BY <1>1, <1>2, <1>3, <1>4, <1>5, <1>6, <1>7, <1>8, <1>9, <1>10, <1>11, <1>12, <1>13,
       ReceiveSettled DEF Driven

LEMMA AwaitedSettled == TypeOK /\ SettleInv /\ Awaited => SettleInv'
  <1> SUFFICES ASSUME TypeOK, SettleInv, Awaited PROVE SettleInv'
    OBVIOUS
  <1> USE DEF Ready
  <1>a. \A s \in {"reserve", "work", "schema", "inspect", "probe"} : s \notin Ending
    BY DEF Ending
  <1>1. ASSUME GrantExecute \/ GrantNextPage \/ SqlModeRead \/ LoadChunk PROVE SettleInv'
    BY <1>1, <1>a, BodySettled DEF GrantExecute, GrantNextPage, SqlModeRead, LoadChunk
  <1>2. ASSUME Fetched \/ ViewPage PROVE SettleInv'
    BY <1>2, <1>a, BodySettled DEF Fetched, ViewPage, PageStored
  <1>3. ASSUME NEW yes \in BOOLEAN,
               \/ Executed(yes) \/ GrantSavedPage(yes) \/ NextResultFound(yes)
               \/ Inspected(yes) \/ Probe(yes)
        PROVE  SettleInv'
    BY <1>3, <1>a, BodySettled
       DEF Executed, Unstarted, GrantSavedPage, NextResultFound, Inspected, Probe
  <1>4. ASSUME NEW why, WorkFails(why) PROVE SettleInv'
    <2>1. ~abandoned'
      BY <1>4, <1>a DEF WorkFails, SettleInv, Ended
    <2> QED BY <1>4, <2>1, AbortSettled DEF WorkFails
  <1>5. ASSUME NEW pages, RefuseNextResult("Failed") \/ OpenCursor(pages) \/ OpenNextResult(pages)
        PROVE  SettleInv'
    BY <1>5, <1>a, BodySettled DEF RefuseNextResult, OpenCursor, OpenNextResult
  <1>6. ASSUME NEW known \in BOOLEAN, Inquired(known) PROVE SettleInv'
    <2>1. UNCHANGED <<stage, job, commands, abandoned>>
      BY <1>6 DEF Inquired, ledger
    <2> QED BY <2>1 DEF SettleInv, Ended, Viewless
  <1> QED BY <1>1, <1>2, <1>3, <1>4, <1>5, <1>6 DEF Awaited

LEMMA CallerSettled ==
    "View" \notin Ops /\ TypeOK /\ SettleInv /\ (CallerStep \/ ForwardShutdown) => SettleInv'
  <1> SUFFICES ASSUME "View" \notin Ops, TypeOK, SettleInv, CallerStep \/ ForwardShutdown
               PROVE  SettleInv'
    OBVIOUS
  <1>1. UNCHANGED <<stage, job, abandoned>>
    BY CallerMoves DEF CallerStep, ForwardShutdown, Execute, Disconnect, Shutdown, ReadEvent, Reserve,
       NextResult, ApplyView, CancelView, Cancel, Release, Request, Ask, ledger
  <1>2. \/ commands' = commands
        \/ \E c : commands' = Append(commands, c) /\ c.op # "View"
    <2>1. \A op, q : Cmd(op, q).op = op
      BY DEF Cmd
    <2> QED BY <2>1
        DEF CallerStep, ForwardShutdown, Execute, Disconnect, Shutdown, ReadEvent, Reserve,
            NextResult, ApplyView, CancelView, Cancel, Release, Request, Ask
  <1>3. \A i \in 1..Len(commands') : commands'[i].op # "View"
    <2>1. commands \in Seq(Command)
      BY DEF TypeOK
    <2>2. ASSUME NEW c, commands' = Append(commands, c), c.op # "View"
          PROVE  \A i \in 1..Len(commands') : commands'[i].op # "View"
      <3>1. /\ Len(commands') = Len(commands) + 1 /\ commands'[Len(commands) + 1] = c
            /\ \A i \in 1..Len(commands) : commands'[i] = commands[i]
        BY <2>1, <2>2
      <3> QED BY <2>2, <3>1 DEF SettleInv, Viewless
    <2> QED BY <1>2, <2>2 DEF SettleInv, Viewless
  <1> QED BY <1>1, <1>3 DEF SettleInv, Ended, Viewless

\* operation.rs: as long as nobody asks for a view, no later command starts before a
\* driver call that was stopped and its cancellation have both settled; a call that
\* does not settle in time ends the connection.  (A view is the exception: the run
\* actor_unsettled_view shows it.)
THEOREM CallsSettleBeforeTheNext == "View" \notin Ops => (Spec => []SettledBeforeNextCall)
  <1> SUFFICES ASSUME "View" \notin Ops PROVE Spec => []SettledBeforeNextCall
    OBVIOUS
  <1>1. Init => SettleInv
    BY DEF Init, SettleInv, Ended, Viewless, NoJob
  <1>2. TypeOK /\ SettleInv /\ [Next]_vars => SettleInv'
    <2>1. TypeOK /\ SettleInv /\ UNCHANGED vars => SettleInv'
      BY DEF vars, SettleInv, Ended, Viewless, actor, ledger
    <2> QED BY <2>1, CallerSettled, DrivenSettled, AwaitedSettled DEF Next
  <1>3. SettleInv => SettledBeforeNextCall
    BY DEF SettleInv, Ended, Ending, SettledBeforeNextCall
  <1> QED BY <1>1, <1>2, <1>3, TypeCorrect, PTL DEF Spec

-----------------------------------------------------------------------------
(* What the actor awaits: whom its steps concern.                          *)

\* The steps finish nobody, and settle no ticket but that of q.
OnlyOf(steps, q) ==
    \A i \in 1..Len(steps) :
        /\ steps[i].type # "QueryFinished"
        /\ steps[i].type \in {"record", "drop"} => steps[i].query = q

LEMMA OnlyOne ==
    ASSUME NEW e, NEW q, e.type # "QueryFinished", e.type \in {"record", "drop"} => e.query = q
    PROVE  OnlyOf(<<e>>, q)
  <1>1. \A i \in 1..Len(<<e>>) : <<e>>[i] = e
    OBVIOUS
  <1> QED BY <1>1 DEF OnlyOf

LEMMA OnlyNone == \A q : OnlyOf(<<>>, q)
  BY DEF OnlyOf

LEMMA OnlyJoin ==
    ASSUME NEW s \in Seq(Step), NEW t \in Seq(Step), NEW q, OnlyOf(s, q), OnlyOf(t, q)
    PROVE  OnlyOf(s \o t, q)
  <1> SUFFICES ASSUME NEW i \in 1..Len(s \o t)
               PROVE  /\ (s \o t)[i].type # "QueryFinished"
                      /\ (s \o t)[i].type \in {"record", "drop"} => (s \o t)[i].query = q
    BY DEF OnlyOf
  <1>1. Len(s) \in Nat /\ Len(t) \in Nat /\ Len(s \o t) = Len(s) + Len(t)
    OBVIOUS
  <1>2. CASE i <= Len(s)
    <2>1. i \in 1..Len(s) /\ (s \o t)[i] = s[i]
      BY <1>1, <1>2
    <2> QED BY <2>1 DEF OnlyOf
  <1>3. CASE ~(i <= Len(s))
    <2>1. i - Len(s) \in 1..Len(t) /\ (s \o t)[i] = t[i - Len(s)]
      BY <1>1, <1>3
    <2> QED BY <2>1 DEF OnlyOf
  <1> QED BY <1>2, <1>3

\* Answers concern no ticket at all; a failure that is recorded only its own.
LEMMA QuietAnswers ==
    \A q \in Handles : \A r :
        /\ \A t \in EventTypes \ {"QueryFinished"} : OnlyOf(<<Ev(t, q)>>, r)
        /\ \A s \in QueryStates : OnlyOf(<<State(q, s)>>, r)
        /\ \A why \in Reasons : OnlyOf(<<QueryFailed(q, why)>>, r) /\ OnlyOf(Failure(q, why), r)
  <1> SUFFICES ASSUME NEW q \in Handles, NEW r
               PROVE  /\ \A t \in EventTypes \ {"QueryFinished"} : OnlyOf(<<Ev(t, q)>>, r)
                      /\ \A s \in QueryStates : OnlyOf(<<State(q, s)>>, r)
                      /\ \A why \in Reasons : /\ OnlyOf(<<QueryFailed(q, why)>>, r)
                                              /\ OnlyOf(Failure(q, why), r)
    OBVIOUS
  <1>1. ASSUME NEW t \in EventTypes \ {"QueryFinished"} PROVE OnlyOf(<<Ev(t, q)>>, r)
    BY OnlyOne DEF Ev, EventTypes
  <1>2. ASSUME NEW s PROVE OnlyOf(<<State(q, s)>>, r)
    BY OnlyOne DEF State
  <1>3. ASSUME NEW why PROVE OnlyOf(<<QueryFailed(q, why)>>, r)
    BY OnlyOne DEF QueryFailed
  <1>4. ASSUME NEW why \in Reasons PROVE OnlyOf(Failure(q, why), r)
    <2> DEFINE st == IF why = "Disconnected" THEN "Disconnected" ELSE "Failed"
    <2>1. <<State(q, st)>> \in Seq(Step) /\ <<QueryFailed(q, why)>> \in Seq(Step)
      <3>1. State(q, st) \in Step /\ QueryFailed(q, why) \in Step
        BY StateStep, FailedStep DEF QueryStates
      <3> QED BY <3>1
    <2>2. OnlyOf(<<State(q, st)>> \o <<QueryFailed(q, why)>>, r)
      BY <1>2, <1>3, <2>1, OnlyJoin
    <2>3. Failure(q, why) = <<State(q, st)>> \o <<QueryFailed(q, why)>>
      BY DEF Failure
    <2> QED BY <2>2, <2>3
  <1> QED BY <1>1, <1>2, <1>3, <1>4

LEMMA StateSteps == \A q \in Handles : \A s \in QueryStates : <<State(q, s)>> \in Seq(Step)
  <1> SUFFICES ASSUME NEW q \in Handles, NEW s \in QueryStates PROVE <<State(q, s)>> \in Seq(Step)
    OBVIOUS
  <1>1. State(q, s) \in Step
    BY StateStep
  <1> QED BY <1>1

LEMMA FailsOnly ==
    \A q \in Handles : \A why \in Reasons : \A steps \in Seq(Step) :
        OnlyOf(steps, q) =>
            /\ <<Fail(q, why)>> \o steps \in Seq(Step)
            /\ OnlyOf(<<Fail(q, why)>> \o steps, q)
  <1> SUFFICES ASSUME NEW q \in Handles, NEW why \in Reasons, NEW steps \in Seq(Step), OnlyOf(steps, q)
               PROVE  /\ <<Fail(q, why)>> \o steps \in Seq(Step)
                      /\ OnlyOf(<<Fail(q, why)>> \o steps, q)
    OBVIOUS
  <1>1. <<Fail(q, why)>> \in Seq(Step)
    <2>1. Fail(q, why) \in Step
      BY FailStep
    <2> QED BY <2>1
  <1>2. OnlyOf(<<Fail(q, why)>>, q)
    BY OnlyOne DEF Fail, Record
  <1>3. <<Fail(q, why)>> \o steps \in Seq(Step)
    BY <1>1
  <1>4. OnlyOf(<<Fail(q, why)>> \o steps, q)
    BY <1>1, <1>2, OnlyJoin
  <1> QED BY <1>3, <1>4

-----------------------------------------------------------------------------
(* How the actor moves: four shapes that most of its steps have.           *)

NextStages == {"start", "work", "settle", "schema"}
ViewStages == {"start", "work", "settle", "scan", "build"}

\* The job goes on, is given up or is done with; cursors and stores stay as they are.
Says(s, steps) ==
    \/ OnlyOf(steps, NoQuery)
    \/ Executing /\ s \notin ExecuteStages /\ OnlyOf(steps, job.query)
    \/ job.op = "NextResult" /\ s = "probe" /\ steps = <<Ev("QueryFinished", job.query)>>
Goes ==
    /\ UNCHANGED <<commands, active, stored, views>>
    /\ \E s \in Stages : \E steps \in Seq(Step) :
        /\ Become(s, steps) /\ Says(s, steps) /\ s # "execute"
        /\ job.op = "Execute" /\ s \in ExecuteStages =>
                Executing /\ stage # "schema" /\ s # "schema"
        /\ job.op = "NextResult" /\ s \in NextStages => stage \in NextStages
        /\ job.op = "View" /\ s \in ViewStages => s # "build" /\ stage \in ViewStages
        /\ job.op \in {"Fetch", "View"} /\ s \in CursorStages => stage \in CursorStages \/ JobLive
        /\ stage \in Ending => s \in Ending
        /\ stage = "probe" => s = "select"

\* A cursor is closed on behalf of its query.
Closes(slot) ==
    /\ UNCHANGED <<commands, stored, views>>
    /\ stage \notin Ending \cup {"probe"} /\ ~Executing
    /\ active' = [active EXCEPT ![slot] = NoCursor]
    /\ \E s \in {"select", "exit", "probe"} : \E steps \in Seq(Step) :
        Become(s, steps) /\ OnlyOf(steps, active[slot].query)

\* A command is answered at once.
Replies ==
    /\ stage = "select" /\ commands # <<>> /\ commands' = Tail(commands)
    /\ Head(commands).op # "Release"
    /\ UNCHANGED <<active, stored>> /\ views' \subseteq views
    /\ \E steps \in Seq(Step) : Become("select", steps) /\ OnlyOf(steps, NoQuery)

\* A command begins that is neither a statement nor a release.
Begins(j) ==
    /\ stage = "select" /\ commands # <<>> /\ commands' = Tail(commands)
    /\ Head(commands).op # "Release"
    /\ UNCHANGED <<stored, views>>
    /\ \A s \in Slots : /\ active'[s].query = active[s].query
                        /\ active'[s].completed = active[s].completed
    /\ j.op \notin {"Execute", "Release", "none"}
    /\ j.query \in {Received, NoQuery, active["sql"].query}
    /\ j.op = "NextResult" =>
            /\ Head(commands) = Cmd("NextResult", j.query)
            /\ j.slot = "sql" /\ active["sql"].query = j.query
    /\ \E s \in {"start", "build", "reserve", "inspect"} :
        /\ Begin(j, s, <<>>) /\ (j.op = "Fetch" => s = "reserve")
        /\ j.op = "View" =>
                /\ stored[j.query] # "none"
                /\ s = "build" => ~(OwnsCursor(j.query, SlotOf(j.query)) /\ Live(SlotOf(j.query)))
                /\ s # "build" => Live(j.slot)

Shaped == Goes \/ (\E slot \in Slots : Closes(slot)) \/ Replies \/ (\E j \in Jobs : Begins(j))

\* A step that leaves everything but stage, job and the steps alone.
LEMMA GoesBy ==
    ASSUME UNCHANGED <<commands, active, stored, views>>,
           NEW s \in Stages \ {"execute"}, NEW steps \in Seq(Step), Become(s, steps),
           OnlyOf(steps, NoQuery),
           job.op = "Execute" /\ s \in ExecuteStages =>
                Executing /\ stage # "schema" /\ s # "schema",
           job.op = "NextResult" /\ s \in NextStages => stage \in NextStages,
           job.op = "View" /\ s \in ViewStages => s # "build" /\ stage \in ViewStages,
           job.op \in {"Fetch", "View"} /\ s \in CursorStages => stage \in CursorStages \/ JobLive,
           stage \in Ending => s \in Ending, stage = "probe" => s = "select"
    PROVE  Shaped
  BY DEF Shaped, Goes, Says

\* A step that answers and turns the loop, from a stage of its own.
LEMMA TurnsBy ==
    ASSUME UNCHANGED <<commands, active, stored, views>>, stage \notin Ending,
           NEW steps \in Seq(Step), Become("select", steps), OnlyOf(steps, NoQuery)
    PROVE  Shaped
  BY GoesBy DEF Stages, ExecuteStages, NextStages, ViewStages, CursorStages

\* A statement is given up.
LEMMA GivenUpBy ==
    ASSUME UNCHANGED <<commands, active, stored, views>>, Executing,
           NEW s \in {"select", "exit", "probe"}, NEW steps \in Seq(Step), Become(s, steps),
           OnlyOf(steps, job.query)
    PROVE  Shaped
  <1>1. s \in Stages /\ s \notin ExecuteStages \cup NextStages \cup ViewStages \cup CursorStages
    BY DEF Stages, ExecuteStages, NextStages, ViewStages, CursorStages
  <1>2. stage \notin Ending /\ stage # "probe"
    BY DEF Executing, ExecuteStages, Ending
  <1> QED BY <1>1, <1>2 DEF Shaped, Goes, Says

LEMMA AbortShaped ==
    ASSUME TypeOK, TicketInv, NEW why \in Reasons, NEW bad \in BOOLEAN, Abort(why, bad),
           stage \in {"start", "work", "settle"}, UNCHANGED <<commands, stored, views>>
    PROVE  Shaped
  <1> DEFINE q == job.query
             next == IF bad THEN "exit" ELSE "probe"
             reports == Failure(q, why)
  <1>1. q \in Handles /\ reports \in Seq(Step) /\ job.slot \in Slots /\ OnlyOf(reports, q)
    BY TypeFacts, FailureSteps, QuietAnswers
  <1>2. next \in {"exit", "probe"}
    OBVIOUS
  <1>3. <<Fail(q, why)>> \o reports \in Seq(Step) /\ OnlyOf(<<Fail(q, why)>> \o reports, q)
    BY <1>1, FailsOnly
  <1>4. job.op \in {"Fetch", "SqlMode"} => active[job.slot].query = q
    BY DEF TicketInv, OnCursor, CursorStages
  <1>5. stage \notin Ending \cup {"probe"} /\ (job.op # "Execute" => ~Executing)
    BY DEF Ending, Executing
  <1>6. CASE job.op = "Execute"
    <2> DEFINE state == IF bad \/ why = "Disconnected" THEN <<>> ELSE <<Inquire>>
    <2>1. Become(next, <<Fail(q, why)>> \o state \o reports)
      BY <1>6 DEF Abort
    <2>2. state \in Seq(Step) /\ OnlyOf(state, q)
      <3>1. <<>> \in Seq(Step) /\ <<Inquire>> \in Seq(Step)
        BY InquireStep
      <3>2. OnlyOf(<<>>, q) /\ OnlyOf(<<Inquire>>, q)
        BY OnlyNone, OnlyOne DEF Inquire
      <3> QED BY <3>1, <3>2
    <2> HIDE DEF state
    <2>3. <<Fail(q, why)>> \o state \in Seq(Step) /\ OnlyOf(<<Fail(q, why)>> \o state, q)
      BY <1>1, <2>2, FailsOnly
    <2>4. OnlyOf(<<Fail(q, why)>> \o state \o reports, q)
      BY <1>1, <2>3, OnlyJoin
    <2>5. <<Fail(q, why)>> \o state \o reports \in Seq(Step)
      BY <1>1, <2>3
    <2>6. Executing /\ active' = active
      BY <1>6 DEF Executing, ExecuteStages, Abort
    <2> QED BY <1>2, <2>1, <2>4, <2>5, <2>6, GivenUpBy
  <1>7. CASE job.op = "Fetch"
    <2>1. /\ Become(next, <<Fail(q, why)>> \o reports)
          /\ active' = [active EXCEPT ![job.slot] = NoCursor]
      BY <1>7 DEF Abort
    <2>2. Closes(job.slot)
      BY <1>2, <1>3, <1>4, <1>5, <1>7, <2>1 DEF Closes
    <2> QED BY <1>1, <2>2 DEF Shaped
  <1>8. CASE job.op = "SqlMode"
    <2> DEFINE steps == <<Fail(q, why)>> \o reports \o <<Ev("OperationFailed", NoQuery)>>
               s == IF bad THEN "exit" ELSE "select"
    <2>1. Become(s, steps) /\ active' = [active EXCEPT ![job.slot] = NoCursor]
      BY <1>8 DEF Abort
    <2>2. /\ <<Ev("OperationFailed", NoQuery)>> \in Seq(Step)
          /\ OnlyOf(<<Ev("OperationFailed", NoQuery)>>, q)
      BY Answers, QuietAnswers DEF EventTypes, Handles
    <2>3. OnlyOf(steps, q)
      BY <1>3, <2>2, OnlyJoin
    <2>4. steps \in Seq(Step) /\ s \in {"select", "exit", "probe"}
      BY <1>3, <2>2
    <2> HIDE DEF steps, s
    <2>5. Closes(job.slot)
      BY <1>4, <1>5, <1>8, <2>1, <2>3, <2>4 DEF Closes
    <2> QED BY <1>1, <2>5 DEF Shaped
  <1>9. CASE job.op = "View"
    <2>1. Become("select", <<Ev("ViewFailed", q)>>) /\ active' = active
      BY <1>9 DEF Abort
    <2>2. <<Ev("ViewFailed", q)>> \in Seq(Step) /\ OnlyOf(<<Ev("ViewFailed", q)>>, NoQuery)
      BY <1>1, Answers, QuietAnswers DEF EventTypes
    <2> QED BY <1>5, <2>1, <2>2, TurnsBy
  <1>10. CASE job.op \notin {"Execute", "Fetch", "SqlMode", "View"}
    <2>1. Become(next, reports) /\ active' = active
      BY <1>10 DEF Abort
    <2>2. /\ next \in Stages
          /\ next \notin NextStages \cup ExecuteStages \cup ViewStages \cup CursorStages
      BY DEF Stages, NextStages, ExecuteStages, ViewStages, CursorStages
    <2>3. OnlyOf(reports, NoQuery)
      BY <1>1, QuietAnswers
    <2> QED BY <1>1, <1>5, <2>1, <2>2, <2>3, GoesBy
  <1> QED BY <1>6, <1>7, <1>8, <1>9, <1>10

\* The loop: it connects, observes the stop, or gives up an idle cursor.
LEMMA LoopShaped ==
    ASSUME TypeOK, \/ ConnectOk \/ ObserveStop \/ Drained \/ Return
                   \/ \E why \in Reasons : ObjectStop(why)
                   \/ \E why \in Reasons : \E settled \in BOOLEAN : IdleStop(why, settled)
    PROVE  Shaped
  <1>1. CASE ConnectOk
    <2>1. \A t \in {"Connected", "SqlMode"} :
            <<Ev(t, NoQuery)>> \in Seq(Step) /\ OnlyOf(<<Ev(t, NoQuery)>>, NoQuery)
      BY Answers, QuietAnswers DEF EventTypes, Handles
    <2>2. PICK mode \in {<<>>, <<Ev("SqlMode", NoQuery)>>} :
            Become("select", <<Ev("Connected", NoQuery)>> \o mode)
      BY <1>1 DEF ConnectOk
    <2>3. mode \in Seq(Step) /\ OnlyOf(mode, NoQuery)
      BY <2>1, <2>2, OnlyNone, TypeFacts
    <2>4. /\ OnlyOf(<<Ev("Connected", NoQuery)>> \o mode, NoQuery)
          /\ <<Ev("Connected", NoQuery)>> \o mode \in Seq(Step)
      <3>1. OnlyOf(<<Ev("Connected", NoQuery)>> \o mode, NoQuery)
        BY <2>1, <2>3, OnlyJoin
      <3>2. <<Ev("Connected", NoQuery)>> \in Seq(Step)
        BY <2>1
      <3>3. <<Ev("Connected", NoQuery)>> \o mode \in Seq(Step)
        BY <2>3, <3>2
      <3> QED BY <3>1, <3>3
    <2> QED BY <1>1, <2>2, <2>4, TurnsBy DEF ConnectOk, Ready, Ending
  <1>2. CASE ObserveStop \/ Return
    <2>1. <<>> \in Seq(Step) /\ OnlyOf(<<>>, NoQuery)
      BY OnlyNone, TypeFacts
    <2> QED BY <1>2, <2>1, GoesBy
        DEF ObserveStop, Return, Ready, Stages, ExecuteStages, NextStages, ViewStages, CursorStages,
            Ending
  <1>3. CASE Drained
    <2>1. PICK t \in {"Disconnected", "ConnectionFailed"} : Become("final", <<Ev(t, NoQuery)>>)
      BY <1>3 DEF Drained
    <2>2. <<Ev(t, NoQuery)>> \in Seq(Step) /\ OnlyOf(<<Ev(t, NoQuery)>>, NoQuery)
      BY Answers, QuietAnswers DEF EventTypes, Handles
    <2> QED BY <1>3, <2>1, <2>2, GoesBy
        DEF Drained, Stages, ExecuteStages, NextStages, ViewStages, CursorStages, Ending
  <1>4. ASSUME NEW why \in Reasons, ObjectStop(why) PROVE Shaped
    <2> DEFINE q == active["object"].query
               first == IF why = "Cancelled" THEN <<State(q, "Cancelling")>> ELSE <<>>
    <2>1. q \in Handles /\ "object" \in Slots
      BY TypeFacts, CursorType
    <2>2. first \in Seq(Step) /\ OnlyOf(first, q)
      <3>1. <<State(q, "Cancelling")>> \in Seq(Step) /\ OnlyOf(<<State(q, "Cancelling")>>, q)
        BY <2>1, StateSteps, QuietAnswers DEF QueryStates
      <3> QED BY <3>1, OnlyNone
    <2>3. Failure(q, why) \in Seq(Step) /\ OnlyOf(Failure(q, why), q)
      BY <2>1, FailureSteps, QuietAnswers
    <2>4. first \o Failure(q, why) \in Seq(Step) /\ OnlyOf(first \o Failure(q, why), q)
      <3> HIDE DEF first, q
      <3>1. first \o Failure(q, why) \in Seq(Step)
        BY <2>2, <2>3
      <3>2. OnlyOf(first \o Failure(q, why), q)
        BY <2>2, <2>3, OnlyJoin
      <3> QED BY <3>1, <3>2
    <2>5. Become("select", first \o Failure(q, why)) /\ stage = "select"
      BY <1>4 DEF ObjectStop, Ready
    <2>6. /\ UNCHANGED <<commands, stored, views>>
          /\ active' = [active EXCEPT !["object"] = NoCursor]
      BY <1>4 DEF ObjectStop
    <2>7. Closes("object")
      <3> HIDE DEF first
      <3> QED BY <2>4, <2>5, <2>6 DEF Closes, Ending, Executing, ExecuteStages
    <2> QED BY <2>1, <2>7 DEF Shaped
  <1>5. ASSUME NEW why \in Reasons, NEW settled \in BOOLEAN, IdleStop(why, settled) PROVE Shaped
    <2> DEFINE q == active["sql"].query
               rest == <<Fail(q, why)>> \o Failure(q, why)
               steps == <<State(q, "Cancelling"), Fail(q, why)>> \o Failure(q, why)
               s == IF settled THEN "select" ELSE "exit"
    <2>1. q \in Handles /\ "sql" \in Slots
      BY TypeFacts, CursorType
    <2>2. <<State(q, "Cancelling")>> \in Seq(Step) /\ OnlyOf(<<State(q, "Cancelling")>>, q)
      BY <2>1, StateSteps, QuietAnswers DEF QueryStates
    <2>3. rest \in Seq(Step) /\ OnlyOf(rest, q)
      BY <2>1, FailureSteps, QuietAnswers, FailsOnly
    <2>4. steps = <<State(q, "Cancelling")>> \o rest
      <3>1. State(q, "Cancelling") \in Step /\ Fail(q, why) \in Step /\ Failure(q, why) \in Seq(Step)
        BY <2>1, StateStep, FailStep, FailureSteps DEF QueryStates
      <3> QED BY <3>1
    <2>5. steps \in Seq(Step) /\ OnlyOf(steps, q)
      <3> HIDE DEF rest, steps, q
      <3>1. <<State(q, "Cancelling")>> \o rest \in Seq(Step)
        BY <2>2, <2>3
      <3>2. OnlyOf(<<State(q, "Cancelling")>> \o rest, q)
        BY <2>2, <2>3, OnlyJoin
      <3> QED BY <2>4, <3>1, <3>2
    <2>6. Become(s, steps) /\ stage = "select" /\ s \in {"select", "exit", "probe"}
      BY <1>5 DEF IdleStop, Ready
    <2>7. /\ UNCHANGED <<commands, stored, views>>
          /\ active' = [active EXCEPT !["sql"] = NoCursor]
      BY <1>5 DEF IdleStop
    <2>8. Closes("sql")
      <3> HIDE DEF steps, s
      <3> QED BY <2>5, <2>6, <2>7 DEF Closes, Ending, Executing, ExecuteStages
    <2> QED BY <2>1, <2>8 DEF Shaped
  <1> QED BY <1>1, <1>2, <1>3, <1>4, <1>5

LEMMA PerformShaped ==
    ASSUME TypeOK, TicketInv,
           \/ Start \/ DropObjectRead
           \/ \E why \in Reasons : Preflight(why) \/ WorkFails(why)
           \/ \E settled \in BOOLEAN : Settle(settled)
    PROVE  Shaped
  <1>1. CASE Start
    <2>1. <<>> \in Seq(Step) /\ OnlyOf(<<>>, NoQuery)
      BY OnlyNone, TypeFacts
    <2>2. stage = "start" /\ job.op = "Execute" => Executing
      BY DEF Executing, ExecuteStages
    <2> QED BY <1>1, <2>1, <2>2, GoesBy
        DEF Start, Ready, Stages, ExecuteStages, NextStages, ViewStages, CursorStages, Ending
  <1>2. CASE DropObjectRead \/ \E why \in Reasons : Preflight(why) \/ WorkFails(why)
    BY <1>2, AbortShaped DEF DropObjectRead, Preflight, WorkFails, Ready, Reasons
  <1>3. ASSUME NEW settled \in BOOLEAN, Settle(settled) PROVE Shaped
    <2>1. job.why \in Reasons /\ (~settled) \in BOOLEAN
      BY TypeFacts
    <2> QED BY <1>3, <2>1, AbortShaped DEF Settle, Ready
  <1> QED BY <1>1, <1>2, <1>3

\* A statement before its cursor is open.
LEMMA UnstartedShaped ==
    ASSUME TypeOK, NEW why \in Reasons, Unstarted(why), UNCHANGED <<commands, active, stored, views>>,
           Executing
    PROVE  Shaped
  <1>1. /\ <<Fail(job.query, why)>> \o Failure(job.query, why) \in Seq(Step)
        /\ OnlyOf(<<Fail(job.query, why)>> \o Failure(job.query, why), job.query)
    BY TypeFacts, FailureSteps, QuietAnswers, FailsOnly
  <1> QED BY <1>1, GivenUpBy DEF Unstarted

LEMMA ExecuteShaped ==
    ASSUME TypeOK, TicketInv,
           \/ CheckExecute /\ job.op = "Execute"
           \/ GrantExecute \/ Executed(FALSE) \/ \E why \in Reasons : RefuseExecute(why)
    PROVE  Shaped
  <1>1. Executing
    BY DEF CheckExecute, GrantExecute, Executed, RefuseExecute, Ready, Executing, ExecuteStages
  <1>2. CASE \E why \in Reasons : Unstarted(why)
    <2>1. UNCHANGED <<commands, active, stored, views>>
      BY DEF CheckExecute, GrantExecute, Executed, RefuseExecute
    <2> QED BY <1>1, <1>2, <2>1, UnstartedShaped
  <1>3. CASE CheckExecute /\ Become("reserve", <<>>)
    <2>1. <<>> \in Seq(Step) /\ OnlyOf(<<>>, NoQuery)
      BY OnlyNone, TypeFacts
    <2> QED BY <1>1, <1>3, <2>1, GoesBy
        DEF CheckExecute, Ready, Stages, NextStages, ViewStages, CursorStages, Ending
  <1>4. CASE GrantExecute
    <2>1. /\ <<State(job.query, "Running")>> \in Seq(Step)
          /\ OnlyOf(<<State(job.query, "Running")>>, NoQuery)
      BY TypeFacts, StateSteps, QuietAnswers DEF QueryStates
    <2> QED BY <1>1, <1>4, <2>1, GoesBy
        DEF GrantExecute, Ready, Stages, NextStages, ViewStages, CursorStages, Ending
  <1> QED BY <1>2, <1>3, <1>4 DEF CheckExecute, Executed, RefuseExecute, Reasons

\* The wait for page memory, and the session's state after a command.
LEMMA FetchShaped ==
    ASSUME TypeOK, TicketInv,
           \/ GrantNextPage \/ \E found \in BOOLEAN : GrantSavedPage(found)
           \/ \E why \in Reasons : \E settled \in BOOLEAN : RefuseFetch(why, settled)
    PROVE  Shaped
  <1>1. /\ job.op = "Fetch" /\ stage = "reserve" /\ job.query \in Handles /\ job.slot \in Slots
        /\ UNCHANGED <<commands, stored, views>> /\ ~Executing /\ stage \notin Ending \cup {"probe"}
    BY TypeFacts DEF GrantNextPage, GrantSavedPage, RefuseFetch, Ready, Ending, Executing
  <1>2. /\ <<Ev("Page", job.query)>> \in Seq(Step) /\ OnlyOf(<<Ev("Page", job.query)>>, NoQuery)
        /\ \A why \in Reasons :
                /\ <<QueryFailed(job.query, why)>> \in Seq(Step)
                /\ OnlyOf(<<QueryFailed(job.query, why)>>, NoQuery)
                /\ Failure(job.query, why) \in Seq(Step) /\ OnlyOf(Failure(job.query, why), NoQuery)
    BY <1>1, Answers, QuietAnswers DEF EventTypes
  <1>3. ASSUME NEW steps \in Seq(Step), OnlyOf(steps, NoQuery), Become("select", steps),
               UNCHANGED active
        PROVE  Shaped
    BY <1>1, <1>3, TurnsBy
  <1>4. CASE \E found \in BOOLEAN : GrantSavedPage(found)
    BY <1>2, <1>3, <1>4 DEF GrantSavedPage, JobFailure, Reasons
  <1>5. CASE GrantNextPage
    <2>1. CASE JobLive /\ Become("start", <<>>)
      <3>1. <<>> \in Seq(Step) /\ OnlyOf(<<>>, NoQuery)
        BY OnlyNone, TypeFacts
      <3> QED BY <1>1, <1>5, <2>1, <3>1, GoesBy DEF GrantNextPage, Stages
    <2>2. CASE Become("select", Failure(job.query, "Failed")) \/ Become("select", JobFailure)
      BY <1>2, <1>3, <1>5, <2>2 DEF GrantNextPage, JobFailure, Reasons
    <2> QED BY <1>5, <2>1, <2>2 DEF GrantNextPage
  <1>6. ASSUME NEW why \in Reasons, NEW settled \in BOOLEAN, RefuseFetch(why, settled) PROVE Shaped
    <2>1. CASE ~JobLive
      BY <1>2, <1>3, <1>6, <2>1 DEF RefuseFetch
    <2>2. CASE JobLive
      <3> DEFINE q == job.query
                 steps == Failure(q, why) \o <<Drop(q)>>
                 s == IF settled THEN "select" ELSE "exit"
      <3>1. Become(s, steps) /\ active' = [active EXCEPT ![job.slot] = NoCursor]
        BY <1>6, <2>2 DEF RefuseFetch
      <3>2. active[job.slot].query = q /\ q \in Queries
        BY <1>1, <2>2, TypeFacts DEF JobLive, OwnsCursor, QueryOps
      <3>3. <<Drop(q)>> \in Seq(Step)
        <4>1. Drop(q) \in Step
          BY <3>2, DropStep
        <4> QED BY <4>1
      <3>4. OnlyOf(<<Drop(q)>>, q)
        BY OnlyOne DEF Drop
      <3>5. Failure(q, why) \in Seq(Step) /\ OnlyOf(Failure(q, why), q)
        BY <1>1, FailureSteps, QuietAnswers
      <3>6. steps \in Seq(Step)
        BY <3>3, <3>5
      <3>7. OnlyOf(steps, q)
        BY <3>3, <3>4, <3>5, OnlyJoin
      <3>8. s \in {"select", "exit", "probe"}
        OBVIOUS
      <3>9. Closes(job.slot)
        <4> HIDE DEF steps, s
        <4> QED BY <1>1, <3>1, <3>2, <3>6, <3>7, <3>8 DEF Closes
      <3> QED BY <1>1, <3>9 DEF Shaped
    <2> QED BY <2>1, <2>2
  <1> QED BY <1>4, <1>5, <1>6

\* A further result, as long as it is not opened.
LEMMA NextResultShaped ==
    ASSUME TypeOK, \/ \E more \in BOOLEAN : NextResultFound(more)
                   \/ \E why \in Reasons : RefuseNextResult(why)
    PROVE  Shaped
  <1>1. CASE NextResultFound(TRUE)
    <2>1. <<>> \in Seq(Step) /\ OnlyOf(<<>>, NoQuery)
      BY OnlyNone, TypeFacts
    <2> QED BY <1>1, <2>1, GoesBy DEF NextResultFound, Ready, Stages, NextStages, Ending
  <1>2. CASE NextResultFound(FALSE)
    <2>1. <<Ev("QueryFinished", job.query)>> \in Seq(Step)
      BY TypeFacts, Answers DEF EventTypes
    <2>2. /\ UNCHANGED <<commands, active, stored, views>> /\ stage = "work"
          /\ job.op = "NextResult" /\ Become("probe", <<Ev("QueryFinished", job.query)>>)
      BY <1>2 DEF NextResultFound, Ready
    <2> QED BY <2>1, <2>2
        DEF Shaped, Goes, Says, Stages, NextStages, ViewStages, CursorStages, Ending
  <1>3. ASSUME NEW why \in Reasons, RefuseNextResult(why) PROVE Shaped
    <2>1. Failure(job.query, why) \in Seq(Step) /\ OnlyOf(Failure(job.query, why), NoQuery)
      BY TypeFacts, FailureSteps, QuietAnswers
    <2> QED BY <1>3, <2>1, GoesBy
        DEF RefuseNextResult, Ready, Stages, ExecuteStages, NextStages, ViewStages, CursorStages, Ending
  <1> QED BY <1>1, <1>2, <1>3

\* Views, values and session requests: the steps that only answer, or go on.
LEMMA AnswersShaped ==
    ASSUME TypeOK,
           \/ Build(FALSE) \/ (Scan /\ (job.query \in viewCancelled \/ JobCursor.left # 0))
           \/ SqlModeRead \/ DropInspect \/ SkipProbe \/ LoadChunk \/ RefuseChunk
           \/ \E yes \in BOOLEAN : Inspected(yes) \/ Probe(yes)
    PROVE  Shaped
  <1>a. Scan => job.query \in viewCancelled \/ JobCursor.left # 0
    BY DEF Scan, Build, SqlModeRead, DropInspect, SkipProbe, LoadChunk, RefuseChunk, Inspected, Probe,
           Ready
  <1>1. /\ stage \notin Ending
        /\ UNCHANGED <<commands, stored, views>> /\ active' = active
    BY <1>a DEF Build, Scan, SqlModeRead, DropInspect, SkipProbe, LoadChunk, RefuseChunk, Inspected,
                Probe, Ready, Ending
  <1>2. \A q \in {job.query, NoQuery} : \A t \in {"ViewFailed", "SqlMode", "Reply", "OperationFailed"} :
            <<Ev(t, q)>> \in Seq(Step) /\ OnlyOf(<<Ev(t, q)>>, NoQuery)
    BY TypeFacts, Answers, QuietAnswers DEF EventTypes, Handles
  <1>3. <<>> \in Seq(Step) /\ OnlyOf(<<>>, NoQuery)
    BY OnlyNone, TypeFacts
  <1>4. CASE \E steps \in Seq(Step) : Become("select", steps) /\ OnlyOf(steps, NoQuery)
    BY <1>1, <1>4, TurnsBy
  <1>5. CASE Scan /\ Become("start", <<>>)
    <2>1. job.op = "View" /\ stage = "scan"
      BY <1>5 DEF TypeOK, Scan, Ready
    <2> QED BY <1>1, <1>3, <1>5, <2>1, GoesBy DEF Stages, NextStages, ViewStages, CursorStages
  <1>6. CASE Scan
    <2>1. ViewFails(job.query) \/ Become("start", <<>>)
      BY <1>6, <1>a DEF Scan
    <2> QED BY <1>2, <1>4, <1>5, <1>6, <2>1 DEF ViewFails
  <1> QED
    BY <1>2, <1>3, <1>4, <1>6
    DEF Build, ViewFails, SqlModeRead, DropInspect, SkipProbe, LoadChunk, RefuseChunk, Inspected, Probe

LEMMA ReceivesShaped ==
    ASSUME TypeOK,
           \/ BeginNextResult \/ BeginView \/ ClearView \/ BeginSqlMode \/ BeginInspect
           \/ \E yes \in BOOLEAN : BeginFetch(yes) \/ LoadValue(yes) \/ BeginLoadChunk(yes)
    PROVE  Shaped
  <1> DEFINE q == Received
             sql == active["sql"].query
  <1>1. /\ stage = "select" /\ commands # <<>> /\ commands' = Tail(commands) /\ stored' = stored
        /\ commands \in Seq(Command) /\ Head(commands).op # "Release"
    BY DEF BeginNextResult, BeginView, ClearView, BeginSqlMode, BeginInspect, BeginFetch, LoadValue,
           BeginLoadChunk, Receive, Ready, TypeOK
  <1>2. /\ q \in Handles /\ sql \in Handles /\ <<>> \in Seq(Step)
        /\ Head(commands).op \in QueryOps => q \in Queries
        /\ Head(commands) = Cmd(Head(commands).op, q)
    <2>1. Head(commands) \in Command
      BY <1>1
    <2>2. Head(commands) = Cmd(Head(commands).op, q)
      BY <2>1 DEF Command, Cmd, Received
    <2> QED BY <1>1, <2>2, TypeFacts, CursorType, ReceivedType
  <1>3. /\ \A t \in EventTypes \ {"QueryFinished"} :
                <<Ev(t, q)>> \in Seq(Step) /\ OnlyOf(<<Ev(t, q)>>, NoQuery)
        /\ <<QueryFailed(q, "Failed")>> \in Seq(Step) /\ OnlyOf(<<QueryFailed(q, "Failed")>>, NoQuery)
        /\ Failure(q, "Failed") \in Seq(Step) /\ OnlyOf(Failure(q, "Failed"), NoQuery)
    BY <1>2, Answers, QuietAnswers DEF Reasons
  <1>4. ASSUME UNCHANGED active, views' \subseteq views,
               NEW steps \in Seq(Step), OnlyOf(steps, NoQuery), Become("select", steps)
        PROVE  Shaped
    BY <1>1, <1>4 DEF Shaped, Replies
  <1>5. ASSUME UNCHANGED <<active, views>>, NEW op \in QueryOps \cup SessionOps, NEW r \in {q, sql, NoQuery},
               NEW slot \in Slots, op \in QueryOps => r \in Queries,
               op \notin {"Execute", "Release", "NextResult", "View"},
               NEW s \in {"start", "reserve", "inspect"}, op = "Fetch" => s = "reserve",
               Begin(Job(op, r, slot), s, <<>>)
        PROVE  Shaped
    <2> DEFINE j == Job(op, r, slot)
    <2>1. j \in Jobs /\ j.op = op /\ j.query = r
      BY <1>2, <1>5, JobType DEF Job, Handles
    <2> HIDE DEF j
    <2>2. op # "none"
      BY DEF QueryOps, SessionOps
    <2>3. Begins(j)
      BY <1>1, <1>5, <2>1, <2>2 DEF Begins, j
    <2> QED BY <2>1, <2>3 DEF Shaped
  <1>6. CASE ClearView
    BY <1>3, <1>4, <1>6 DEF ClearView, EventTypes
  <1>7. ASSUME NEW yes \in BOOLEAN, LoadValue(yes) PROVE Shaped
    BY <1>3, <1>4, <1>7 DEF LoadValue, EventTypes
  <1>8. ASSUME NEW yes \in BOOLEAN, BeginFetch(yes) PROVE Shaped
    <2>1. CASE \E steps \in {Failure(q, "Failed"), <<QueryFailed(q, "Failed")>>} : Become("select", steps)
      BY <1>3, <1>4, <1>8, <2>1 DEF BeginFetch
    <2>2. CASE Begin(Job("Fetch", q, SlotOf(q)), "reserve", <<>>)
      <3>1. UNCHANGED <<active, views>> /\ q \in Queries /\ SlotOf(q) \in Slots
        BY <1>2, <1>8, TypeFacts, CursorType DEF BeginFetch, Receive, QueryOps
      <3> QED BY <1>5, <2>2, <3>1 DEF QueryOps
    <2> QED BY <1>8, <2>1, <2>2 DEF BeginFetch
  <1>9. ASSUME NEW yes \in BOOLEAN, BeginLoadChunk(yes) PROVE Shaped
    <2>1. CASE Become("select", <<Ev("Reply", q)>>)
      BY <1>3, <1>4, <1>9, <2>1 DEF BeginLoadChunk, EventTypes
    <2>2. CASE Begin(Job("LoadChunk", q, "sql"), "reserve", <<>>)
      <3>1. UNCHANGED <<active, views>> /\ q \in Queries /\ "sql" \in Slots
        BY <1>2, <1>9, CursorType, TypeFacts DEF BeginLoadChunk, Receive, QueryOps
      <3> QED BY <1>5, <2>2, <3>1 DEF QueryOps
    <2> QED BY <1>9, <2>1, <2>2 DEF BeginLoadChunk
  <1>10. CASE BeginSqlMode
    <2>1. \E s \in {"inspect", "start"} : Begin(Job("SqlMode", sql, "sql"), s, <<>>)
      BY <1>10 DEF BeginSqlMode
    <2>2. UNCHANGED <<active, views>> /\ "sql" \in Slots
      BY <1>10, CursorType, TypeFacts DEF BeginSqlMode
    <2> QED BY <1>5, <2>1, <2>2 DEF QueryOps, SessionOps
  <1>11. CASE BeginInspect
    <2>1. UNCHANGED <<active, views>> /\ "sql" \in Slots
      BY <1>11, CursorType, TypeFacts DEF BeginInspect
    <2> QED BY <1>5, <1>11, <2>1 DEF BeginInspect, QueryOps, SessionOps
  <1>12. CASE BeginNextResult
    <2>1. CASE Become("select", Failure(q, "Failed")) /\ UNCHANGED active
      BY <1>3, <1>4, <1>12, <2>1 DEF BeginNextResult
    <2>2. CASE /\ OwnsCursor(q, "sql") /\ Begin(Job("NextResult", q, "sql"), "start", <<>>)
               /\ active' = [active EXCEPT !["sql"].timed = @ /\ Live("sql")]
      <3> DEFINE j == Job("NextResult", q, "sql")
      <3>1. q \in Queries /\ "sql" \in Slots /\ Head(commands).op = "NextResult" /\ views' = views
        BY <1>2, <1>12, CursorType, TypeFacts DEF BeginNextResult, Receive, QueryOps
      <3>2. j \in Jobs /\ j.op = "NextResult" /\ j.query = q /\ j.slot = "sql"
        BY <3>1, JobType DEF Job, QueryOps
      <3>3. \A s \in Slots : /\ active'[s].query = active[s].query
                             /\ active'[s].completed = active[s].completed
        <4>1. active' = [active EXCEPT !["sql"] = [active["sql"] EXCEPT !.timed = @ /\ Live("sql")]]
          BY <2>2, TypeFacts DEF Cursor
        <4>2. active["sql"] \in Cursor
          BY <3>1, TypeFacts
        <4>3. PICK c : c = [active["sql"] EXCEPT !.timed = @ /\ Live("sql")]
          OBVIOUS
        <4>4. c.query = active["sql"].query /\ c.completed = active["sql"].completed
          BY <4>2, <4>3 DEF Cursor
        <4>5. active' = [active EXCEPT !["sql"] = c]
          BY <4>1, <4>3
        <4> QED BY <4>4, <4>5, TypeFacts
      <3>4. Begin(j, "start", <<>>) /\ active["sql"].query = j.query
        BY <2>2, <3>2 DEF OwnsCursor
      <3> HIDE DEF j
      <3>5. Begins(j)
        BY <1>1, <1>2, <3>1, <3>2, <3>3, <3>4 DEF Begins
      <3> QED BY <3>2, <3>5 DEF Shaped
    <2> QED BY <1>12, <2>1, <2>2 DEF BeginNextResult
  <1>13. CASE BeginView
    <2> DEFINE slot == SlotOf(q)
               j == Job("View", q, slot)
    <2>1. q \in Queries /\ slot \in Slots /\ UNCHANGED <<active, views>>
      BY <1>2, <1>13, CursorType, TypeFacts DEF BeginView, Receive, QueryOps
    <2>2. CASE Become("select", <<Ev("ViewFailed", q)>>)
      BY <1>3, <1>4, <2>1, <2>2 DEF EventTypes
    <2>3. CASE /\ stored[q] # "none"
               /\ Begin(j, IF OwnsCursor(q, slot) /\ Live(slot) THEN "start" ELSE "build", <<>>)
      <3>1. j \in Jobs /\ j.op = "View" /\ j.query = q /\ j.slot = slot
        BY <2>1, JobType DEF Job, QueryOps
      <3> HIDE DEF j
      <3>2. Begins(j)
        BY <1>1, <2>1, <2>3, <3>1 DEF Begins
      <3> QED BY <3>1, <3>2 DEF Shaped
    <2> QED BY <1>13, <2>2, <2>3 DEF BeginView, ViewFails
  <1> QED BY <1>6, <1>7, <1>8, <1>9, <1>10, <1>11, <1>12, <1>13

\* The steps that change what a query holds, or settle it.
ScanEnds == Scan /\ ~(job.query \in viewCancelled \/ JobCursor.left # 0)
Works ==
    \/ Executed(TRUE) \/ Fetched \/ ViewPage \/ ScanEnds \/ Build(TRUE)
    \/ BeginExecute \/ ReleaseQuery \/ Exit \/ ConnectEnds \/ DrainCommand
    \/ \E pages \in 1..MaxPages : OpenCursor(pages) \/ OpenNextResult(pages)
    \/ \E why \in Reasons : Interrupt(why)
Inquiries == DropInquiry \/ \E known \in BOOLEAN : Inquired(known)
Awaits == SendEvent \/ Inquiries \/ \E saved \in BOOLEAN : RecordHistory(saved) \/ FreeTicket(saved)
Discards == \E saved \in BOOLEAN : Discard(saved)

ExecuteStage == stage = "execute" => job.op = "Execute"

LEMMA DrivenMove ==
    TypeOK /\ TicketInv /\ ExecuteStage /\ Driven => Awaits \/ Discards \/ Shaped \/ Works
  <1> SUFFICES ASSUME TypeOK, TicketInv, ExecuteStage, Driven, ~Awaits, ~Discards, ~Works
               PROVE  Shaped
    OBVIOUS
  <1>1. CASE ReceiveCommand
    BY <1>1, ReceivesShaped DEF ReceiveCommand, Works
  <1>2. CASE CheckExecute
    <2>1. job.op = "Execute"
      BY <1>2 DEF CheckExecute, Ready, ExecuteStage
    <2> QED BY <1>2, <2>1, ExecuteShaped
  <1>3. CASE Scan
    BY <1>3, AnswersShaped DEF Works, ScanEnds
  <1>4. ASSUME NEW yes \in BOOLEAN, Settle(yes) \/ Build(yes) PROVE Shaped
    <2>1. Build(yes) => Build(FALSE)
      BY DEF Works
    <2> QED BY <1>4, <2>1, PerformShaped, AnswersShaped
  <1>5. ASSUME NEW why \in Reasons,
               ObjectStop(why) \/ Preflight(why) \/ RefuseExecute(why) \/ RefuseNextResult(why)
        PROVE  Shaped
    BY <1>5, LoopShaped, PerformShaped, ExecuteShaped, NextResultShaped
  <1>6. ASSUME NEW why \in Reasons, NEW yes \in BOOLEAN, IdleStop(why, yes) \/ RefuseFetch(why, yes)
        PROVE  Shaped
    BY <1>6, LoopShaped, FetchShaped
  <1>7. CASE ConnectOk \/ ObserveStop \/ Drained \/ Return
    BY <1>7, LoopShaped
  <1>8. CASE Start \/ DropObjectRead
    BY <1>8, PerformShaped
  <1>9. CASE DropInspect \/ SkipProbe \/ RefuseChunk
    BY <1>9, AnswersShaped
  <1> QED
    BY <1>1, <1>2, <1>3, <1>4, <1>5, <1>6, <1>7, <1>8, <1>9 DEF Driven, Awaits, Inquiries, Discards, Works

LEMMA AwaitedMove == TypeOK /\ TicketInv /\ Awaited => Awaits \/ Shaped \/ Works
  <1> SUFFICES ASSUME TypeOK, TicketInv, Awaited, ~Awaits, ~Works PROVE Shaped
    OBVIOUS
  <1>1. CASE GrantExecute \/ GrantNextPage \/ SqlModeRead \/ LoadChunk
    BY <1>1, ExecuteShaped, FetchShaped, AnswersShaped
  <1>2. ASSUME NEW yes \in BOOLEAN,
               \/ Executed(yes) \/ GrantSavedPage(yes) \/ NextResultFound(yes)
               \/ Inspected(yes) \/ Probe(yes)
        PROVE  Shaped
    <2>1. Executed(yes) => Executed(FALSE)
      BY DEF Works
    <2> QED BY <1>2, <2>1, ExecuteShaped, FetchShaped, NextResultShaped, AnswersShaped
  <1>3. {"Failed", "Disconnected"} \subseteq Reasons
    BY DEF Reasons
  <1>4. ASSUME NEW why \in {"Failed", "Disconnected"}, WorkFails(why) \/ RefuseNextResult(why)
        PROVE  Shaped
    BY <1>3, <1>4, PerformShaped, NextResultShaped
  <1> QED BY <1>1, <1>2, <1>4 DEF Awaited, Awaits, Inquiries, Works

\* All but the awaits and the discarded commands leave the caller's side alone.
LEMMA ActorOutside ==
    Driven \/ Awaited => Awaits \/ Discards \/ (out = <<>> /\ Outside)
  <1> USE DEF Ready
  <1>1. ASSUME ReceiveCommand PROVE out = <<>> /\ Outside
    BY <1>1 DEF ReceiveCommand, BeginExecute, BeginNextResult, BeginView, ClearView, ReleaseQuery,
                BeginSqlMode, BeginInspect, BeginFetch, LoadValue, BeginLoadChunk, Receive
  <1>2. ASSUME \E yes \in BOOLEAN : Settle(yes) \/ Build(yes) PROVE out = <<>> /\ Outside
    BY <1>2 DEF Settle, Build
  <1>3. ASSUME NEW why \in Reasons,
               \/ ObjectStop(why) \/ Preflight(why) \/ Interrupt(why) \/ RefuseExecute(why)
               \/ RefuseNextResult(why) \/ WorkFails(why)
               \/ \E yes \in BOOLEAN : IdleStop(why, yes) \/ RefuseFetch(why, yes)
        PROVE  out = <<>> /\ Outside
    BY <1>3 DEF ObjectStop, Preflight, Interrupt, RefuseExecute, RefuseNextResult, WorkFails, IdleStop,
                RefuseFetch
  <1>4. ASSUME \/ ConnectOk \/ ConnectEnds \/ ObserveStop \/ Start \/ DropObjectRead \/ DropInspect
               \/ SkipProbe \/ RefuseChunk \/ CheckExecute \/ Scan \/ Exit \/ DrainCommand
               \/ Drained \/ Return
        PROVE  out = <<>> /\ Outside
    BY <1>4 DEF ConnectOk, ConnectEnds, ObserveStop, Start, DropObjectRead, DropInspect, SkipProbe,
                RefuseChunk, CheckExecute, Scan, Exit, DrainCommand, Drained, Return
  <1>5. ASSUME GrantExecute \/ GrantNextPage \/ Fetched \/ ViewPage \/ SqlModeRead \/ LoadChunk
        PROVE  out = <<>> /\ Outside
    BY <1>5 DEF GrantExecute, GrantNextPage, Fetched, ViewPage, PageStored, SqlModeRead, LoadChunk
  <1>6. ASSUME NEW yes \in BOOLEAN,
               \/ Executed(yes) \/ GrantSavedPage(yes) \/ NextResultFound(yes)
               \/ Inspected(yes) \/ Probe(yes)
        PROVE  out = <<>> /\ Outside
    BY <1>6 DEF Executed, GrantSavedPage, NextResultFound, Inspected, Probe
  <1>7. ASSUME NEW pages, OpenCursor(pages) \/ OpenNextResult(pages) PROVE out = <<>> /\ Outside
    BY <1>7 DEF OpenCursor, OpenNextResult
  <1>8. {"Failed", "Disconnected"} \subseteq Reasons
    BY DEF Reasons
  <1>9. Driven => Awaits \/ Discards \/ (out = <<>> /\ Outside)
    BY <1>1, <1>2, <1>3, <1>4 DEF Driven, Awaits, Inquiries, Discards
  <1>10. Awaited => Awaits \/ (out = <<>> /\ Outside)
    BY <1>3, <1>5, <1>6, <1>7, <1>8 DEF Awaited, Awaits, Inquiries
  <1> QED BY <1>9, <1>10

LEMMA ActorMoves ==
    TypeOK /\ TicketInv /\ ExecuteStage /\ (Driven \/ Awaited) =>
        Awaits \/ Discards \/ (out = <<>> /\ Outside /\ (Shaped \/ Works))
  BY DrivenMove, AwaitedMove, ActorOutside

-----------------------------------------------------------------------------
(* A statement is in one place until its cursor is open, and cursors are   *)
(* kept apart by the kind of query they belong to.                         *)

\* Submitted, queued or run, but without a cursor yet.
Fresh(q) == permit = q \/ Queued(q) \/ (Executing /\ job.query = q)

OnePlace ==
    /\ \A q \in Queries : permit = q => ~Queued(q) /\ ~(Executing /\ job.query = q)
    /\ \A i, j \in 1..Len(commands) :
            commands[i].op = "Execute" /\ commands[j] = commands[i] => i = j
    /\ \A q \in Queries : Queued(q) => ~(Executing /\ job.query = q)
    /\ \A q \in Queries : Fresh(q) => \A s \in Slots : active[s].query # q
CursorKinds ==
    /\ active["sql"].query \notin Objects
    /\ active["object"].query \in Objects \cup {NoQuery}
    /\ job.op = "Execute" => (job.slot = "object" <=> job.query \in Objects)
NextOn ==
    job.op = "NextResult" /\ stage \in NextStages =>
        job.slot = "sql" /\ active["sql"].query = job.query
OnceInv == OnePlace /\ CursorKinds /\ NextOn /\ ExecuteStage

\* The queue as it was, or without its head.
CommandsLess == commands' = commands \/ (commands # <<>> /\ commands' = Tail(commands))

LEMMA LessQueued ==
    ASSUME TypeOK, OnePlace, CommandsLess
    PROVE  /\ \A q \in Queries : Queued(q)' => Queued(q)
           /\ \A i, j \in 1..Len(commands') :
                commands'[i].op = "Execute" /\ commands'[j] = commands'[i] => i = j
  <1>1. CASE commands' = commands
    BY <1>1 DEF Queued, OnePlace
  <1>2. CASE commands # <<>> /\ commands' = Tail(commands)
    <2>1. \A i \in 1..Len(commands') : i + 1 \in 1..Len(commands) /\ commands'[i] = commands[i + 1]
      BY <1>2 DEF TypeOK
    <2>2. \A q \in Queries : Queued(q)' => Queued(q)
      BY <2>1 DEF Queued
    <2>3. ASSUME NEW i \in 1..Len(commands'), NEW j \in 1..Len(commands'),
                 commands'[i].op = "Execute", commands'[j] = commands'[i]
          PROVE  i = j
      <3>1. i + 1 = j + 1
        BY <2>1, <2>3 DEF OnePlace
      <3> QED BY <3>1
    <2> QED BY <2>2, <2>3
  <1> QED BY <1>1, <1>2 DEF CommandsLess

\* What left the queue is not in it any more.
LEMMA HeadLeaves ==
    ASSUME TypeOK, OnePlace, commands # <<>>, commands' = Tail(commands), NEW q \in Queries,
           Head(commands) = Cmd("Execute", q)
    PROVE  Queued(q) /\ ~Queued(q)'
  <1>1. 1 \in 1..Len(commands) /\ commands[1] = Head(commands)
    BY DEF TypeOK
  <1>2. Queued(q)
    BY <1>1 DEF Queued
  <1>3. \A i \in 1..Len(commands') : i + 1 \in 1..Len(commands) /\ commands'[i] = commands[i + 1] /\ i + 1 # 1
    BY DEF TypeOK
  <1>4. ~Queued(q)'
    BY <1>1, <1>3 DEF Queued, OnePlace, Cmd
  <1> QED BY <1>2, <1>4

\* Nothing new becomes fresh, and cursors are only closed.
LEMMA OnceKept ==
    ASSUME TypeOK, OnceInv, permit' = permit, CommandsLess,
           \A s \in Slots : active'[s].query \in {active[s].query, NoQuery},
           Executing' => Executing /\ job'.query = job.query,
           job'.op = "Execute" => (job'.slot = "object" <=> job'.query \in Objects),
           NextOn', ExecuteStage'
    PROVE  OnceInv' /\ \A q \in Queries : Fresh(q)' => Fresh(q)
  <1>1. /\ \A q \in Queries : Queued(q)' => Queued(q)
        /\ \A i, j \in 1..Len(commands') :
                commands'[i].op = "Execute" /\ commands'[j] = commands'[i] => i = j
    BY LessQueued DEF OnceInv
  <1>2. \A q \in Queries : Fresh(q)' => Fresh(q)
    BY <1>1 DEF Fresh
  <1>3. \A q \in Queries : Fresh(q)' => \A s \in Slots : active'[s].query # q
    BY <1>2 DEF OnceInv, OnePlace
  <1>4. /\ \A q \in Queries : permit' = q => ~Queued(q)' /\ ~(Executing' /\ job'.query = q)
        /\ \A q \in Queries : Queued(q)' => ~(Executing' /\ job'.query = q)
    BY <1>1 DEF OnceInv, OnePlace
  <1>5. OnePlace'
    BY <1>1, <1>3, <1>4 DEF OnePlace
  <1>6. CursorKinds'
    BY DEF OnceInv, CursorKinds, Slots
  <1> QED BY <1>2, <1>5, <1>6 DEF OnceInv

LEMMA ShapedOnce ==
    ASSUME TypeOK, OnceInv, Outside, Shaped
    PROVE  OnceInv' /\ \A q \in Queries : Fresh(q)' => Fresh(q)
  <1>1. permit' = permit
    BY OutsideKeeps
  <1>2. NoJob.op = "none" /\ \A s \in Slots : active[s].query \in {active[s].query, NoQuery}
    BY DEF NoJob
  <1>3. CASE Goes
    <2>1. PICK s \in Stages : \E steps \in Seq(Step) :
                /\ Become(s, steps) /\ s # "execute"
                /\ job.op = "Execute" /\ s \in ExecuteStages => Executing
                /\ job.op = "NextResult" /\ s \in NextStages => stage \in NextStages
      BY <1>3 DEF Goes
    <2>2. /\ stage' = s /\ (job' = job \/ job' = NoJob) /\ UNCHANGED <<commands, active>>
      BY <1>3, <2>1 DEF Become, Goes
    <2>3. Executing' => Executing /\ job'.query = job.query
      BY <1>2, <2>1, <2>2 DEF Executing
    <2>4. NextOn' /\ ExecuteStage'
      BY <1>2, <2>1, <2>2 DEF OnceInv, NextOn, ExecuteStage
    <2>5. job'.op = "Execute" => (job'.slot = "object" <=> job'.query \in Objects)
      BY <1>2, <2>2 DEF OnceInv, CursorKinds
    <2> QED BY <1>1, <2>2, <2>3, <2>4, <2>5, OnceKept DEF CommandsLess
  <1>4. ASSUME NEW slot \in Slots, Closes(slot)
        PROVE  OnceInv' /\ \A q \in Queries : Fresh(q)' => Fresh(q)
    <2>1. /\ stage' \in {"select", "exit", "probe"} /\ (job' = job \/ job' = NoJob)
          /\ UNCHANGED commands
      BY <1>4 DEF Closes, Become
    <2>2. \A s \in Slots : active'[s].query \in {active[s].query, NoQuery}
      BY <1>4, TypeFacts DEF Closes, NoCursor
    <2>3. ~Executing' /\ NextOn' /\ ExecuteStage'
      BY <2>1 DEF Executing, ExecuteStages, NextOn, NextStages, ExecuteStage
    <2>4. job'.op = "Execute" => (job'.slot = "object" <=> job'.query \in Objects)
      BY <1>2, <2>1 DEF OnceInv, CursorKinds
    <2> QED BY <1>1, <2>1, <2>2, <2>3, <2>4, OnceKept DEF CommandsLess
  <1>5. CASE Replies
    <2>1. /\ stage' = "select" /\ job' = NoJob /\ CommandsLess /\ UNCHANGED active
      BY <1>5 DEF Replies, Become, CommandsLess
    <2>2. ~Executing' /\ NextOn' /\ ExecuteStage'
      BY <2>1 DEF Executing, ExecuteStages, NextOn, NextStages, ExecuteStage
    <2> QED BY <1>1, <1>2, <2>1, <2>2, OnceKept
  <1>6. ASSUME NEW j \in Jobs, Begins(j)
        PROVE  OnceInv' /\ \A q \in Queries : Fresh(q)' => Fresh(q)
    <2>1. /\ job' = j /\ CommandsLess /\ \A s \in Slots : active'[s].query = active[s].query
          /\ j.op # "Execute" /\ stage' # "execute" /\ "sql" \in Slots
          /\ j.op = "NextResult" => j.slot = "sql" /\ active["sql"].query = j.query
      BY <1>6 DEF Begins, Begin, CommandsLess, Slots
    <2>2. ~Executing' /\ NextOn' /\ ExecuteStage'
      BY <2>1 DEF Executing, NextOn, ExecuteStage
    <2> QED BY <1>1, <2>1, <2>2, OnceKept
  <1> QED BY <1>3, <1>4, <1>5, <1>6 DEF Shaped

\* What a page, the last page and a further result do to the cursor they are read from.
LEMMA EditedFields ==
    ASSUME TypeOK, NEW slot \in Slots, NEW c, active' = [active EXCEPT ![slot] = c],
           c.query = active[slot].query
    PROVE  /\ \A s \in Slots : active'[s].query = active[s].query
           /\ \A s \in Slots : s # slot => active'[s] = active[s]
           /\ active'[slot] = c
  BY TypeFacts

LEMMA PageCursor ==
    TypeOK /\ Fetched =>
        /\ \A s \in Slots : active'[s].query = active[s].query
        /\ \A s \in Slots : s # job.slot => active'[s] = active[s]
        /\ active'[job.slot].completed = (PagesLeft = 0)
  <1> SUFFICES ASSUME TypeOK, Fetched
               PROVE  /\ \A s \in Slots : active'[s].query = active[s].query
                      /\ \A s \in Slots : s # job.slot => active'[s] = active[s]
                      /\ active'[job.slot].completed = (PagesLeft = 0)
    OBVIOUS
  <1>1. active[job.slot] \in Cursor /\ job.slot \in Slots
    BY TypeFacts
  <1>2. PICK done \in BOOLEAN : done = (PagesLeft = 0)
    OBVIOUS
  <1>3. PICK c : c = [active[job.slot] EXCEPT !.left = PagesLeft, !.completed = done]
    OBVIOUS
  <1>4. c.query = active[job.slot].query /\ c.completed = done
    BY <1>1, <1>3 DEF Cursor
  <1>5. active' = [active EXCEPT ![job.slot] = [active[job.slot] EXCEPT !.left = PagesLeft,
                                                                        !.completed = PagesLeft = 0]]
    BY TypeFacts DEF Fetched, Cursor
  <1>6. active' = [active EXCEPT ![job.slot] = c]
    BY <1>2, <1>3, <1>5
  <1> QED BY <1>1, <1>2, <1>4, <1>6, EditedFields

LEMMA ViewCursor ==
    TypeOK /\ (ViewPage \/ ScanEnds) =>
        /\ \A s \in Slots : active'[s].query = active[s].query
        /\ \A s \in Slots : s # job.slot => active'[s] = active[s]
        /\ ViewPage => active'[job.slot].completed = active[job.slot].completed
        /\ ScanEnds => active'[job.slot].completed
  <1> SUFFICES ASSUME TypeOK, ViewPage \/ ScanEnds
               PROVE  /\ \A s \in Slots : active'[s].query = active[s].query
                      /\ \A s \in Slots : s # job.slot => active'[s] = active[s]
                      /\ ViewPage => active'[job.slot].completed = active[job.slot].completed
                      /\ ScanEnds => active'[job.slot].completed
    OBVIOUS
  <1>1. active[job.slot] \in Cursor /\ job.slot \in Slots
    BY TypeFacts
  <1>2. ViewPage => stage = "work"
    BY DEF ViewPage, PageStored, Ready
  <1>3. ScanEnds => stage = "scan"
    BY DEF ScanEnds, Scan, Ready
  <1>4. CASE ViewPage
    <2>1. PICK c : c = [active[job.slot] EXCEPT !.left = PagesLeft]
      OBVIOUS
    <2>2. c.query = active[job.slot].query /\ c.completed = active[job.slot].completed
      BY <1>1, <2>1 DEF Cursor
    <2>3. active' = [active EXCEPT ![job.slot] = [active[job.slot] EXCEPT !.left = PagesLeft]]
      BY <1>4, TypeFacts DEF ViewPage, Cursor
    <2>4. active' = [active EXCEPT ![job.slot] = c]
      BY <2>1, <2>3
    <2> QED BY <1>1, <1>2, <1>3, <1>4, <2>2, <2>4, EditedFields
  <1>5. CASE ScanEnds
    <2>1. PICK c : c = [active[job.slot] EXCEPT !.completed = TRUE]
      OBVIOUS
    <2>2. c.query = active[job.slot].query /\ c.completed
      BY <1>1, <2>1 DEF Cursor
    <2>3. active' = [active EXCEPT ![job.slot] = [active[job.slot] EXCEPT !.completed = TRUE]]
      BY <1>5, TypeFacts DEF ScanEnds, Scan, Cursor
    <2>4. active' = [active EXCEPT ![job.slot] = c]
      BY <2>1, <2>3
    <2> QED BY <1>1, <1>2, <1>3, <1>5, <2>2, <2>4, EditedFields
  <1> QED BY <1>4, <1>5

LEMMA NextCursor ==
    \A pages \in 1..MaxPages : TypeOK /\ OpenNextResult(pages) =>
        /\ \A s \in Slots : active'[s].query = active[s].query
        /\ \A s \in Slots : s # "sql" => active'[s] = active[s]
  <1> SUFFICES ASSUME NEW pages \in 1..MaxPages, TypeOK, OpenNextResult(pages)
               PROVE  /\ \A s \in Slots : active'[s].query = active[s].query
                      /\ \A s \in Slots : s # "sql" => active'[s] = active[s]
    OBVIOUS
  <1>1. active["sql"] \in Cursor /\ "sql" \in Slots
    BY TypeFacts, CursorType
  <1>2. PICK c : c = [active["sql"] EXCEPT !.completed = FALSE, !.left = pages]
    OBVIOUS
  <1>3. c.query = active["sql"].query
    BY <1>1, <1>2 DEF Cursor
  <1>4. active' = [active EXCEPT !["sql"] = [active["sql"] EXCEPT !.completed = FALSE, !.left = pages]]
    BY <1>1, TypeFacts DEF OpenNextResult, Cursor
  <1>5. active' = [active EXCEPT !["sql"] = c]
    BY <1>2, <1>4
  <1> QED BY <1>1, <1>3, <1>5, EditedFields

\* The statement leaves the queue and begins.
LEMMA BeginExecuteOnce ==
    ASSUME TypeOK, TicketInv, OnceInv, BeginExecute, NEW q \in Queries, q = Received
    PROVE  /\ OnceInv' /\ \A r \in Queries : Fresh(r)' => Fresh(r)
           /\ Queued(q) /\ ~Queued(q)'
           /\ \A s \in Slots : active'[s].query \in {active[s].query, NoQuery}
  <1>1. PICK slot \in Slots : slot = IF q \in Objects THEN "object" ELSE "sql"
    BY DEF Slots
  <1>2. /\ Receive("Execute") /\ commands # <<>> /\ commands' = Tail(commands) /\ permit' = permit
        /\ stage = "select" /\ active' = [active EXCEPT ![slot] = NoCursor]
    BY <1>1, OutsideKeeps DEF BeginExecute, Receive, Ready
  <1>3. Head(commands) = Cmd("Execute", q)
    <2>1. commands \in Seq(Command) /\ Head(commands).op = "Execute"
      BY <1>2 DEF TypeOK, Receive
    <2>2. Head(commands) \in Command
      BY <1>2, <2>1
    <2> QED BY <2>1, <2>2 DEF Command, Cmd, Received
  <1>4. \E steps : Begin(Job("Execute", q, slot), "execute", steps)
    BY <1>1 DEF BeginExecute
  <1>5. job'.op = "Execute" /\ job'.query = q /\ job'.slot = slot /\ stage' = "execute"
    BY <1>4 DEF Begin, Job
  <1>6. Queued(q) /\ ~Queued(q)'
    BY <1>2, <1>3, HeadLeaves DEF OnceInv
  <1>7. slot = "object" <=> q \in Objects
    BY <1>1
  <1>8. \A s \in Slots : active'[s].query \in {active[s].query, NoQuery}
    BY <1>2, TypeFacts DEF NoCursor
  <1>9. /\ \A r \in Queries : Queued(r)' => Queued(r)
        /\ \A i, j \in 1..Len(commands') :
                commands'[i].op = "Execute" /\ commands'[j] = commands'[i] => i = j
    BY <1>2, LessQueued DEF OnceInv, CommandsLess
  <1>10. \A r \in Queries : Fresh(r)' => Fresh(r)
    BY <1>2, <1>5, <1>6, <1>9 DEF Fresh
  <1>11. permit # q
    BY <1>6 DEF OnceInv, OnePlace
  <1>12. OnePlace'
    <2>1. \A r \in Queries : Fresh(r)' => \A s \in Slots : active'[s].query # r
      BY <1>8, <1>10, QueryAssumption DEF OnceInv, OnePlace
    <2>2. \A r \in Queries : permit' = r => ~Queued(r)' /\ ~(Executing' /\ job'.query = r)
      BY <1>2, <1>5, <1>9, <1>11 DEF OnceInv, OnePlace
    <2>3. \A r \in Queries : Queued(r)' => ~(Executing' /\ job'.query = r)
      BY <1>5, <1>6
    <2> QED BY <1>9, <2>1, <2>2, <2>3 DEF OnePlace
  <1>13. CursorKinds' /\ NextOn' /\ ExecuteStage'
    <2>1. active'["sql"].query \notin Objects /\ active'["object"].query \in Objects \cup {NoQuery}
      BY <1>8, KindAssumption, QueryAssumption DEF OnceInv, CursorKinds, Slots
    <2> QED BY <1>5, <1>7, <2>1 DEF CursorKinds, NextOn, ExecuteStage
  <1> QED BY <1>6, <1>8, <1>10, <1>12, <1>13 DEF OnceInv

LEMMA OpenCursorOnce ==
    ASSUME TypeOK, TicketInv, OnceInv, NEW pages \in 1..MaxPages, OpenCursor(pages),
           NEW q \in Queries, q = job.query
    PROVE  /\ OnceInv' /\ \A r \in Queries : Fresh(r)' => Fresh(r)
           /\ Fresh(q) /\ ~Fresh(q)' /\ UNCHANGED <<permit, commands>>
           /\ job' = job /\ stage' = "probe" /\ stage = "schema" /\ job.op = "Execute"
           /\ \A s \in Slots : active'[s] = active[s] \/ active'[s].query = q
  <1>1. PICK slot \in Slots : slot = job.slot
    BY TypeFacts
  <1>2. PICK c : c = [query |-> q, completed |-> FALSE, left |-> pages, timed |-> q \in Timed]
    OBVIOUS
  <1>3. active' = [active EXCEPT ![slot] = c] /\ c.query = q
    BY <1>1, <1>2 DEF OpenCursor
  <1>4. /\ stage = "schema" /\ job.op = "Execute" /\ UNCHANGED <<permit, commands>>
        /\ job' = job /\ stage' = "probe"
    BY OutsideKeeps DEF OpenCursor, Ready, Become
  <1>5. Executing /\ ~Executing' /\ Fresh(q)
    BY <1>4 DEF Executing, ExecuteStages, Fresh
  <1>6. ~Fresh(q)'
    BY <1>4, <1>5 DEF Fresh, OnceInv, OnePlace, Queued
  <1>7. \A r \in Queries : Fresh(r)' => Fresh(r)
    BY <1>4, <1>5 DEF Fresh, Queued
  <1>8. \A s \in Slots : active'[s] = active[s] \/ active'[s].query = q
    BY <1>3, TypeFacts
  <1>9. OnePlace'
    <2>1. \A r \in Queries : Fresh(r)' => \A s \in Slots : active'[s].query # r
      BY <1>6, <1>7, <1>8 DEF OnceInv, OnePlace
    <2>2. \A r \in Queries : Queued(r)' => Queued(r)
      BY <1>4 DEF Queued
    <2> QED BY <1>4, <1>5, <2>1, <2>2 DEF OnceInv, OnePlace
  <1>10. CursorKinds'
    <2>1. slot = "object" <=> q \in Objects
      BY <1>1, <1>4 DEF OnceInv, CursorKinds
    <2>2. active'[slot].query = q /\ \A s \in Slots : s # slot => active'[s] = active[s]
      BY <1>3, TypeFacts
    <2> QED BY <1>4, <2>1, <2>2 DEF OnceInv, CursorKinds, Slots
  <1>11. NextOn' /\ ExecuteStage'
    BY <1>4 DEF NextOn, ExecuteStage
  <1> QED BY <1>4, <1>5, <1>6, <1>7, <1>8, <1>9, <1>10, <1>11 DEF OnceInv

LEMMA WorksOnce ==
    ASSUME TypeOK, TicketInv, OnceInv, Outside, Works
    PROVE  OnceInv' /\ \A q \in Queries : Fresh(q)' => Fresh(q)
  <1> USE DEF Ready
  <1>1. permit' = permit /\ NoJob.op = "none"
    BY OutsideKeeps DEF NoJob
  <1>2. CASE Executed(TRUE)
    <2>1. /\ UNCHANGED <<commands, active, job>> /\ job.op = "Execute"
          /\ stage = "work" /\ stage' = "schema"
      BY <1>2 DEF Executed, Become
    <2>2. Executing /\ NextOn' /\ ExecuteStage'
      BY <2>1 DEF Executing, ExecuteStages, NextOn, ExecuteStage
    <2>3. job'.op = "Execute" => (job'.slot = "object" <=> job'.query \in Objects)
      BY <2>1 DEF OnceInv, CursorKinds
    <2> QED BY <1>1, <2>1, <2>2, <2>3, OnceKept DEF CommandsLess
  <1>3. ASSUME UNCHANGED <<commands, job>>, job.op # "Execute", NextOn',
               stage' # "execute", \A s \in Slots : active'[s].query \in {active[s].query, NoQuery}
        PROVE  OnceInv' /\ \A q \in Queries : Fresh(q)' => Fresh(q)
    <2>1. ~Executing' /\ ExecuteStage'
      BY <1>3 DEF Executing, ExecuteStage
    <2> QED BY <1>1, <1>3, <2>1, OnceKept DEF CommandsLess
  <1>4. CASE Fetched
    <2>1. UNCHANGED <<commands, job>> /\ job.op = "Fetch" /\ stage' = "probe"
      BY <1>4 DEF Fetched, Become
    <2> QED BY <1>3, <1>4, <2>1, PageCursor DEF NextOn
  <1>5. CASE ViewPage \/ ScanEnds
    <2>1. UNCHANGED <<commands, job>> /\ job.op = "View" /\ stage' \in {"scan", "build"}
      BY <1>5 DEF ViewPage, ScanEnds, Scan, Become, TypeOK
    <2> QED BY <1>3, <1>5, <2>1, ViewCursor DEF NextOn
  <1>6. ASSUME NEW pages \in 1..MaxPages, OpenNextResult(pages)
        PROVE  OnceInv' /\ \A q \in Queries : Fresh(q)' => Fresh(q)
    <2>1. UNCHANGED <<commands, job>> /\ job.op = "NextResult" /\ stage' = "probe"
      BY <1>6 DEF OpenNextResult, Become
    <2> QED BY <1>3, <1>6, <2>1, NextCursor DEF NextOn, NextStages
  <1>7. ASSUME NEW why \in Reasons, Interrupt(why)
        PROVE  OnceInv' /\ \A q \in Queries : Fresh(q)' => Fresh(q)
    <2>1. /\ stage = "work" /\ job'.op = job.op /\ job'.query = job.query /\ job'.slot = job.slot
          /\ stage' = "settle" /\ UNCHANGED <<commands, active>>
      BY <1>7, InterruptMoves, TypeFacts DEF Interrupt, Begin
    <2>2. Executing' => Executing /\ job'.query = job.query
      BY <2>1 DEF Executing, ExecuteStages
    <2>3. NextOn' /\ ExecuteStage'
      BY <2>1 DEF OnceInv, NextOn, NextStages, ExecuteStage
    <2>4. job'.op = "Execute" => (job'.slot = "object" <=> job'.query \in Objects)
      BY <2>1 DEF OnceInv, CursorKinds
    <2> QED BY <1>1, <2>1, <2>2, <2>3, <2>4, OnceKept DEF CommandsLess
  <1>8. ASSUME CommandsLess, job'.op \notin {"Execute", "NextResult"}, stage' # "execute",
               \A s \in Slots : active'[s].query \in {active[s].query, NoQuery}
        PROVE  OnceInv' /\ \A q \in Queries : Fresh(q)' => Fresh(q)
    <2>1. ~Executing' /\ NextOn' /\ ExecuteStage'
      BY <1>8 DEF Executing, NextOn, ExecuteStage
    <2> QED BY <1>1, <1>8, <2>1, OnceKept
  <1>9. CASE Build(TRUE)
    BY <1>1, <1>8, <1>9 DEF Build, Become, CommandsLess
  <1>10. CASE ReleaseQuery
    <2>1. PICK slot : slot = SlotOf(Received)
      OBVIOUS
    <2>2. active' = active \/ active' = [active EXCEPT ![slot] = NoCursor]
      BY <1>10, <2>1 DEF ReleaseQuery
    <2>3. \A s \in Slots : active'[s].query \in {active[s].query, NoQuery}
      BY <2>2, TypeFacts DEF NoCursor
    <2>4. \E steps : Begin(Job("Release", Received, slot), "probe", steps)
      BY <1>10, <2>1 DEF ReleaseQuery
    <2>5. job'.op = "Release" /\ stage' = "probe" /\ CommandsLess
      BY <1>10, <2>4 DEF ReleaseQuery, Receive, Begin, Job, CommandsLess
    <2> QED BY <1>8, <2>3, <2>5
  <1>11. CASE Exit \/ ConnectEnds
    <2>1. \A why : [NoJob EXCEPT !.why = why].op = "none"
      BY DEF NoJob
    <2>2. job'.op = "none" /\ stage' # "execute" /\ CommandsLess
      BY <1>11, <2>1 DEF Exit, ConnectEnds, Begin, CommandsLess
    <2>3. active' = active \/ active' = [s \in Slots |-> NoCursor]
      BY <1>11 DEF Exit, ConnectEnds
    <2>4. \A s \in Slots : active'[s].query \in {active[s].query, NoQuery}
      BY <2>3 DEF NoCursor
    <2> QED BY <1>8, <2>2, <2>4
  <1>12. CASE DrainCommand
    <2>1. /\ stage \in {"refuse", "drain"} /\ UNCHANGED <<stage, job, active>> /\ CommandsLess
      BY <1>12 DEF DrainCommand, Become, CommandsLess
    <2>2. ~Executing' /\ NextOn' /\ ExecuteStage'
      BY <2>1 DEF Executing, ExecuteStages, NextOn, NextStages, ExecuteStage
    <2>3. job'.op = "Execute" => (job'.slot = "object" <=> job'.query \in Objects)
      BY <2>1 DEF OnceInv, CursorKinds
    <2> QED BY <1>1, <2>1, <2>2, <2>3, OnceKept
  <1>13. CASE BeginExecute
    <2>1. PICK q \in Queries : q = Received
      BY <1>13, ReceiveType DEF BeginExecute, QueryOps
    <2> QED BY <1>13, <2>1, BeginExecuteOnce
  <1>14. ASSUME NEW pages \in 1..MaxPages, OpenCursor(pages)
        PROVE  OnceInv' /\ \A q \in Queries : Fresh(q)' => Fresh(q)
    <2>1. PICK q \in Queries : q = job.query
      BY <1>14, TypeFacts DEF OpenCursor, QueryOps
    <2> QED BY <1>14, <2>1, OpenCursorOnce
  <1> QED
    BY <1>2, <1>4, <1>5, <1>6, <1>7, <1>9, <1>10, <1>11, <1>12, <1>13, <1>14 DEF Works

-----------------------------------------------------------------------------
(* The caller: it submits a statement, asks for something, or neither.     *)

CallerAsks(c) ==
    /\ permit = NoQuery /\ commands' = Append(commands, c)
    /\ UNCHANGED <<open, issued, permit, events, actor, ledger>>
    /\ c \in Command /\ c.op # "Execute" /\ (c.query = NoQuery \/ c.query \in registered)
    /\ registered' = IF c.op = "Release" THEN registered \ {c.query} ELSE registered
    /\ \A q \in Queries : shown'[q] = "finished" => shown[q] = "finished"
    /\ c.op = "NextResult" => shown[c.query] = "finished"
CallerStays ==
    /\ UNCHANGED <<registered, issued, permit, shown, commands, events, actor, ledger>>
    /\ open' => open

LEMMA CallerShape ==
    ASSUME TypeOK, CallerStep \/ ForwardShutdown
    PROVE  \/ \E q \in Queries : Reserve(q)
           \/ Execute \/ ReadEvent \/ CallerStays
           \/ \E c \in Command : CallerAsks(c)
  <1>1. \A q \in registered : \A op \in QueryOps :
            /\ Cmd(op, q) \in Command /\ Cmd(op, q).query = q /\ Cmd(op, q).op = op
            /\ Cmd(op, q).query # NoQuery
    BY DEF TypeOK, Cmd, Command
  <1>2. \A op \in SessionOps :
            Cmd(op, NoQuery) \in Command /\ Cmd(op, NoQuery).query = NoQuery /\ Cmd(op, NoQuery).op = op
    BY DEF Cmd, Command
  <1>3. ASSUME NEW op \in {"Fetch", "ClearView", "LoadValue", "LoadChunk"}, NEW q \in Queries,
               Request(op, q)
        PROVE  \E c \in Command : CallerAsks(c)
    <2>1. CallerAsks(Cmd(op, q)) /\ Cmd(op, q) \in Command
      BY <1>1, <1>3 DEF Request, CallerFree, CallerAsks, QueryOps
    <2> QED BY <2>1
  <1>4. ASSUME NEW q \in Queries, NextResult(q) PROVE \E c \in Command : CallerAsks(c)
    <2>1. \A r \in Queries : shown'[r] = "finished" => shown[r] = "finished"
      BY <1>4 DEF NextResult, TypeOK
    <2>2. CallerAsks(Cmd("NextResult", q)) /\ Cmd("NextResult", q) \in Command
      BY <1>1, <1>4, <2>1 DEF NextResult, CallerFree, CallerAsks, QueryOps
    <2> QED BY <2>2
  <1>5. ASSUME NEW q \in Queries, ApplyView(q) PROVE CallerStays \/ \E c \in Command : CallerAsks(c)
    <2>1. CASE CanSubmit
      <3>1. CallerAsks(Cmd("View", q)) /\ Cmd("View", q) \in Command
        BY <1>1, <1>5, <2>1 DEF ApplyView, CallerFree, CallerAsks, QueryOps
      <3> QED BY <3>1
    <2>2. CASE ~CanSubmit
      BY <1>5, <2>2 DEF ApplyView, CallerStays
    <2> QED BY <2>1, <2>2
  <1>6. ASSUME NEW q \in Queries, Release(q) PROVE CallerStays \/ \E c \in Command : CallerAsks(c)
    <2>1. CASE CanSubmit
      <3>1. CallerAsks(Cmd("Release", q)) /\ Cmd("Release", q) \in Command
        BY <1>1, <1>6, <2>1 DEF Release, CallerFree, CallerAsks, QueryOps
      <3> QED BY <3>1
    <2>2. CASE ~CanSubmit
      BY <1>6, <2>2 DEF Release, CallerStays
    <2> QED BY <2>1, <2>2
  <1>7. ASSUME NEW op \in {"SqlMode", "Inspect"}, Ask(op) PROVE \E c \in Command : CallerAsks(c)
    <2>1. CallerAsks(Cmd(op, NoQuery)) /\ Cmd(op, NoQuery) \in Command
      BY <1>2, <1>7 DEF Ask, CallerFree, CallerAsks, SessionOps
    <2> QED BY <2>1
  <1>8. ASSUME Disconnect \/ Shutdown \/ ForwardShutdown PROVE CallerStays
    BY <1>8 DEF Disconnect, Shutdown, ForwardShutdown, CallerStays, caller
  <1>9. ASSUME NEW q \in Queries, CancelView(q) \/ Cancel(q) PROVE CallerStays
    BY <1>9 DEF CancelView, Cancel, CallerStays, caller
  <1> QED BY <1>3, <1>4, <1>5, <1>6, <1>7, <1>8, <1>9 DEF CallerStep

LEMMA Appended ==
    ASSUME TypeOK, NEW c \in Command, commands' = Append(commands, c)
    PROVE  /\ Len(commands') = Len(commands) + 1 /\ Len(commands) \in Nat
           /\ \A i \in 1..Len(commands) : commands'[i] = commands[i]
           /\ commands'[Len(commands) + 1] = c
           /\ \A q \in Queries : Queued(q)' <=> Queued(q) \/ c = Cmd("Execute", q)
  <1>1. /\ Len(commands') = Len(commands) + 1 /\ Len(commands) \in Nat
        /\ \A i \in 1..Len(commands) : commands'[i] = commands[i]
        /\ commands'[Len(commands) + 1] = c
    BY DEF TypeOK
  <1> QED BY <1>1 DEF Queued

LEMMA CallerOnce ==
    ASSUME TypeOK, TicketInv, OnceInv, CallerStep \/ ForwardShutdown
    PROVE  /\ OnceInv'
           /\ \A q \in Queries : Fresh(q)' => Fresh(q) \/ (Reserve(q) /\ q \notin issued)
  <1>1. UNCHANGED <<stage, job, active>>
    BY CallerMoves, CallerShape DEF CallerStep, ForwardShutdown, Execute, Disconnect, Shutdown,
       ReadEvent, Reserve, NextResult, ApplyView, CancelView, Cancel, Release, Request, Ask, actor
  <1>2. CursorKinds' /\ NextOn' /\ ExecuteStage'
    BY <1>1 DEF OnceInv, CursorKinds, NextOn, ExecuteStage
  <1>3. ASSUME NEW q \in Queries, Reserve(q)
        PROVE  OnePlace' /\ \A r \in Queries : Fresh(r)' => Fresh(r) \/ r = q
    <2>1. permit' = q /\ q \notin issued /\ commands' = commands /\ permit = NoQuery
      BY <1>3 DEF Reserve, CallerFree
    <2>2. /\ ~Queued(q) /\ job.query # q /\ \A s \in Slots : active[s].query # q
      BY <2>1, QueryAssumption DEF TicketInv, IssuedOnly, Known, Queued, Cmd
    <2>3. \A r \in Queries : Fresh(r)' => Fresh(r) \/ r = q
      BY <1>1, <2>1 DEF Fresh, Queued, Executing
    <2>4. \A r \in Queries : Queued(r)' => Queued(r)
      BY <2>1 DEF Queued
    <2>5. Executing' => Executing
      BY <1>1 DEF Executing
    <2>6. \A r \in Queries : Fresh(r)' => \A s \in Slots : active'[s].query # r
      BY <1>1, <2>2, <2>3 DEF OnceInv, OnePlace
    <2>7. OnePlace'
      BY <1>1, <2>1, <2>2, <2>4, <2>5, <2>6 DEF OnceInv, OnePlace
    <2> QED BY <2>3, <2>7
  <1>4. ASSUME UNCHANGED <<permit, commands>>
        PROVE  OnePlace' /\ \A r \in Queries : Fresh(r)' => Fresh(r)
    BY <1>1, <1>4 DEF OnceInv, OnePlace, Fresh, Queued, Executing
  <1>5. ASSUME NEW c \in Command, CallerAsks(c)
        PROVE  OnePlace' /\ \A r \in Queries : Fresh(r)' => Fresh(r)
    <2>1. /\ permit' = permit /\ c.op # "Execute" /\ commands' = Append(commands, c)
          /\ \A r \in Queries : c # Cmd("Execute", r)
      BY <1>5 DEF CallerAsks, Cmd
    <2>2. /\ Len(commands') = Len(commands) + 1 /\ Len(commands) \in Nat
          /\ \A i \in 1..Len(commands) : commands'[i] = commands[i]
          /\ commands'[Len(commands) + 1] = c
          /\ \A r \in Queries : Queued(r)' => Queued(r)
      BY <2>1, Appended
    <2>3. \A i, j \in 1..Len(commands') :
                commands'[i].op = "Execute" /\ commands'[j] = commands'[i] => i = j
      <3> SUFFICES ASSUME NEW i \in 1..Len(commands'), NEW j \in 1..Len(commands'),
                          commands'[i].op = "Execute", commands'[j] = commands'[i]
                   PROVE  i = j
        OBVIOUS
      <3>1. i \in 1..Len(commands) /\ j \in 1..Len(commands)
        BY <2>1, <2>2
      <3> QED BY <2>2, <3>1 DEF OnceInv, OnePlace
    <2>4. Executing' => Executing
      BY <1>1 DEF Executing
    <2> QED BY <1>1, <2>1, <2>2, <2>3, <2>4 DEF OnceInv, OnePlace, Fresh
  <1>6. ASSUME Execute
        PROVE  OnePlace' /\ \A r \in Queries : Fresh(r)' => Fresh(r)
    <2>1. PICK p \in Queries : p = permit
      BY <1>6 DEF Execute, TypeOK, Handles
    <2>2. permit' = NoQuery /\ commands' = Append(commands, Cmd("Execute", p))
      BY <1>6, <2>1 DEF Execute
    <2>3. Cmd("Execute", p) \in Command
      BY DEF Cmd, Command, QueryOps
    <2>4. /\ Len(commands') = Len(commands) + 1 /\ Len(commands) \in Nat
          /\ \A i \in 1..Len(commands) : commands'[i] = commands[i]
          /\ commands'[Len(commands) + 1] = Cmd("Execute", p)
          /\ \A r \in Queries : Queued(r)' => Queued(r) \/ r = p
      <3>1. \A r \in Queries : Cmd("Execute", p) = Cmd("Execute", r) => r = p
        BY DEF Cmd
      <3> QED BY <2>2, <2>3, <3>1, Appended
    <2>5. ~Queued(p) /\ ~(Executing /\ job.query = p)
      BY <2>1 DEF OnceInv, OnePlace
    <2>6. \A i, j \in 1..Len(commands') :
                commands'[i].op = "Execute" /\ commands'[j] = commands'[i] => i = j
      <3>1. \A i \in 1..Len(commands) : commands'[i] # Cmd("Execute", p)
        BY <2>4, <2>5 DEF Queued
      <3> SUFFICES ASSUME NEW i \in 1..Len(commands'), NEW j \in 1..Len(commands'),
                          commands'[i].op = "Execute", commands'[j] = commands'[i]
                   PROVE  i = j
        OBVIOUS
      <3>2. CASE i \in 1..Len(commands)
        <4>1. j \in 1..Len(commands)
          BY <2>4, <3>1, <3>2
        <4> QED BY <2>4, <3>2, <4>1 DEF OnceInv, OnePlace
      <3>3. CASE i = Len(commands) + 1
        BY <2>4, <3>1, <3>3
      <3> QED BY <2>4, <3>2, <3>3
    <2>7. Executing' => Executing
      BY <1>1 DEF Executing
    <2>8. \A r \in Queries : Fresh(r)' => Fresh(r)
      BY <1>1, <2>1, <2>2, <2>4, <2>7, QueryAssumption DEF Fresh
    <2>9. \A r \in Queries : Fresh(r)' => \A s \in Slots : active'[s].query # r
      BY <1>1, <2>8 DEF OnceInv, OnePlace
    <2>10. \A r \in Queries : Queued(r)' => ~(Executing' /\ job'.query = r)
      BY <1>1, <2>4, <2>5, <2>7 DEF OnceInv, OnePlace
    <2> QED BY <2>2, <2>6, <2>8, <2>9, <2>10, QueryAssumption DEF OnePlace
  <1>7. ReadEvent \/ CallerStays => UNCHANGED <<permit, commands>>
    BY DEF ReadEvent, CallerStays
  <1>8. \A q \in Queries : Reserve(q) => q \notin issued
    BY DEF Reserve
  <1> QED BY <1>2, <1>3, <1>4, <1>5, <1>6, <1>7, <1>8, CallerShape DEF OnceInv

\* A step that only awaits, or frees a command nobody reads any more.
LEMMA RestOnce ==
    ASSUME TypeOK, OnceInv, Awaits \/ Discards \/ UNCHANGED vars
    PROVE  OnceInv' /\ \A q \in Queries : Fresh(q)' => Fresh(q)
  <1>1. UNCHANGED <<permit, stage, job, active>> /\ CommandsLess
    BY DEF Awaits, SendEvent, Inquiries, Inquired, DropInquiry, RecordHistory, FreeTicket, Discards,
           Discard, vars, caller, actor, CommandsLess
  <1>2. Executing' => Executing
    BY <1>1 DEF Executing
  <1>3. /\ NextOn' /\ ExecuteStage'
        /\ job'.op = "Execute" => (job'.slot = "object" <=> job'.query \in Objects)
    BY <1>1 DEF OnceInv, NextOn, ExecuteStage, CursorKinds
  <1> QED BY <1>1, <1>2, <1>3, OnceKept

LEMMA OnceNext ==
    ASSUME TypeOK, TicketInv, OnceInv, [Next]_vars
    PROVE  /\ OnceInv'
           /\ \A q \in Queries : Fresh(q)' => Fresh(q) \/ (Reserve(q) /\ q \notin issued)
  <1>1. CASE CallerStep \/ ForwardShutdown
    BY <1>1, CallerOnce
  <1>2. CASE Driven \/ Awaited
    <2>1. Awaits \/ Discards \/ (out = <<>> /\ Outside /\ (Shaped \/ Works))
      BY <1>2, ActorMoves DEF OnceInv
    <2> QED BY <2>1, RestOnce, ShapedOnce, WorksOnce
  <1>3. CASE UNCHANGED vars
    BY <1>3, RestOnce
  <1> QED BY <1>1, <1>2, <1>3 DEF Next

LEMMA OnceInit == Init => OnceInv
  <1> SUFFICES ASSUME Init PROVE OnceInv
    OBVIOUS
  <1>1. /\ permit = NoQuery /\ commands = <<>> /\ stage = "connecting" /\ job.op = "none"
        /\ \A s \in Slots : active[s].query = NoQuery
    BY DEF Init, NoJob, NoCursor
  <1>2. OnePlace
    BY <1>1, QueryAssumption DEF OnePlace, Queued, Executing, Fresh
  <1>3. CursorKinds /\ NextOn /\ ExecuteStage
    BY <1>1, QueryAssumption, KindAssumption DEF CursorKinds, NextOn, ExecuteStage, Slots
  <1> QED BY <1>2, <1>3 DEF OnceInv

LEMMA OnceCorrect == Spec => [](TypeOK /\ TicketInv /\ OnceInv)
  <1>1. Init => TypeOK /\ TicketInv /\ OnceInv
    BY InitType, TicketInit, OnceInit
  <1>2. TypeOK /\ TicketInv /\ OnceInv /\ [Next]_vars => (TypeOK /\ TicketInv /\ OnceInv)'
    BY NextType, TicketNext, OnceNext
  <1> QED BY <1>1, <1>2, PTL DEF Spec

-----------------------------------------------------------------------------
(* A view is shown only over a result that is no longer read.              *)

\* The statement ran and has a store, but its cursor is still to be opened.
Opening(q) == Executing /\ job.query = q /\ stage = "schema"

\* A statement that has no cursor yet has neither a store nor a view.
Blank == \A q \in Queries : Fresh(q) => q \notin views /\ (stored[q] = "none" \/ Opening(q))
Viewed == \A q \in views : ~Streaming(q)
\* A view is made of a result that is stored, and built once its cursor is read.
Viewing ==
    job.op = "View" /\ stage \in ViewStages =>
        stored[job.query] # "none" /\ (stage = "build" => ~Streaming(job.query))
\* A page is read from a cursor that has more of them.
Reading == job.op \in {"Fetch", "View"} /\ stage \in CursorStages => Live(job.slot)
Unissued == \A q \in Queries : stored[q] # "none" \/ q \in views => q \in issued
StoreInv == Blank /\ Viewed /\ Viewing /\ Reading /\ Unissued

\* What was to be opened is not fresh any more once the statement is done with.
LEMMA OpeningOver ==
    ASSUME TypeOK, OnceInv, permit' = permit, CommandsLess, ~Executing'
    PROVE  \A q \in Queries : Opening(q) => ~Fresh(q)'
  <1>1. \A q \in Queries : Queued(q)' => Queued(q)
    BY LessQueued DEF OnceInv
  <1> QED BY <1>1 DEF Opening, Fresh, OnceInv, OnePlace

LEMMA StoreKept ==
    ASSUME StoreInv, \A q \in Queries : stored'[q] \in {stored[q], "none"}, views' \subseteq views,
           issued \subseteq issued',
           \A q \in Queries : Fresh(q)' => Fresh(q) \/ q \notin issued,
           \A q \in Queries : Opening(q) /\ Fresh(q)' => Opening(q)',
           \A q \in Queries : Streaming(q)' => Streaming(q), views \subseteq Queries,
           Viewing', Reading'
    PROVE  StoreInv'
  <1>1. Blank'
    BY DEF StoreInv, Blank, Unissued
  <1>2. Viewed'
    BY DEF StoreInv, Viewed
  <1>3. Unissued'
    BY DEF StoreInv, Unissued
  <1> QED BY <1>1, <1>2, <1>3 DEF StoreInv

\* The actor rests.
LEMMA RestStore ==
    ASSUME TypeOK, StoreInv, UNCHANGED <<stage, job, active, stored, views>>, issued \subseteq issued',
           \A q \in Queries : Fresh(q)' => Fresh(q) \/ q \notin issued
    PROVE  StoreInv'
  <1>1. \A q \in Queries : Streaming(q)' => Streaming(q)
    BY DEF Streaming, OwnsCursor, Live
  <1>2. \A q \in Queries : Opening(q) => Opening(q)'
    BY DEF Opening, Executing
  <1>3. Viewing' /\ Reading'
    BY DEF StoreInv, Viewing, Reading, Streaming, OwnsCursor, Live
  <1>4. views \subseteq Queries
    BY DEF TypeOK
  <1> QED BY <1>1, <1>2, <1>3, <1>4, StoreKept

\* A query streams from the slot of its kind.
LEMMA StreamsFrom ==
    ASSUME OnceInv, NEW q \in Queries, Streaming(q)
    PROVE  OwnsCursor(q, SlotOf(q)) /\ Live(SlotOf(q))
  <1>1. PICK s \in Slots : active[s].query = q /\ Live(s)
    BY DEF Streaming, OwnsCursor
  <1>2. s = SlotOf(q)
    BY <1>1, QueryAssumption DEF OnceInv, CursorKinds, SlotOf, Slots
  <1> QED BY <1>1, <1>2 DEF OwnsCursor

LEMMA ShapedStore ==
    ASSUME TypeOK, TicketInv, OnceInv, StoreInv, Outside, Shaped
    PROVE  StoreInv'
  <1>1. permit' = permit /\ issued' = issued /\ views \subseteq Queries
    BY OutsideKeeps DEF TypeOK
  <1>2. \A q \in Queries : Fresh(q)' => Fresh(q)
    BY ShapedOnce
  <1>3. NoJob.op = "none"
    BY DEF NoJob
  <1>4. CASE Goes
    <2>1. PICK s \in Stages : \E steps \in Seq(Step) :
                /\ Become(s, steps)
                /\ job.op = "Execute" /\ s \in ExecuteStages => stage # "schema"
                /\ job.op = "View" /\ s \in ViewStages => s # "build" /\ stage \in ViewStages
                /\ job.op \in {"Fetch", "View"} /\ s \in CursorStages => stage \in CursorStages \/ JobLive
      BY <1>4 DEF Goes
    <2>2. /\ stage' = s /\ (job' = job \/ job' = NoJob)
          /\ UNCHANGED <<commands, active, stored, views>>
      BY <1>4, <2>1 DEF Become, Goes
    <2>3. Executing /\ stage = "schema" => ~Executing'
      BY <1>3, <2>1, <2>2 DEF Executing
    <2>4. \A q \in Queries : Opening(q) /\ Fresh(q)' => Opening(q)'
      BY <1>1, <2>2, <2>3, OpeningOver DEF Opening, CommandsLess
    <2>5. Viewing'
      BY <1>3, <2>1, <2>2 DEF StoreInv, Viewing
    <2>6. Reading'
      BY <1>3, <2>1, <2>2 DEF StoreInv, Reading, JobLive, Live
    <2>7. \A q \in Queries : Streaming(q)' => Streaming(q)
      BY <2>2 DEF Streaming, OwnsCursor, Live
    <2> QED BY <1>1, <1>2, <2>2, <2>4, <2>5, <2>6, <2>7, StoreKept
  <1>5. ASSUME UNCHANGED stored, views' \subseteq views, CommandsLess, ~Executing', Viewing', Reading',
               \A s \in Slots : active'[s] = active[s] \/ active'[s].query = NoQuery
                                \/ (active'[s].query = active[s].query
                                    /\ active'[s].completed = active[s].completed)
        PROVE  StoreInv'
    <2>1. \A q \in Queries : Opening(q) /\ Fresh(q)' => Opening(q)'
      BY <1>1, <1>5, OpeningOver
    <2>2. \A q \in Queries : Streaming(q)' => Streaming(q)
      BY <1>5, QueryAssumption DEF Streaming, OwnsCursor, Live
    <2> QED BY <1>1, <1>2, <1>5, <2>1, <2>2, StoreKept
  <1>6. ASSUME NEW slot \in Slots, Closes(slot) PROVE StoreInv'
    <2>1. /\ stage' \in {"select", "exit", "probe"} /\ UNCHANGED <<commands, stored, views>>
          /\ active' = [active EXCEPT ![slot] = NoCursor]
      BY <1>6 DEF Closes, Become
    <2>2. \A s \in Slots : active'[s] = active[s] \/ active'[s].query = NoQuery
      BY <2>1, TypeFacts DEF NoCursor
    <2>3. ~Executing' /\ Viewing' /\ Reading'
      BY <2>1 DEF Executing, ExecuteStages, Viewing, ViewStages, Reading, CursorStages
    <2> QED BY <1>5, <2>1, <2>2, <2>3 DEF CommandsLess
  <1>7. CASE Replies
    <2>1. stage' = "select" /\ CommandsLess /\ UNCHANGED <<active, stored>> /\ views' \subseteq views
      BY <1>7 DEF Replies, Become, CommandsLess
    <2>2. ~Executing' /\ Viewing' /\ Reading'
      BY <2>1 DEF Executing, ExecuteStages, Viewing, ViewStages, Reading, CursorStages
    <2> QED BY <1>5, <2>1, <2>2
  <1>8. ASSUME NEW j \in Jobs, Begins(j) PROVE StoreInv'
    <2>1. PICK s \in {"start", "build", "reserve", "inspect"} :
            /\ Begin(j, s, <<>>) /\ (j.op = "Fetch" => s = "reserve")
            /\ j.op = "View" =>
                /\ stored[j.query] # "none"
                /\ s = "build" => ~(OwnsCursor(j.query, SlotOf(j.query)) /\ Live(SlotOf(j.query)))
                /\ s # "build" => Live(j.slot)
      BY <1>8 DEF Begins
    <2>2. /\ job' = j /\ stage' = s /\ CommandsLess /\ j.op # "Execute"
          /\ UNCHANGED <<stored, views>>
          /\ \A t \in Slots : /\ active'[t].query = active[t].query
                              /\ active'[t].completed = active[t].completed
      BY <1>8, <2>1 DEF Begins, Begin, CommandsLess
    <2>3. ~Executing' /\ Reading'
      <3>1. j.slot \in Slots
        BY JobFields
      <3> QED BY <2>1, <2>2, <3>1 DEF Executing, Reading, CursorStages, Live
    <2>4. Viewing'
      <3>1. ASSUME j.op = "View", s = "build" PROVE ~Streaming(j.query)'
        <4>1. j.query \in Queries
          BY <3>1, JobFields DEF QueryOps
        <4>2. ~Streaming(j.query)
          BY <2>1, <3>1, <4>1, StreamsFrom
        <4> QED BY <2>2, <4>2 DEF Streaming, OwnsCursor, Live
      <3> QED BY <2>1, <2>2, <3>1 DEF Viewing
    <2> QED BY <1>5, <2>2, <2>3, <2>4
  <1> QED BY <1>4, <1>6, <1>7, <1>8 DEF Shaped

\* The steps that store, show or stream something do so for one query.
LEMMA StoreEdits ==
    ASSUME StoreInv, NEW q \in Queries, q \in issued, issued' = issued, views' \subseteq Queries,
           \A r \in Queries : Fresh(r)' => Fresh(r),
           \A r \in Queries \ {q} : /\ stored'[r] = stored[r] /\ (r \in views' => r \in views)
                                    /\ Streaming(r)' => Streaming(r)
                                    /\ ~Opening(r),
           Fresh(q)' => q \notin views' /\ (stored'[q] = "none" \/ Opening(q)'),
           q \in views' => ~Streaming(q)',
           Viewing', Reading'
    PROVE  StoreInv'
  <1>1. Blank'
    BY DEF StoreInv, Blank
  <1>2. Viewed'
    BY DEF StoreInv, Viewed
  <1>3. Unissued'
    BY DEF StoreInv, Unissued
  <1> QED BY <1>1, <1>2, <1>3 DEF StoreInv

\* What a cursor is read of is not fresh.
LEMMA OwnedNotFresh ==
    ASSUME OnceInv, NEW q \in Queries, NEW s \in Slots, active[s].query = q
    PROVE  ~Fresh(q)
  BY DEF OnceInv, OnePlace

LEMMA ExecutedStore ==
    ASSUME TypeOK, TicketInv, OnceInv, StoreInv, Executed(TRUE)
    PROVE  StoreInv'
  <1>1. PICK q \in Queries : q = job.query
    BY TypeFacts DEF Executed, QueryOps
  <1>2. /\ UNCHANGED <<commands, active, job, views, issued, permit>> /\ job.op = "Execute"
        /\ stage = "work" /\ stage' = "schema" /\ stored' = [stored EXCEPT ![q] = "empty"]
    BY <1>1, OutsideKeeps DEF Executed, Ready, Become
  <1>3. Opening(q)' /\ Executing /\ \A r \in Queries : ~Opening(r)
    BY <1>1, <1>2 DEF Opening, Executing, ExecuteStages
  <1>4. q \in issued /\ stored \in [Queries -> {"none", "empty", "pages"}] /\ views \subseteq Queries
    BY <1>1, QueryAssumption DEF TicketInv, IssuedOnly, Known, TypeOK
  <1>5. \A r \in Queries : Fresh(r)' => Fresh(r)
    BY <1>2, <1>3 DEF Fresh, Queued
  <1>6. q \notin views
    BY <1>1, <1>3 DEF StoreInv, Blank, Fresh
  <1>7. \A r \in Queries : Streaming(r)' => Streaming(r)
    BY <1>2 DEF Streaming, OwnsCursor, Live
  <1>8. Viewing' /\ Reading'
    BY <1>2 DEF Viewing, Reading
  <1> QED BY <1>2, <1>3, <1>4, <1>5, <1>6, <1>7, <1>8, StoreEdits

LEMMA PageStore ==
    ASSUME TypeOK, TicketInv, OnceInv, StoreInv, Fetched \/ ViewPage,
           \A r \in Queries : Fresh(r)' => Fresh(r)
    PROVE  StoreInv'
  <1>1. PICK q \in Queries : q = job.query
    BY TypeFacts DEF Fetched, ViewPage, QueryOps
  <1>2. /\ UNCHANGED <<commands, job, views, issued, permit>> /\ job.op \in {"Fetch", "View"}
        /\ stage = "work" /\ stored' = [stored EXCEPT ![q] = "pages"]
    BY <1>1, OutsideKeeps DEF Fetched, ViewPage, PageStored, Ready, Become
  <1>3. PICK slot \in Slots : slot = job.slot
    BY TypeFacts
  <1>4. active[slot].query = q
    BY <1>1, <1>2, <1>3 DEF TicketInv, OnCursor, CursorStages
  <1>5. q \in issued /\ stored \in [Queries -> {"none", "empty", "pages"}] /\ views \subseteq Queries
    BY <1>1, QueryAssumption DEF TicketInv, IssuedOnly, Known, TypeOK
  <1>6. ~Fresh(q) /\ ~Executing /\ \A r \in Queries : ~Opening(r)
    BY <1>2, <1>4, OwnedNotFresh DEF Executing, Opening
  <1>7. \A r \in Queries : Streaming(r)' => Streaming(r)
    <2>1. CASE Fetched
      <3>1. ~active[slot].completed
        BY <1>3, <2>1 DEF StoreInv, Reading, Live, Fetched, PageStored, Ready, CursorStages
      <3> QED BY <1>3, <2>1, <3>1, PageCursor DEF Streaming, OwnsCursor, Live
    <2>2. CASE ViewPage
      BY <1>3, <2>2, ViewCursor DEF Streaming, OwnsCursor, Live
    <2> QED BY <2>1, <2>2
  <1>8. q \in views' => ~Streaming(q)'
    BY <1>2, <1>7 DEF StoreInv, Viewed
  <1>9. Viewing' /\ Reading'
    <2>1. CASE Fetched
      <3>1. job'.op = "Fetch" /\ stage' = "probe"
        BY <1>2, <2>1 DEF Fetched, Become
      <3> QED BY <3>1 DEF Viewing, Reading, CursorStages
    <2>2. CASE ViewPage
      <3>1. job'.op = "View" /\ stage' = "scan" /\ stored'[job'.query] # "none"
        BY <1>1, <1>2, <1>5, <2>2 DEF ViewPage, Become
      <3>2. Live(job.slot) /\ active'[job.slot].completed = active[job.slot].completed
        BY <1>2, <2>2, ViewCursor DEF StoreInv, Reading, CursorStages
      <3>3. job' = job
        BY <1>2
      <3> QED BY <3>1, <3>2, <3>3 DEF Viewing, Reading, Live
    <2> QED BY <2>1, <2>2
  <1> QED BY <1>2, <1>5, <1>6, <1>7, <1>8, <1>9, StoreEdits

\* The last page of a drain is read: the cursor of the query is complete, and there
\* is no other.
LEMMA ScanStore ==
    ASSUME TypeOK, TicketInv, OnceInv, StoreInv, ScanEnds,
           \A r \in Queries : Fresh(r)' => Fresh(r)
    PROVE  StoreInv'
  <1>1. /\ stage = "scan" /\ job.op = "View" /\ stage' = "build" /\ job' = job
        /\ UNCHANGED <<stored, views, issued>>
    BY OutsideKeeps DEF ScanEnds, Scan, Ready, Become, TypeOK
  <1>2. PICK q \in Queries : q = job.query
    BY <1>1, TypeFacts DEF QueryOps
  <1>3. PICK slot \in Slots : slot = job.slot
    BY TypeFacts
  <1>4. active[slot].query = q
    BY <1>1, <1>2, <1>3 DEF TicketInv, OnCursor, CursorStages
  <1>5. /\ \A s \in Slots : active'[s].query = active[s].query
        /\ \A s \in Slots : s # slot => active'[s] = active[s]
        /\ active'[slot].completed
    BY <1>3, ViewCursor
  <1>6. \A r \in Queries : Streaming(r)' => Streaming(r)
    BY <1>5 DEF Streaming, OwnsCursor, Live
  <1>7. ~Streaming(q)'
    <2>1. \A s \in Slots : active[s].query = q => s = slot
      BY <1>4, QueryAssumption DEF OnceInv, CursorKinds, Slots
    <2> QED BY <1>5, <2>1 DEF Streaming, OwnsCursor, Live
  <1>8. Viewing' /\ Reading'
    BY <1>1, <1>2, <1>7 DEF StoreInv, Viewing, ViewStages, Reading, CursorStages
  <1>9. \A r \in Queries : ~Opening(r)
    BY <1>1 DEF Opening
  <1> QED BY <1>1, <1>6, <1>8, <1>9, StoreKept DEF TypeOK

LEMMA BuildStore ==
    ASSUME TypeOK, TicketInv, OnceInv, StoreInv, Build(TRUE),
           \A r \in Queries : Fresh(r)' => Fresh(r)
    PROVE  StoreInv'
  <1>1. /\ stage = "build" /\ job.op = "View" /\ stage' = "select" /\ job' = NoJob
        /\ UNCHANGED <<stored, issued, active>> /\ views' = views \cup {job.query}
    BY OutsideKeeps DEF Build, Ready, Become, TypeOK
  <1>2. PICK q \in Queries : q = job.query
    BY <1>1, TypeFacts DEF QueryOps
  <1>3. stored[q] # "none" /\ ~Streaming(q)
    BY <1>1, <1>2 DEF StoreInv, Viewing, ViewStages
  <1>4. q \in issued /\ ~Fresh(q) /\ \A r \in Queries : ~Opening(r)
    BY <1>1, <1>3 DEF StoreInv, Blank, Unissued, Opening
  <1>5. \A r \in Queries : Streaming(r)' => Streaming(r)
    BY <1>1 DEF Streaming, OwnsCursor, Live
  <1>6. Viewing' /\ Reading'
    BY <1>1 DEF Viewing, ViewStages, Reading, CursorStages
  <1> QED BY <1>1, <1>2, <1>3, <1>4, <1>5, <1>6, StoreEdits DEF TypeOK

LEMMA OpenCursorStore ==
    ASSUME TypeOK, TicketInv, OnceInv, StoreInv, NEW pages \in 1..MaxPages, OpenCursor(pages)
    PROVE  StoreInv'
  <1>1. PICK q \in Queries : q = job.query
    BY TypeFacts DEF OpenCursor, QueryOps
  <1>2. /\ \A r \in Queries : Fresh(r)' => Fresh(r)
        /\ Fresh(q) /\ ~Fresh(q)' /\ job' = job /\ stage' = "probe"
        /\ \A s \in Slots : active'[s] = active[s] \/ active'[s].query = q
    BY <1>1, OpenCursorOnce
  <1>3. UNCHANGED <<stored, views, issued>>
    BY OutsideKeeps DEF OpenCursor
  <1>4. q \in issued /\ q \notin views
    BY <1>1, <1>2, QueryAssumption DEF TicketInv, IssuedOnly, Known, StoreInv, Blank
  <1>5. \A r \in Queries \ {q} : (Streaming(r)' => Streaming(r)) /\ ~Opening(r)
    BY <1>1, <1>2 DEF Streaming, OwnsCursor, Live, Opening
  <1>6. Viewing' /\ Reading'
    BY <1>2 DEF Viewing, ViewStages, Reading, CursorStages
  <1> QED BY <1>2, <1>3, <1>4, <1>5, <1>6, StoreEdits DEF TypeOK

LEMMA NextResultStore ==
    ASSUME TypeOK, TicketInv, OnceInv, StoreInv, NEW pages \in 1..MaxPages, OpenNextResult(pages),
           \A r \in Queries : Fresh(r)' => Fresh(r)
    PROVE  StoreInv'
  <1>1. PICK q \in Queries : q = job.query
    BY TypeFacts DEF OpenNextResult, QueryOps
  <1>2. /\ stage = "schema" /\ job.op = "NextResult" /\ job' = job /\ stage' = "probe"
        /\ stored' = [stored EXCEPT ![q] = "empty"] /\ views' = views \ {q} /\ issued' = issued
    BY <1>1, OutsideKeeps DEF OpenNextResult, Ready, Become
  <1>3. active["sql"].query = q /\ "sql" \in Slots
    BY <1>1, <1>2 DEF OnceInv, NextOn, NextStages, Slots
  <1>4. q \in issued /\ ~Fresh(q) /\ stored \in [Queries -> {"none", "empty", "pages"}]
    BY <1>1, <1>3, OwnedNotFresh, QueryAssumption DEF TicketInv, IssuedOnly, Known, TypeOK
  <1>5. \A r \in Queries \ {q} : Streaming(r)' => Streaming(r)
    BY <1>3, NextCursor DEF Streaming, OwnsCursor, Live
  <1>6. Viewing' /\ Reading' /\ \A r \in Queries : ~Opening(r)
    BY <1>2 DEF Viewing, Reading, Opening, Executing
  <1> QED BY <1>2, <1>4, <1>5, <1>6, StoreEdits DEF TypeOK

LEMMA WorksStore ==
    ASSUME TypeOK, TicketInv, OnceInv, StoreInv, Outside, Works
    PROVE  StoreInv'
  <1> USE DEF Ready
  <1>1. /\ permit' = permit /\ issued' = issued /\ views \subseteq Queries
        /\ \A q \in Queries : Fresh(q)' => Fresh(q)
    BY OutsideKeeps, WorksOnce DEF TypeOK
  <1>2. CASE \/ Executed(TRUE) \/ Fetched \/ ViewPage \/ ScanEnds \/ Build(TRUE)
             \/ \E pages \in 1..MaxPages : OpenCursor(pages) \/ OpenNextResult(pages)
    BY <1>1, <1>2, ExecutedStore, PageStore, ScanStore, BuildStore, OpenCursorStore, NextResultStore
  <1>3. ASSUME \A q \in Queries : stored'[q] \in {stored[q], "none"}, views' \subseteq views,
               \A s \in Slots : active'[s] = active[s] \/ active'[s].query = NoQuery,
               stage # "schema", Viewing', Reading'
        PROVE  StoreInv'
    <2>1. \A q \in Queries : ~Opening(q)
      BY <1>3 DEF Opening
    <2>2. \A q \in Queries : Streaming(q)' => Streaming(q)
      BY <1>3, QueryAssumption DEF Streaming, OwnsCursor, Live
    <2> QED BY <1>1, <1>3, <2>1, <2>2, StoreKept
  <1>4. CASE BeginExecute
    <2>1. PICK slot \in Slots : active' = [active EXCEPT ![slot] = NoCursor]
      BY <1>4 DEF BeginExecute, Slots
    <2>2. \A s \in Slots : active'[s] = active[s] \/ active'[s].query = NoQuery
      BY <2>1, TypeFacts DEF NoCursor
    <2>3. stage = "select" /\ stage' = "execute" /\ UNCHANGED <<stored, views>>
      BY <1>4 DEF BeginExecute, Receive, Begin
    <2> QED BY <1>3, <2>2, <2>3 DEF Viewing, ViewStages, Reading, CursorStages
  <1>5. CASE ReleaseQuery
    <2>1. PICK q \in Queries : q = Received
      BY <1>5, ReceiveType DEF ReleaseQuery, QueryOps
    <2>2. PICK slot : slot = SlotOf(q)
      OBVIOUS
    <2>3. /\ active' = active \/ active' = [active EXCEPT ![slot] = NoCursor]
          /\ stored' = [stored EXCEPT ![q] = "none"] /\ views' = views \ {q}
          /\ stage = "select" /\ stage' = "probe"
      BY <1>5, <2>1, <2>2 DEF ReleaseQuery, Receive, Begin
    <2>4. \A s \in Slots : active'[s] = active[s] \/ active'[s].query = NoQuery
      BY <2>3, TypeFacts DEF NoCursor
    <2>5. \A r \in Queries : stored'[r] \in {stored[r], "none"}
      BY <2>3 DEF TypeOK
    <2> QED BY <1>3, <2>3, <2>4, <2>5 DEF Viewing, ViewStages, Reading, CursorStages
  <1>6. CASE Exit \/ ConnectEnds \/ DrainCommand
    <2>1. /\ stage \in {"connecting", "exit", "refuse", "drain"} /\ stage' \in {"refuse", "drain"}
          /\ UNCHANGED <<stored, views>>
      BY <1>6 DEF Exit, ConnectEnds, DrainCommand, Begin, Become
    <2>2. active' = active \/ active' = [s \in Slots |-> NoCursor]
      BY <1>6 DEF Exit, ConnectEnds, DrainCommand
    <2>3. \A s \in Slots : active'[s] = active[s] \/ active'[s].query = NoQuery
      BY <2>2 DEF NoCursor
    <2> QED BY <1>3, <2>1, <2>3 DEF Viewing, ViewStages, Reading, CursorStages
  <1>7. ASSUME NEW why \in Reasons, Interrupt(why) PROVE StoreInv'
    <2>1. /\ stage = "work" /\ job'.op = job.op /\ job'.query = job.query /\ job'.slot = job.slot
          /\ stage' = "settle" /\ UNCHANGED <<active, stored, views>>
      BY <1>7, InterruptMoves, TypeFacts DEF Interrupt, Begin
    <2>2. Viewing' /\ Reading'
      BY <2>1 DEF StoreInv, Viewing, ViewStages, Reading, CursorStages, Live
    <2> QED BY <1>3, <2>1, <2>2
  <1> QED BY <1>2, <1>4, <1>5, <1>6, <1>7 DEF Works

LEMMA StoreNext ==
    ASSUME TypeOK, TicketInv, OnceInv, StoreInv, [Next]_vars
    PROVE  StoreInv'
  <1>1. \A q \in Queries : Fresh(q)' => Fresh(q) \/ q \notin issued
    BY OnceNext
  <1>2. ASSUME UNCHANGED <<stage, job, active, stored, views>>, issued \subseteq issued' PROVE StoreInv'
    BY <1>1, <1>2, RestStore
  <1>3. CASE CallerStep \/ ForwardShutdown
    <2>1. UNCHANGED actor /\ issued \subseteq issued'
      BY <1>3 DEF CallerStep, ForwardShutdown, Execute, Disconnect, Shutdown, ReadEvent, Reserve,
         NextResult, ApplyView, CancelView, Cancel, Release, Request, Ask, caller
    <2> QED BY <1>2, <2>1 DEF actor
  <1>4. CASE UNCHANGED vars \/ Awaits \/ Discards
    <2>1. UNCHANGED <<stage, job, active, stored, views, issued>>
      BY <1>4 DEF Awaits, SendEvent, Inquiries, Inquired, DropInquiry, RecordHistory, FreeTicket,
                  Discards, Discard, vars, caller, actor
    <2> QED BY <1>2, <2>1
  <1>5. CASE Driven \/ Awaited
    <2>1. Awaits \/ Discards \/ (out = <<>> /\ Outside /\ (Shaped \/ Works))
      BY <1>5, ActorMoves DEF OnceInv
    <2> QED BY <1>4, <2>1, ShapedStore, WorksStore
  <1> QED BY <1>3, <1>4, <1>5 DEF Next

LEMMA StoreInit == Init => StoreInv
  <1> SUFFICES ASSUME Init PROVE StoreInv
    OBVIOUS
  <1>1. /\ permit = NoQuery /\ commands = <<>> /\ stage = "connecting" /\ job.op = "none"
        /\ stored = [q \in Queries |-> "none"] /\ views = {}
    BY DEF Init, NoJob
  <1> QED BY <1>1 DEF StoreInv, Blank, Viewed, Viewing, Reading, Unissued

\* A filtered or sorted view is shown only over a result that is no longer being read
\* from its cursor: neither a further result nor a page slips under it.
THEOREM ViewsAreOverSettledResults == Spec => []ViewOverSettledResult
  <1>1. StoreInv => ViewOverSettledResult
    BY DEF StoreInv, Viewed, ViewOverSettledResult
  <1> QED BY <1>1, OnceCorrect, StoreInit, StoreNext, PTL DEF Spec

-----------------------------------------------------------------------------
(* Who is told that a statement finished, finds it in the history.         *)

Recorded(q) == q \in issued /\ history[q] \in {"none", "Completed", "rejected"}
\* The steps record that q did not complete.
Spoils(steps, q) ==
    \E i \in 1..Len(steps) :
        /\ steps[i].query = q
        /\ steps[i].type = "drop" \/ (steps[i].type = "record" /\ steps[i].detail # "Completed")
\* What is awaited at i comes after the first record, which is of the same query.
Heralded(steps, i) ==
    \E k \in 1..(i - 1) :
        /\ steps[k] = Record(steps[i].query, "Completed")
        /\ \A m \in 1..(k - 1) : steps[m].type \notin {"record", "drop"}

\* Nothing speaks against a statement that is fresh or read.
Clean ==
    \A q \in Queries : Fresh(q) \/ Streaming(q) =>
        /\ history[q] \in {"none", "pending", "Completed", "rejected"}
        /\ ~Spoils(out, q)
Announced ==
    \A i \in 1..Len(out) : out[i].type = "QueryFinished" =>
        /\ out[i].query \in Queries
        /\ \/ Recorded(out[i].query)
           \/ /\ out[i].query \in issued /\ ~Fresh(out[i].query)
              /\ history[out[i].query] = "pending" /\ Heralded(out, i)
\* What the end of a statement was announced for, or may be asked after it.
Finishes ==
    /\ \A q \in Queries : shown[q] = "finished" => Recorded(q)
    /\ \A i \in 1..Len(commands) : commands[i].op = "NextResult" => Recorded(commands[i].query)
    /\ job.op = "NextResult" => Recorded(job.query)
    /\ \A i \in 1..Len(events) : events[i].type = "QueryFinished" => Recorded(events[i].query)
Unheard == \A q \in Queries : q \notin issued => history[q] = "none" /\ ~Spoils(out, q)
FinishInv == Clean /\ Announced /\ Finishes /\ Unheard

\* The actor works: history and events stay as they are.
LEMMA FinishKept ==
    ASSUME TypeOK, FinishInv, Outside, CommandsLess,
           job'.op = "NextResult" => Recorded(job'.query),
           \A q \in Queries : Fresh(q)' => Fresh(q),
           \A q \in Queries : Streaming(q)' => Streaming(q) \/ Fresh(q) \/ Recorded(q),
           \A q \in Queries : Spoils(out', q) => q \in issued /\ ~Fresh(q)' /\ ~Streaming(q)',
           Announced'
    PROVE  FinishInv'
  <1>1. UNCHANGED <<history, issued, events, shown>>
    BY DEF Outside, caller
  <1>2. Clean'
    BY <1>1 DEF FinishInv, Clean, Recorded
  <1>3. \A i \in 1..Len(commands') : commands'[i].op = "NextResult" => Recorded(commands'[i].query)
    <2>1. CASE commands' = commands
      BY <2>1 DEF FinishInv, Finishes
    <2>2. CASE commands # <<>> /\ commands' = Tail(commands)
      <3>1. \A i \in 1..Len(commands') : i + 1 \in 1..Len(commands) /\ commands'[i] = commands[i + 1]
        BY <2>2 DEF TypeOK
      <3> QED BY <3>1 DEF FinishInv, Finishes
    <2> QED BY <2>1, <2>2 DEF CommandsLess
  <1>4. Finishes'
    BY <1>1, <1>3 DEF FinishInv, Finishes, Recorded
  <1>5. Unheard'
    BY <1>1 DEF FinishInv, Unheard
  <1> QED BY <1>2, <1>4, <1>5 DEF FinishInv

\* It settles or finishes nobody, or gives up the query it settles.
LEMMA FinishQuiet ==
    ASSUME TypeOK, FinishInv, Outside, CommandsLess,
           job'.op = "NextResult" => Recorded(job'.query),
           \A q \in Queries : Fresh(q)' => Fresh(q),
           \A q \in Queries : Streaming(q)' => Streaming(q) \/ Fresh(q) \/ Recorded(q),
           NEW r \in Known, OnlyOf(out', r), r \in Queries => ~Fresh(r)' /\ ~Streaming(r)'
    PROVE  FinishInv'
  <1>1. \A q \in Queries : Spoils(out', q) => q = r
    BY DEF Spoils, OnlyOf
  <1>2. \A q \in Queries : Spoils(out', q) => q \in issued /\ ~Fresh(q)' /\ ~Streaming(q)'
    BY <1>1, QueryAssumption DEF Known
  <1>3. Announced'
    BY DEF Announced, OnlyOf
  <1> QED BY <1>2, <1>3, FinishKept

LEMMA AfterOne ==
    ASSUME NEW e \in Step, NEW steps \in Seq(Step)
    PROVE  /\ Len(<<e>> \o steps) = Len(steps) + 1 /\ (<<e>> \o steps)[1] = e
           /\ \A k \in 1..Len(steps) : (<<e>> \o steps)[k + 1] = steps[k]
  <1>1. <<e>> \in Seq(Step)
    OBVIOUS
  <1>2. PICK f \in Seq(Step) : f = <<e>>
    BY <1>1
  <1>3. Len(f) = 1 /\ f[1] = e
    BY <1>2
  <1> SUFFICES /\ Len(f \o steps) = Len(steps) + 1 /\ (f \o steps)[1] = f[1]
               /\ \A k \in 1..Len(steps) : (f \o steps)[k + 1] = steps[k]
    BY <1>2, <1>3
  <1>4. Len(steps) \in Nat /\ 1 + Len(steps) = Len(steps) + 1
    OBVIOUS
  <1>5. Len(f \o steps) = Len(steps) + 1
    BY <1>2, <1>3, <1>4
  <1>6. (f \o steps)[1] = f[1]
    BY <1>2, <1>3, <1>4
  <1>7. ASSUME NEW k \in 1..Len(steps) PROVE (f \o steps)[k + 1] = steps[k]
    <2>1. k + 1 \in 1..(Len(f) + Len(steps)) /\ ~(k + 1 <= Len(f)) /\ (k + 1) - Len(f) = k
      BY <1>3, <1>4
    <2> QED BY <2>1
  <1> QED BY <1>5, <1>6, <1>7

\* It completes the result of q.
LEMMA CompleteSays ==
    ASSUME NEW q \in Queries, NEW steps, steps = Complete(q) \/ steps = <<Ev("Page", q)>> \o Complete(q)
    PROVE  /\ \A r : ~Spoils(steps, r)
           /\ \A i \in 1..Len(steps) : steps[i].type = "QueryFinished" =>
                steps[i].query = q /\ Heralded(steps, i)
  <1> DEFINE a == Record(q, "Completed")
             b == State(q, "Completed")
             c == Ev("QueryFinished", q)
             p == Ev("Page", q)
  <1>1. /\ a.type = "record" /\ a.detail = "Completed" /\ b.type = "QueryState"
        /\ c.type = "QueryFinished" /\ c.query = q /\ p.type = "Page"
    BY DEF Record, State, Ev
  <1>2. a \in Step /\ b \in Step /\ c \in Step /\ p \in Step
    BY RecordStep, StateStep, EvStep DEF Handles, Statuses, QueryStates, EventTypes
  <1>3. Complete(q) = <<a>> \o <<b, c>>
    BY DEF Complete, Finished
  <1>4. a = Record(c.query, "Completed")
    BY <1>1
  <1> HIDE DEF a, b, c, p
  <1>5. CASE steps = Complete(q)
    <2>1. Len(steps) = 3 /\ steps[1] = a /\ steps[2] = b /\ steps[3] = c
      BY <1>2, <1>3, <1>5
    <2>2. \A i \in 1..Len(steps) : i = 1 \/ i = 2 \/ i = 3
      BY <2>1
    <2>3. \A r : ~Spoils(steps, r)
      BY <1>1, <2>1, <2>2 DEF Spoils
    <2>4. Heralded(steps, 3)
      <3>1. 1 \in 1..(3 - 1) /\ \A m \in 1..(1 - 1) : steps[m].type \notin {"record", "drop"}
        OBVIOUS
      <3> QED BY <1>4, <2>1, <3>1 DEF Heralded
    <2> QED BY <1>1, <2>1, <2>2, <2>3, <2>4
  <1>6. CASE steps = <<p>> \o Complete(q)
    <2>a. PICK d \in Seq(Step) : d = Complete(q) /\ Len(d) = 3 /\ d[1] = a /\ d[2] = b /\ d[3] = c
      <3>1. PICK d \in Seq(Step) : d = <<a>> \o <<b, c>>
        <4>1. <<a>> \in Seq(Step) /\ <<b, c>> \in Seq(Step)
          BY <1>2
        <4>2. <<a>> \o <<b, c>> \in Seq(Step)
          BY <4>1
        <4> QED BY <4>2
      <3>2. Len(d) = 3 /\ d[1] = a /\ d[2] = b /\ d[3] = c
        BY <1>2, <3>1
      <3> QED BY <1>3, <3>1, <3>2
    <2>b. steps = <<p>> \o d
      BY <1>6, <2>a
    <2>1. Len(steps) = 4 /\ steps[1] = p /\ steps[2] = a /\ steps[3] = b /\ steps[4] = c
      <3>1. /\ Len(steps) = 3 + 1 /\ steps[1] = p
            /\ \A k \in 1..3 : steps[k + 1] = d[k]
        <4>1. /\ Len(<<p>> \o d) = Len(d) + 1 /\ (<<p>> \o d)[1] = p
              /\ \A k \in 1..Len(d) : (<<p>> \o d)[k + 1] = d[k]
          BY <1>2, <2>a, AfterOne
        <4> QED BY <2>a, <2>b, <4>1
      <3>2. steps[1 + 1] = d[1] /\ steps[2 + 1] = d[2] /\ steps[3 + 1] = d[3]
        BY <3>1
      <3> QED BY <2>a, <3>1, <3>2
    <2>2. \A i \in 1..Len(steps) : i = 1 \/ i = 2 \/ i = 3 \/ i = 4
      BY <2>1
    <2>3. \A r : ~Spoils(steps, r)
      BY <1>1, <2>1, <2>2 DEF Spoils
    <2>4. Heralded(steps, 4)
      <3>1. 2 \in 1..(4 - 1) /\ \A m \in 1..(2 - 1) : m = 1
        OBVIOUS
      <3>2. \A m \in 1..(2 - 1) : steps[m].type \notin {"record", "drop"}
        BY <1>1, <2>1, <3>1
      <3> QED BY <1>4, <2>1, <3>1, <3>2 DEF Heralded
    <2> QED BY <1>1, <2>1, <2>2, <2>3, <2>4
  <1> QED BY <1>5, <1>6 DEF p

LEMMA FinishSaid ==
    ASSUME TypeOK, FinishInv, Outside, CommandsLess,
           job'.op = "NextResult" => Recorded(job'.query),
           \A q \in Queries : Fresh(q)' => Fresh(q),
           \A q \in Queries : Streaming(q)' => Streaming(q) \/ Fresh(q) \/ Recorded(q),
           NEW r \in Queries, r \in issued, Streaming(r), ~Fresh(r)',
           out' = Complete(r) \/ out' = <<Ev("Page", r)>> \o Complete(r)
    PROVE  FinishInv'
  <1>1. UNCHANGED <<history, issued>>
    BY DEF Outside, caller
  <1>2. /\ \A q : ~Spoils(out', q)
        /\ \A i \in 1..Len(out') : out'[i].type = "QueryFinished" =>
                out'[i].query = r /\ Heralded(out', i)
    BY CompleteSays
  <1>3. history[r] = "pending" \/ Recorded(r)
    BY DEF FinishInv, Clean, Recorded
  <1>4. Announced'
    BY <1>1, <1>2, <1>3 DEF Announced, Recorded
  <1> QED BY <1>2, <1>4, FinishKept

LEMMA ShapedFinish ==
    ASSUME TypeOK, TicketInv, OnceInv, FinishInv, Outside, Shaped
    PROVE  FinishInv'
  <1>1. \A q \in Queries : Fresh(q)' => Fresh(q)
    BY ShapedOnce
  <1>2. NoJob.op = "none" /\ NoQuery \in Known /\ NoQuery \notin Queries
    BY QueryAssumption DEF NoJob, Known
  <1>3. permit' = permit
    BY OutsideKeeps
  <1>4. CASE Goes
    <2>1. PICK s \in Stages : \E steps \in Seq(Step) : Become(s, steps) /\ Says(s, steps)
      BY <1>4 DEF Goes
    <2>2. /\ UNCHANGED <<commands, active>> /\ CommandsLess /\ stage' = s
          /\ (job' = job \/ job' = NoJob) /\ Says(s, out')
      BY <1>4, <2>1 DEF Goes, Become, CommandsLess
    <2>3. job'.op = "NextResult" => Recorded(job'.query)
      BY <1>2, <2>2 DEF FinishInv, Finishes
    <2>4. \A q \in Queries : Streaming(q)' => Streaming(q) \/ Fresh(q) \/ Recorded(q)
      BY <2>2 DEF Streaming, OwnsCursor, Live
    <2>5. CASE OnlyOf(out', NoQuery)
      BY <1>1, <1>2, <2>2, <2>3, <2>4, <2>5, FinishQuiet
    <2>6. CASE Executing /\ s \notin ExecuteStages /\ OnlyOf(out', job.query)
      <3>1. PICK r \in Known : r = job.query
        BY DEF TicketInv, IssuedOnly
      <3>2. ASSUME r \in Queries PROVE ~Fresh(r)' /\ ~Streaming(r)'
        <4>1. Fresh(r) /\ ~Executing'
          BY <2>2, <2>6, <3>1 DEF Fresh, Executing
        <4>2. \A t \in Slots : active'[t].query # r
          BY <2>2, <3>2, <4>1 DEF OnceInv, OnePlace
        <4>3. permit # r /\ ~Queued(r)'
          BY <2>2, <2>6, <3>1, <3>2 DEF OnceInv, OnePlace, Queued
        <4> QED BY <1>3, <4>1, <4>2, <4>3 DEF Fresh, Streaming, OwnsCursor
      <3> QED BY <1>1, <2>2, <2>3, <2>4, <2>6, <3>1, <3>2, FinishQuiet
    <2>7. CASE job.op = "NextResult" /\ out' = <<Ev("QueryFinished", job.query)>>
      <3>1. PICK r \in Queries : r = job.query
        BY <2>7, TypeFacts DEF QueryOps
      <3>2. Recorded(r) /\ UNCHANGED <<history, issued>>
        BY <2>7, <3>1 DEF FinishInv, Finishes, Outside, caller
      <3>3. Len(out') = 1 /\ out'[1].type = "QueryFinished" /\ out'[1].query = r
        BY <2>7, <3>1 DEF Ev
      <3>4. Announced' /\ \A q : ~Spoils(out', q)
        BY <3>2, <3>3 DEF Announced, Recorded, Spoils
      <3> QED BY <1>1, <2>2, <2>3, <2>4, <3>4, FinishKept
    <2> QED BY <2>2, <2>5, <2>6, <2>7 DEF Says
  <1>5. ASSUME NEW slot \in Slots, Closes(slot) PROVE FinishInv'
    <2>1. PICK s \in {"select", "exit", "probe"} :
                \E steps \in Seq(Step) : Become(s, steps) /\ OnlyOf(steps, active[slot].query)
      BY <1>5 DEF Closes
    <2>2. PICK r \in Known : r = active[slot].query
      BY <1>5 DEF TicketInv, IssuedOnly
    <2>3. /\ UNCHANGED commands /\ CommandsLess /\ stage' = s /\ (job' = job \/ job' = NoJob)
          /\ OnlyOf(out', r) /\ active' = [active EXCEPT ![slot] = NoCursor]
      BY <1>5, <2>1, <2>2 DEF Closes, Become, CommandsLess
    <2>4. job'.op = "NextResult" => Recorded(job'.query)
      BY <1>2, <2>3 DEF FinishInv, Finishes
    <2>5. \A t \in Slots : active'[t] = active[t] \/ active'[t].query = NoQuery
      BY <2>3, TypeFacts DEF NoCursor
    <2>6. \A q \in Queries : Streaming(q)' => Streaming(q) \/ Fresh(q) \/ Recorded(q)
      BY <1>2, <2>5 DEF Streaming, OwnsCursor, Live
    <2>7. ASSUME r \in Queries PROVE ~Fresh(r)' /\ ~Streaming(r)'
      <3>1. ~Fresh(r)'
        BY <1>1, <1>5, <2>2, <2>7, OwnedNotFresh
      <3>2. \A t \in Slots : active[t].query = r => t = slot
        BY <2>2, <2>7, QueryAssumption DEF OnceInv, CursorKinds, Slots
      <3>3. active'[slot].query = NoQuery /\ \A t \in Slots : t # slot => active'[t] = active[t]
        BY <2>3, TypeFacts DEF NoCursor
      <3> QED BY <1>2, <2>7, <3>1, <3>2, <3>3 DEF Streaming, OwnsCursor
    <2> QED BY <1>1, <2>3, <2>4, <2>6, <2>7, FinishQuiet
  <1>6. CASE Replies
    <2>1. /\ job' = NoJob /\ CommandsLess /\ UNCHANGED active /\ OnlyOf(out', NoQuery)
      BY <1>6 DEF Replies, Become, CommandsLess
    <2>2. \A q \in Queries : Streaming(q)' => Streaming(q) \/ Fresh(q) \/ Recorded(q)
      BY <2>1 DEF Streaming, OwnsCursor, Live
    <2> QED BY <1>1, <1>2, <2>1, <2>2, FinishQuiet
  <1>7. ASSUME NEW j \in Jobs, Begins(j) PROVE FinishInv'
    <2>1. /\ job' = j /\ out' = <<>> /\ CommandsLess /\ commands # <<>>
          /\ j.op = "NextResult" => Head(commands) = Cmd("NextResult", j.query)
          /\ \A t \in Slots : /\ active'[t].query = active[t].query
                              /\ active'[t].completed = active[t].completed
      BY <1>7 DEF Begins, Begin, CommandsLess
    <2>2. \A q \in Queries : Streaming(q)' => Streaming(q) \/ Fresh(q) \/ Recorded(q)
      BY <2>1 DEF Streaming, OwnsCursor, Live
    <2>3. job'.op = "NextResult" => Recorded(job'.query)
      <3>1. Head(commands) = commands[1] /\ 1 \in 1..Len(commands)
        BY <2>1 DEF TypeOK
      <3> QED BY <2>1, <3>1 DEF FinishInv, Finishes, Cmd
    <2> QED BY <1>1, <1>2, <2>1, <2>2, <2>3, OnlyNone, FinishQuiet
  <1> QED BY <1>4, <1>5, <1>6, <1>7 DEF Shaped

\* A cursor that is closed early is completed, or its close failed.
LEMMA CloseFinish ==
    ASSUME TypeOK, TicketInv, OnceInv, FinishInv, Outside, CommandsLess, job'.op # "NextResult",
           \A q \in Queries : Fresh(q)' => Fresh(q),
           NEW slot \in Slots, active' = [active EXCEPT ![slot] = NoCursor],
           out' \in CloseSteps(active[slot])
    PROVE  FinishInv'
  <1>1. PICK r \in Known : r = active[slot].query
    BY DEF TicketInv, IssuedOnly
  <1>2. \A t \in Slots : active'[t] = active[t] \/ active'[t].query = NoQuery
    BY TypeFacts DEF NoCursor
  <1>3. \A q \in Queries : Streaming(q)' => Streaming(q) \/ Fresh(q) \/ Recorded(q)
    BY <1>2, QueryAssumption DEF Streaming, OwnsCursor, Live
  <1>4. ASSUME r \in Queries PROVE ~Fresh(r)' /\ ~Streaming(r)'
    <2>1. ~Fresh(r)'
      BY <1>1, <1>4, OwnedNotFresh
    <2>2. \A t \in Slots : active[t].query = r => t = slot
      BY <1>1, <1>4, QueryAssumption DEF OnceInv, CursorKinds, Slots
    <2>3. active'[slot].query = NoQuery /\ \A t \in Slots : t # slot => active'[t] = active[t]
      BY TypeFacts DEF NoCursor
    <2> QED BY <1>4, <2>1, <2>2, <2>3, QueryAssumption DEF Streaming, OwnsCursor
  <1>5. r \in Handles /\ "Failed" \in Reasons
    BY <1>1, TypeFacts, CursorType DEF Reasons
  <1>6. CASE out' = <<>> \/ out' = <<Fail(r, "Failed")>> \o Failure(r, "Failed")
    <2>1. Failure(r, "Failed") \in Seq(Step) /\ OnlyOf(Failure(r, "Failed"), r)
      BY <1>5, FailureSteps, QuietAnswers
    <2>2. OnlyOf(out', r)
      BY <1>5, <1>6, <2>1, OnlyNone, FailsOnly
    <2> QED BY <1>3, <1>4, <2>2, FinishQuiet
  <1>7. CASE r \in Queries /\ ~active[slot].completed /\ out' = Complete(r)
    <2>1. Streaming(r) /\ r \in issued
      BY <1>1, <1>7, QueryAssumption DEF Streaming, OwnsCursor, Live, Known
    <2> QED BY <1>3, <1>4, <1>7, <2>1, FinishSaid
  <1>8. r # NoQuery => r \in Queries
    BY <1>5 DEF Handles
  <1> QED BY <1>1, <1>6, <1>7, <1>8 DEF CloseSteps, Complete

LEMMA PageFinish ==
    ASSUME TypeOK, TicketInv, OnceInv, StoreInv, FinishInv, Outside, Fetched \/ ViewPage \/ ScanEnds
    PROVE  FinishInv'
  <1> USE DEF Ready
  <1>1. /\ job' = job /\ commands' = commands /\ job.op \in {"Fetch", "View"} /\ stage \in {"work", "scan"}
        /\ issued' = issued
    BY OutsideKeeps DEF Fetched, ViewPage, PageStored, ScanEnds, Scan, Become, TypeOK
  <1>2. PICK q \in Queries : q = job.query
    BY <1>1, TypeFacts DEF QueryOps
  <1>3. PICK slot \in Slots : slot = job.slot
    BY TypeFacts
  <1>4. active[slot].query = q /\ ~active[slot].completed
    BY <1>1, <1>2, <1>3 DEF TicketInv, OnCursor, CursorStages, StoreInv, Reading, Live
  <1>5. \A r \in Queries : Fresh(r)' => Fresh(r)
    BY WorksOnce DEF Works
  <1>6. Streaming(q) /\ q \in issued /\ ~Fresh(q)'
    BY <1>2, <1>4, <1>5, OwnedNotFresh, QueryAssumption
    DEF Streaming, OwnsCursor, Live, TicketInv, IssuedOnly, Known
  <1>7. /\ \A s \in Slots : active'[s].query = active[s].query
        /\ \A s \in Slots : s # slot => active'[s] = active[s]
    BY <1>3, PageCursor, ViewCursor
  <1>8. \A r \in Queries : Streaming(r)' => Streaming(r) \/ Fresh(r) \/ Recorded(r)
    BY <1>4, <1>7 DEF Streaming, OwnsCursor, Live
  <1>9. /\ CommandsLess /\ NoQuery \in Known /\ NoQuery \notin Queries
        /\ job'.op = "NextResult" => Recorded(job'.query)
    BY <1>1, QueryAssumption DEF CommandsLess, Known
  <1>10. CASE out' = Complete(q) \/ out' = <<Ev("Page", q)>> \o Complete(q)
    BY <1>5, <1>6, <1>8, <1>9, <1>10, FinishSaid
  <1>11. CASE OnlyOf(out', NoQuery)
    BY <1>5, <1>8, <1>9, <1>11, FinishQuiet
  <1>12. /\ <<Ev("Page", q)>> \in Seq(Step) /\ <<>> \in Seq(Step)
         /\ OnlyOf(<<Ev("Page", q)>>, NoQuery) /\ OnlyOf(<<>>, NoQuery)
         /\ OnlyOf(<<Ev("ViewProgress", q)>>, NoQuery)
    BY Answers, QuietAnswers, OnlyNone, TypeFacts DEF EventTypes, Handles
  <1>13. OnlyOf(<<Ev("Page", q)>> \o <<>>, NoQuery)
    BY <1>12, OnlyJoin
  <1>14. Fetched => \/ out' = <<Ev("Page", q)>> \o Complete(q)
                    \/ out' = <<Ev("Page", q)>> \o <<>>
    BY <1>2 DEF Fetched, Become
  <1>15. ViewPage => out' = <<Ev("ViewProgress", q)>>
    BY <1>2 DEF ViewPage, Become
  <1>16. ScanEnds => out' = Complete(q)
    BY <1>2 DEF ScanEnds, Scan, Become
  <1> QED BY <1>10, <1>11, <1>12, <1>13, <1>14, <1>15, <1>16

LEMMA ExitFinish ==
    ASSUME TypeOK, TicketInv, OnceInv, FinishInv, Outside, Exit
    PROVE  FinishInv'
  <1>1. PICK sql \in Known : sql = active["sql"].query
    BY CursorType, TypeFacts DEF TicketInv, IssuedOnly
  <1>2. PICK object \in Known : object = active["object"].query
    BY CursorType, TypeFacts DEF TicketInv, IssuedOnly
  <1>3. sql \in Handles /\ object \in Handles /\ "Disconnected" \in Reasons /\ "sql" \in Slots
    BY <1>1, <1>2, CursorType, TypeFacts DEF Reasons
  <1>4. PICK first \in Seq(Step) :
            /\ first = IF sql = NoQuery THEN <<>>
                       ELSE <<Fail(sql, "Disconnected")>> \o Failure(sql, "Disconnected")
            /\ OnlyOf(first, sql)
    BY <1>3, FailureSteps, QuietAnswers, FailsOnly, OnlyNone, TypeFacts
  <1>5. PICK second \in Seq(Step) :
            /\ second = IF object = NoQuery THEN <<>> ELSE Failure(object, "Disconnected")
            /\ OnlyOf(second, sql)
    BY <1>3, FailureSteps, QuietAnswers, OnlyNone, TypeFacts
  <1>6. /\ out' = first \o second /\ active' = [s \in Slots |-> NoCursor] /\ commands' = commands
        /\ job' = [NoJob EXCEPT !.why = "Disconnected"]
    BY <1>1, <1>2, <1>4, <1>5 DEF Exit, Begin
  <1>7. OnlyOf(out', sql)
    BY <1>4, <1>5, <1>6, OnlyJoin
  <1>8. \A q \in Queries : Fresh(q)' => Fresh(q)
    BY WorksOnce DEF Works
  <1>9. \A q \in Queries : ~Streaming(q)'
    BY <1>6, QueryAssumption DEF Streaming, OwnsCursor, NoCursor
  <1>10. sql \in Queries => ~Fresh(sql)'
    BY <1>1, <1>3, <1>8, OwnedNotFresh
  <1>11. job'.op # "NextResult" /\ CommandsLess
    BY <1>6 DEF NoJob, CommandsLess
  <1> QED BY <1>7, <1>8, <1>9, <1>10, <1>11, FinishQuiet

LEMMA DrainFinish ==
    ASSUME TypeOK, TicketInv, OnceInv, FinishInv, Outside, DrainCommand
    PROVE  FinishInv'
  <1>1. /\ stage \in {"refuse", "drain"} /\ stage' = stage /\ job' = job /\ active' = active
        /\ commands # <<>> /\ commands' = Tail(commands) /\ permit' = permit
    BY OutsideKeeps DEF DrainCommand, Become
  <1>2. \A q \in Queries : Fresh(q)' => Fresh(q)
    BY WorksOnce DEF Works
  <1>3. /\ CommandsLess /\ NoQuery \in Known /\ NoQuery \notin Queries
        /\ job'.op = "NextResult" => Recorded(job'.query)
        /\ \A q \in Queries : Streaming(q)' => Streaming(q) \/ Fresh(q) \/ Recorded(q)
    BY <1>1, QueryAssumption
    DEF CommandsLess, Known, FinishInv, Finishes, Streaming, OwnsCursor, Live
  <1>4. CASE Head(commands).op # "Execute"
    <2>1. out' = <<>>
      BY <1>4 DEF DrainCommand, Become
    <2> QED BY <1>2, <1>3, <2>1, OnlyNone, FinishQuiet
  <1>5. CASE Head(commands).op = "Execute"
    <2>1. Head(commands) \in Command /\ commands[1] = Head(commands) /\ 1 \in 1..Len(commands)
      BY <1>1 DEF TypeOK
    <2>2. PICK q \in Queries : q = Received /\ Head(commands) = Cmd("Execute", q)
      BY <1>5, <2>1 DEF Command, Cmd, Received, SessionOps
    <2>3. q \in Known /\ q \in Handles /\ "Disconnected" \in Reasons
      BY <2>1, <2>2 DEF TicketInv, IssuedOnly, Received, Reasons, Handles
    <2>4. Queued(q) /\ ~Queued(q)'
      BY <1>1, <2>2, HeadLeaves DEF OnceInv
    <2>5. ~Fresh(q)'
      BY <1>1, <2>4 DEF Fresh, Executing, ExecuteStages, OnceInv, OnePlace
    <2>6. ~Streaming(q)'
      BY <1>1, <2>4 DEF OnceInv, OnePlace, Fresh, Streaming, OwnsCursor
    <2>7. PICK rest \in Seq(Step) :
            /\ rest = IF stage = "refuse" THEN <<>> ELSE Failure(q, "Disconnected")
            /\ OnlyOf(rest, q)
      BY <2>3, FailureSteps, QuietAnswers, OnlyNone, TypeFacts
    <2>8. out' = <<Fail(q, "Disconnected")>> \o rest
      BY <1>5, <2>2, <2>7 DEF DrainCommand, Become
    <2>9. OnlyOf(out', q)
      BY <2>3, <2>7, <2>8, FailsOnly
    <2> QED BY <1>2, <1>3, <2>3, <2>5, <2>6, <2>9, FinishQuiet
  <1> QED BY <1>4, <1>5

LEMMA WorksFinish ==
    ASSUME TypeOK, TicketInv, OnceInv, StoreInv, FinishInv, Outside, Works
    PROVE  FinishInv'
  <1> USE DEF Ready
  <1>1. /\ \A q \in Queries : Fresh(q)' => Fresh(q)
        /\ NoQuery \in Known /\ NoQuery \notin Queries /\ OnlyOf(<<>>, NoQuery)
    BY WorksOnce, OnlyNone, QueryAssumption DEF Known
  <1>2. ASSUME CommandsLess, job'.op = "NextResult" => Recorded(job'.query),
               \A q \in Queries : Streaming(q)' => Streaming(q) \/ Fresh(q) \/ Recorded(q),
               OnlyOf(out', NoQuery)
        PROVE  FinishInv'
    BY <1>1, <1>2, FinishQuiet
  <1>3. active' = active => \A q \in Queries : Streaming(q)' => Streaming(q) \/ Fresh(q) \/ Recorded(q)
    BY DEF Streaming, OwnsCursor, Live
  <1>4. CASE Executed(TRUE)
    <2>1. /\ UNCHANGED <<commands, active, job>> /\ job.op = "Execute" /\ out' = <<>>
      BY <1>4 DEF Executed, Become
    <2> QED BY <1>1, <1>2, <1>3, <2>1 DEF CommandsLess
  <1>5. CASE Fetched \/ ViewPage \/ ScanEnds
    BY <1>5, PageFinish
  <1>6. CASE Build(TRUE)
    <2>1. PICK q \in Handles : q = job.query
      BY TypeFacts
    <2>2. /\ UNCHANGED <<commands, active>> /\ job' = NoJob
          /\ out' = <<Ev("ViewProgress", q), Ev("ViewApplied", q)>>
      BY <1>6, <2>1 DEF Build, Become
    <2>3. /\ Len(out') = 2 /\ out'[1] = Ev("ViewProgress", q) /\ out'[2] = Ev("ViewApplied", q)
          /\ \A i \in 1..2 : i = 1 \/ i = 2
      BY <2>2
    <2>4. OnlyOf(out', NoQuery)
      BY <2>3 DEF OnlyOf, Ev
    <2> QED BY <1>2, <1>3, <2>2, <2>4 DEF CommandsLess, NoJob
  <1>7. CASE BeginExecute
    <2>1. PICK q \in Queries : q = Received
      BY <1>7, ReceiveType DEF BeginExecute, QueryOps
    <2>2. PICK slot \in Slots : slot = IF q \in Objects THEN "object" ELSE "sql"
      BY DEF Slots
    <2>3. PICK steps \in CloseSteps(active[slot]) : Begin(Job("Execute", q, slot), "execute", steps)
      BY <1>7, <2>1, <2>2 DEF BeginExecute
    <2>4. /\ CommandsLess /\ job'.op # "NextResult" /\ active' = [active EXCEPT ![slot] = NoCursor]
          /\ out' \in CloseSteps(active[slot])
      BY <1>7, <2>1, <2>2, <2>3 DEF BeginExecute, Receive, Begin, Job, CommandsLess
    <2> QED BY <1>1, <2>4, CloseFinish
  <1>8. CASE ReleaseQuery
    <2>1. PICK q \in Queries : q = Received
      BY <1>8, ReceiveType DEF ReleaseQuery, QueryOps
    <2>2. PICK slot \in Slots : slot = SlotOf(q)
      BY CursorType, TypeFacts
    <2>3. CommandsLess /\ \E steps : Begin(Job("Release", q, slot), "probe", steps)
      BY <1>8, <2>1, <2>2 DEF ReleaseQuery, Receive, CommandsLess
    <2>4. job'.op # "NextResult"
      BY <2>3 DEF Begin, Job
    <2>5. CASE OwnsCursor(q, slot)
      <3>1. PICK steps \in CloseSteps(active[slot]) : Begin(Job("Release", q, slot), "probe", steps)
        BY <1>8, <2>1, <2>2, <2>5 DEF ReleaseQuery
      <3>2. active' = [active EXCEPT ![slot] = NoCursor] /\ out' \in CloseSteps(active[slot])
        BY <1>8, <2>1, <2>2, <2>5, <3>1 DEF ReleaseQuery, Begin
      <3> QED BY <1>1, <2>3, <2>4, <3>2, CloseFinish
    <2>6. CASE ~OwnsCursor(q, slot)
      <3>1. active' = active /\ out' = <<>>
        BY <1>8, <2>1, <2>2, <2>6 DEF ReleaseQuery, Begin
      <3> QED BY <1>1, <1>2, <1>3, <2>3, <2>4, <3>1
    <2> QED BY <2>5, <2>6
  <1>9. CASE Exit
    BY <1>9, ExitFinish
  <1>10. CASE ConnectEnds
    <2>1. \A why : [NoJob EXCEPT !.why = why].op # "NextResult"
      BY DEF NoJob
    <2>2. job'.op # "NextResult" /\ CommandsLess /\ active' = active /\ out' = <<>>
      BY <1>10, <2>1 DEF ConnectEnds, Begin, CommandsLess
    <2> QED BY <1>1, <1>2, <1>3, <2>2
  <1>11. CASE DrainCommand
    BY <1>11, DrainFinish
  <1>12. ASSUME NEW pages \in 1..MaxPages, OpenCursor(pages) PROVE FinishInv'
    <2>1. PICK q \in Queries : q = job.query
      BY <1>12, TypeFacts DEF OpenCursor, QueryOps
    <2>2. /\ Fresh(q) /\ commands' = commands /\ job' = job /\ job.op = "Execute"
          /\ \A s \in Slots : active'[s] = active[s] \/ active'[s].query = q
      BY <1>12, <2>1, OpenCursorOnce
    <2>3. \A r \in Queries : Streaming(r)' => Streaming(r) \/ Fresh(r) \/ Recorded(r)
      BY <2>2 DEF Streaming, OwnsCursor, Live
    <2>4. out' = <<Ev("Schema", q)>> /\ OnlyOf(<<Ev("Schema", q)>>, NoQuery)
      BY <1>12, <2>1, QuietAnswers DEF OpenCursor, Become, EventTypes, Handles
    <2> QED BY <1>2, <2>2, <2>3, <2>4 DEF CommandsLess
  <1>13. ASSUME NEW pages \in 1..MaxPages, OpenNextResult(pages) PROVE FinishInv'
    <2>1. PICK q \in Queries : q = job.query
      BY <1>13, TypeFacts DEF OpenNextResult, QueryOps
    <2>2. /\ commands' = commands /\ job' = job /\ job.op = "NextResult" /\ stage = "schema"
          /\ out' = <<State(q, "Running"), Ev("Schema", q)>>
      BY <1>13, <2>1 DEF OpenNextResult, Become
    <2>3. Recorded(q) /\ active["sql"].query = q
      BY <2>1, <2>2 DEF FinishInv, Finishes, OnceInv, NextOn, NextStages
    <2>4. \A r \in Queries : Streaming(r)' => Streaming(r) \/ Fresh(r) \/ Recorded(r)
      BY <1>13, <2>3, NextCursor DEF Streaming, OwnsCursor, Live
    <2>5. /\ Len(out') = 2 /\ out'[1] = State(q, "Running") /\ out'[2] = Ev("Schema", q)
          /\ \A i \in 1..2 : i = 1 \/ i = 2
      BY <2>2
    <2>6. OnlyOf(out', NoQuery)
      BY <2>5 DEF OnlyOf, Ev, State
    <2> QED BY <1>2, <2>1, <2>2, <2>3, <2>4, <2>6 DEF CommandsLess
  <1>14. ASSUME NEW why \in Reasons, Interrupt(why) PROVE FinishInv'
    <2>1. /\ job'.op = job.op /\ job'.query = job.query /\ UNCHANGED <<active, commands>>
          /\ out' = <<State(job.query, "Cancelling")>>
      BY <1>14, InterruptMoves, TypeFacts DEF Interrupt, Begin
    <2>2. OnlyOf(<<State(job.query, "Cancelling")>>, NoQuery)
      BY TypeFacts, QuietAnswers DEF QueryStates
    <2>3. job'.op = "NextResult" => Recorded(job'.query)
      BY <2>1 DEF FinishInv, Finishes
    <2> QED BY <1>2, <1>3, <2>1, <2>2, <2>3 DEF CommandsLess
  <1> QED
    BY <1>4, <1>5, <1>6, <1>7, <1>8, <1>9, <1>10, <1>11, <1>12, <1>13, <1>14 DEF Works

\* The first of what is awaited is done with.
LEMMA TailKeeps ==
    ASSUME NEW steps \in Seq(Step), steps # <<>>
    PROVE  /\ Tail(steps) \in Seq(Step) /\ Head(steps) = steps[1] /\ 1 \in 1..Len(steps)
           /\ Len(Tail(steps)) = Len(steps) - 1
           /\ \A i \in 1..Len(Tail(steps)) : i + 1 \in 1..Len(steps) /\ Tail(steps)[i] = steps[i + 1]
           /\ \A q : Spoils(Tail(steps), q) => Spoils(steps, q)
  <1>1. /\ Tail(steps) \in Seq(Step) /\ Head(steps) = steps[1] /\ 1 \in 1..Len(steps)
        /\ Len(Tail(steps)) = Len(steps) - 1
        /\ \A i \in 1..Len(Tail(steps)) : i + 1 \in 1..Len(steps) /\ Tail(steps)[i] = steps[i + 1]
    OBVIOUS
  <1>2. \A q : Spoils(Tail(steps), q) => Spoils(steps, q)
    BY <1>1 DEF Spoils
  <1> QED BY <1>1, <1>2

LEMMA HeraldedLater ==
    ASSUME NEW steps \in Seq(Step), steps # <<>>, NEW i \in 1..Len(Tail(steps)),
           Heralded(steps, i + 1)
    PROVE  /\ Head(steps).type \notin {"record", "drop"} => Heralded(Tail(steps), i)
           /\ Head(steps).type \in {"record", "drop"} =>
                Head(steps) = Record(Tail(steps)[i].query, "Completed")
  <1>1. PICK k \in 1..i :
                /\ steps[k] = Record(steps[i + 1].query, "Completed")
                /\ \A m \in 1..(k - 1) : steps[m].type \notin {"record", "drop"}
    BY DEF Heralded
  <1>2. steps[k].type = "record" /\ Tail(steps)[i] = steps[i + 1] /\ Head(steps) = steps[1]
    BY <1>1, TailKeeps DEF Record
  <1>3. CASE Head(steps).type \notin {"record", "drop"}
    <2>1. k # 1 /\ k - 1 \in 1..(i - 1)
      BY <1>1, <1>2, <1>3
    <2>2. Len(Tail(steps)) \in Nat /\ i <= Len(Tail(steps))
      BY TailKeeps
    <2>3. Tail(steps)[k - 1] = steps[k]
      BY <2>1, <2>2, TailKeeps
    <2>4. ASSUME NEW m \in 1..((k - 1) - 1) PROVE Tail(steps)[m].type \notin {"record", "drop"}
      <3>1. m \in 1..Len(Tail(steps)) /\ m + 1 \in 1..(k - 1)
        BY <2>1, <2>2
      <3> QED BY <1>1, <3>1, TailKeeps
    <2>5. Heralded(Tail(steps), i)
      BY <1>1, <1>2, <2>1, <2>3, <2>4 DEF Heralded
    <2> QED BY <1>3, <2>5
  <1>4. CASE Head(steps).type \in {"record", "drop"}
    <2>1. k = 1
      <3>1. k # 1 => 1 \in 1..(k - 1)
        BY <1>1
      <3> QED BY <1>1, <1>2, <1>4, <3>1
    <2> QED BY <1>1, <1>2, <1>4, <2>1
  <1> QED BY <1>3, <1>4

\* An outcome is written once.
LEMMA FinishLater ==
    ASSUME TypeOK, FinishInv, UNCHANGED <<permit, stage, job, active, issued, shown>>, CommandsLess,
           \A q \in Queries : Queued(q)' => Queued(q),
           \A q \in Queries : history'[q] # history[q] =>
                /\ history[q] = "pending"
                /\ history'[q] \in {"Completed", "rejected"} \/ Spoils(out, q) \/ ~(Fresh(q)' \/ Streaming(q)'),
           \A q \in Queries : Spoils(out', q) => Spoils(out, q),
           \A i \in 1..Len(events') : events'[i].type = "QueryFinished" => Recorded(events'[i].query),
           Announced'
    PROVE  FinishInv'
  <1>1. \A q : Recorded(q) => Recorded(q)'
    BY DEF Recorded, TypeOK
  <1>2. Executing' = Executing /\ \A q \in Queries : Fresh(q)' => Fresh(q)
    BY DEF Executing, Fresh
  <1>3. \A q \in Queries : Streaming(q)' => Streaming(q)
    BY DEF Streaming, OwnsCursor, Live
  <1>4. Clean'
    BY <1>2, <1>3 DEF FinishInv, Clean
  <1>5. Unheard'
    BY DEF FinishInv, Unheard
  <1>6. \A i \in 1..Len(commands') : commands'[i].op = "NextResult" => Recorded(commands'[i].query)
    <2>1. CASE commands' = commands
      BY <2>1 DEF FinishInv, Finishes
    <2>2. CASE commands # <<>> /\ commands' = Tail(commands)
      <3>1. \A i \in 1..Len(commands') : i + 1 \in 1..Len(commands) /\ commands'[i] = commands[i + 1]
        BY <2>2 DEF TypeOK
      <3> QED BY <3>1 DEF FinishInv, Finishes
    <2> QED BY <2>1, <2>2 DEF CommandsLess
  <1>7. Finishes'
    BY <1>1, <1>6 DEF FinishInv, Finishes
  <1> QED BY <1>4, <1>5, <1>7 DEF FinishInv

LEMMA EventSaid ==
    ASSUME NEW told \in Seq(Event), NEW e \in Event, NEW i \in 1..Len(Append(told, e))
    PROVE  Append(told, e)[i] = e \/ \E k \in 1..Len(told) : Append(told, e)[i] = told[k]
  OBVIOUS

LEMMA SendFinish == TypeOK /\ FinishInv /\ SendEvent => FinishInv'
  <1> SUFFICES ASSUME TypeOK, FinishInv, SendEvent PROVE FinishInv'
    OBVIOUS
  <1>1. out \in Seq(Step) /\ out # <<>> /\ out' = Tail(out) /\ Head(out).type \in EventTypes
    BY DEF TypeOK, SendEvent
  <1>2. /\ UNCHANGED <<permit, stage, job, active, issued, shown, commands, history>>
        /\ events' = Append(events, Head(out)) \/ events' = events
    BY DEF SendEvent, caller, ledger
  <1>3. \A q : Recorded(q)' = Recorded(q)
    BY <1>2 DEF Recorded
  <1>4. Head(out).type \notin {"record", "drop"}
    BY <1>1 DEF EventTypes
  <1>5. Head(out).type = "QueryFinished" => Recorded(Head(out).query)
    <2>1. Head(out) = out[1] /\ 1 \in 1..Len(out) /\ ~Heralded(out, 1)
      BY <1>1, TailKeeps DEF Heralded
    <2> QED BY <2>1 DEF FinishInv, Announced
  <1>6. \A i \in 1..Len(events') : events'[i].type = "QueryFinished" => Recorded(events'[i].query)
    <2>1. events \in Seq(Event) /\ Head(out) \in Event
      <3>1. Head(out) \in Step
        BY <1>1
      <3> QED BY <1>1, <3>1 DEF TypeOK, Step, EventTypes
    <2>2. ASSUME NEW i \in 1..Len(events')
          PROVE  events'[i] = Head(out) \/ \E k \in 1..Len(events) : events'[i] = events[k]
      <3>1. CASE events' = events
        BY <3>1
      <3>2. CASE events' = Append(events, Head(out))
        BY <2>1, <3>2, EventSaid
      <3> QED BY <1>2, <3>1, <3>2
    <2> QED BY <1>5, <2>2 DEF FinishInv, Finishes
  <1>7. Announced'
    <2> SUFFICES ASSUME NEW i \in 1..Len(Tail(out)), Tail(out)[i].type = "QueryFinished"
                 PROVE  /\ Tail(out)[i].query \in Queries
                        /\ \/ Recorded(Tail(out)[i].query)
                           \/ /\ Tail(out)[i].query \in issued /\ ~Fresh(Tail(out)[i].query)
                              /\ history[Tail(out)[i].query] = "pending" /\ Heralded(Tail(out), i)
      BY <1>1, <1>2 DEF Announced, Recorded, Fresh, Queued, Executing
    <2>1. i + 1 \in 1..Len(out) /\ Tail(out)[i] = out[i + 1]
      BY <1>1, TailKeeps
    <2>2. Heralded(out, i + 1) => Heralded(Tail(out), i)
      BY <1>1, <1>4, HeraldedLater
    <2> QED BY <2>1, <2>2 DEF FinishInv, Announced
  <1>8. \A q \in Queries : Spoils(out', q) => Spoils(out, q)
    BY <1>1, TailKeeps
  <1>9. CommandsLess /\ \A q \in Queries : Queued(q)' => Queued(q)
    BY <1>2 DEF CommandsLess, Queued
  <1> QED BY <1>2, <1>6, <1>7, <1>8, <1>9, FinishLater

\* The driver's answer stands where the question stood.
LEMMA InquiryFinish == TypeOK /\ FinishInv /\ Inquiries => FinishInv'
  <1> SUFFICES ASSUME TypeOK, FinishInv, Inquiries PROVE FinishInv'
    OBVIOUS
  <1>1. out \in Seq(Step) /\ out # <<>> /\ Head(out).type = "inquire"
    BY DEF TypeOK, Inquiries, Inquired, DropInquiry
  <1>2. UNCHANGED <<permit, stage, job, active, issued, shown, commands, history, events>>
    BY DEF Inquiries, Inquired, DropInquiry, caller, ledger
  <1>3. \A q : Recorded(q)' = Recorded(q)
    BY <1>2 DEF Recorded
  <1>4. \A q : Fresh(q)' = Fresh(q)
    BY <1>2 DEF Fresh, Queued, Executing
  <1>5. Tail(out) \in Seq(Step)
    BY <1>1
  <1>6. out' = Tail(out) \/ out' = <<Ev("TransactionState", NoQuery)>> \o Tail(out)
    <2>1. <<>> \o Tail(out) = Tail(out)
      BY <1>5
    <2> QED BY <2>1 DEF Inquiries, Inquired, DropInquiry
  <1>7. (\A q \in Queries : Spoils(out', q) => Spoils(out, q)) /\ Announced'
    <2>1. CASE out' = Tail(out)
      <3>1. ASSUME NEW i \in 1..Len(Tail(out)), Tail(out)[i].type = "QueryFinished"
            PROVE  /\ Tail(out)[i].query \in Queries
                   /\ \/ Recorded(Tail(out)[i].query)
                      \/ /\ Tail(out)[i].query \in issued /\ ~Fresh(Tail(out)[i].query)
                         /\ history[Tail(out)[i].query] = "pending" /\ Heralded(Tail(out), i)
        <4>1. i + 1 \in 1..Len(out) /\ Tail(out)[i] = out[i + 1]
          BY <1>1, TailKeeps
        <4>2. Heralded(out, i + 1) => Heralded(Tail(out), i)
          BY <1>1, HeraldedLater
        <4> QED BY <3>1, <4>1, <4>2 DEF FinishInv, Announced
      <3>2. Announced'
        BY <1>2, <1>3, <1>4, <2>1, <3>1 DEF Announced
      <3> QED BY <1>1, <2>1, <3>2, TailKeeps
    <2>2. CASE out' = <<Ev("TransactionState", NoQuery)>> \o Tail(out)
      <3>1. Ev("TransactionState", NoQuery) \in Step
        BY EvStep DEF EventTypes, Handles
      <3>2. /\ Len(out') = Len(Tail(out)) + 1 /\ out'[1] = Ev("TransactionState", NoQuery)
            /\ \A k \in 1..Len(Tail(out)) : out'[k + 1] = Tail(out)[k]
        BY <1>5, <2>2, <3>1, AfterOne
      <3>3. /\ Len(out') = Len(out) /\ out[1].type = "inquire"
            /\ out'[1].type \notin {"record", "drop", "QueryFinished"}
        BY <1>1, <3>2, TailKeeps DEF Ev
      <3>4. ASSUME NEW i \in 1..Len(out), i # 1 PROVE out'[i] = out[i]
        <4>1. Len(Tail(out)) \in Nat /\ Len(out) = Len(Tail(out)) + 1
          BY <1>1, <1>5, TailKeeps
        <4>2. PICK k \in 1..Len(Tail(out)) : i = k + 1
          <5>1. i - 1 \in 1..Len(Tail(out)) /\ i = (i - 1) + 1
            BY <3>4, <4>1
          <5> QED BY <5>1
        <4> QED BY <1>1, <3>2, <4>2, TailKeeps
      <3>5. \A q \in Queries : Spoils(out', q) => Spoils(out, q)
        BY <3>3, <3>4 DEF Spoils
      <3>6. ASSUME NEW i \in 1..Len(out), i # 1, Heralded(out, i) PROVE Heralded(out', i)
        <4>1. PICK k \in 1..(i - 1) :
                /\ out[k] = Record(out[i].query, "Completed")
                /\ \A m \in 1..(k - 1) : out[m].type \notin {"record", "drop"}
          BY <3>6 DEF Heralded
        <4>2. k # 1
          BY <3>3, <4>1 DEF Record
        <4>3. Len(out) \in Nat
          BY <1>1
        <4>4. k \in 1..Len(out) /\ \A m \in 1..(k - 1) : m \in 1..Len(out)
          BY <4>1, <4>3
        <4>5. out'[k] = Record(out'[i].query, "Completed")
          BY <3>4, <3>6, <4>1, <4>2, <4>4
        <4>6. \A m \in 1..(k - 1) : out'[m].type \notin {"record", "drop"}
          BY <3>3, <3>4, <4>1, <4>4
        <4> QED BY <4>1, <4>5, <4>6 DEF Heralded
      <3>7. ASSUME NEW i \in 1..Len(out'), out'[i].type = "QueryFinished"
            PROVE  /\ out'[i].query \in Queries
                   /\ \/ Recorded(out'[i].query)
                      \/ /\ out'[i].query \in issued /\ ~Fresh(out'[i].query)
                         /\ history[out'[i].query] = "pending" /\ Heralded(out', i)
        <4>1. i \in 1..Len(out) /\ i # 1 /\ out'[i] = out[i]
          BY <3>3, <3>4, <3>7
        <4>2. out[i].type = "QueryFinished" /\ (Heralded(out, i) => Heralded(out', i))
          BY <3>6, <3>7, <4>1
        <4>3. /\ out[i].query \in Queries
              /\ \/ Recorded(out[i].query)
                 \/ /\ out[i].query \in issued /\ ~Fresh(out[i].query)
                    /\ history[out[i].query] = "pending" /\ Heralded(out, i)
          BY <4>1, <4>2 DEF FinishInv, Announced
        <4> QED BY <4>1, <4>2, <4>3
      <3>8. Announced'
        BY <1>2, <1>3, <1>4, <3>7 DEF Announced
      <3> QED BY <3>5, <3>8
    <2> QED BY <1>6, <2>1, <2>2
  <1>8. CommandsLess /\ \A q \in Queries : Queued(q)' => Queued(q)
    BY <1>2 DEF CommandsLess, Queued
  <1>9. \A i \in 1..Len(events') : events'[i].type = "QueryFinished" => Recorded(events'[i].query)
    BY <1>2 DEF FinishInv, Finishes
  <1> QED BY <1>2, <1>7, <1>8, <1>9, FinishLater

LEMMA RecordFinish == \A saved \in BOOLEAN : TypeOK /\ FinishInv /\ RecordHistory(saved) => FinishInv'
  <1> SUFFICES ASSUME NEW saved \in BOOLEAN, TypeOK, FinishInv, RecordHistory(saved) PROVE FinishInv'
    OBVIOUS
  <1>1. out \in Seq(Step) /\ out # <<>> /\ Head(out).type = "record" /\ Tail(out) \in Seq(Step)
    BY TailKeeps DEF TypeOK, RecordHistory
  <1>2. PICK h \in Step : h = Head(out)
    BY <1>1
  <1>3. /\ UNCHANGED <<permit, stage, job, active, issued, shown, commands, events>>
    BY DEF RecordHistory, caller
  <1>4. /\ h.type = "record" /\ h.detail \in Statuses
        /\ h.detail # "Completed" => Spoils(out, h.query)
    BY <1>1, <1>2, TailKeeps DEF Step, Event, EventTypes, Spoils
  <1>5. /\ history \in [Queries -> Statuses \cup {"none", "pending", "rejected"}]
        /\ \/ history' = history /\ ~(h.query \in Queries /\ history[h.query] = "pending")
           \/ history' = [history EXCEPT ![h.query] = h.detail] /\ history[h.query] = "pending"
           \/ history' = [history EXCEPT ![h.query] = "rejected"] /\ history[h.query] = "pending"
    BY <1>2 DEF RecordHistory, TypeOK
  <1>6. \A q \in Queries : history'[q] # history[q] =>
                /\ history[q] = "pending" /\ q = h.query
                /\ history'[q] \in {"Completed", "rejected"} \/ Spoils(out, q)
    BY <1>4, <1>5
  <1>7. h.query \in Queries /\ h.detail = "Completed" =>
                history'[h.query] \in {"Completed", "rejected"} \/ history[h.query] # "pending"
    BY <1>5
  <1>8. PICK s \in 0..1 :
                /\ Len(out') = Len(Tail(out)) + s
                /\ s = 1 => out'[1].type = "HistoryWriteFailed"
                /\ \A i \in 1..Len(Tail(out)) : out'[i + s] = Tail(out)[i]
    <2>1. \/ out' = Tail(out)
          \/ out' = <<>> \o Tail(out)
          \/ out' = <<Ev("HistoryWriteFailed", h.query)>> \o Tail(out) /\ h.query \in Queries
      BY <1>2 DEF RecordHistory
    <2>2. <<>> \o Tail(out) = Tail(out)
      BY <1>1
    <2>3. CASE out' = Tail(out)
      <3>1. /\ Len(out') = Len(Tail(out)) + 0 /\ \A i \in 1..Len(Tail(out)) : out'[i + 0] = Tail(out)[i]
        BY <1>1, <2>3
      <3> QED BY <3>1
    <2>4. CASE out' = <<Ev("HistoryWriteFailed", h.query)>> \o Tail(out) /\ h.query \in Queries
      <3>1. Ev("HistoryWriteFailed", h.query) \in Step
        BY <2>4, EvStep DEF EventTypes, Handles
      <3>2. /\ Len(out') = Len(Tail(out)) + 1 /\ out'[1] = Ev("HistoryWriteFailed", h.query)
            /\ \A i \in 1..Len(Tail(out)) : out'[i + 1] = Tail(out)[i]
        BY <1>1, <2>4, <3>1, AfterOne
      <3> QED BY <3>2 DEF Ev
    <2> QED BY <2>1, <2>2, <2>3, <2>4
  <1>9. ASSUME NEW i \in 1..Len(out'), out'[i].type \in {"record", "drop", "QueryFinished"}
        PROVE  i - s \in 1..Len(Tail(out)) /\ out'[i] = Tail(out)[i - s]
    <2>1. Len(Tail(out)) \in Nat /\ ~(s = 1 /\ i = 1)
      BY <1>1, <1>8, <1>9
    <2>2. i - s \in 1..Len(Tail(out)) /\ (i - s) + s = i
      BY <1>8, <2>1
    <2> QED BY <1>8, <2>2
  <1>10. \A q \in Queries : Spoils(out', q) => Spoils(out, q)
    <2>1. \A q \in Queries : Spoils(out', q) => Spoils(Tail(out), q)
      BY <1>9 DEF Spoils
    <2> QED BY <1>1, <2>1, TailKeeps
  <1>11. Announced'
    <2> SUFFICES ASSUME NEW i \in 1..Len(out'), out'[i].type = "QueryFinished"
                 PROVE  /\ out'[i].query \in Queries /\ out'[i].query \in issued
                        /\ history'[out'[i].query] \in {"none", "Completed", "rejected"}
      BY <1>3 DEF Announced, Recorded
    <2>1. i - s \in 1..Len(Tail(out)) /\ out'[i] = Tail(out)[i - s]
      BY <1>9
    <2>2. PICK k \in 1..Len(Tail(out)) : k = i - s /\ out'[i] = Tail(out)[k]
      BY <2>1
    <2>3. k + 1 \in 1..Len(out) /\ Tail(out)[k] = out[k + 1]
      BY <1>1, TailKeeps
    <2>4. PICK q \in Queries : q = out[k + 1].query /\ q = out'[i].query /\ q = Tail(out)[k].query
      BY <2>2, <2>3 DEF FinishInv, Announced
    <2>5. Recorded(q) \/ (q \in issued /\ history[q] = "pending" /\ Heralded(out, k + 1))
      BY <2>2, <2>3, <2>4 DEF FinishInv, Announced
    <2>6. CASE Recorded(q)
      BY <1>3, <1>6, <2>4, <2>6 DEF Recorded
    <2>7. CASE q \in issued /\ history[q] = "pending" /\ Heralded(out, k + 1)
      <3>1. h = Record(q, "Completed")
        BY <1>1, <1>2, <2>4, <2>7, HeraldedLater
      <3> QED BY <1>3, <1>7, <2>4, <2>7, <3>1 DEF Recorded, Record
    <2> QED BY <2>4, <2>5, <2>6, <2>7
  <1>12. CommandsLess /\ \A q \in Queries : Queued(q)' => Queued(q)
    BY <1>3 DEF CommandsLess, Queued
  <1>13. \A i \in 1..Len(events') : events'[i].type = "QueryFinished" => Recorded(events'[i].query)
    BY <1>3 DEF FinishInv, Finishes
  <1> QED BY <1>3, <1>6, <1>10, <1>11, <1>12, <1>13, FinishLater

\* The ticket of q is freed.
LEMMA DropSays ==
    ASSUME TypeOK, FinishInv, NEW q \in Queries, NEW saved \in BOOLEAN, DropTicket(q, saved)
    PROVE  /\ \A r \in Queries : history'[r] # history[r] => history[r] = "pending" /\ r = q
           /\ \A i \in 1..Len(events') : events'[i].type = "QueryFinished" => Recorded(events'[i].query)
  <1>1. \A r \in Queries : history'[r] # history[r] => history[r] = "pending" /\ r = q
    BY DEF DropTicket, TypeOK
  <1>2. \/ events' = events
        \/ events' = Append(events, Ev("HistoryWriteFailed", q))
    BY DEF DropTicket
  <1>3. CASE events' = events
    BY <1>1, <1>3 DEF FinishInv, Finishes
  <1>4. CASE events' = Append(events, Ev("HistoryWriteFailed", q))
    <2>1. Ev("HistoryWriteFailed", q) \in Event /\ events \in Seq(Event)
      BY EvStep DEF TypeOK, EventTypes, Handles
    <2>2. \A i \in 1..Len(events') :
            \/ events'[i] = Ev("HistoryWriteFailed", q)
            \/ \E k \in 1..Len(events) : events'[i] = events[k]
      BY <1>4, <2>1, EventSaid
    <2> QED BY <1>1, <2>2 DEF Ev, FinishInv, Finishes
  <1> QED BY <1>2, <1>3, <1>4

LEMMA FreeFinish == \A saved \in BOOLEAN : TypeOK /\ FinishInv /\ FreeTicket(saved) => FinishInv'
  <1> SUFFICES ASSUME NEW saved \in BOOLEAN, TypeOK, FinishInv, FreeTicket(saved) PROVE FinishInv'
    OBVIOUS
  <1>1. out \in Seq(Step) /\ out # <<>> /\ out' = Tail(out) /\ Head(out).type = "drop"
    BY DEF FreeTicket, TypeOK
  <1>2. Head(out) \in Step /\ UNCHANGED <<permit, stage, job, active, issued, shown, commands>>
    BY <1>1 DEF FreeTicket, caller
  <1>3. PICK q \in Queries : q = Head(out).query /\ DropTicket(q, saved)
    BY <1>1, <1>2 DEF FreeTicket, Step, Event, EventTypes
  <1>4. Spoils(out, q)
    BY <1>1, <1>3, TailKeeps DEF Spoils
  <1>5. /\ \A r \in Queries : history'[r] # history[r] => history[r] = "pending" /\ r = q
        /\ \A i \in 1..Len(events') : events'[i].type = "QueryFinished" => Recorded(events'[i].query)
    BY <1>3, DropSays
  <1>6. \A r \in Queries : Spoils(out', r) => Spoils(out, r)
    BY <1>1, TailKeeps
  <1>7. Announced'
    <2> SUFFICES ASSUME NEW i \in 1..Len(Tail(out)), Tail(out)[i].type = "QueryFinished"
                 PROVE  /\ Tail(out)[i].query \in Queries /\ Tail(out)[i].query \in issued
                        /\ history'[Tail(out)[i].query] \in {"none", "Completed", "rejected"}
      BY <1>1, <1>2 DEF Announced, Recorded
    <2>1. i + 1 \in 1..Len(out) /\ Tail(out)[i] = out[i + 1]
      BY <1>1, TailKeeps
    <2>2. ~Heralded(out, i + 1)
      <3>1. Heralded(out, i + 1) => Head(out) = Record(Tail(out)[i].query, "Completed")
        BY <1>1, HeraldedLater
      <3> QED BY <1>1, <3>1 DEF Record
    <2>3. Tail(out)[i].query \in Queries /\ Recorded(Tail(out)[i].query)
      BY <2>1, <2>2 DEF FinishInv, Announced
    <2> QED BY <1>2, <1>5, <2>3 DEF Recorded
  <1>8. CommandsLess /\ \A r \in Queries : Queued(r)' => Queued(r)
    BY <1>2 DEF CommandsLess, Queued
  <1> QED BY <1>2, <1>4, <1>5, <1>6, <1>7, <1>8, FinishLater

\* A statement nobody runs any more is not fresh, and was not announced.
LEMMA DiscardFinish ==
    \A saved \in BOOLEAN : TypeOK /\ OnceInv /\ FinishInv /\ Discard(saved) => FinishInv'
  <1> SUFFICES ASSUME NEW saved \in BOOLEAN, TypeOK, OnceInv, FinishInv, Discard(saved)
               PROVE  FinishInv'
    OBVIOUS
  <1>1. /\ UNCHANGED <<permit, stage, job, active, issued, shown, out>> /\ stage = "stopped"
        /\ commands # <<>> /\ commands' = Tail(commands) /\ commands \in Seq(Command)
    BY DEF Discard, caller, actor, TypeOK
  <1>2. CommandsLess /\ \A q \in Queries : Queued(q)' => Queued(q)
    BY <1>1, LessQueued DEF CommandsLess, OnceInv
  <1>3. \A q \in Queries : Fresh(q)' => Fresh(q)
    BY <1>1, <1>2 DEF Fresh, Executing
  <1>4. /\ \A q \in Queries : history'[q] # history[q] =>
                history[q] = "pending" /\ Fresh(q) /\ ~Fresh(q)' /\ ~Streaming(q)'
        /\ \A i \in 1..Len(events') : events'[i].type = "QueryFinished" => Recorded(events'[i].query)
    <2>1. CASE Head(commands).op # "Execute"
      BY <2>1 DEF Discard, FinishInv, Finishes
    <2>2. CASE Head(commands).op = "Execute"
      <3>1. Head(commands) \in Command
        BY <1>1
      <3>2. PICK q \in Queries : q = Received /\ Head(commands) = Cmd("Execute", q)
        BY <2>2, <3>1 DEF Command, Cmd, Received, SessionOps
      <3>3. /\ \A r \in Queries : history'[r] # history[r] => history[r] = "pending" /\ r = q
            /\ \A i \in 1..Len(events') : events'[i].type = "QueryFinished" => Recorded(events'[i].query)
        BY <2>2, <3>2, DropSays DEF Discard
      <3>4. Queued(q) /\ ~Queued(q)'
        BY <1>1, <3>2, HeadLeaves DEF OnceInv
      <3>5. permit # q /\ ~Executing'
        BY <1>1, <3>4 DEF OnceInv, OnePlace, Executing, ExecuteStages
      <3>6. Fresh(q) /\ ~Fresh(q)'
        BY <1>1, <3>4, <3>5 DEF Fresh
      <3>7. ~Streaming(q)'
        BY <1>1, <3>6 DEF OnceInv, OnePlace, Streaming, OwnsCursor
      <3> QED BY <3>3, <3>6, <3>7
    <2> QED BY <2>1, <2>2
  <1>5. \A q : Recorded(q) => Recorded(q)'
    BY <1>1, <1>4 DEF Recorded, TypeOK
  <1>6. Announced'
    BY <1>1, <1>3, <1>4, <1>5 DEF FinishInv, Announced
  <1>7. \A q \in Queries : Spoils(out', q) => Spoils(out, q)
    BY <1>1
  <1> QED BY <1>1, <1>2, <1>4, <1>6, <1>7, FinishLater

\* The caller changes nothing that was announced.
LEMMA FinishAround ==
    ASSUME TypeOK, FinishInv, UNCHANGED <<stage, job, active, out>>,
           \A q \in Queries : Fresh(q)' => Fresh(q) \/ q \notin issued,
           issued \subseteq issued',
           \A q \in Queries : history'[q] # history[q] =>
                q \notin issued /\ q \in issued' /\ history'[q] = "pending",
           \A q \in Queries : shown'[q] = "finished" => Recorded(q),
           \A i \in 1..Len(commands') : commands'[i].op = "NextResult" => Recorded(commands'[i].query),
           \A i \in 1..Len(events') : events'[i].type = "QueryFinished" => Recorded(events'[i].query)
    PROVE  FinishInv'
  <1>1. \A q : Recorded(q) => Recorded(q)'
    BY DEF Recorded, TypeOK
  <1>2. \A q \in Queries : Streaming(q)' => Streaming(q)
    BY DEF Streaming, OwnsCursor, Live
  <1>3. Clean'
    <2> SUFFICES ASSUME NEW q \in Queries, Fresh(q)' \/ Streaming(q)'
                 PROVE  /\ history'[q] \in {"none", "pending", "Completed", "rejected"}
                        /\ ~Spoils(out', q)
      BY DEF Clean
    <2>1. /\ history[q] \in {"none", "pending", "Completed", "rejected"}
          /\ ~Spoils(out, q)
      BY <1>2 DEF FinishInv, Clean, Unheard
    <2> QED BY <2>1
  <1>4. Announced'
    BY <1>1 DEF FinishInv, Announced
  <1>5. Finishes'
    BY <1>1 DEF FinishInv, Finishes
  <1>6. Unheard'
    BY DEF FinishInv, Unheard
  <1> QED BY <1>3, <1>4, <1>5, <1>6 DEF FinishInv

LEMMA CallerFinish ==
    ASSUME TypeOK, TicketInv, OnceInv, FinishInv, CallerStep \/ ForwardShutdown
    PROVE  FinishInv'
  <1>1. UNCHANGED actor
    BY DEF CallerStep, ForwardShutdown, Execute, Disconnect, Shutdown, ReadEvent, Reserve,
       NextResult, ApplyView, CancelView, Cancel, Release, Request, Ask, caller
  <1>2. UNCHANGED <<stage, job, active, out>>
    BY <1>1 DEF actor
  <1>3. \A q \in Queries : Fresh(q)' => Fresh(q) \/ q \notin issued
    BY CallerOnce
  <1>4. /\ \A q \in Queries : shown[q] = "finished" => Recorded(q)
        /\ \A i \in 1..Len(commands) : commands[i].op = "NextResult" => Recorded(commands[i].query)
        /\ \A i \in 1..Len(events) : events[i].type = "QueryFinished" => Recorded(events[i].query)
    BY DEF FinishInv, Finishes
  <1>5. ASSUME NEW q \in Queries, Reserve(q) PROVE FinishInv'
    <2>1. /\ q \notin issued /\ issued' = issued \cup {q} /\ UNCHANGED <<shown, commands>>
          /\ events' = Append(events, State(q, "Queued"))
          /\ history' = history \/ history' = [history EXCEPT ![q] = "pending"]
      BY <1>5 DEF Reserve
    <2>2. \A r \in Queries : history'[r] # history[r] =>
                r \notin issued /\ r \in issued' /\ history'[r] = "pending"
      BY <2>1 DEF TypeOK
    <2>3. State(q, "Queued") \in Event /\ events \in Seq(Event)
      BY StateStep DEF TypeOK, QueryStates, Handles
    <2>4. \A i \in 1..Len(events') :
            \/ events'[i] = State(q, "Queued")
            \/ \E k \in 1..Len(events) : events'[i] = events[k]
      BY <2>1, <2>3, EventSaid
    <2>5. \A i \in 1..Len(events') : events'[i].type = "QueryFinished" => Recorded(events'[i].query)
      BY <1>4, <2>4 DEF State
    <2> QED BY <1>2, <1>3, <1>4, <2>1, <2>2, <2>5, FinishAround
  <1>6. CASE Execute
    <2>1. PICK p \in Queries : p = permit
      BY <1>6 DEF Execute, TypeOK, Handles
    <2>2. Cmd("Execute", p) \in Command /\ Cmd("Execute", p).op # "NextResult"
      BY DEF Cmd, Command, QueryOps
    <2>3. commands' = Append(commands, Cmd("Execute", p)) /\ UNCHANGED <<issued, history, shown, events>>
      BY <1>6, <2>1 DEF Execute, ledger
    <2>4. \A i \in 1..Len(commands') : commands'[i].op = "NextResult" => Recorded(commands'[i].query)
      <3>1. \A i \in 1..Len(commands') : i \in 1..Len(commands) \/ commands'[i] = Cmd("Execute", p)
        BY <2>2, <2>3, Appended
      <3> QED BY <1>4, <2>2, <2>3, <3>1, Appended
    <2> QED BY <1>2, <1>3, <1>4, <2>3, <2>4, FinishAround
  <1>7. CASE ReadEvent
    <2>1. UNCHANGED <<issued, history, commands>> /\ events # <<>> /\ events' = Tail(events)
      BY <1>7 DEF ReadEvent, ledger
    <2>2. PICK e \in Event : e = Head(events) /\ e = events[1]
      BY <2>1 DEF TypeOK
    <2>3. \A i \in 1..Len(events') : i + 1 \in 1..Len(events) /\ events'[i] = events[i + 1]
      BY <2>1 DEF TypeOK
    <2>4. 1 \in 1..Len(events) /\ shown \in [Queries -> {"idle", "finished", "failed"}]
      BY <2>1 DEF TypeOK
    <2>5. \/ shown' = shown
          \/ shown' = [shown EXCEPT ![e.query] = "failed"]
          \/ e.type = "QueryFinished" /\ shown' = [shown EXCEPT ![e.query] = "finished"]
      BY <1>7, <2>2 DEF ReadEvent
    <2>6. \A q \in Queries : shown'[q] = "finished" => Recorded(q)
      BY <1>4, <2>2, <2>4, <2>5
    <2>7. \A i \in 1..Len(events') : events'[i].type = "QueryFinished" => Recorded(events'[i].query)
      BY <1>4, <2>3
    <2> QED BY <1>2, <1>3, <1>4, <2>1, <2>6, <2>7, FinishAround
  <1>8. CASE CallerStays
    <2>1. UNCHANGED <<issued, history, commands, events, shown>>
      BY <1>8 DEF CallerStays, ledger
    <2> QED BY <1>2, <1>3, <1>4, <2>1, FinishAround
  <1>9. ASSUME NEW c \in Command, CallerAsks(c) PROVE FinishInv'
    <2>1. /\ UNCHANGED <<issued, history, events>> /\ commands' = Append(commands, c)
          /\ \A q \in Queries : shown'[q] = "finished" => shown[q] = "finished"
      BY <1>9 DEF CallerAsks, ledger
    <2>2. c.op = "NextResult" => Recorded(c.query)
      <3>1. c.op = "NextResult" => c.query \in Queries
        BY DEF Command, QueryOps, SessionOps
      <3> QED BY <1>4, <1>9, <3>1 DEF CallerAsks
    <2>3. \A i \in 1..Len(commands') : commands'[i].op = "NextResult" => Recorded(commands'[i].query)
      <3>1. \A i \in 1..Len(commands') : i \in 1..Len(commands) \/ commands'[i] = c
        BY <2>1, Appended
      <3> QED BY <1>4, <2>1, <2>2, <3>1, Appended
    <2> QED BY <1>2, <1>3, <1>4, <2>1, <2>3, FinishAround
  <1> QED BY <1>5, <1>6, <1>7, <1>8, <1>9, CallerShape

LEMMA FinishNext ==
    ASSUME TypeOK, TicketInv, OnceInv, StoreInv, FinishInv, [Next]_vars
    PROVE  FinishInv'
  <1>1. CASE CallerStep \/ ForwardShutdown
    BY <1>1, CallerFinish
  <1>2. CASE Driven \/ Awaited
    <2>1. Awaits \/ Discards \/ (out = <<>> /\ Outside /\ (Shaped \/ Works))
      BY <1>2, ActorMoves DEF OnceInv
    <2>2. CASE Awaits
      BY <2>2, SendFinish, InquiryFinish, RecordFinish, FreeFinish DEF Awaits
    <2>3. CASE Discards
      BY <2>3, DiscardFinish DEF Discards
    <2> QED BY <2>1, <2>2, <2>3, ShapedFinish, WorksFinish
  <1>3. CASE UNCHANGED vars
    <2>1. UNCHANGED <<stage, job, active, out, issued, history, commands, events, shown>>
      BY <1>3 DEF vars, caller, actor, ledger
    <2>2. /\ \A q \in Queries : Fresh(q)' => Fresh(q) \/ q \notin issued
      BY OnceNext
    <2>3. /\ \A q \in Queries : shown[q] = "finished" => Recorded(q)
          /\ \A i \in 1..Len(commands) : commands[i].op = "NextResult" => Recorded(commands[i].query)
          /\ \A i \in 1..Len(events) : events[i].type = "QueryFinished" => Recorded(events[i].query)
      BY DEF FinishInv, Finishes
    <2> QED BY <2>1, <2>2, <2>3, FinishAround
  <1> QED BY <1>1, <1>2, <1>3 DEF Next

LEMMA FinishInit == Init => FinishInv
  <1> SUFFICES ASSUME Init PROVE FinishInv
    OBVIOUS
  <1>1. /\ commands = <<>> /\ out = <<>> /\ events = <<>> /\ job.op = "none"
        /\ history = [q \in Queries |-> "none"] /\ shown = [q \in Queries |-> "idle"]
    BY DEF Init, NoJob
  <1>2. \A q : ~Spoils(out, q)
    BY <1>1 DEF Spoils
  <1> QED BY <1>1, <1>2 DEF FinishInv, Clean, Announced, Finishes, Unheard

\* Who reads that a statement finished, finds it completed in the history, or was told
\* that its entry could not be written.
THEOREM FinishedStatementsAreRecorded == Spec => []FinishedIsRecorded
  <1>1. FinishInv => FinishedIsRecorded
    BY DEF FinishInv, Finishes, Recorded, FinishedIsRecorded
  <1>2. Init => StoreInv /\ FinishInv
    BY StoreInit, FinishInit
  <1>3. TypeOK /\ TicketInv /\ OnceInv /\ StoreInv /\ FinishInv /\ [Next]_vars => (StoreInv /\ FinishInv)'
    BY StoreNext, FinishNext
  <1> QED BY <1>1, <1>2, <1>3, OnceCorrect, PTL DEF Spec

-----------------------------------------------------------------------------
(* What a release leaves behind: nothing.                                  *)

Gone(q) == stored[q] = "none" /\ q \notin views /\ \A s \in Slots : active[s].query # q
Mentioned(q) == \E i \in 1..Len(commands) : commands[i].query = q
\* The release is queued and is the last that is asked of q.
ReleaseLast(q) ==
    \E i \in 1..Len(commands) :
        /\ commands[i] = Cmd("Release", q)
        /\ \A k \in (i + 1)..Len(commands) : commands[k].query # q
Untouched(q) == Gone(q) /\ (job.query = q => job.op = "Release" /\ stage = "probe")
Freed(q) == permit # q /\ (ReleaseLast(q) \/ (~Mentioned(q) /\ Untouched(q)))
ReleaseInv == open /\ stage \notin Ending => \A q \in issued \ registered : Freed(q)

LEMMA ReleaseTail ==
    ASSUME TypeOK, commands # <<>>, commands' = Tail(commands), NEW q \in Queries
    PROVE  /\ ~Mentioned(q) => ~Mentioned(q)' /\ Received # q
           /\ ReleaseLast(q) => \/ ReleaseLast(q)'
                                \/ Head(commands) = Cmd("Release", q) /\ ~Mentioned(q)'
  <1>1. /\ \A i \in 1..Len(commands') : i + 1 \in 1..Len(commands) /\ commands'[i] = commands[i + 1]
        /\ Len(commands) \in Nat /\ Len(commands') = Len(commands) - 1
        /\ 1 \in 1..Len(commands) /\ commands[1] = Head(commands)
    BY DEF TypeOK
  <1>2. ~Mentioned(q) => ~Mentioned(q)' /\ Received # q
    BY <1>1 DEF Mentioned, Received
  <1>3. ASSUME NEW i \in 1..Len(commands), commands[i] = Cmd("Release", q),
               \A k \in (i + 1)..Len(commands) : commands[k].query # q
        PROVE  ReleaseLast(q)' \/ (Head(commands) = Cmd("Release", q) /\ ~Mentioned(q)')
    <2>1. CASE i = 1
      <3>1. \A k \in 1..Len(commands') : commands'[k].query # q
        <4>1. \A k \in 1..Len(commands') : k + 1 \in (i + 1)..Len(commands)
          BY <1>1, <2>1
        <4> QED BY <1>1, <1>3, <4>1
      <3> QED BY <1>1, <1>3, <2>1, <3>1 DEF Mentioned
    <2>2. CASE i # 1
      <3>1. i - 1 \in 1..Len(commands') /\ (i - 1) + 1 = i
        BY <1>1, <2>2
      <3>2. commands'[i - 1] = Cmd("Release", q)
        BY <1>1, <1>3, <3>1
      <3>3. \A k \in ((i - 1) + 1)..Len(commands') : commands'[k].query # q
        <4>1. \A k \in ((i - 1) + 1)..Len(commands') :
                k \in 1..Len(commands') /\ k + 1 \in (i + 1)..Len(commands)
          BY <1>1, <3>1
        <4> QED BY <1>1, <1>3, <4>1
      <3>4. ReleaseLast(q)'
        BY <3>1, <3>2, <3>3 DEF ReleaseLast
      <3> QED BY <3>4
    <2> QED BY <2>1, <2>2
  <1> QED BY <1>2, <1>3 DEF ReleaseLast

\* Nobody touches q who does not work for it.
LEMMA FreedKept ==
    ASSUME TypeOK, NEW q \in Queries, Freed(q), permit' # q,
           \/ commands' = commands
           \/ /\ commands # <<>> /\ commands' = Tail(commands)
              /\ Head(commands) # Cmd("Release", q),
           ~Mentioned(q) /\ Untouched(q) => Untouched(q)'
    PROVE  Freed(q)'
  <1>1. CASE commands' = commands
    BY <1>1 DEF Freed, ReleaseLast, Mentioned
  <1>2. CASE /\ commands # <<>> /\ commands' = Tail(commands)
             /\ Head(commands) # Cmd("Release", q)
    BY <1>2, ReleaseTail DEF Freed
  <1> QED BY <1>1, <1>2

LEMMA ReleaseCaller ==
    ASSUME TypeOK, ReleaseInv, CallerStep \/ ForwardShutdown
    PROVE  ReleaseInv'
  <1>1. UNCHANGED actor
    BY DEF CallerStep, ForwardShutdown, Execute, Disconnect, Shutdown, ReadEvent, Reserve,
       NextResult, ApplyView, CancelView, Cancel, Release, Request, Ask, caller
  <1>2. UNCHANGED <<stage, job, active, stored, views>>
    BY <1>1 DEF actor
  <1>3. \A q : Untouched(q)' <=> Untouched(q)
    BY <1>2 DEF Untouched, Gone
  <1>4. ASSUME UNCHANGED <<commands, issued, registered, permit>>, open' => open PROVE ReleaseInv'
    BY <1>2, <1>3, <1>4 DEF ReleaseInv, Freed, ReleaseLast, Mentioned
  <1>5. ASSUME NEW c \in Command, commands' = Append(commands, c), NEW q \in Queries, Freed(q),
               permit' # q, c.query # q
        PROVE  Freed(q)'
    <2>1. /\ Len(commands') = Len(commands) + 1 /\ Len(commands) \in Nat
          /\ \A i \in 1..Len(commands) : commands'[i] = commands[i]
          /\ commands'[Len(commands) + 1] = c
      BY <1>5, Appended
    <2>2. ~Mentioned(q) => ~Mentioned(q)'
      <3>1. \A i \in 1..Len(commands') : i \in 1..Len(commands) \/ commands'[i] = c
        BY <2>1
      <3> QED BY <1>5, <2>1, <3>1 DEF Mentioned
    <2>3. ReleaseLast(q) => ReleaseLast(q)'
      <3> SUFFICES ASSUME NEW i \in 1..Len(commands), commands[i] = Cmd("Release", q),
                          \A k \in (i + 1)..Len(commands) : commands[k].query # q
                   PROVE  ReleaseLast(q)'
        BY DEF ReleaseLast
      <3>1. i \in 1..Len(commands') /\ commands'[i] = Cmd("Release", q)
        BY <2>1
      <3>2. \A k \in (i + 1)..Len(commands') : k \in (i + 1)..Len(commands) \/ commands'[k] = c
        BY <2>1
      <3>3. \A k \in (i + 1)..Len(commands) : commands'[k] = commands[k]
        BY <2>1
      <3>4. \A k \in (i + 1)..Len(commands') : commands'[k].query # q
        BY <1>5, <3>2, <3>3
      <3> QED BY <3>1, <3>4 DEF ReleaseLast
    <2> QED BY <1>3, <1>5, <2>2, <2>3 DEF Freed
  <1>6. ASSUME NEW p \in Queries, Reserve(p) PROVE ReleaseInv'
    <2>1. /\ p \notin issued /\ issued' = issued \cup {p} /\ registered' = registered \cup {p}
          /\ permit' = p /\ UNCHANGED <<open, commands>>
      BY <1>6 DEF Reserve
    <2> QED BY <1>2, <1>3, <2>1 DEF ReleaseInv, Freed, ReleaseLast, Mentioned
  <1>7. CASE Execute
    <2>1. PICK p \in Queries : p = permit
      BY <1>7 DEF Execute, TypeOK, Handles
    <2>2. /\ commands' = Append(commands, Cmd("Execute", p)) /\ permit' = NoQuery
          /\ UNCHANGED <<issued, registered, open>>
      BY <1>7, <2>1 DEF Execute
    <2>3. Cmd("Execute", p) \in Command /\ Cmd("Execute", p).query = p
      BY DEF Cmd, Command, QueryOps
    <2> SUFFICES ASSUME open, stage \notin Ending, NEW q \in issued \ registered PROVE Freed(q)'
      BY <1>2, <2>2 DEF ReleaseInv
    <2>4. Freed(q) /\ q \in Queries
      BY DEF ReleaseInv, TypeOK
    <2> QED BY <1>5, <2>1, <2>2, <2>3, <2>4, QueryAssumption DEF Freed
  <1>8. CASE ReadEvent
    <2>1. /\ UNCHANGED <<commands, issued, permit>>
          /\ (registered' = registered /\ open' = open) \/ ~open'
      BY <1>8 DEF ReadEvent
    <2>2. CASE ~open'
      BY <2>2 DEF ReleaseInv
    <2> QED BY <1>4, <2>1, <2>2
  <1>9. CASE CallerStays
    BY <1>4, <1>9 DEF CallerStays
  <1>10. ASSUME NEW c \in Command, CallerAsks(c) PROVE ReleaseInv'
    <2>1. /\ commands' = Append(commands, c) /\ permit' = permit /\ permit = NoQuery
          /\ UNCHANGED <<issued, open>>
          /\ c.query = NoQuery \/ c.query \in registered
          /\ registered' = IF c.op = "Release" THEN registered \ {c.query} ELSE registered
      BY <1>10 DEF CallerAsks
    <2> SUFFICES ASSUME open, stage \notin Ending, NEW q \in issued \ registered' PROVE Freed(q)'
      BY <1>2, <2>1 DEF ReleaseInv
    <2>2. q \in Queries /\ q # NoQuery /\ permit' # q
      BY <2>1, QueryAssumption DEF TypeOK
    <2>3. CASE q \in registered
      <3>1. c.op = "Release" /\ c.query = q
        BY <2>1, <2>3
      <3>2. c = Cmd("Release", q)
        BY <3>1 DEF Command, Cmd
      <3>3. Len(commands') = Len(commands) + 1 /\ Len(commands) \in Nat /\ commands'[Len(commands) + 1] = c
        BY <2>1, Appended
      <3>4. /\ Len(commands) + 1 \in 1..Len(commands')
            /\ \A k \in ((Len(commands) + 1) + 1)..Len(commands') : commands'[k].query # q
        BY <3>3
      <3>5. ReleaseLast(q)'
        BY <3>2, <3>3, <3>4 DEF ReleaseLast
      <3> QED BY <2>2, <3>5 DEF Freed
    <2>4. CASE q \notin registered
      <3>1. Freed(q) /\ c.query # q
        BY <2>1, <2>2, <2>4 DEF ReleaseInv
      <3> QED BY <1>5, <2>1, <2>2, <3>1
    <2> QED BY <2>3, <2>4
  <1> QED BY <1>6, <1>7, <1>8, <1>9, <1>10, CallerShape

LEMMA ReleaseShaped ==
    ASSUME TypeOK, ReleaseInv, Outside, Shaped
    PROVE  ReleaseInv'
  <1>1. UNCHANGED <<open, issued, registered, permit>> /\ NoJob.query = NoQuery
    BY DEF Outside, caller, NoJob
  <1>2. stage \in Ending => stage' \in Ending
    BY DEF Shaped, Goes, Closes, Replies, Begins, Ending, Become
  <1> SUFFICES ASSUME open, stage \notin Ending, NEW q \in issued \ registered PROVE Freed(q)'
    BY <1>1, <1>2 DEF ReleaseInv
  <1>3. Freed(q) /\ q \in Queries /\ q # NoQuery /\ permit' # q
    BY <1>1, QueryAssumption DEF ReleaseInv, Freed, TypeOK
  <1>4. CASE Goes
    <2>1. /\ UNCHANGED <<commands, active, stored, views>>
          /\ job' = NoJob \/ (job' = job /\ stage # "probe")
      BY <1>4 DEF Goes, Become
    <2>2. Untouched(q) => Untouched(q)'
      BY <1>1, <1>3, <2>1 DEF Untouched, Gone
    <2> QED BY <1>3, <2>1, <2>2, FreedKept
  <1>5. ASSUME NEW slot \in Slots, Closes(slot) PROVE Freed(q)'
    <2>1. /\ UNCHANGED <<commands, stored, views>> /\ stage # "probe"
          /\ active' = [active EXCEPT ![slot] = NoCursor] /\ (job' = NoJob \/ job' = job)
      BY <1>5 DEF Closes, Become
    <2>2. \A s \in Slots : active'[s].query \in {active[s].query, NoQuery}
      BY <2>1, TypeFacts DEF NoCursor
    <2>3. Untouched(q) => Untouched(q)'
      BY <1>1, <1>3, <2>1, <2>2 DEF Untouched, Gone
    <2> QED BY <1>3, <2>1, <2>3, FreedKept
  <1>6. CASE Replies
    <2>1. /\ commands # <<>> /\ commands' = Tail(commands) /\ Head(commands) # Cmd("Release", q)
          /\ UNCHANGED <<active, stored>> /\ views' \subseteq views /\ job' = NoJob
      BY <1>6 DEF Replies, Become, Cmd
    <2>2. Untouched(q) => Untouched(q)'
      BY <1>1, <1>3, <2>1 DEF Untouched, Gone
    <2> QED BY <1>3, <2>1, <2>2, FreedKept
  <1>7. ASSUME NEW j \in Jobs, Begins(j) PROVE Freed(q)'
    <2>1. /\ commands # <<>> /\ commands' = Tail(commands) /\ Head(commands) # Cmd("Release", q)
          /\ UNCHANGED <<stored, views>> /\ job' = j
          /\ \A s \in Slots : active'[s].query = active[s].query
          /\ j.query \in {Received, NoQuery, active["sql"].query}
      BY <1>7 DEF Begins, Begin, Cmd
    <2>2. ~Mentioned(q) => Received # q
      BY <1>3, <2>1, ReleaseTail
    <2>3. ~Mentioned(q) /\ Untouched(q) => Untouched(q)'
      BY <1>3, <2>1, <2>2 DEF Untouched, Gone, Slots
    <2> QED BY <1>3, <2>1, <2>3, FreedKept
  <1> QED BY <1>4, <1>5, <1>6, <1>7 DEF Shaped

\* Work is done for the query of the job.
LEMMA OwnWork ==
    ASSUME TypeOK, TicketInv, OnceInv, Outside,
           \/ Executed(TRUE) \/ Fetched \/ ViewPage \/ ScanEnds \/ Build(TRUE)
           \/ \E pages \in 1..MaxPages : OpenCursor(pages) \/ OpenNextResult(pages)
           \/ \E why \in Reasons : Interrupt(why)
    PROVE  /\ commands' = commands /\ stage \notin Ending \cup {"probe"}
           /\ job'.query \in {job.query, NoQuery}
           /\ \A q \in Queries \ {job.query} :
                /\ stored'[q] = stored[q] /\ (q \in views' => q \in views)
                /\ \A s \in Slots : active'[s].query = q => active[s].query = q
  <1> USE DEF Ready, Ending
  <1>1. NoJob.query = NoQuery /\ stored \in [Queries -> {"none", "empty", "pages"}]
    BY DEF NoJob, TypeOK
  <1>2. CASE Executed(TRUE)
    BY <1>1, <1>2 DEF Executed, Become
  <1>3. CASE Fetched \/ ViewPage
    <2>1. /\ commands' = commands /\ stage = "work" /\ views' = views /\ job' = job
          /\ stored' = [stored EXCEPT ![job.query] = "pages"]
      BY <1>3 DEF Fetched, ViewPage, PageStored, Become
    <2> QED BY <1>1, <1>3, <2>1, PageCursor, ViewCursor
  <1>4. CASE ScanEnds
    <2>1. commands' = commands /\ stage = "scan" /\ views' = views /\ job' = job /\ stored' = stored
      BY <1>4 DEF ScanEnds, Scan, Become
    <2> QED BY <1>4, <2>1, ViewCursor
  <1>5. CASE Build(TRUE)
    <2>1. /\ commands' = commands /\ stage = "build" /\ job' = NoJob /\ UNCHANGED <<stored, active>>
          /\ views' = views \cup {job.query}
      BY <1>5 DEF Build, Become
    <2> QED BY <1>1, <2>1
  <1>6. ASSUME NEW pages \in 1..MaxPages, OpenCursor(pages)
        PROVE  /\ commands' = commands /\ stage = "schema" /\ UNCHANGED <<stored, views, job>>
               /\ \A s \in Slots : active'[s] = active[s] \/ active'[s].query = job.query
    <2>1. job.query \in Queries
      BY <1>6, TypeFacts DEF OpenCursor, QueryOps
    <2> QED BY <1>6, <2>1, OpenCursorOnce DEF OpenCursor
  <1>7. ASSUME NEW pages \in 1..MaxPages, OpenNextResult(pages)
        PROVE  /\ commands' = commands /\ stage = "schema" /\ job' = job
               /\ views' = views \ {job.query} /\ stored' = [stored EXCEPT ![job.query] = "empty"]
               /\ \A s \in Slots : active'[s].query = active[s].query
    BY <1>7, NextCursor DEF OpenNextResult, Become
  <1>8. ASSUME NEW why \in Reasons, Interrupt(why)
        PROVE  /\ commands' = commands /\ stage = "work" /\ job'.query = job.query
               /\ UNCHANGED <<stored, views, active>>
    BY <1>8, InterruptMoves, TypeFacts DEF Interrupt
  <1> QED BY <1>1, <1>2, <1>3, <1>4, <1>5, <1>6, <1>7, <1>8

LEMMA ReleaseWorks ==
    ASSUME TypeOK, TicketInv, OnceInv, ReleaseInv, Outside, Works
    PROVE  ReleaseInv'
  <1>1. UNCHANGED <<open, issued, registered, permit>>
    BY DEF Outside, caller
  <1>2. CASE Exit \/ ConnectEnds \/ DrainCommand
    <2>1. stage' \in Ending
      BY <1>2 DEF Exit, ConnectEnds, DrainCommand, Begin, Become, Ending
    <2> QED BY <2>1 DEF ReleaseInv
  <1>3. ASSUME stage \notin Ending,
               \A q \in Queries : q \in issued \ registered /\ Freed(q) => Freed(q)'
        PROVE  ReleaseInv'
    BY <1>1, <1>3 DEF ReleaseInv, TypeOK
  <1>4. CASE \/ Executed(TRUE) \/ Fetched \/ ViewPage \/ ScanEnds \/ Build(TRUE)
             \/ \E pages \in 1..MaxPages : OpenCursor(pages) \/ OpenNextResult(pages)
             \/ \E why \in Reasons : Interrupt(why)
    <2>1. /\ commands' = commands /\ stage \notin Ending \cup {"probe"}
          /\ job'.query \in {job.query, NoQuery}
          /\ \A q \in Queries \ {job.query} :
                /\ stored'[q] = stored[q] /\ (q \in views' => q \in views)
                /\ \A s \in Slots : active'[s].query = q => active[s].query = q
      BY <1>4, OwnWork
    <2>2. ASSUME NEW q \in Queries, Freed(q) PROVE Freed(q)'
      <3>1. Untouched(q) => Untouched(q)'
        BY <2>1, QueryAssumption DEF Untouched, Gone
      <3> QED BY <1>1, <2>1, <2>2, <3>1, FreedKept DEF Freed
    <2> QED BY <1>3, <2>1, <2>2
  <1>5. CASE BeginExecute
    <2>1. PICK p \in Queries : p = Received
      BY <1>5, ReceiveType DEF BeginExecute, QueryOps
    <2>2. PICK slot \in Slots : active' = [active EXCEPT ![slot] = NoCursor]
      BY <1>5 DEF BeginExecute, Slots
    <2>3. /\ commands # <<>> /\ commands' = Tail(commands) /\ Head(commands).op = "Execute"
          /\ stage = "select" /\ job'.query = p /\ UNCHANGED <<stored, views>>
      BY <1>5, <2>1 DEF BeginExecute, Receive, Ready, Begin, Job
    <2>4. \A s \in Slots : active'[s].query \in {active[s].query, NoQuery}
      BY <2>2, TypeFacts DEF NoCursor
    <2>5. ASSUME NEW q \in Queries, Freed(q) PROVE Freed(q)'
      <3>1. ~Mentioned(q) => p # q
        BY <2>1, <2>3, ReleaseTail
      <3>2. ~Mentioned(q) /\ Untouched(q) => Untouched(q)'
        BY <2>3, <2>4, <3>1, QueryAssumption DEF Untouched, Gone
      <3>3. Head(commands) # Cmd("Release", q)
        BY <2>3 DEF Cmd
      <3> QED BY <1>1, <2>3, <2>5, <3>2, <3>3, FreedKept DEF Freed
    <2>6. stage \notin Ending
      BY <2>3 DEF Ending
    <2> QED BY <1>3, <2>5, <2>6
  <1>6. CASE ReleaseQuery
    <2>1. PICK p \in Queries : p = Received
      BY <1>6, ReceiveType DEF ReleaseQuery, QueryOps
    <2>2. PICK slot \in Slots : slot = SlotOf(p)
      BY CursorType, TypeFacts
    <2>3. /\ commands # <<>> /\ commands' = Tail(commands)
          /\ stage = "select" /\ stage' = "probe" /\ job'.query = p /\ job'.op = "Release"
          /\ stored' = [stored EXCEPT ![p] = "none"] /\ views' = views \ {p}
          /\ \/ OwnsCursor(p, slot) /\ active' = [active EXCEPT ![slot] = NoCursor]
             \/ ~OwnsCursor(p, slot) /\ active' = active
      BY <1>6, <2>1, <2>2 DEF ReleaseQuery, Receive, Ready, Begin, Job
    <2>4. /\ \A s \in Slots : active'[s].query \in {active[s].query, NoQuery}
          /\ OwnsCursor(p, slot) => active'[slot].query = NoQuery
      BY <2>3, TypeFacts DEF NoCursor
    <2>5. stored'[p] = "none" /\ \A q \in Queries \ {p} : stored'[q] = stored[q]
      BY <2>3 DEF TypeOK
    <2>6. \A s \in Slots : active'[s].query # p
      <3>1. \A s \in Slots : active[s].query = p => s = slot
        BY <2>2, QueryAssumption DEF OnceInv, CursorKinds, SlotOf, Slots
      <3> QED BY <2>3, <2>4, <3>1, QueryAssumption DEF OwnsCursor
    <2>7. Untouched(p)'
      BY <2>3, <2>5, <2>6 DEF Untouched, Gone
    <2>8. ASSUME NEW q \in Queries, Freed(q) PROVE Freed(q)'
      <3>1. CASE q = p
        <4>1. ReleaseLast(q) /\ permit' # q
          BY <1>1, <2>1, <2>3, <2>8, <3>1, ReleaseTail DEF Freed
        <4> QED BY <2>3, <2>7, <3>1, <4>1, ReleaseTail DEF Freed
      <3>2. CASE q # p
        <4>1. Untouched(q) => Untouched(q)'
          BY <2>3, <2>4, <2>5, <3>2, QueryAssumption DEF Untouched, Gone
        <4>2. Head(commands) # Cmd("Release", q)
          BY <2>1, <3>2 DEF Cmd, Received
        <4> QED BY <1>1, <2>3, <2>8, <4>1, <4>2, FreedKept DEF Freed
      <3> QED BY <3>1, <3>2
    <2>9. stage \notin Ending
      BY <2>3 DEF Ending
    <2> QED BY <1>3, <2>8, <2>9
  <1> QED BY <1>2, <1>4, <1>5, <1>6 DEF Works

LEMMA ReleaseNext ==
    ASSUME TypeOK, TicketInv, OnceInv, ReleaseInv, [Next]_vars
    PROVE  ReleaseInv'
  <1>1. CASE CallerStep \/ ForwardShutdown
    BY <1>1, ReleaseCaller
  <1>2. CASE UNCHANGED vars \/ Awaits
    <2>1. UNCHANGED <<open, stage, job, active, stored, views, issued, registered, permit, commands>>
      BY <1>2 DEF Awaits, SendEvent, Inquiries, Inquired, DropInquiry, RecordHistory, FreeTicket,
                  vars, caller, actor
    <2> QED BY <2>1 DEF ReleaseInv, Freed, ReleaseLast, Mentioned, Untouched, Gone
  <1>3. CASE Discards
    <2>1. stage' = "stopped"
      BY <1>3 DEF Discards, Discard, actor
    <2> QED BY <2>1 DEF ReleaseInv, Ending
  <1>4. CASE Driven \/ Awaited
    <2>1. Awaits \/ Discards \/ (out = <<>> /\ Outside /\ (Shaped \/ Works))
      BY <1>4, ActorMoves DEF OnceInv
    <2> QED BY <1>2, <1>3, <2>1, ReleaseShaped, ReleaseWorks
  <1> QED BY <1>1, <1>2, <1>3, <1>4 DEF Next

\* When the loop is back at its select after a release, with nothing more asked of the
\* query, neither a store nor a view nor a cursor is left of it.
THEOREM ReleasesFreeEverything == Spec => []ReleasedIsFreed
  <1>1. Init => ReleaseInv
    BY DEF Init, ReleaseInv
  <1>2. TypeOK /\ ReleaseInv => ReleasedIsFreed
    <2> SUFFICES ASSUME TypeOK, ReleaseInv, NEW q \in issued \ registered, open, stage = "select",
                        \A i \in 1..Len(commands) : commands[i].query # q
                 PROVE  Gone(q)
      BY DEF ReleasedIsFreed, Gone
    <2>1. Freed(q)
      BY DEF ReleaseInv, Ending
    <2>2. ~ReleaseLast(q)
      BY DEF ReleaseLast, Cmd
    <2> QED BY <2>1, <2>2 DEF Freed, Untouched
  <1>3. TypeOK /\ TicketInv /\ OnceInv /\ ReleaseInv /\ [Next]_vars => ReleaseInv'
    BY ReleaseNext
  <1> QED BY <1>1, <1>2, <1>3, OnceCorrect, PTL DEF Spec

=============================================================================
