------------------------- MODULE QueryTickets_proofs -------------------------
(***************************************************************************)
(* No history ticket is ever lost (core/src/query_history.rs, actor.rs),   *)
(* for every number of statements, pages, requests and channel capacities. *)
(***************************************************************************)
EXTENDS QueryActor_proofs

USE QueryAssumption, KindAssumption, OpsAssumption, BoundAssumption

-----------------------------------------------------------------------------
(* The inductive invariant.                                                *)

\* The steps still to be awaited settle the ticket of q.
Settles(steps, q) ==
    \E i \in 1..Len(steps) : steps[i].query = q /\ steps[i].type \in {"record", "drop"}

Queued(q) == \E i \in 1..Len(commands) : commands[i] = Cmd("Execute", q)
ExecuteStages == {"execute", "reserve", "start", "work", "settle", "schema"}
Executing == job.op = "Execute" /\ stage \in ExecuteStages

Owner(q) ==
    \/ permit = q
    \/ Queued(q)
    \/ Executing /\ job.query = q
    \/ active["sql"].query = q
    \/ Settles(out, q)

\* A pending ticket belongs to a statement, and somebody holds it.
Owned == \A q \in Queries : history[q] = "pending" => q \notin Objects /\ Owner(q)

\* The ticket of a cursor that is complete has been settled, or is about to be: the
\* cursor may be closed without a word.
Settled ==
    active["sql"].completed =>
        \A q \in Queries : history[q] = "pending" /\ active["sql"].query = q => Settles(out, q)

\* An operation on a cursor names the query of that cursor: giving up the cursor
\* settles the right ticket.
CursorStages == {"start", "work", "settle", "scan"}
OnCursor ==
    /\ job.op \in {"Fetch", "View", "SqlMode"} /\ stage \in CursorStages =>
            active[job.slot].query = job.query
    /\ job.op = "SqlMode" => job.slot = "sql"

\* While a statement runs the cursor it will replace is already closed.
Replaced == Executing => active[job.slot].query = NoQuery

\* Nothing but issued handles is anywhere: a new one is nobody's cursor.
Known == issued \cup {NoQuery}
IssuedOnly ==
    /\ registered \subseteq issued /\ permit \in Known /\ job.query \in Known
    /\ \A s \in Slots : active[s].query \in Known
    /\ \A i \in 1..Len(commands) : commands[i].query \in Known

TicketInv == Owned /\ Settled /\ OnCursor /\ Replaced /\ IssuedOnly /\ SlotOK

-----------------------------------------------------------------------------
(* What settles a ticket.                                                  *)

LEMMA HeadSettles ==
    ASSUME NEW e, NEW steps \in Seq(Step), e.type \in {"record", "drop"}
    PROVE  Settles(<<e>> \o steps, e.query)
  <1>1. (<<e>> \o steps)[1] = e /\ 1 \in 1..Len(<<e>> \o steps)
    OBVIOUS
  <1> QED BY <1>1 DEF Settles

LEMMA SettlesLater ==
    ASSUME NEW s, NEW t, s \in Seq(Step), t \in Seq(Step), NEW q, Settles(s, q) \/ Settles(t, q)
    PROVE  Settles(s \o t, q)
  <1>1. CASE Settles(s, q)
    <2>1. PICK i \in 1..Len(s) : s[i].query = q /\ s[i].type \in {"record", "drop"}
      BY <1>1 DEF Settles
    <2>2. i \in 1..Len(s \o t) /\ (s \o t)[i] = s[i]
      OBVIOUS
    <2> QED BY <2>1, <2>2 DEF Settles
  <1>2. CASE Settles(t, q)
    <2>1. PICK i \in 1..Len(t) : t[i].query = q /\ t[i].type \in {"record", "drop"}
      BY <1>2 DEF Settles
    <2>2. Len(s) + i \in 1..Len(s \o t) /\ (s \o t)[Len(s) + i] = t[i]
      OBVIOUS
    <2> QED BY <2>1, <2>2 DEF Settles
  <1> QED BY <1>1, <1>2

\* Ticket::fail and Ticket::finish settle; so does whatever follows them.
LEMMA FailSettles ==
    \A q \in Handles : \A why \in Reasons : \A steps \in Seq(Step) :
        Settles(<<Fail(q, why)>> \o steps, q)
  BY HeadSettles DEF Fail, Record

LEMMA CompleteSettles == \A q \in Handles : Settles(Complete(q), q)
  BY HeadSettles, FinishedSteps DEF Complete, Record

LEMMA DropSettles ==
    \A q \in Queries : \A steps \in Seq(Step) : Settles(steps \o <<Drop(q)>>, q)
  <1> SUFFICES ASSUME NEW q \in Queries, NEW steps \in Seq(Step)
               PROVE  Settles(steps \o <<Drop(q)>>, q)
    OBVIOUS
  <1>1. <<Drop(q)>> \in Seq(Step)
    <2>1. Drop(q) \in Step
      BY DropStep
    <2> QED BY <2>1
  <1>2. Settles(<<Drop(q)>>, q)
    <2>1. <<Drop(q)>>[1] = Drop(q) /\ 1 \in 1..Len(<<Drop(q)>>)
      OBVIOUS
    <2> QED BY <2>1 DEF Settles, Drop
  <1> QED BY <1>1, <1>2, SettlesLater

\* A cursor that is closed early settles; one that is complete need not.
LEMMA CloseSettles ==
    \A c \in Cursor : \A steps \in CloseSteps(c) :
        c.query # NoQuery /\ ~c.completed => Settles(steps, c.query)
  <1> SUFFICES ASSUME NEW c \in Cursor, NEW steps \in CloseSteps(c),
                      c.query # NoQuery, ~c.completed
               PROVE  Settles(steps, c.query)
    OBVIOUS
  <1>1. c.query \in Handles
    BY DEF Cursor
  <1>2. \/ steps = <<Record(c.query, "Completed")>> \o Finished(c.query)
        \/ steps = <<Fail(c.query, "Failed")>> \o Failure(c.query, "Failed")
    BY DEF CloseSteps
  <1>3. Settles(<<Record(c.query, "Completed")>> \o Finished(c.query), c.query)
    BY <1>1, CompleteSettles DEF Complete
  <1>4. Settles(<<Fail(c.query, "Failed")>> \o Failure(c.query, "Failed"), c.query)
    BY <1>1, FailSettles, FailureSteps DEF Reasons
  <1> QED BY <1>2, <1>3, <1>4

LEMMA NothingSettles == \A q : ~Settles(<<>>, q)
  BY DEF Settles

-----------------------------------------------------------------------------
(* How the actor moves, whatever the command.                              *)

\* The queue still holds every statement it held.
CommandsKept ==
    /\ \A q \in Queries : Queued(q) => Queued(q)'
    /\ \A i \in 1..Len(commands') : commands'[i].query \in Known

\* The cursors still are those of the same queries; one that became complete settles.
CursorsKept ==
    /\ \A s \in Slots : active'[s].query = active[s].query
    /\ \A q \in Queries :
            active'["sql"].completed /\ active["sql"].query = q =>
                active["sql"].completed \/ Settles(out', q)

LEMMA CommandsUnchanged == IssuedOnly /\ UNCHANGED commands => CommandsKept
  BY DEF IssuedOnly, CommandsKept, Queued

LEMMA CursorsUnchanged == UNCHANGED active => CursorsKept
  BY DEF CursorsKept

\* What the caller's side and the history keep through a step of the actor.
LEMMA OutsideKeeps ==
    Outside => UNCHANGED <<history, permit, issued, registered, stop, cancelled, events, dropped>>
  BY DEF Outside, caller, signals

LEMMA IssuedStep ==
    ASSUME IssuedOnly, Outside, job'.query \in Known,
           \A i \in 1..Len(commands') : commands'[i].query \in Known,
           \A s \in Slots : active'[s].query \in Known
    PROVE  IssuedOnly'
  BY OutsideKeeps DEF IssuedOnly, Known

\* A step that keeps the cursors: whoever held a ticket still does, or settles it.
LEMMA KeptTicket ==
    ASSUME TicketInv, out = <<>>, Outside, CommandsKept, CursorsKept, job'.query \in Known,
           Executing => (Executing' /\ job'.query = job.query) \/ Settles(out', job.query),
           OnCursor', Replaced', SlotOK'
    PROVE  TicketInv'
  <1>1. IssuedOnly'
    <2>1. \A s \in Slots : active'[s].query \in Known
      BY DEF CursorsKept, TicketInv, IssuedOnly
    <2> QED BY <2>1, IssuedStep DEF TicketInv, CommandsKept
  <1>2. Owned'
    <2> SUFFICES ASSUME NEW q \in Queries, history'[q] = "pending" PROVE q \notin Objects /\ Owner(q)'
      BY DEF Owned
    <2>1. q \notin Objects /\ Owner(q) /\ ~Settles(out, q)
      BY OutsideKeeps, NothingSettles DEF TicketInv, Owned
    <2>2. CASE permit = q
      BY <2>1, <2>2, OutsideKeeps DEF Owner
    <2>3. CASE Queued(q)
      BY <2>1, <2>3 DEF Owner, CommandsKept
    <2>4. CASE Executing /\ job.query = q
      BY <2>1, <2>4 DEF Owner
    <2>5. CASE active["sql"].query = q
      BY <2>1, <2>5 DEF Owner, CursorsKept, Slots
    <2> QED BY <2>1, <2>2, <2>3, <2>4, <2>5 DEF Owner
  <1>3. Settled'
    <2> SUFFICES ASSUME active'["sql"].completed, NEW q \in Queries,
                        history'[q] = "pending", active'["sql"].query = q
                 PROVE  Settles(out', q)
      BY DEF Settled
    <2>1. history[q] = "pending" /\ active["sql"].query = q
      BY OutsideKeeps DEF CursorsKept, Slots
    <2>2. active["sql"].completed => FALSE
      BY <2>1, NothingSettles DEF TicketInv, Settled
    <2> QED BY <2>1, <2>2 DEF CursorsKept
  <1> QED BY <1>1, <1>2, <1>3 DEF TicketInv

\* The job goes on, or is done with.
LEMMA BecomeTicket ==
    ASSUME TypeOK, TicketInv, out = <<>>, Outside, CommandsKept, CursorsKept,
           NEW s, NEW steps, Become(s, steps),
           Executing => s \in ExecuteStages \/ Settles(steps, job.query),
           job.op = "Execute" /\ s \in ExecuteStages => Executing,
           job.op \in {"Fetch", "View", "SqlMode"} /\ s \in CursorStages =>
                active[job.slot].query = job.query
    PROVE  TicketInv'
  <1>1. /\ stage' = s /\ out' = steps
        /\ job' = job \/ (job' = NoJob /\ s \in {"select", "exit"})
    BY DEF Become
  <1>2. NoJob.op = "none" /\ NoJob.query = NoQuery /\ job.slot \in Slots
    BY TypeFacts DEF NoJob
  <1>3. job'.query \in Known
    BY <1>1, <1>2 DEF TicketInv, IssuedOnly, Known
  <1>4. Executing => (Executing' /\ job'.query = job.query) \/ Settles(out', job.query)
    BY <1>1 DEF Executing, ExecuteStages
  <1>5. OnCursor'
    BY <1>1, <1>2 DEF TicketInv, OnCursor, CursorsKept
  <1>6. Replaced'
    BY <1>1, <1>2 DEF TicketInv, Replaced, Executing, CursorsKept
  <1>7. SlotOK'
    BY <1>1, <1>2 DEF TicketInv, SlotOK
  <1> QED BY <1>3, <1>4, <1>5, <1>6, <1>7, KeptTicket

\* A command of another kind than a statement begins.
LEMMA BeginTicket ==
    ASSUME TypeOK, TicketInv, out = <<>>, Outside, CommandsKept, CursorsKept,
           NEW j \in Jobs, NEW s, NEW steps, Begin(j, s, steps),
           ~Executing, j.op # "Execute", j.query \in Known,
           j.op = "SqlMode" => j.slot = "sql",
           j.op \in {"Fetch", "View", "SqlMode"} /\ s \in CursorStages =>
                active[j.slot].query = j.query
    PROVE  TicketInv'
  <1>1. stage' = s /\ out' = steps /\ job' = j /\ j.slot \in Slots
    BY JobFields DEF Begin
  <1>2. OnCursor'
    BY <1>1 DEF OnCursor, CursorsKept
  <1>3. ~Executing' /\ Replaced' /\ SlotOK'
    BY <1>1 DEF Executing, Replaced, SlotOK
  <1> QED BY <1>1, <1>2, <1>3, KeptTicket

\* A cursor is closed, and its ticket settled unless it was already.
LEMMA ClosedTicket ==
    ASSUME TypeOK, TicketInv, out = <<>>, Outside, CommandsKept, ~Executing,
           NEW slot \in Slots, active' = [active EXCEPT ![slot] = NoCursor],
           slot = "sql" /\ ~active["sql"].completed =>
                \A q \in Queries : active["sql"].query = q => Settles(out', q),
           job'.query \in Known, OnCursor', Replaced', SlotOK'
    PROVE  TicketInv'
  <1>1. /\ \A s \in Slots : active'[s].query \in {active[s].query, NoQuery}
        /\ slot # "sql" => active'["sql"] = active["sql"]
        /\ slot = "sql" => active'["sql"].query = NoQuery
    BY TypeFacts DEF NoCursor, Slots
  <1>2. IssuedOnly'
    <2>1. \A s \in Slots : active'[s].query \in Known
      BY <1>1 DEF TicketInv, IssuedOnly, Known
    <2> QED BY <2>1, IssuedStep DEF TicketInv, CommandsKept
  <1>3. Owned'
    <2> SUFFICES ASSUME NEW q \in Queries, history'[q] = "pending" PROVE q \notin Objects /\ Owner(q)'
      BY DEF Owned
    <2>1. history[q] = "pending" /\ q \notin Objects /\ Owner(q) /\ ~Settles(out, q)
      BY OutsideKeeps, NothingSettles DEF TicketInv, Owned
    <2>2. CASE permit = q \/ Queued(q)
      BY <2>1, <2>2, OutsideKeeps DEF Owner, CommandsKept
    <2>3. CASE active["sql"].query = q
      <3>1. CASE slot # "sql"
        BY <2>1, <2>3, <3>1, <1>1 DEF Owner
      <3>2. CASE slot = "sql"
        <4>1. ~active["sql"].completed
          BY <2>1, <2>3 DEF TicketInv, Settled
        <4> QED BY <2>1, <2>3, <3>2, <4>1 DEF Owner
      <3> QED BY <3>1, <3>2
    <2> QED BY <2>1, <2>2, <2>3 DEF Owner
  <1>4. Settled'
    <2> SUFFICES ASSUME active'["sql"].completed, NEW q \in Queries,
                        history'[q] = "pending", active'["sql"].query = q
                 PROVE  FALSE
      BY DEF Settled
    <2>1. history[q] = "pending" /\ q # NoQuery
      BY OutsideKeeps
    <2>2. active'["sql"] = active["sql"]
      <3>1. slot # "sql"
        BY <1>1, <2>1
      <3> QED BY <1>1, <3>1
    <2>3. active["sql"].completed /\ active["sql"].query = q
      BY <2>2
    <2> QED BY <2>1, <2>3, NothingSettles DEF TicketInv, Settled
  <1> QED BY <1>2, <1>3, <1>4 DEF TicketInv

\* The same, when the loop turns or ends.
LEMMA ClosedByBecome ==
    ASSUME TypeOK, TicketInv, out = <<>>, Outside, UNCHANGED commands, ~Executing,
           NEW slot \in Slots, active' = [active EXCEPT ![slot] = NoCursor],
           NEW s \in {"select", "exit", "probe"}, NEW steps, Become(s, steps),
           slot = "sql" => \A q \in Queries : active["sql"].query = q => Settles(steps, q)
    PROVE  TicketInv'
  <1>1. /\ stage' = s /\ out' = steps
        /\ job' = job \/ job' = NoJob
    BY DEF Become
  <1>2. NoJob.op = "none" /\ NoJob.query = NoQuery
    BY DEF NoJob
  <1>3. job'.query \in Known
    BY <1>1, <1>2 DEF TicketInv, IssuedOnly, Known
  <1>4. OnCursor' /\ Replaced' /\ SlotOK'
    BY <1>1, <1>2 DEF TicketInv, OnCursor, CursorStages, Replaced, Executing, ExecuteStages, SlotOK
  <1>5. CommandsKept
    BY CommandsUnchanged DEF TicketInv
  <1> QED BY <1>1, <1>3, <1>4, <1>5, ClosedTicket

-----------------------------------------------------------------------------
(* The caller's thread and the awaits of the actor.                        *)

LEMMA CallerTicket == TypeOK /\ TicketInv /\ (CallerStep \/ ForwardShutdown) => TicketInv'
  <1> SUFFICES ASSUME TypeOK, TicketInv, CallerStep \/ ForwardShutdown PROVE TicketInv'
    OBVIOUS
  <1>1. ASSUME NEW q \in Queries, Reserve(q) PROVE TicketInv'
    <2>1. /\ permit' = q /\ issued' = issued \cup {q} /\ registered' = registered \cup {q}
          /\ permit = NoQuery /\ q \notin issued
          /\ UNCHANGED <<commands, stage, job, out, active>>
          /\ \A r \in Queries : history'[r] = "pending" =>
                history[r] = "pending" \/ (r = q /\ q \notin Objects)
      BY <1>1 DEF Reserve, CallerFree, actor, TypeOK
    <2>2. active["sql"].query # q
      BY <2>1, TypeFacts DEF TicketInv, IssuedOnly, Known, Slots
    <2>3. Owned'
      BY <2>1 DEF TicketInv, Owned, Owner, Queued, Executing
    <2>4. Settled'
      BY <2>1, <2>2 DEF TicketInv, Settled
    <2>5. OnCursor' /\ Replaced' /\ SlotOK'
      BY <2>1 DEF TicketInv, OnCursor, Replaced, Executing, SlotOK
    <2>6. IssuedOnly'
      BY <2>1 DEF TicketInv, IssuedOnly, Known
    <2> QED BY <2>3, <2>4, <2>5, <2>6 DEF TicketInv
  <1>2. ASSUME UNCHANGED <<issued, actor, ledger>>,
               permit' \in Known, registered' \subseteq registered,
               \A q \in Queries : permit = q => permit' = q \/ Queued(q)',
               CommandsKept
        PROVE  TicketInv'
    <2>1. UNCHANGED <<stage, job, out, active, history>>
      BY <1>2 DEF actor, ledger
    <2>2. Owned'
      BY <1>2, <2>1 DEF TicketInv, Owned, Owner, Executing, CommandsKept
    <2>3. Settled' /\ OnCursor' /\ Replaced' /\ SlotOK'
      BY <2>1 DEF TicketInv, Settled, OnCursor, Replaced, Executing, SlotOK
    <2>4. IssuedOnly'
      BY <1>2, <2>1 DEF TicketInv, IssuedOnly, Known, CommandsKept
    <2> QED BY <2>2, <2>3, <2>4 DEF TicketInv
  <1>3. ASSUME UNCHANGED <<issued, actor, ledger, permit, commands>>, registered' \subseteq registered
        PROVE  TicketInv'
    <2>1. permit' \in Known /\ CommandsKept
      BY <1>3, CommandsUnchanged DEF TicketInv, IssuedOnly
    <2> QED BY <1>2, <1>3, <2>1
  <1>4. ASSUME NEW c \in Command, c.query \in Known, commands' = Append(commands, c),
               UNCHANGED <<issued, actor, ledger>>, registered' \subseteq registered,
               permit' \in Known,
               \A q \in Queries : permit = q => permit' = q \/ c = Cmd("Execute", q)
        PROVE  TicketInv'
    <2>1. /\ commands \in Seq(Command) /\ Len(commands') = Len(commands) + 1
          /\ \A i \in 1..Len(commands) : commands'[i] = commands[i]
          /\ commands'[Len(commands) + 1] = c
      BY <1>4 DEF TypeOK
    <2>2. CommandsKept
      BY <1>4, <2>1 DEF CommandsKept, Queued, TicketInv, IssuedOnly
    <2>3. \A q \in Queries : c = Cmd("Execute", q) => Queued(q)'
      BY <2>1 DEF Queued
    <2> QED BY <1>2, <1>4, <2>2, <2>3
  <1>5. \A q \in registered : \A op \in QueryOps :
            Cmd(op, q) \in Command /\ Cmd(op, q).query \in Known
    BY DEF TypeOK, TicketInv, IssuedOnly, Known, Cmd, Command
  <1>6. \A op \in SessionOps : Cmd(op, NoQuery) \in Command /\ Cmd(op, NoQuery).query \in Known
    BY DEF Known, Cmd, Command
  <1>7. ASSUME Execute PROVE TicketInv'
    <2>1. Cmd("Execute", permit) \in Command /\ Cmd("Execute", permit).query \in Known
      BY <1>7 DEF Execute, TypeOK, TicketInv, IssuedOnly, Handles, Cmd, Command, QueryOps
    <2>2. /\ commands' = Append(commands, Cmd("Execute", permit)) /\ permit' \in Known
          /\ registered' = registered /\ UNCHANGED <<issued, actor, ledger>>
      BY <1>7 DEF Execute, Known
    <2> QED BY <1>4, <2>1, <2>2
  <1>8. permit \in Known
    BY DEF TicketInv, IssuedOnly
  <1>9. ASSUME NEW op \in {"Fetch", "ClearView", "LoadValue", "LoadChunk"}, NEW q \in Queries,
               Request(op, q)
        PROVE  TicketInv'
    BY <1>4, <1>5, <1>8, <1>9 DEF Request, QueryOps
  <1>10. ASSUME NEW q \in Queries, NextResult(q) PROVE TicketInv'
    BY <1>4, <1>5, <1>8, <1>10 DEF NextResult, QueryOps
  <1>11. ASSUME NEW q \in Queries, ApplyView(q) PROVE TicketInv'
    BY <1>3, <1>4, <1>5, <1>8, <1>11 DEF ApplyView, QueryOps
  <1>12. ASSUME NEW op \in {"SqlMode", "Inspect"}, Ask(op) PROVE TicketInv'
    BY <1>4, <1>6, <1>8, <1>12 DEF Ask, SessionOps
  <1>13. ASSUME NEW q \in Queries, Release(q) PROVE TicketInv'
    <2>1. \/ commands' = Append(commands, Cmd("Release", q))
          \/ UNCHANGED commands
      BY <1>13 DEF Release
    <2>2. /\ registered' \subseteq registered /\ UNCHANGED <<issued, actor, ledger, permit>>
          /\ q \in registered
      BY <1>13 DEF Release
    <2> QED BY <1>3, <1>4, <1>5, <1>8, <2>1, <2>2 DEF QueryOps
  <1>14. ASSUME ReadEvent PROVE TicketInv'
    <2>1. registered' \subseteq registered /\ UNCHANGED <<issued, actor, ledger, permit, commands>>
      BY <1>14 DEF ReadEvent
    <2> QED BY <1>3, <2>1
  <1>15. ASSUME \/ Disconnect \/ Shutdown \/ ForwardShutdown
                \/ \E q \in Queries : CancelView(q) \/ Cancel(q)
         PROVE  TicketInv'
    BY <1>3, <1>15 DEF Disconnect, Shutdown, ForwardShutdown, CancelView, Cancel, caller
  <1> QED
    BY <1>1, <1>7, <1>9, <1>10, <1>11, <1>12, <1>13, <1>14, <1>15 DEF CallerStep

\* Only the first of the awaited steps is taken; what it settled is settled then.
LEMMA AwaitTicket ==
    ASSUME TypeOK, TicketInv, out # <<>>, out' \in Seq(Step),
           UNCHANGED <<permit, issued, registered, commands, stage, job, active>>,
           \A q \in Queries : history'[q] = "pending" =>
                /\ history[q] = "pending"
                /\ Head(out).query = q => Head(out).type \notin {"record", "drop"},
           \A q \in Queries : Settles(Tail(out), q) => Settles(out', q)
    PROVE  TicketInv'
  <1>1. \A q \in Queries : history'[q] = "pending" /\ Settles(out, q) => Settles(out', q)
    <2> SUFFICES ASSUME NEW q \in Queries, history'[q] = "pending", Settles(out, q)
                 PROVE  Settles(Tail(out), q)
      OBVIOUS
    <2>1. PICK i \in 1..Len(out) : out[i].query = q /\ out[i].type \in {"record", "drop"}
      BY DEF Settles
    <2>2. out \in Seq(Step) /\ Head(out) = out[1] /\ Len(Tail(out)) = Len(out) - 1
      BY DEF TypeOK
    <2>3. i # 1
      BY <2>1, <2>2
    <2>4. i - 1 \in 1..Len(Tail(out)) /\ Tail(out)[i - 1] = out[i]
      BY <2>2, <2>3
    <2> QED BY <2>1, <2>4 DEF Settles
  <1>2. Owned'
    BY <1>1 DEF TicketInv, Owned, Owner, Queued, Executing
  <1>3. Settled'
    BY <1>1 DEF TicketInv, Settled
  <1>4. OnCursor' /\ Replaced' /\ SlotOK' /\ IssuedOnly'
    BY DEF TicketInv, OnCursor, Replaced, Executing, SlotOK, IssuedOnly, Known
  <1> QED BY <1>2, <1>3, <1>4 DEF TicketInv

LEMMA SendTicket == TypeOK /\ TicketInv /\ SendEvent => TicketInv'
  <1> SUFFICES ASSUME TypeOK, TicketInv, SendEvent PROVE TicketInv'
    OBVIOUS
  <1>1. out' \in Seq(Step) /\ out' = Tail(out) /\ out # <<>>
    BY DEF SendEvent, TypeOK
  <1>2. Head(out).type \notin {"record", "drop"}
    BY DEF SendEvent, EventTypes
  <1>3. UNCHANGED <<permit, issued, registered, commands, stage, job, active, history>>
    BY DEF SendEvent, caller, ledger
  <1> QED BY <1>1, <1>2, <1>3, AwaitTicket

\* The driver's answer settles no ticket.
LEMMA InquiryTicket ==
    TypeOK /\ TicketInv /\ (DropInquiry \/ \E known \in BOOLEAN : Inquired(known)) => TicketInv'
  <1> SUFFICES ASSUME TypeOK, TicketInv, DropInquiry \/ \E known \in BOOLEAN : Inquired(known)
               PROVE  TicketInv'
    OBVIOUS
  <1>1. out # <<>> /\ Head(out).type = "inquire" /\ out \in Seq(Step)
    BY DEF DropInquiry, Inquired, TypeOK
  <1>2. Tail(out) \in Seq(Step)
    BY <1>1
  <1>3. out' \in Seq(Step)
    <2>1. TypeOK'
      BY InquiryType
    <2> QED BY <2>1 DEF TypeOK
  <1>4. UNCHANGED <<permit, issued, registered, commands, stage, job, active, history>>
    BY DEF DropInquiry, Inquired, caller, ledger
  <1>5. \A q \in Queries : Settles(Tail(out), q) => Settles(out', q)
    <2>1. \/ out' = Tail(out)
          \/ out' = <<>> \o Tail(out)
          \/ out' = <<Ev("TransactionState", NoQuery)>> \o Tail(out)
      BY DEF DropInquiry, Inquired
    <2>2. CASE out' = <<Ev("TransactionState", NoQuery)>> \o Tail(out)
      <3>1. <<Ev("TransactionState", NoQuery)>> \in Seq(Step)
        BY Answers DEF EventTypes, Handles
      <3> QED BY <2>2, <3>1, <1>2, SettlesLater
    <2>3. <<>> \o Tail(out) = Tail(out)
      BY <1>2
    <2> QED BY <2>1, <2>2, <2>3
  <1>6. Head(out).type \notin {"record", "drop"}
    BY <1>1
  <1>7. \A q \in Queries : history'[q] = "pending" =>
            history[q] = "pending" /\ (Head(out).query = q => Head(out).type \notin {"record", "drop"})
    BY <1>4, <1>6
  <1> QED BY <1>1, <1>3, <1>4, <1>5, <1>7, AwaitTicket

LEMMA RecordTicket ==
    \A saved \in BOOLEAN : TypeOK /\ TicketInv /\ RecordHistory(saved) => TicketInv'
  <1> SUFFICES ASSUME NEW saved \in BOOLEAN, TypeOK, TicketInv, RecordHistory(saved) PROVE TicketInv'
    OBVIOUS
  <1> DEFINE h == Head(out)
  <1>1. TypeOK'
    BY RecordType
  <1>2. out # <<>> /\ out \in Seq(Step) /\ out' \in Seq(Step)
    BY <1>1 DEF RecordHistory, TypeOK
  <1>3. h \in Step /\ h.type = "record" /\ Tail(out) \in Seq(Step)
    BY <1>2 DEF RecordHistory
  <1>4. h.detail # "pending"
    BY <1>3 DEF Step, Event, EventTypes, Statuses
  <1>5. UNCHANGED <<permit, issued, registered, commands, stage, job, active>>
    BY DEF RecordHistory, caller
  <1>6. \A q \in Queries : history'[q] = "pending" =>
            history[q] = "pending" /\ (h.query = q => h.type \notin {"record", "drop"})
    <2> SUFFICES ASSUME NEW q \in Queries, history'[q] = "pending"
                 PROVE  history[q] = "pending" /\ h.query # q
      OBVIOUS
    <2>1. \/ history' = history /\ ~(h.query \in Queries /\ history[h.query] = "pending")
          \/ history' = [history EXCEPT ![h.query] = h.detail]
          \/ history' = [history EXCEPT ![h.query] = "rejected"]
      BY DEF RecordHistory
    <2>2. history \in [Queries -> Statuses \cup {"none", "pending", "rejected"}]
      BY DEF TypeOK
    <2> HIDE DEF h
    <2> QED BY <1>4, <2>1, <2>2
  <1>7. \A q \in Queries : Settles(Tail(out), q) => Settles(out', q)
    <2>1. \/ out' = Tail(out)
          \/ out' = <<>> \o Tail(out)
          \/ out' = <<Ev("HistoryWriteFailed", h.query)>> \o Tail(out) /\ h.query \in Queries
      BY DEF RecordHistory
    <2>2. CASE out' = <<Ev("HistoryWriteFailed", h.query)>> \o Tail(out) /\ h.query \in Queries
      <3>1. <<Ev("HistoryWriteFailed", h.query)>> \in Seq(Step)
        BY <2>2, Answers DEF EventTypes, Handles
      <3> QED BY <2>2, <3>1, <1>3, SettlesLater
    <2>3. <<>> \o Tail(out) = Tail(out)
      BY <1>3
    <2> QED BY <2>1, <2>2, <2>3
  <1> QED BY <1>2, <1>5, <1>6, <1>7, AwaitTicket

\* A ticket that is dropped is no longer pending.
LEMMA DropTicketHistory ==
    ASSUME TypeOK, NEW q \in Queries, NEW saved \in BOOLEAN, DropTicket(q, saved)
    PROVE  \A r \in Queries : history'[r] = "pending" => history[r] = "pending" /\ r # q
  BY DEF DropTicket, TypeOK

LEMMA FreeTicketTicket ==
    \A saved \in BOOLEAN : TypeOK /\ TicketInv /\ FreeTicket(saved) => TicketInv'
  <1> SUFFICES ASSUME NEW saved \in BOOLEAN, TypeOK, TicketInv, FreeTicket(saved) PROVE TicketInv'
    OBVIOUS
  <1>1. out # <<>> /\ out \in Seq(Step) /\ out' = Tail(out) /\ Head(out).type = "drop"
    BY DEF FreeTicket, TypeOK
  <1>2. Head(out) \in Step /\ out' \in Seq(Step)
    BY <1>1
  <1>3. Head(out).query \in Queries
    BY <1>1, <1>2 DEF Step, Event, EventTypes
  <1>4. DropTicket(Head(out).query, saved)
    BY DEF FreeTicket
  <1>5. \A r \in Queries : history'[r] = "pending" => history[r] = "pending" /\ r # Head(out).query
    BY <1>3, <1>4, DropTicketHistory
  <1>6. UNCHANGED <<permit, issued, registered, commands, stage, job, active>>
    BY DEF FreeTicket, caller
  <1> QED BY <1>1, <1>2, <1>5, <1>6, AwaitTicket

\* What is freed with the channel is no longer pending either.
LEMMA DiscardTicket ==
    \A saved \in BOOLEAN : TypeOK /\ TicketInv /\ Discard(saved) => TicketInv'
  <1> SUFFICES ASSUME NEW saved \in BOOLEAN, TypeOK, TicketInv, Discard(saved) PROVE TicketInv'
    OBVIOUS
  <1>1. commands \in Seq(Command) /\ commands # <<>> /\ commands' = Tail(commands)
    BY DEF TypeOK, Discard
  <1>2. UNCHANGED <<permit, issued, registered, stage, job, out, active>>
    BY DEF Discard, caller, actor
  <1>3. Head(commands).op = "Execute" => Received \in Queries
    BY <1>1, ReceivedType DEF QueryOps
  <1>4. \A q \in Queries : history'[q] = "pending" =>
            history[q] = "pending" /\ (Head(commands).op = "Execute" => q # Received)
    <2>1. CASE Head(commands).op = "Execute"
      <3>1. DropTicket(Received, saved)
        BY <2>1 DEF Discard
      <3> QED BY <1>3, <2>1, <3>1, DropTicketHistory
    <2>2. CASE Head(commands).op # "Execute"
      BY <2>2 DEF Discard
    <2> QED BY <2>1, <2>2
  <1>5. \A q \in Queries : history'[q] = "pending" /\ Queued(q) => Queued(q)'
    <2> SUFFICES ASSUME NEW q \in Queries, history'[q] = "pending", Queued(q) PROVE Queued(q)'
      OBVIOUS
    <2>1. PICK i \in 1..Len(commands) : commands[i] = Cmd("Execute", q)
      BY DEF Queued
    <2>2. commands[1] = Head(commands) /\ Len(Tail(commands)) = Len(commands) - 1
      BY <1>1
    <2>3. i # 1
      BY <1>4, <2>1, <2>2 DEF Cmd, Received
    <2>4. i - 1 \in 1..Len(Tail(commands)) /\ Tail(commands)[i - 1] = commands[i]
      BY <1>1, <2>3
    <2> QED BY <1>1, <2>1, <2>4 DEF Queued
  <1>6. \A i \in 1..Len(commands') : commands'[i].query \in Known
    <2>1. \A i \in 1..Len(Tail(commands)) : i + 1 \in 1..Len(commands) /\ Tail(commands)[i] = commands[i + 1]
      BY <1>1
    <2> QED BY <1>1, <2>1 DEF TicketInv, IssuedOnly
  <1>7. Owned'
    BY <1>2, <1>4, <1>5 DEF TicketInv, Owned, Owner, Executing
  <1>8. Settled'
    BY <1>2, <1>4 DEF TicketInv, Settled
  <1>9. OnCursor' /\ Replaced' /\ SlotOK'
    BY <1>2 DEF TicketInv, OnCursor, Replaced, Executing, SlotOK
  <1>10. IssuedOnly'
    BY <1>2, <1>6 DEF TicketInv, IssuedOnly, Known
  <1> QED BY <1>7, <1>8, <1>9, <1>10 DEF TicketInv

-----------------------------------------------------------------------------
(* The select loop, and what every command does with a failed operation.   *)

\* Only the head leaves the queue.
LEMMA TailQueued ==
    ASSUME TypeOK, IssuedOnly, commands # <<>>, commands' = Tail(commands)
    PROVE  /\ \A q \in Queries : Queued(q) => Queued(q)' \/ Head(commands) = Cmd("Execute", q)
           /\ \A i \in 1..Len(commands') : commands'[i].query \in Known
           /\ Received \in Known
  <1>1. commands \in Seq(Command)
    BY DEF TypeOK
  <1>2. \A q \in Queries : Queued(q) => Queued(q)' \/ Head(commands) = Cmd("Execute", q)
    <2> SUFFICES ASSUME NEW q \in Queries, Queued(q), Head(commands) # Cmd("Execute", q)
                 PROVE  Queued(q)'
      OBVIOUS
    <2>1. PICK i \in 1..Len(commands) : commands[i] = Cmd("Execute", q)
      BY DEF Queued
    <2>2. commands[1] = Head(commands) /\ Len(Tail(commands)) = Len(commands) - 1
      BY <1>1
    <2>3. i # 1
      BY <2>1, <2>2
    <2>4. i - 1 \in 1..Len(Tail(commands)) /\ Tail(commands)[i - 1] = commands[i]
      BY <1>1, <2>3
    <2> QED BY <2>1, <2>4 DEF Queued
  <1>3. \A i \in 1..Len(commands') : commands'[i].query \in Known
    <2>1. \A i \in 1..Len(Tail(commands)) : i + 1 \in 1..Len(commands) /\ Tail(commands)[i] = commands[i + 1]
      BY <1>1
    <2> QED BY <2>1 DEF IssuedOnly
  <1>4. Received \in Known
    <2>1. 1 \in 1..Len(commands) /\ Head(commands) = commands[1]
      BY <1>1
    <2> QED BY <2>1 DEF IssuedOnly, Received
  <1> QED BY <1>2, <1>3, <1>4

LEMMA ReceiveTicket ==
    ASSUME TypeOK, TicketInv, NEW op \in (QueryOps \cup SessionOps) \ {"Execute"}, Receive(op)
    PROVE  /\ CommandsKept /\ Received \in Known /\ out = <<>> /\ Outside
           /\ ~Executing /\ stage = "select"
           /\ UNCHANGED <<accepting, abandoned>>
  <1>1. commands # <<>> /\ commands' = Tail(commands) /\ Head(commands).op = op
    BY DEF Receive
  <1>2. out = <<>> /\ stage = "select" /\ Outside /\ UNCHANGED <<accepting, abandoned>>
    BY DEF Receive, Ready
  <1>3. ~Executing
    BY <1>2 DEF Executing, ExecuteStages
  <1>4. CommandsKept /\ Received \in Known
    BY <1>1, TailQueued DEF CommandsKept, TicketInv, Cmd
  <1> QED BY <1>2, <1>3, <1>4

\* A command that is answered at once.
LEMMA AnsweredTicket ==
    ASSUME TypeOK, TicketInv, NEW op \in (QueryOps \cup SessionOps) \ {"Execute"}, Receive(op),
           UNCHANGED active, NEW steps, Become("select", steps)
    PROVE  TicketInv'
  <1>1. /\ CommandsKept /\ CursorsKept /\ out = <<>> /\ Outside /\ ~Executing
    BY ReceiveTicket, CursorsUnchanged
  <1> QED BY <1>1, BecomeTicket DEF ExecuteStages, CursorStages

\* A step at a stage outside the commands, or of a command's own, that moves to the
\* end of the loop body and keeps the cursors.
LEMMA MoveTicket ==
    ASSUME TypeOK, TicketInv, out = <<>>, Outside, UNCHANGED <<commands, active>>,
           NEW s, s \notin ExecuteStages \cup CursorStages, NEW steps, Become(s, steps),
           Executing => Settles(steps, job.query)
    PROVE  TicketInv'
  <1>1. CommandsKept /\ CursorsKept
    BY CommandsUnchanged, CursorsUnchanged DEF TicketInv
  <1> QED BY <1>1, BecomeTicket

LEMMA LoopTicket == TypeOK /\ TicketInv /\ (ConnectOk \/ ObserveStop) => TicketInv'
  <1> SUFFICES ASSUME TypeOK, TicketInv, ConnectOk \/ ObserveStop PROVE TicketInv'
    OBVIOUS
  <1>1. ~Executing
    BY DEF ConnectOk, ObserveStop, Ready, Executing, ExecuteStages
  <1> QED BY <1>1, MoveTicket DEF ConnectOk, ObserveStop, Ready, ExecuteStages, CursorStages

LEMMA ConnectEndsTicket == TypeOK /\ TicketInv /\ ConnectEnds => TicketInv'
  <1> SUFFICES ASSUME TypeOK, TicketInv, ConnectEnds PROVE TicketInv'
    OBVIOUS
  <1> DEFINE j == [NoJob EXCEPT !.why = IF stop THEN "Disconnected" ELSE "Failed"]
  <1>1. j \in Jobs /\ j.op = "none" /\ j.query = NoQuery
    BY DEF NoJob, Jobs, Handles, Slots, Reasons
  <1>2. /\ ~Executing /\ out = <<>> /\ Outside /\ CommandsKept /\ CursorsKept
        /\ Begin(j, "refuse", <<>>)
    BY CommandsUnchanged, CursorsUnchanged
       DEF ConnectEnds, Ready, Executing, ExecuteStages, TicketInv
  <1> HIDE DEF j
  <1> QED BY <1>1, <1>2, BeginTicket DEF Known

LEMMA IdleStopTicket ==
    \A why \in Reasons : \A settled \in BOOLEAN :
        TypeOK /\ TicketInv /\ IdleStop(why, settled) => TicketInv'
  <1> SUFFICES ASSUME NEW why \in Reasons, NEW settled \in BOOLEAN, TypeOK, TicketInv,
                      IdleStop(why, settled)
               PROVE  TicketInv'
    OBVIOUS
  <1> DEFINE q == active["sql"].query
             rest == <<Fail(q, why)>> \o Failure(q, why)
             steps == <<State(q, "Cancelling"), Fail(q, why)>> \o Failure(q, why)
             s == IF settled THEN "select" ELSE "exit"
  <1>1. q \in Handles /\ "sql" \in Slots
    BY CursorType, TypeFacts
  <1>2. State(q, "Cancelling") \in Step /\ Fail(q, why) \in Step /\ Failure(q, why) \in Seq(Step)
    BY <1>1, StateStep, FailStep, FailureSteps DEF QueryStates
  <1>3. Settles(steps, q)
    <2>1. steps[2] = Fail(q, why) /\ 2 \in 1..Len(steps)
      BY <1>2
    <2> HIDE DEF steps, q
    <2> QED BY <2>1 DEF Settles, Fail, Record
  <1>4. Become(s, steps) /\ s \in {"select", "exit", "probe"}
    BY DEF IdleStop
  <1>5. ~Executing /\ out = <<>> /\ Outside /\ UNCHANGED commands
    BY DEF IdleStop, Ready, Executing, ExecuteStages
  <1>6. active' = [active EXCEPT !["sql"] = NoCursor]
    BY DEF IdleStop
  <1> HIDE DEF steps, s
  <1> QED BY <1>1, <1>3, <1>4, <1>5, <1>6, ClosedByBecome

LEMMA ObjectStopTicket ==
    \A why \in Reasons : TypeOK /\ TicketInv /\ ObjectStop(why) => TicketInv'
  <1> SUFFICES ASSUME NEW why \in Reasons, TypeOK, TicketInv, ObjectStop(why) PROVE TicketInv'
    OBVIOUS
  <1>1. ~Executing /\ out = <<>> /\ Outside /\ UNCHANGED commands
    BY DEF ObjectStop, Ready, Executing, ExecuteStages
  <1>2. active' = [active EXCEPT !["object"] = NoCursor] /\ "object" \in Slots /\ "object" # "sql"
    BY DEF ObjectStop, Slots
  <1>3. \E steps : Become("select", steps)
    BY DEF ObjectStop
  <1> QED BY <1>1, <1>2, <1>3, ClosedByBecome

LEMMA AbortTicket ==
    ASSUME TypeOK, TicketInv, NEW why \in Reasons, NEW bad \in BOOLEAN, Abort(why, bad),
           stage \in {"start", "work", "settle"}, out = <<>>, Outside, UNCHANGED commands
    PROVE  TicketInv'
  <1> DEFINE q == job.query
             next == IF bad THEN "exit" ELSE "probe"
             reports == Failure(q, why)
  <1>1. q \in Handles /\ reports \in Seq(Step) /\ Fail(q, why) \in Step /\ job.slot \in Slots
    BY TypeFacts, FailureSteps, FailStep
  <1>2. next \in {"exit", "probe"}
    OBVIOUS
  <1>3. Settles(<<Fail(q, why)>> \o reports, q) /\ <<Fail(q, why)>> \o reports \in Seq(Step)
    BY <1>1, FailSettles
  <1>4. job.op \in {"Fetch", "SqlMode"} => active[job.slot].query = q
    BY DEF TicketInv, OnCursor, CursorStages
  <1>5. job.op # "Execute" => ~Executing
    BY DEF Executing
  <1>6. \A s \in {"select", "exit", "probe"} : s \notin ExecuteStages \cup CursorStages
    BY DEF ExecuteStages, CursorStages
  <1>7. CASE job.op = "Execute"
    <2> DEFINE state == IF bad \/ why = "Disconnected" THEN <<>> ELSE <<Inquire>>
    <2>1. Become(next, <<Fail(q, why)>> \o state \o reports)
      BY <1>7 DEF Abort
    <2>2. state \in Seq(Step)
      BY InquireStep
    <2> HIDE DEF state
    <2>3. Settles(<<Fail(q, why)>> \o state, q) /\ <<Fail(q, why)>> \o state \in Seq(Step)
      BY <1>1, <2>2, FailSettles
    <2>4. Settles(<<Fail(q, why)>> \o state \o reports, q)
      BY <1>1, <2>3, SettlesLater
    <2>5. active' = active
      BY <1>7 DEF Abort
    <2> QED BY <1>2, <1>6, <2>1, <2>4, <2>5, MoveTicket
  <1>8. CASE job.op = "Fetch"
    <2>1. /\ Become(next, <<Fail(q, why)>> \o reports)
          /\ active' = [active EXCEPT ![job.slot] = NoCursor]
      BY <1>8 DEF Abort
    <2> QED BY <1>1, <1>2, <1>3, <1>4, <1>5, <1>8, <2>1, ClosedByBecome
  <1>9. CASE job.op = "SqlMode"
    <2> DEFINE steps == <<Fail(q, why)>> \o reports \o <<Ev("OperationFailed", NoQuery)>>
               s == IF bad THEN "exit" ELSE "select"
    <2>1. Become(s, steps) /\ active' = [active EXCEPT ![job.slot] = NoCursor]
      BY <1>9 DEF Abort
    <2>2. <<Ev("OperationFailed", NoQuery)>> \in Seq(Step)
      BY Answers DEF EventTypes, Handles
    <2>3. Settles(steps, q) /\ s \in {"select", "exit", "probe"}
      BY <1>3, <2>2, SettlesLater
    <2> HIDE DEF steps, s
    <2> QED BY <1>1, <1>4, <1>5, <1>9, <2>1, <2>3, ClosedByBecome
  <1>10. CASE job.op = "View"
    <2>1. Become("select", <<Ev("ViewFailed", q)>>) /\ active' = active
      BY <1>10 DEF Abort
    <2> QED BY <1>5, <1>6, <1>10, <2>1, MoveTicket
  <1>11. CASE job.op \notin {"Execute", "Fetch", "SqlMode", "View"}
    <2>1. Become(next, reports) /\ active' = active
      BY <1>11 DEF Abort
    <2> QED BY <1>2, <1>5, <1>6, <1>11, <2>1, MoveTicket
  <1> QED BY <1>7, <1>8, <1>9, <1>10, <1>11

LEMMA PerformTicket ==
    /\ \A why \in Reasons : TypeOK /\ TicketInv /\ (Preflight(why) \/ WorkFails(why)) => TicketInv'
    /\ TypeOK /\ TicketInv /\ DropObjectRead => TicketInv'
    /\ \A settled \in BOOLEAN : TypeOK /\ TicketInv /\ Settle(settled) => TicketInv'
  <1>1. ASSUME TypeOK, TicketInv, NEW why \in Reasons, Preflight(why) \/ WorkFails(why)
        PROVE  TicketInv'
    BY <1>1, AbortTicket DEF Preflight, WorkFails, Ready
  <1>2. ASSUME TypeOK, TicketInv, DropObjectRead PROVE TicketInv'
    BY <1>2, AbortTicket DEF DropObjectRead, Ready, Reasons
  <1>3. ASSUME TypeOK, TicketInv, NEW settled \in BOOLEAN, Settle(settled) PROVE TicketInv'
    <2>1. Abort(job.why, ~settled) /\ (~settled) \in BOOLEAN /\ job.why \in Reasons
      BY <1>3, TypeFacts DEF Settle
    <2> QED BY <1>3, <2>1, AbortTicket DEF Settle, Ready
  <1> QED BY <1>1, <1>2, <1>3

LEMMA StartTicket == TypeOK /\ TicketInv /\ Start => TicketInv'
  <1> SUFFICES ASSUME TypeOK, TicketInv, Start PROVE TicketInv'
    OBVIOUS
  <1>1. CommandsKept /\ CursorsKept
    BY CommandsUnchanged, CursorsUnchanged DEF Start, TicketInv
  <1>2. /\ out = <<>> /\ stage = "start" /\ Outside /\ Become("work", <<>>)
        /\ "work" \in ExecuteStages /\ "start" \in ExecuteStages /\ "start" \in CursorStages
    BY DEF Start, Ready, ExecuteStages, CursorStages
  <1>3. job.op \in {"Fetch", "View", "SqlMode"} => active[job.slot].query = job.query
    BY <1>2 DEF TicketInv, OnCursor
  <1>4. job.op = "Execute" => Executing
    BY <1>2 DEF Executing
  <1> QED BY <1>1, <1>2, <1>3, <1>4, BecomeTicket

LEMMA InterruptTicket == \A why \in Reasons : TypeOK /\ TicketInv /\ Interrupt(why) => TicketInv'
  <1> SUFFICES ASSUME NEW why \in Reasons, TypeOK, TicketInv, Interrupt(why) PROVE TicketInv'
    OBVIOUS
  <1>1. /\ stage = "work" /\ stage' = "settle" /\ out = <<>> /\ Outside
        /\ job'.op = job.op /\ job'.query = job.query /\ job'.slot = job.slot
        /\ UNCHANGED <<commands, active>>
    BY InterruptMoves, TypeFacts DEF Interrupt, Begin, Ready
  <1>2. CommandsKept /\ CursorsKept
    BY <1>1, CommandsUnchanged, CursorsUnchanged DEF TicketInv
  <1>3. OnCursor' /\ Replaced' /\ SlotOK'
    BY <1>1 DEF TicketInv, OnCursor, CursorStages, Replaced, Executing, ExecuteStages, SlotOK
  <1>4. Executing => Executing'
    BY <1>1 DEF Executing, ExecuteStages
  <1>5. job'.query \in Known
    BY <1>1 DEF TicketInv, IssuedOnly
  <1> QED BY <1>1, <1>2, <1>3, <1>4, <1>5, KeptTicket

-----------------------------------------------------------------------------
(* Execute.                                                                *)

LEMMA BeginExecuteTicket == TypeOK /\ TicketInv /\ BeginExecute => TicketInv'
  <1> SUFFICES ASSUME TypeOK, TicketInv, BeginExecute PROVE TicketInv'
    OBVIOUS
  <1> DEFINE q == Received
             s == IF q \in Objects THEN "object" ELSE "sql"
  <1>1. /\ Receive("Execute") /\ commands # <<>> /\ commands' = Tail(commands)
        /\ out = <<>> /\ Outside /\ active' = [active EXCEPT ![s] = NoCursor]
    BY DEF BeginExecute, Receive, Ready
  <1>2. q \in Queries /\ s \in Slots
    <2>1. q \in Queries
      BY <1>1, ReceiveType DEF QueryOps
    <2> QED BY <2>1 DEF Slots
  <1>3. PICK steps \in CloseSteps(active[s]) : Begin(Job("Execute", q, s), "execute", steps)
    BY DEF BeginExecute
  <1>4. /\ stage' = "execute" /\ out' = steps
        /\ job'.op = "Execute" /\ job'.query = q /\ job'.slot = s
    BY <1>3 DEF Begin, Job
  <1>5. /\ \A r \in Queries : Queued(r) => Queued(r)' \/ r = q
        /\ \A i \in 1..Len(commands') : commands'[i].query \in Known
        /\ q \in Known
    BY <1>1, TailQueued DEF TicketInv, Cmd, Received
  <1>6. /\ \A r \in Slots : active'[r].query \in {active[r].query, NoQuery}
        /\ active'[s].query = NoQuery
        /\ s = "object" => active'["sql"] = active["sql"]
    BY <1>1, <1>2, TypeFacts DEF NoCursor, Slots
  <1>7. s = "sql" /\ ~active["sql"].completed =>
            \A r \in Queries : active["sql"].query = r => Settles(out', r)
    BY <1>2, <1>3, <1>4, CloseSettles, TypeFacts
  <1>8. IssuedOnly'
    <2>1. \A r \in Slots : active'[r].query \in Known
      BY <1>6 DEF TicketInv, IssuedOnly, Known
    <2> QED BY <1>1, <1>4, <1>5, <2>1, IssuedStep DEF TicketInv
  <1>9. s \in {"sql", "object"}
    OBVIOUS
  <1>10. Owned'
    <2> HIDE DEF s, q
    <2> SUFFICES ASSUME NEW r \in Queries, history'[r] = "pending" PROVE r \notin Objects /\ Owner(r)'
      BY DEF Owned
    <2>1. history[r] = "pending" /\ r \notin Objects /\ Owner(r) /\ ~Settles(out, r)
      BY <1>1, OutsideKeeps, NothingSettles DEF TicketInv, Owned
    <2>2. ~Executing /\ Executing'
      BY <1>1, <1>4 DEF Executing, ExecuteStages, Receive, Ready
    <2>3. CASE permit = r
      BY <1>1, <2>1, <2>3, OutsideKeeps DEF Owner
    <2>4. CASE Queued(r)
      BY <1>4, <1>5, <2>1, <2>2, <2>4 DEF Owner
    <2>5. CASE active["sql"].query = r
      <3>1. CASE s = "object"
        BY <1>6, <2>1, <2>5, <3>1 DEF Owner
      <3>2. CASE s = "sql"
        <4>1. ~active["sql"].completed
          BY <1>1, <2>1, <2>5, NothingSettles DEF TicketInv, Settled
        <4> QED BY <1>7, <2>1, <2>5, <3>2, <4>1 DEF Owner
      <3> QED BY <1>9, <3>1, <3>2
    <2> QED BY <2>1, <2>2, <2>3, <2>4, <2>5 DEF Owner
  <1>11. Settled'
    <2> HIDE DEF s, q
    <2> SUFFICES ASSUME active'["sql"].completed, NEW r \in Queries,
                        history'[r] = "pending", active'["sql"].query = r
                 PROVE  FALSE
      BY DEF Settled
    <2>1. history[r] = "pending" /\ r # NoQuery
      BY <1>1, OutsideKeeps
    <2>2. active'["sql"] = active["sql"]
      BY <1>6, <1>9, <2>1
    <2> QED BY <1>1, <2>1, <2>2, NothingSettles DEF TicketInv, Settled
  <1>12. OnCursor' /\ Replaced'
    BY <1>4, <1>6 DEF OnCursor, Replaced
  <1>13. SlotOK'
    <2>1. s = "object" => q \in Objects
      OBVIOUS
    <2> HIDE DEF s, q
    <2> QED BY <1>4, <2>1 DEF SlotOK
  <1> QED BY <1>8, <1>10, <1>11, <1>12, <1>13 DEF TicketInv

\* A statement that did not start settles, whatever it waited for.
LEMMA UnstartedTicket ==
    ASSUME TypeOK, TicketInv, out = <<>>, Outside, UNCHANGED <<commands, active>>,
           NEW why \in Reasons, Unstarted(why)
    PROVE  TicketInv'
  <1>1. Settles(<<Fail(job.query, why)>> \o Failure(job.query, why), job.query)
    BY TypeFacts, FailSettles, FailureSteps
  <1> QED BY <1>1, MoveTicket DEF Unstarted, ExecuteStages, CursorStages

\* The statement goes on to the next of its stages.
LEMMA ExecuteOn ==
    ASSUME TypeOK, TicketInv, Executing, out = <<>>, Outside, UNCHANGED <<commands, active>>,
           NEW s \in ExecuteStages, NEW steps, Become(s, steps)
    PROVE  TicketInv'
  <1>1. CommandsKept /\ CursorsKept /\ job.op = "Execute"
    BY CommandsUnchanged, CursorsUnchanged DEF TicketInv, Executing
  <1> QED BY <1>1, BecomeTicket

LEMMA CheckTicket == TypeOK /\ TicketInv /\ CheckExecute => TicketInv'
  <1> SUFFICES ASSUME TypeOK, TicketInv, CheckExecute PROVE TicketInv'
    OBVIOUS
  <1>1. out = <<>> /\ stage = "execute" /\ Outside /\ UNCHANGED <<commands, active>>
    BY DEF CheckExecute, Ready
  <1>2. CASE Unstarted("Cancelled")
    BY <1>1, <1>2, UnstartedTicket DEF Reasons
  <1>3. CASE Become("reserve", <<>>)
    <2>1. /\ CommandsKept /\ CursorsKept
          /\ job.op = "Execute" => Executing
          /\ "reserve" \in ExecuteStages /\ "reserve" \notin CursorStages
      BY <1>1, CommandsUnchanged, CursorsUnchanged
         DEF TicketInv, Executing, ExecuteStages, CursorStages
    <2> QED BY <1>1, <1>3, <2>1, BecomeTicket
  <1> QED BY <1>2, <1>3 DEF CheckExecute

LEMMA ExecuteTicket ==
    ASSUME TypeOK, TicketInv,
           \/ GrantExecute
           \/ \E why \in Reasons : RefuseExecute(why)
           \/ \E stores \in BOOLEAN : Executed(stores)
    PROVE  TicketInv'
  <1>1. /\ Executing /\ out = <<>> /\ Outside /\ UNCHANGED <<commands, active>>
    BY DEF GrantExecute, RefuseExecute, Executed, Ready, Executing, ExecuteStages
  <1>2. \/ \E why \in Reasons : Unstarted(why)
        \/ \E s \in ExecuteStages : \E steps : Become(s, steps)
    BY DEF GrantExecute, RefuseExecute, Executed, ExecuteStages, Reasons
  <1> QED BY <1>1, <1>2, UnstartedTicket, ExecuteOn

LEMMA OpenCursorTicket ==
    \A pages \in 1..MaxPages : TypeOK /\ TicketInv /\ OpenCursor(pages) => TicketInv'
  <1> SUFFICES ASSUME NEW pages \in 1..MaxPages, TypeOK, TicketInv, OpenCursor(pages) PROVE TicketInv'
    OBVIOUS
  <1> DEFINE q == job.query
             s == job.slot
  <1>1. /\ Executing /\ out = <<>> /\ Outside /\ UNCHANGED commands /\ job.op = "Execute"
        /\ stage' = "probe" /\ job' = job
    BY DEF OpenCursor, Ready, Executing, ExecuteStages, Become
  <1>2. s \in Slots /\ q \in Queries /\ s \in {"sql", "object"}
    BY <1>1, TypeFacts DEF Slots, QueryOps
  <1>3. /\ active'[s].query = q /\ ~active'[s].completed /\ active[s].query = NoQuery
        /\ \A r \in Slots : r # s => active'[r] = active[r]
    BY <1>1, <1>2, TypeFacts DEF OpenCursor, TicketInv, Replaced
  <1>4. CommandsKept
    BY <1>1, CommandsUnchanged DEF TicketInv
  <1>5. q \in Known
    BY DEF TicketInv, IssuedOnly
  <1>6. IssuedOnly'
    <2>1. \A r \in Slots : active'[r].query \in Known
      BY <1>3, <1>5 DEF TicketInv, IssuedOnly
    <2> QED BY <1>1, <1>4, <1>5, <2>1, IssuedStep DEF TicketInv, CommandsKept
  <1>7. Owned'
    <2> SUFFICES ASSUME NEW r \in Queries, history'[r] = "pending" PROVE r \notin Objects /\ Owner(r)'
      BY DEF Owned
    <2>1. history[r] = "pending" /\ r \notin Objects /\ Owner(r) /\ ~Settles(out, r)
      BY <1>1, OutsideKeeps, NothingSettles DEF TicketInv, Owned
    <2>2. CASE permit = r \/ Queued(r)
      BY <1>1, <1>4, <2>1, <2>2, OutsideKeeps DEF Owner, CommandsKept
    <2>3. CASE q = r
      <3>1. s = "sql"
        BY <1>1, <1>2, <2>1, <2>3 DEF TicketInv, SlotOK
      <3> QED BY <1>3, <2>1, <2>3, <3>1 DEF Owner
    <2>4. CASE active["sql"].query = r
      <3>1. s # "sql"
        BY <1>3, <2>4
      <3> QED BY <1>3, <2>1, <2>4, <3>1 DEF Owner, Slots
    <2> QED BY <2>1, <2>2, <2>3, <2>4 DEF Owner
  <1>8. Settled'
    <2> SUFFICES ASSUME active'["sql"].completed, NEW r \in Queries,
                        history'[r] = "pending", active'["sql"].query = r
                 PROVE  FALSE
      BY DEF Settled
    <2>1. active'["sql"] = active["sql"] /\ history[r] = "pending"
      BY <1>1, <1>3, OutsideKeeps DEF Slots
    <2> QED BY <1>1, <2>1, NothingSettles DEF TicketInv, Settled
  <1>9. OnCursor' /\ Replaced' /\ SlotOK'
    BY <1>1 DEF TicketInv, OnCursor, Replaced, Executing, ExecuteStages, SlotOK
  <1> QED BY <1>6, <1>7, <1>8, <1>9 DEF TicketInv

LEMMA ProbeTicket ==
    TypeOK /\ TicketInv /\ (SkipProbe \/ \E fails \in BOOLEAN : Probe(fails)) => TicketInv'
  <1> SUFFICES ASSUME TypeOK, TicketInv, SkipProbe \/ \E fails \in BOOLEAN : Probe(fails)
               PROVE  TicketInv'
    OBVIOUS
  <1>1. ~Executing /\ out = <<>> /\ Outside /\ UNCHANGED <<commands, active>>
    BY DEF Probe, SkipProbe, Ready, Executing, ExecuteStages
  <1>2. \E steps : Become("select", steps)
    BY DEF Probe, SkipProbe
  <1> QED BY <1>1, <1>2, MoveTicket DEF ExecuteStages, CursorStages

-----------------------------------------------------------------------------
(* Fetch, the next result and views: steps that work on a cursor.          *)

\* A command on a query begins; the cursor is its own if it is used at once.
LEMMA BeginFetchTicket ==
    \A counted \in BOOLEAN : TypeOK /\ TicketInv /\ BeginFetch(counted) => TicketInv'
  <1> SUFFICES ASSUME NEW counted \in BOOLEAN, TypeOK, TicketInv, BeginFetch(counted) PROVE TicketInv'
    OBVIOUS
  <1> DEFINE q == Received
  <1>1. Receive("Fetch") /\ "Fetch" \in (QueryOps \cup SessionOps) \ {"Execute"} /\ UNCHANGED active
    BY DEF BeginFetch, QueryOps
  <1>2. q \in Queries
    BY <1>1, ReceiveType DEF QueryOps
  <1>3. Job("Fetch", q, SlotOf(q)) \in Jobs
    BY <1>2, JobType, CursorType, TypeFacts DEF QueryOps
  <1>4. CASE \E steps : Become("select", steps)
    BY <1>1, <1>4, AnsweredTicket
  <1>5. CASE Begin(Job("Fetch", q, SlotOf(q)), "reserve", <<>>)
    <2>1. /\ CommandsKept /\ q \in Known /\ out = <<>> /\ Outside /\ ~Executing /\ CursorsKept
      BY <1>1, ReceiveTicket, CursorsUnchanged
    <2> QED BY <1>3, <1>5, <2>1, BeginTicket DEF Job, CursorStages
  <1> QED BY <1>4, <1>5 DEF BeginFetch

LEMMA GrantPageTicket ==
    ASSUME TypeOK, TicketInv, GrantNextPage \/ \E found \in BOOLEAN : GrantSavedPage(found)
    PROVE  TicketInv'
  <1>1. /\ out = <<>> /\ Outside /\ UNCHANGED <<commands, active>> /\ job.op = "Fetch"
    BY DEF GrantNextPage, GrantSavedPage, Ready
  <1>2. ~Executing
    BY <1>1 DEF Executing
  <1>3. CASE \E steps : Become("select", steps)
    BY <1>1, <1>2, <1>3, MoveTicket DEF ExecuteStages, CursorStages
  <1>4. CASE JobLive /\ Become("start", <<>>)
    <2>1. CommandsKept /\ CursorsKept /\ active[job.slot].query = job.query
      BY <1>1, <1>4, CommandsUnchanged, CursorsUnchanged DEF TicketInv, JobLive, OwnsCursor
    <2> QED BY <1>1, <1>2, <1>4, <2>1, BecomeTicket
  <1> QED BY <1>3, <1>4 DEF GrantNextPage, GrantSavedPage

LEMMA RefuseFetchTicket ==
    \A why \in Reasons : \A settled \in BOOLEAN :
        TypeOK /\ TicketInv /\ RefuseFetch(why, settled) => TicketInv'
  <1> SUFFICES ASSUME NEW why \in Reasons, NEW settled \in BOOLEAN, TypeOK, TicketInv,
                      RefuseFetch(why, settled)
               PROVE  TicketInv'
    OBVIOUS
  <1> DEFINE steps == Failure(job.query, why) \o <<Drop(job.query)>>
             s == IF settled THEN "select" ELSE "exit"
  <1>1. out = <<>> /\ Outside /\ UNCHANGED commands /\ job.op = "Fetch" /\ job.slot \in Slots
    BY TypeFacts DEF RefuseFetch, Ready
  <1>2. ~Executing /\ job.query \in Queries
    BY <1>1, TypeFacts DEF Executing, QueryOps
  <1>3. CASE JobLive
    <2>1. Become(s, steps) /\ active' = [active EXCEPT ![job.slot] = NoCursor]
      BY <1>3 DEF RefuseFetch
    <2>2. Settles(steps, job.query)
      BY <1>2, DropSettles, FailureSteps DEF Handles
    <2>3. active[job.slot].query = job.query /\ s \in {"select", "exit", "probe"}
      BY <1>3 DEF JobLive, OwnsCursor
    <2> HIDE DEF steps, s
    <2> QED BY <1>1, <1>2, <2>1, <2>2, <2>3, ClosedByBecome
  <1>4. CASE ~JobLive
    <2>1. UNCHANGED active /\ \E x : Become("select", x)
      BY <1>4 DEF RefuseFetch
    <2> QED BY <1>1, <1>2, <2>1, MoveTicket DEF ExecuteStages, CursorStages
  <1> QED BY <1>3, <1>4

\* A page read from a cursor leaves it the cursor of its query.
LEMMA EditedCursor ==
    ASSUME TypeOK, NEW slot \in Slots, NEW c \in Cursor, active' = [active EXCEPT ![slot] = c],
           c.query = active[slot].query,
           c.completed => active[slot].completed \/ Settles(out', c.query)
    PROVE  CursorsKept
  <1>1. \A s \in Slots : active'[s] = IF s = slot THEN c ELSE active[s]
    BY TypeFacts
  <1> QED BY <1>1 DEF CursorsKept, Slots

\* The job goes on with its cursor, or leaves it.
LEMMA CursorGoesOn ==
    ASSUME TypeOK, TicketInv, out = <<>>, Outside, UNCHANGED commands, CursorsKept,
           job.op # "Execute", NEW s, NEW steps, Become(s, steps),
           s \in CursorStages => active[job.slot].query = job.query
    PROVE  TicketInv'
  <1>1. CommandsKept /\ ~Executing
    BY CommandsUnchanged DEF TicketInv, Executing
  <1> QED BY <1>1, BecomeTicket

LEMMA FetchedTicket == TypeOK /\ TicketInv /\ Fetched => TicketInv'
  <1> SUFFICES ASSUME TypeOK, TicketInv, Fetched PROVE TicketInv'
    OBVIOUS
  <1> DEFINE steps == <<Ev("Page", job.query)>>
                      \o (IF PagesLeft = 0 THEN Complete(job.query) ELSE <<>>)
             c == [active[job.slot] EXCEPT !.left = PagesLeft, !.completed = PagesLeft = 0]
  <1>1. /\ job.op = "Fetch" /\ stage = "work" /\ out = <<>> /\ Outside /\ UNCHANGED commands
        /\ Become("probe", steps)
    BY DEF Fetched, PageStored, Ready
  <1>2. active[job.slot].query = job.query /\ job.query \in Queries
    BY <1>1, TypeFacts DEF TicketInv, OnCursor, CursorStages, QueryOps
  <1>3. active' = [active EXCEPT ![job.slot] = c]
    BY TypeFacts DEF Fetched, Cursor
  <1>4. c \in Cursor /\ c.query = job.query /\ c.completed = (PagesLeft = 0)
    <2>1. active[job.slot] \in Cursor /\ PagesLeft \in 0..MaxPages
      BY TypeFacts, PagesLeftType
    <2> QED BY <1>2, <2>1 DEF Cursor
  <1>5. PagesLeft = 0 => Settles(steps, job.query)
    <2>1. <<Ev("Page", job.query)>> \in Seq(Step) /\ Complete(job.query) \in Seq(Step)
      BY <1>2, TypeFacts, Answers DEF EventTypes
    <2>2. Settles(Complete(job.query), job.query)
      BY <1>2, TypeFacts, CompleteSettles
    <2> QED BY <2>1, <2>2, SettlesLater
  <1>6. CursorsKept
    <2>1. out' = steps
      BY <1>1 DEF Become
    <2> HIDE DEF steps, c
    <2> QED BY <1>2, <1>3, <1>4, <1>5, <2>1, TypeFacts, EditedCursor
  <1> HIDE DEF steps
  <1> QED BY <1>1, <1>6, CursorGoesOn DEF CursorStages

-----------------------------------------------------------------------------
(* Views.                                                                  *)

LEMMA BeginViewTicket == TypeOK /\ TicketInv /\ BeginView => TicketInv'
  <1> SUFFICES ASSUME TypeOK, TicketInv, BeginView PROVE TicketInv'
    OBVIOUS
  <1> DEFINE q == Received
             s == SlotOf(q)
             to == IF OwnsCursor(q, s) /\ Live(s) THEN "start" ELSE "build"
  <1>1. Receive("View") /\ "View" \in (QueryOps \cup SessionOps) \ {"Execute"} /\ UNCHANGED active
    BY DEF BeginView, QueryOps
  <1>2. q \in Queries /\ s \in Slots
    BY <1>1, ReceiveType, CursorType, TypeFacts DEF QueryOps
  <1>3. Job("View", q, s) \in Jobs
    BY <1>2, JobType DEF QueryOps
  <1>4. CASE ViewFails(q)
    BY <1>1, <1>4, AnsweredTicket DEF ViewFails
  <1>5. CASE Begin(Job("View", q, s), to, <<>>)
    <2>1. /\ CommandsKept /\ q \in Known /\ out = <<>> /\ Outside /\ ~Executing /\ CursorsKept
      BY <1>1, ReceiveTicket, CursorsUnchanged
    <2>2. to \in CursorStages => active[s].query = q
      BY DEF CursorStages, OwnsCursor
    <2>3. /\ Job("View", q, s).op = "View" /\ Job("View", q, s).query = q
          /\ Job("View", q, s).slot = s
      BY DEF Job
    <2> HIDE DEF to, s, q
    <2> QED BY <1>3, <1>5, <2>1, <2>2, <2>3, BeginTicket
  <1> QED BY <1>4, <1>5 DEF BeginView

LEMMA ViewPageTicket == TypeOK /\ TicketInv /\ ViewPage => TicketInv'
  <1> SUFFICES ASSUME TypeOK, TicketInv, ViewPage PROVE TicketInv'
    OBVIOUS
  <1> DEFINE c == [active[job.slot] EXCEPT !.left = PagesLeft]
  <1>1. /\ job.op = "View" /\ stage = "work" /\ out = <<>> /\ Outside /\ UNCHANGED commands
        /\ \E steps : Become("scan", steps)
    BY DEF ViewPage, PageStored, Ready
  <1>2. active[job.slot].query = job.query
    BY <1>1 DEF TicketInv, OnCursor, CursorStages
  <1>3. active' = [active EXCEPT ![job.slot] = c]
    BY TypeFacts DEF ViewPage, Cursor
  <1>4. c \in Cursor /\ c.query = active[job.slot].query /\ c.completed = active[job.slot].completed
    <2>1. active[job.slot] \in Cursor /\ PagesLeft \in 0..MaxPages
      BY TypeFacts, PagesLeftType
    <2> QED BY <2>1 DEF Cursor
  <1>5. CursorsKept
    <2> HIDE DEF c
    <2> QED BY <1>3, <1>4, TypeFacts, EditedCursor
  <1> QED BY <1>1, <1>2, <1>5, CursorGoesOn

LEMMA ScanTicket == TypeOK /\ TicketInv /\ Scan => TicketInv'
  <1> SUFFICES ASSUME TypeOK, TicketInv, Scan PROVE TicketInv'
    OBVIOUS
  <1> DEFINE q == job.query
             c == [active[job.slot] EXCEPT !.completed = TRUE]
  <1>1. job.op = "View" /\ stage = "scan" /\ out = <<>> /\ Outside /\ UNCHANGED commands
    BY DEF Scan, Ready, TypeOK
  <1>2. active[job.slot].query = q /\ q \in Queries
    BY <1>1, TypeFacts DEF TicketInv, OnCursor, CursorStages, QueryOps
  <1>3. CASE UNCHANGED active
    <2>1. CursorsKept
      BY <1>3, CursorsUnchanged
    <2>2. \/ \E s, steps : Become(s, steps)
      BY DEF Scan, ViewFails
    <2> QED BY <1>1, <1>2, <2>1, <2>2, CursorGoesOn
  <1>4. CASE active' = [active EXCEPT ![job.slot].completed = TRUE] /\ Become("build", Complete(q))
    <2>1. active' = [active EXCEPT ![job.slot] = c]
      BY <1>4, TypeFacts DEF Cursor
    <2>2. c \in Cursor /\ c.query = q
      <3>1. active[job.slot] \in Cursor
        BY TypeFacts
      <3>2. c \in Cursor /\ c.query = active[job.slot].query
        BY <3>1 DEF Cursor
      <3> QED BY <1>2, <3>2
    <2>3. out' = Complete(q) /\ Settles(Complete(q), q)
      BY <1>2, <1>4, TypeFacts, CompleteSettles DEF Become
    <2>4. CursorsKept
      <3> HIDE DEF c
      <3> QED BY <1>2, <2>1, <2>2, <2>3, TypeFacts, EditedCursor
    <2> QED BY <1>1, <1>2, <1>4, <2>4, CursorGoesOn
  <1> QED BY <1>3, <1>4 DEF Scan

LEMMA BuildTicket == \A built \in BOOLEAN : TypeOK /\ TicketInv /\ Build(built) => TicketInv'
  <1> SUFFICES ASSUME NEW built \in BOOLEAN, TypeOK, TicketInv, Build(built) PROVE TicketInv'
    OBVIOUS
  <1>1. ~Executing /\ out = <<>> /\ Outside /\ UNCHANGED <<commands, active>>
    BY DEF Build, Ready, Executing, ExecuteStages
  <1>2. \E steps : Become("select", steps)
    BY DEF Build, ViewFails
  <1> QED BY <1>1, <1>2, MoveTicket DEF ExecuteStages, CursorStages

LEMMA ClearViewTicket == TypeOK /\ TicketInv /\ ClearView => TicketInv'
  BY AnsweredTicket DEF ClearView, QueryOps

-----------------------------------------------------------------------------
(* The next result.                                                        *)

LEMMA BeginNextResultTicket == TypeOK /\ TicketInv /\ BeginNextResult => TicketInv'
  <1> SUFFICES ASSUME TypeOK, TicketInv, BeginNextResult PROVE TicketInv'
    OBVIOUS
  <1> DEFINE q == Received
             j == Job("NextResult", q, "sql")
             c == [active["sql"] EXCEPT !.timed = @ /\ Live("sql")]
  <1>1. Receive("NextResult") /\ "NextResult" \in (QueryOps \cup SessionOps) \ {"Execute"}
    BY DEF BeginNextResult, QueryOps
  <1>2. q \in Queries /\ j \in Jobs
    BY <1>1, ReceiveType, JobType DEF QueryOps, Slots
  <1>3. CASE Become("select", Failure(q, "Failed")) /\ UNCHANGED active
    BY <1>1, <1>3, AnsweredTicket
  <1>4. CASE Begin(j, "start", <<>>) /\ active' = [active EXCEPT !["sql"].timed = @ /\ Live("sql")]
    <2>1. CommandsKept /\ q \in Known /\ out = <<>> /\ Outside /\ ~Executing
      BY <1>1, ReceiveTicket
    <2>2. active["sql"] \in Cursor /\ (active["sql"].timed /\ Live("sql")) \in BOOLEAN
      BY TypeFacts, CursorType DEF Cursor, Live
    <2>3. /\ c \in Cursor /\ c.query = active["sql"].query
          /\ c.completed = active["sql"].completed
      BY <2>2 DEF Cursor
    <2>4. active' = [active EXCEPT !["sql"] = c]
      BY <1>4
    <2>5. CursorsKept
      <3> HIDE DEF c
      <3> QED BY <2>3, <2>4, EditedCursor DEF Slots
    <2>6. j.op = "NextResult" /\ j.query = q
      BY DEF Job
    <2> HIDE DEF j
    <2> QED BY <1>2, <1>4, <2>1, <2>5, <2>6, BeginTicket
  <1> QED BY <1>3, <1>4 DEF BeginNextResult

LEMMA NextResultTicket ==
    ASSUME TypeOK, TicketInv,
           \/ \E more \in BOOLEAN : NextResultFound(more)
           \/ \E why \in Reasons : RefuseNextResult(why)
    PROVE  TicketInv'
  <1>1. /\ job.op = "NextResult" /\ out = <<>> /\ Outside /\ UNCHANGED <<commands, active>>
        /\ \E s \in {"schema", "probe"} : \E steps : Become(s, steps)
    BY DEF NextResultFound, RefuseNextResult, Ready
  <1>2. CursorsKept
    BY <1>1, CursorsUnchanged
  <1> QED BY <1>1, <1>2, CursorGoesOn DEF CursorStages

LEMMA OpenNextResultTicket ==
    \A pages \in 1..MaxPages : TypeOK /\ TicketInv /\ OpenNextResult(pages) => TicketInv'
  <1> SUFFICES ASSUME NEW pages \in 1..MaxPages, TypeOK, TicketInv, OpenNextResult(pages)
               PROVE  TicketInv'
    OBVIOUS
  <1> DEFINE c == [active["sql"] EXCEPT !.completed = FALSE, !.left = pages]
  <1>1. /\ job.op = "NextResult" /\ out = <<>> /\ Outside /\ UNCHANGED commands
        /\ \E steps : Become("probe", steps)
    BY DEF OpenNextResult, Ready
  <1>2. active["sql"] \in Cursor /\ pages \in 0..MaxPages
    BY TypeFacts, CursorType
  <1>3. active' = [active EXCEPT !["sql"] = c]
    BY <1>2, TypeFacts DEF OpenNextResult, Cursor
  <1>4. c \in Cursor /\ c.query = active["sql"].query /\ ~c.completed
    BY <1>2, CursorEdits DEF Cursor
  <1>5. CursorsKept
    <2> HIDE DEF c
    <2> QED BY <1>3, <1>4, EditedCursor DEF Slots
  <1> QED BY <1>1, <1>5, CursorGoesOn DEF CursorStages

-----------------------------------------------------------------------------
(* The remaining commands.                                                 *)

LEMMA ReleaseTicket == TypeOK /\ TicketInv /\ ReleaseQuery => TicketInv'
  <1> SUFFICES ASSUME TypeOK, TicketInv, ReleaseQuery PROVE TicketInv'
    OBVIOUS
  <1> DEFINE q == Received
             s == SlotOf(q)
             j == Job("Release", q, s)
  <1>1. Receive("Release") /\ "Release" \in (QueryOps \cup SessionOps) \ {"Execute"}
    BY DEF ReleaseQuery, QueryOps
  <1>2. q \in Queries /\ s \in Slots
    BY <1>1, ReceiveType, CursorType, TypeFacts DEF QueryOps
  <1>3. j \in Jobs /\ j.op = "Release" /\ j.query = q
    BY <1>2, JobType DEF QueryOps, Job
  <1>4. CommandsKept /\ q \in Known /\ out = <<>> /\ Outside /\ ~Executing
    BY <1>1, ReceiveTicket
  <1>5. CASE Begin(j, "probe", <<>>) /\ UNCHANGED active
    <2>1. CursorsKept
      BY <1>5, CursorsUnchanged
    <2> HIDE DEF j
    <2> QED BY <1>3, <1>4, <1>5, <2>1, BeginTicket
  <1>6. ASSUME NEW steps \in CloseSteps(active[s]), Begin(j, "probe", steps),
               OwnsCursor(q, s), active' = [active EXCEPT ![s] = NoCursor]
        PROVE  TicketInv'
    <2>1. stage' = "probe" /\ out' = steps /\ job' = j
      BY <1>6 DEF Begin
    <2>2. s = "sql" /\ ~active["sql"].completed =>
              \A r \in Queries : active["sql"].query = r => Settles(out', r)
      BY <1>2, <1>6, <2>1, CloseSettles, TypeFacts
    <2> HIDE DEF j
    <2>3. OnCursor' /\ Replaced' /\ SlotOK'
      BY <1>3, <2>1 DEF OnCursor, Replaced, Executing, SlotOK
    <2> HIDE DEF s
    <2> QED BY <1>2, <1>3, <1>4, <1>6, <2>1, <2>2, <2>3, ClosedTicket
  <1> QED BY <1>5, <1>6 DEF ReleaseQuery

LEMMA BeginSqlModeTicket == TypeOK /\ TicketInv /\ BeginSqlMode => TicketInv'
  <1> SUFFICES ASSUME TypeOK, TicketInv, BeginSqlMode PROVE TicketInv'
    OBVIOUS
  <1> DEFINE q == active["sql"].query
             j == Job("SqlMode", q, "sql")
  <1>1. /\ Receive("SqlMode") /\ "SqlMode" \in (QueryOps \cup SessionOps) \ {"Execute"}
        /\ UNCHANGED active
    BY DEF BeginSqlMode, QueryOps, SessionOps
  <1>2. q \in Handles /\ q \in Known
    BY TypeFacts, CursorType DEF TicketInv, IssuedOnly
  <1>3. j \in Jobs /\ j.op = "SqlMode" /\ j.query = q /\ j.slot = "sql"
    BY <1>2, JobType, CursorType, TypeFacts DEF SessionOps, Job
  <1>4. CommandsKept /\ out = <<>> /\ Outside /\ ~Executing /\ CursorsKept
    BY <1>1, ReceiveTicket, CursorsUnchanged
  <1>5. \E s \in {"inspect", "start"} : Begin(j, s, <<>>)
    BY DEF BeginSqlMode
  <1> HIDE DEF j
  <1> QED BY <1>2, <1>3, <1>4, <1>5, BeginTicket

LEMMA InspectTicket == TypeOK /\ TicketInv /\ BeginInspect => TicketInv'
  <1> SUFFICES ASSUME TypeOK, TicketInv, BeginInspect PROVE TicketInv'
    OBVIOUS
  <1> DEFINE j == Job("Inspect", NoQuery, "sql")
  <1>1. /\ Receive("Inspect") /\ "Inspect" \in (QueryOps \cup SessionOps) \ {"Execute"}
        /\ UNCHANGED active /\ Begin(j, "inspect", <<>>)
    BY DEF BeginInspect, QueryOps, SessionOps
  <1>2. j \in Jobs /\ j.op = "Inspect" /\ j.query = NoQuery /\ NoQuery \in Known
    BY JobType DEF SessionOps, Job, Handles, Slots, Known
  <1>3. CommandsKept /\ out = <<>> /\ Outside /\ ~Executing /\ CursorsKept
    BY <1>1, ReceiveTicket, CursorsUnchanged
  <1> HIDE DEF j
  <1> QED BY <1>1, <1>2, <1>3, BeginTicket

LEMMA LoadTicket ==
    ASSUME TypeOK, TicketInv, \E yes \in BOOLEAN : LoadValue(yes) \/ BeginLoadChunk(yes)
    PROVE  TicketInv'
  <1> DEFINE j == Job("LoadChunk", Received, "sql")
  <1>1. PICK op \in {"LoadValue", "LoadChunk"} :
            Receive(op) /\ op \in (QueryOps \cup SessionOps) \ {"Execute"} /\ UNCHANGED active
    BY DEF LoadValue, BeginLoadChunk, QueryOps
  <1>2. CASE \E steps : Become("select", steps)
    BY <1>1, <1>2, AnsweredTicket
  <1>3. CASE Begin(j, "reserve", <<>>)
    <2>1. op \in QueryOps
      BY <1>1 DEF QueryOps
    <2>2. Received \in Queries
      BY <1>1, <2>1, ReceiveType
    <2>3. j \in Jobs /\ j.op = "LoadChunk" /\ j.query = Received
      BY <2>2, JobType DEF QueryOps, Slots, Job
    <2>4. CommandsKept /\ Received \in Known /\ out = <<>> /\ Outside /\ ~Executing /\ CursorsKept
      BY <1>1, ReceiveTicket, CursorsUnchanged
    <2> HIDE DEF j
    <2> QED BY <1>3, <2>3, <2>4, BeginTicket
  <1> QED BY <1>2, <1>3 DEF LoadValue, BeginLoadChunk

\* What ends a command that holds no ticket.
LEMMA AnswerTicket ==
    ASSUME TypeOK, TicketInv,
           \/ SqlModeRead \/ DropInspect \/ LoadChunk \/ RefuseChunk
           \/ \E answer \in BOOLEAN : Inspected(answer)
    PROVE  TicketInv'
  <1>1. /\ ~Executing /\ out = <<>> /\ Outside /\ UNCHANGED <<commands, active>>
        /\ \E steps : Become("select", steps)
    BY DEF SqlModeRead, DropInspect, LoadChunk, RefuseChunk, Inspected, Ready, Executing, ExecuteStages
  <1> QED BY <1>1, MoveTicket DEF ExecuteStages, CursorStages

-----------------------------------------------------------------------------
(* The end of the actor.                                                   *)

LEMMA ExitTicket == TypeOK /\ TicketInv /\ Exit => TicketInv'
  <1> SUFFICES ASSUME TypeOK, TicketInv, Exit PROVE TicketInv'
    OBVIOUS
  <1> DEFINE sql == active["sql"].query
             object == active["object"].query
             first == IF sql = NoQuery THEN <<>>
                      ELSE <<Fail(sql, "Disconnected")>> \o Failure(sql, "Disconnected")
             second == IF object = NoQuery THEN <<>> ELSE Failure(object, "Disconnected")
             j == [NoJob EXCEPT !.why = "Disconnected"]
  <1>1. /\ stage = "exit" /\ out = <<>> /\ Outside /\ UNCHANGED commands
        /\ active' = [s \in Slots |-> NoCursor] /\ Begin(j, "drain", first \o second)
    BY DEF Exit, Ready
  <1>2. sql \in Handles /\ object \in Handles
    BY TypeFacts, CursorType
  <1>3. first \in Seq(Step) /\ second \in Seq(Step)
    <2>1. Fail(sql, "Disconnected") \in Step
      BY <1>2, FailStep DEF Reasons
    <2>2. Failure(sql, "Disconnected") \in Seq(Step) /\ Failure(object, "Disconnected") \in Seq(Step)
      BY <1>2, FailureSteps DEF Reasons
    <2> QED BY <2>1, <2>2
  <1>4. sql \in Queries => Settles(first \o second, sql)
    <2> SUFFICES ASSUME sql \in Queries PROVE Settles(first \o second, sql)
      OBVIOUS
    <2>1. first = <<Fail(sql, "Disconnected")>> \o Failure(sql, "Disconnected")
      BY QueryAssumption
    <2>2. Settles(first, sql)
      BY <1>2, <2>1, FailSettles, FailureSteps DEF Reasons
    <2> HIDE DEF first, second
    <2> QED BY <1>3, <2>2, SettlesLater
  <1>5. job'.op = "none" /\ job'.query = NoQuery /\ out' = first \o second
    BY <1>1 DEF Begin, NoJob
  <1>6. \A s \in Slots : active'[s].query = NoQuery
    BY <1>1 DEF NoCursor
  <1> HIDE DEF first, second, j
  <1>7. IssuedOnly'
    <2>1. CommandsKept
      BY <1>1, CommandsUnchanged DEF TicketInv
    <2> QED BY <1>1, <1>5, <1>6, <2>1, IssuedStep DEF TicketInv, CommandsKept, Known
  <1>8. Owned'
    <2> SUFFICES ASSUME NEW r \in Queries, history'[r] = "pending" PROVE r \notin Objects /\ Owner(r)'
      BY DEF Owned
    <2>1. r \notin Objects /\ Owner(r) /\ ~Settles(out, r)
      BY <1>1, OutsideKeeps, NothingSettles DEF TicketInv, Owned
    <2>2. ~Executing
      BY <1>1 DEF Executing, ExecuteStages
    <2>3. CASE permit = r \/ Queued(r)
      BY <1>1, <2>1, <2>3, OutsideKeeps DEF Owner, Queued
    <2>4. CASE sql = r
      BY <1>4, <1>5, <2>1, <2>4 DEF Owner
    <2> QED BY <2>1, <2>2, <2>3, <2>4 DEF Owner
  <1>9. Settled'
    BY <1>6 DEF Settled, Slots
  <1>10. OnCursor' /\ Replaced' /\ SlotOK'
    BY <1>5 DEF OnCursor, Replaced, Executing, SlotOK
  <1> QED BY <1>7, <1>8, <1>9, <1>10 DEF TicketInv

\* A statement that leaves the queue unread is settled.
LEMMA DrainTicket == TypeOK /\ TicketInv /\ DrainCommand => TicketInv'
  <1> SUFFICES ASSUME TypeOK, TicketInv, DrainCommand PROVE TicketInv'
    OBVIOUS
  <1> DEFINE q == Received
             rest == IF stage = "refuse" THEN <<>> ELSE Failure(q, "Disconnected")
             steps == IF Head(commands).op # "Execute" THEN <<>>
                      ELSE <<Fail(q, "Disconnected")>> \o rest
  <1>1. /\ stage \in {"refuse", "drain"} /\ out = <<>> /\ Outside /\ UNCHANGED active
        /\ commands \in Seq(Command) /\ commands # <<>> /\ commands' = Tail(commands)
        /\ Become(stage, steps)
    BY DEF DrainCommand, TypeOK
  <1>2. q \in Handles
    BY <1>1, ReceivedType
  <1>3. Head(commands).op = "Execute" => Settles(steps, q)
    <2>1. rest \in Seq(Step)
      BY <1>2, FailureSteps DEF Reasons
    <2> HIDE DEF rest
    <2> QED BY <1>2, <2>1, FailSettles DEF Reasons
  <1>4. stage' = stage /\ job' = job /\ out' = steps /\ ~Executing /\ ~Executing'
    BY <1>1 DEF Become, Executing, ExecuteStages
  <1>5. /\ \A r \in Queries : Queued(r) => Queued(r)' \/ (Head(commands).op = "Execute" /\ r = q)
        /\ \A i \in 1..Len(commands') : commands'[i].query \in Known
    BY <1>1, TailQueued DEF TicketInv, Cmd, Received
  <1> HIDE DEF steps, q
  <1>6. IssuedOnly'
    BY <1>1, <1>4, <1>5, IssuedStep DEF TicketInv, IssuedOnly
  <1>7. Owned'
    <2> SUFFICES ASSUME NEW r \in Queries, history'[r] = "pending" PROVE r \notin Objects /\ Owner(r)'
      BY DEF Owned
    <2>1. r \notin Objects /\ Owner(r) /\ ~Settles(out, r)
      BY <1>1, OutsideKeeps, NothingSettles DEF TicketInv, Owned
    <2>2. CASE permit = r \/ active["sql"].query = r
      BY <1>1, <2>1, <2>2, OutsideKeeps DEF Owner
    <2>3. CASE Queued(r)
      BY <1>3, <1>4, <1>5, <2>1, <2>3 DEF Owner
    <2> QED BY <1>4, <2>1, <2>2, <2>3 DEF Owner
  <1>8. Settled'
    <2> SUFFICES ASSUME active'["sql"].completed, NEW r \in Queries,
                        history'[r] = "pending", active'["sql"].query = r
                 PROVE  FALSE
      BY DEF Settled
    <2> QED BY <1>1, OutsideKeeps, NothingSettles DEF TicketInv, Settled
  <1>9. OnCursor' /\ Replaced' /\ SlotOK'
    BY <1>1, <1>4 DEF TicketInv, OnCursor, Replaced, SlotOK
  <1> QED BY <1>6, <1>7, <1>8, <1>9 DEF TicketInv

LEMMA EndTicket == TypeOK /\ TicketInv /\ (Drained \/ Return) => TicketInv'
  <1> SUFFICES ASSUME TypeOK, TicketInv, Drained \/ Return PROVE TicketInv'
    OBVIOUS
  <1>1. /\ ~Executing /\ out = <<>> /\ Outside /\ UNCHANGED <<commands, active>>
        /\ \E s \in {"final", "stopped"} : \E steps : Become(s, steps)
    BY DEF Drained, Return, Ready, Executing, ExecuteStages
  <1> QED BY <1>1, MoveTicket DEF ExecuteStages, CursorStages

-----------------------------------------------------------------------------
(* All steps together.                                                     *)

LEMMA ReceiveCommandTicket == TypeOK /\ TicketInv /\ ReceiveCommand => TicketInv'
  BY BeginExecuteTicket, BeginNextResultTicket, BeginViewTicket, ClearViewTicket, ReleaseTicket,
     BeginSqlModeTicket, InspectTicket, BeginFetchTicket, LoadTicket DEF ReceiveCommand

LEMMA DrivenTicket == TypeOK /\ TicketInv /\ Driven => TicketInv'
  <1> SUFFICES ASSUME TypeOK, TicketInv, Driven PROVE TicketInv'
    OBVIOUS
  <1>1. ASSUME NEW yes \in BOOLEAN,
               \/ RecordHistory(yes) \/ FreeTicket(yes) \/ Settle(yes) \/ Build(yes)
               \/ Discard(yes)
        PROVE  TicketInv'
    BY <1>1, RecordTicket, FreeTicketTicket, PerformTicket, BuildTicket, DiscardTicket
  <1>2. ASSUME NEW why \in Reasons,
               \/ ObjectStop(why) \/ Preflight(why) \/ Interrupt(why) \/ RefuseExecute(why)
               \/ RefuseNextResult(why)
               \/ \E yes \in BOOLEAN : IdleStop(why, yes) \/ RefuseFetch(why, yes)
        PROVE  TicketInv'
    BY <1>2, ObjectStopTicket, PerformTicket, InterruptTicket, ExecuteTicket, NextResultTicket,
       IdleStopTicket, RefuseFetchTicket
  <1>3. ASSUME SendEvent \/ ConnectOk \/ ConnectEnds \/ ObserveStop \/ ReceiveCommand
               \/ Start \/ DropObjectRead \/ DropInspect \/ DropInquiry \/ SkipProbe \/ RefuseChunk
        PROVE  TicketInv'
    BY <1>3, SendTicket, LoopTicket, ConnectEndsTicket, ReceiveCommandTicket, StartTicket,
       PerformTicket, InquiryTicket, ProbeTicket, AnswerTicket
  <1>4. ASSUME CheckExecute \/ Scan \/ Exit \/ DrainCommand \/ Drained \/ Return
        PROVE  TicketInv'
    BY <1>4, CheckTicket, ScanTicket, ExitTicket, DrainTicket, EndTicket
  <1> QED BY <1>1, <1>2, <1>3, <1>4 DEF Driven

LEMMA AwaitedTicket == TypeOK /\ TicketInv /\ Awaited => TicketInv'
  <1> SUFFICES ASSUME TypeOK, TicketInv, Awaited PROVE TicketInv'
    OBVIOUS
  <1>1. {"Failed", "Disconnected"} \subseteq Reasons
    BY DEF Reasons
  <1>2. ASSUME GrantExecute \/ GrantNextPage \/ Fetched \/ ViewPage \/ SqlModeRead \/ LoadChunk
        PROVE  TicketInv'
    BY <1>2, ExecuteTicket, GrantPageTicket, FetchedTicket, ViewPageTicket, AnswerTicket
  <1>3. ASSUME \E yes \in BOOLEAN : \/ Executed(yes) \/ GrantSavedPage(yes)
                                   \/ NextResultFound(yes) \/ Inspected(yes)
                                   \/ Inquired(yes) \/ Probe(yes)
        PROVE  TicketInv'
    BY <1>3, ExecuteTicket, GrantPageTicket, NextResultTicket, AnswerTicket, InquiryTicket,
       ProbeTicket
  <1>4. ASSUME \/ \E why \in {"Failed", "Disconnected"} : WorkFails(why)
               \/ RefuseNextResult("Failed")
        PROVE  TicketInv'
    BY <1>1, <1>4, PerformTicket, NextResultTicket
  <1>5. ASSUME \E pages \in 1..MaxPages : OpenCursor(pages) \/ OpenNextResult(pages)
        PROVE  TicketInv'
    BY <1>5, OpenCursorTicket, OpenNextResultTicket
  <1> QED BY <1>2, <1>3, <1>4, <1>5 DEF Awaited

LEMMA TicketNext == TypeOK /\ TicketInv /\ [Next]_vars => TicketInv'
  <1> SUFFICES ASSUME TypeOK, TicketInv, [Next]_vars PROVE TicketInv'
    OBVIOUS
  <1>1. CASE UNCHANGED vars
    <2>1. UNCHANGED <<permit, registered, issued, commands, stage, job, out, active, history>>
      BY <1>1 DEF vars, caller, actor, ledger
    <2>2. Owned' /\ Settled'
      BY <2>1 DEF TicketInv, Owned, Owner, Queued, Executing, Settled, Settles
    <2>3. OnCursor' /\ Replaced' /\ IssuedOnly' /\ SlotOK'
      BY <2>1 DEF TicketInv, OnCursor, Replaced, Executing, IssuedOnly, Known, SlotOK
    <2> QED BY <2>2, <2>3 DEF TicketInv
  <1> QED BY <1>1, CallerTicket, DrivenTicket, AwaitedTicket DEF Next

LEMMA TicketInit == Init => TicketInv
  <1> SUFFICES ASSUME Init PROVE TicketInv
    OBVIOUS
  <1>1. /\ permit = NoQuery /\ commands = <<>> /\ registered = {} /\ stage = "connecting"
        /\ job = NoJob /\ active = [s \in Slots |-> NoCursor]
        /\ history = [q \in Queries |-> "none"]
    BY DEF Init
  <1>2. \A s \in Slots : active[s].query = NoQuery
    BY <1>1 DEF NoCursor
  <1>3. job.op = "none" /\ job.query = NoQuery
    BY <1>1 DEF NoJob
  <1>4. Owned /\ Settled
    BY <1>1 DEF Owned, Settled
  <1>5. OnCursor /\ Replaced /\ SlotOK
    BY <1>3 DEF OnCursor, Replaced, Executing, SlotOK
  <1>6. IssuedOnly
    BY <1>1, <1>2, <1>3 DEF IssuedOnly, Known
  <1> QED BY <1>4, <1>5, <1>6 DEF TicketInv

LEMMA TicketOwner == TicketInv => TicketOwned
  <1> SUFFICES ASSUME TicketInv, NEW q \in Queries, history[q] = "pending"
               PROVE  \/ WaitingToRun(q) \/ InDatabase(q)
                      \/ job.op = "Execute" /\ job.query = q /\ stage = "schema"
                      \/ active["sql"].query = q
                      \/ \E i \in 1..Len(out) :
                            out[i].query = q /\ out[i].type \in {"record", "drop"}
    BY DEF TicketOwned
  <1>1. Owner(q)
    BY DEF TicketInv, Owned
  <1>2. CASE Executing /\ job.query = q
    BY <1>2 DEF Executing, ExecuteStages, WaitingToRun, InDatabase
  <1>3. CASE permit = q \/ Queued(q)
    BY <1>3 DEF Queued, WaitingToRun
  <1>4. CASE Settles(out, q)
    BY <1>4 DEF Settles
  <1> QED BY <1>1, <1>2, <1>3, <1>4 DEF Owner

\* Whatever fails, is cancelled, times out, is released or stopped, in whatever order
\* (actor.rs, every early return of the select loop; query_history.rs, Ticket): until
\* the outcome of a statement is written somebody still holds its ticket.
THEOREM NoTicketIsLost == Spec => []TicketOwned
  <1>1. Init => TicketInv
    BY TicketInit
  <1>2. TypeOK /\ TicketInv /\ [Next]_vars => TicketInv'
    BY TicketNext
  <1>3. TicketInv => TicketOwned
    BY TicketOwner
  <1> QED BY <1>1, <1>2, <1>3, TypeCorrect, PTL DEF Spec
=============================================================================
